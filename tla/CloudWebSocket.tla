-------------------------- MODULE CloudWebSocket --------------------------
(***************************************************************************)
(* cloud/websocket.go: the connection to the Shelly Cloud.  One goroutine  *)
(* is in Listen, reconnecting with exponential backoff; others Connect and *)
(* Close the same WebSocket.                                               *)
(*                                                                         *)
(* mu is a variable because Connect holds it while it dials; every other   *)
(* critical section is one step that needs mu free.  stopCh is read with   *)
(* no lock at all, each time anew, and Connect replaces it: channels are   *)
(* numbered by the connection they were made for, 0 being NewWebSocket's.  *)
(*                                                                         *)
(* SendMessage and the handler registration change nothing modelled here;  *)
(* the handlers Dispatch calls are user code.                              *)
(***************************************************************************)
EXTENDS Naturals

CONSTANTS
    Users,          \* goroutines that Connect and Close
    Listener,       \* the goroutine that Listens
    Nobody,         \* holds no lock
    MaxInterval,    \* ws.maxReconnectInterval, in units of ws.reconnectInterval
    MaxConns        \* bound: successful dials in a behaviour

ASSUME CloudNamesAssumption == Listener \notin Users /\ Nobody \notin Users \cup {Listener}
ASSUME CloudBoundsAssumption == MaxInterval \in Nat \ {0} /\ MaxConns \in Nat

Conns == 1..MaxConns
NoConn == 0
MaybeConn == 0..MaxConns

VARIABLES
    mu,             \* who holds ws.mu while dialling
    conn,           \* ws.conn
    connected,      \* ws.connected
    stopCh,         \* ws.stopCh
    stopped,        \* the stop channels that are closed
    link,           \* the far end's view of each connection; "closed" is ours
    dials,          \* successful dials so far
    upc,            \* where each user is
    lpc,            \* where Listen is
    lconn,          \* readLoop's conn
    lstop,          \* the channel attemptConnect's select waits on
    interval,       \* reconnectInterval of Listen
    ctxDone         \* whether Listen's context has ended

wsVars == <<conn, connected, stopCh, stopped, link, dials>>
listenVars == <<lconn, lstop, interval>>
vars == <<mu, wsVars, upc, lpc, listenVars, ctxDone>>

ListenPlaces == {"idle", "check", "test", "connect", "dial", "failed", "backoff",
                 "take", "select", "read", "drop", "recheck"}

Init ==
    /\ mu = Nobody
    /\ conn = NoConn
    /\ connected = FALSE
    /\ stopCh = 0
    /\ stopped = {}
    /\ link = [n \in Conns |-> "new"]
    /\ dials = 0
    /\ upc = [u \in Users |-> "idle"]
    /\ lpc = "idle"
    /\ lconn = NoConn
    /\ lstop = 0
    /\ interval = 1
    /\ ctxDone = FALSE

Free == mu = Nobody

-----------------------------------------------------------------------------
(* Connect, shared by the users and by attemptConnect.                     *)

\* Mutant of MustDial: a second connection over the first.
MustDialAlways == Free

MustDial == Free /\ ~connected

\* Mutant of Dialled: stopCh is not remade.
DialledKeepsStop ==
    /\ mu' = Nobody
    /\ dials' = dials + 1
    /\ conn' = dials + 1
    /\ connected' = TRUE
    /\ link' = [link EXCEPT ![dials + 1] = "up"]
    /\ UNCHANGED <<stopCh, stopped>>

Dialled ==
    /\ mu' = Nobody
    /\ dials' = dials + 1
    /\ conn' = dials + 1
    /\ connected' = TRUE
    /\ stopCh' = dials + 1
    /\ link' = [link EXCEPT ![dials + 1] = "up"]
    /\ UNCHANGED stopped

\* A user whose WebSocket is connected already, or has no token, returns at once.
ConnectBegin(u) ==
    /\ upc[u] = "idle"
    /\ MustDial
    /\ mu' = u
    /\ upc' = [upc EXCEPT ![u] = "dial"]
    /\ UNCHANGED <<wsVars, lpc, listenVars, ctxDone>>

\* Mutant of ConnectEnd: the lock is not released when the dial fails.
ConnectEndLocked(u) ==
    /\ upc[u] = "dial"
    /\ \/ dials < MaxConns /\ Dialled
       \/ UNCHANGED <<mu, wsVars>>
    /\ upc' = [upc EXCEPT ![u] = "idle"]
    /\ UNCHANGED <<lpc, listenVars, ctxDone>>

ConnectEnd(u) ==
    /\ upc[u] = "dial"
    /\ \/ dials < MaxConns /\ Dialled
       \/ mu' = Nobody /\ UNCHANGED wsVars
    /\ upc' = [upc EXCEPT ![u] = "idle"]
    /\ UNCHANGED <<lpc, listenVars, ctxDone>>

\* Close keeps ws.conn, and does nothing unless connected.
Close(u) ==
    /\ upc[u] = "idle"
    /\ Free
    /\ connected
    /\ stopped' = stopped \cup {stopCh}
    /\ link' = [link EXCEPT ![conn] = "closed"]
    /\ connected' = FALSE
    /\ UNCHANGED <<mu, conn, stopCh, dials, upc, lpc, listenVars, ctxDone>>

-----------------------------------------------------------------------------
(* Listen.                                                                 *)

At(place) == lpc = place
Goto(place) == lpc' = place

Listen ==
    /\ At("idle")
    /\ interval' = 1
    /\ ctxDone' = FALSE
    /\ Goto("check")
    /\ UNCHANGED <<mu, wsVars, upc, lconn, lstop>>

\* The application cancels the context it gave Listen.
Cancel ==
    /\ ~At("idle")
    /\ ctxDone' = TRUE
    /\ UNCHANGED <<mu, wsVars, upc, lpc, listenVars>>

\* Mutant of StopRequested: the channel is never looked at.
StopIgnored == FALSE

StopRequested == stopCh \in stopped

\* Both tests of Listen, before it connects and after it lost the connection.
CheckStop ==
    /\ lpc \in {"check", "recheck"}
    /\ Goto(IF ctxDone \/ StopRequested THEN "idle"
            ELSE IF lpc = "check" THEN "test" ELSE "check")
    /\ UNCHANGED <<mu, wsVars, upc, listenVars, ctxDone>>

TestConnected ==
    /\ At("test")
    /\ Free
    /\ Goto(IF connected THEN "take" ELSE "connect")
    /\ UNCHANGED <<mu, wsVars, upc, listenVars, ctxDone>>

\* Somebody connected since IsConnected was asked.
ListenConnectEarly ==
    /\ At("connect")
    /\ Free
    /\ ~MustDial
    /\ interval' = 1
    /\ Goto("take")
    /\ UNCHANGED <<mu, wsVars, upc, lconn, lstop, ctxDone>>

ListenConnect ==
    /\ At("connect")
    /\ MustDial
    /\ mu' = Listener
    /\ Goto("dial")
    /\ UNCHANGED <<wsVars, upc, listenVars, ctxDone>>

ListenDialled ==
    /\ At("dial")
    /\ dials < MaxConns
    /\ Dialled
    /\ interval' = 1
    /\ Goto("take")
    /\ UNCHANGED <<upc, lconn, lstop, ctxDone>>

ListenDialFailed ==
    /\ At("dial")
    /\ mu' = Nobody
    /\ Goto("failed")
    /\ UNCHANGED <<wsVars, upc, listenVars, ctxDone>>

\* The select takes the stop channel of now and waits on that one.
BackoffBegin ==
    /\ At("failed")
    /\ lstop' = stopCh
    /\ Goto("backoff")
    /\ UNCHANGED <<mu, wsVars, upc, lconn, interval, ctxDone>>

\* Mutant of Doubled: no cap.
DoubledUncapped(i) == 2 * i

Doubled(i) == IF 2 * i > MaxInterval THEN MaxInterval ELSE 2 * i

BackoffEnd ==
    /\ At("backoff")
    /\ \/ Goto("check") /\ interval' = Doubled(interval)
       \/ ctxDone /\ Goto("idle") /\ UNCHANGED interval
       \/ lstop \in stopped /\ Goto("take") /\ UNCHANGED interval
    /\ UNCHANGED <<mu, wsVars, upc, lconn, lstop, ctxDone>>

ReadTake ==
    /\ At("take")
    /\ Free
    /\ lconn' = conn
    /\ Goto(IF conn = NoConn THEN "drop" ELSE "select")
    /\ UNCHANGED <<mu, wsVars, upc, lstop, interval, ctxDone>>

\* The select of readLoop takes either case when both are ready.
ReadSelect ==
    /\ At("select")
    /\ \/ ctxDone /\ Goto("drop")
       \/ StopRequested /\ Goto("check")
       \/ ~ctxDone /\ ~StopRequested /\ Goto("read")
    /\ UNCHANGED <<mu, wsVars, upc, listenVars, ctxDone>>

ReadMessage ==
    /\ At("read")
    /\ link[lconn] = "up"
    /\ Goto("select")
    /\ UNCHANGED <<mu, wsVars, upc, listenVars, ctxDone>>

\* A read fails on a dead link, or when nothing came for readTimeout.
ReadError ==
    /\ At("read")
    /\ Goto("drop")
    /\ UNCHANGED <<mu, wsVars, upc, listenVars, ctxDone>>

\* Mutant of HandleDisconnection: connected stays.
DropStaysConnected ==
    /\ At("drop")
    /\ Free
    /\ link' = IF conn = NoConn THEN link ELSE [link EXCEPT ![conn] = "closed"]
    /\ conn' = NoConn
    /\ Goto("recheck")
    /\ UNCHANGED <<mu, connected, stopCh, stopped, dials, upc, listenVars, ctxDone>>

\* Whatever connection is current is dropped, the one that failed or a newer one.
HandleDisconnection ==
    /\ At("drop")
    /\ Free
    /\ connected' = FALSE
    /\ link' = IF conn = NoConn THEN link ELSE [link EXCEPT ![conn] = "closed"]
    /\ conn' = NoConn
    /\ Goto("recheck")
    /\ UNCHANGED <<mu, stopCh, stopped, dials, upc, listenVars, ctxDone>>

\* The far end goes away.
Break(n) ==
    /\ link[n] = "up"
    /\ link' = [link EXCEPT ![n] = "down"]
    /\ UNCHANGED <<mu, conn, connected, stopCh, stopped, dials, upc, lpc, listenVars, ctxDone>>

-----------------------------------------------------------------------------
ListenStep ==
    \/ CheckStop \/ TestConnected \/ ListenConnectEarly \/ ListenConnect
    \/ ListenDialled \/ ListenDialFailed \/ BackoffBegin \/ BackoffEnd
    \/ ReadTake \/ ReadSelect \/ ReadMessage \/ ReadError \/ HandleDisconnection

Next ==
    \/ \E u \in Users : ConnectBegin(u) \/ ConnectEnd(u) \/ Close(u)
    \/ Listen \/ Cancel \/ ListenStep
    \/ \E n \in Conns : Break(n)

Spec == Init /\ [][Next]_vars

\* Listen's goroutine is scheduled and sync.RWMutex does not starve it (a waiting
\* writer stops new readers, waiters are served in turn), so its steps that wait
\* for mu are strongly fair.  Dials end; the cloud, when it is dialled again and
\* again, answers some time.  A read of a broken or closed connection fails, and
\* one on which nothing arrives runs into its deadline.
Fairness ==
    /\ SF_vars(ListenStep)
    /\ SF_vars(ListenDialled)
    /\ \A u \in Users : WF_vars(ConnectEnd(u))

FairSpec == Spec /\ Fairness

-----------------------------------------------------------------------------
TypeOK ==
    /\ mu \in Users \cup {Listener, Nobody}
    /\ conn \in MaybeConn
    /\ connected \in BOOLEAN
    /\ stopCh \in MaybeConn
    /\ stopped \subseteq MaybeConn
    /\ link \in [Conns -> {"new", "up", "down", "closed"}]
    /\ dials \in MaybeConn
    /\ upc \in [Users -> {"idle", "dial"}]
    /\ lpc \in ListenPlaces
    /\ lconn \in MaybeConn
    /\ lstop \in MaybeConn
    /\ interval \in 1..MaxInterval
    /\ ctxDone \in BOOLEAN

\* Close may close stopCh and write through conn without looking at either: as
\* long as connected is set the channel is open and the connection there, however
\* Connect, Close and the listener's handling of a lost connection interleave
\* (websocket.go:195-213 against 154-157 and 295-303).
CloseIsSafe == connected => stopCh \notin stopped /\ conn # NoConn

\* A connection that was dialled and not closed is ws.conn: none is forgotten when
\* Listen and the users connect and disconnect at the same time (websocket.go:133-159,
\* 295-303).
NoLeakedLink == \A n \in Conns : link[n] \in {"up", "down"} => n = conn

\* Connecting, closing and losing connections at once neither panics nor leaks.
CloseSound == CloseIsSafe /\ NoLeakedLink

\* Listen returns when its context ends, wherever it is: waiting for a dial of
\* somebody else, in a backoff, or in a read (websocket.go:225-254).
ListenEnds == ctxDone ~> (lpc = "idle" \/ ~ctxDone)

\* A Close while Listen is reading ends Listen, unless somebody connects again
\* before Listen has noticed (websocket.go:195-213 with 319 and 264).
CloseEndsReading ==
    (lpc \in {"select", "read"} /\ stopCh \in stopped) ~> (lpc = "idle" \/ stopCh \notin stopped)

\* Listen ends when it is told to, by its context or by Close.
ListenStops == ListenEnds /\ CloseEndsReading

\* While Listen runs a lost connection is replaced, for as long as the cloud can
\* be dialled (websocket.go:222-224, 271-292).
Reconnects ==
    (lpc = "read" /\ link[lconn] = "down")
        ~> (lpc = "idle" \/ dials = MaxConns \/ (connected /\ conn # NoConn /\ link[conn] = "up"))

-----------------------------------------------------------------------------
(* What the documents say and the code does not do.                        *)

\* websocket.go:223 "This method blocks until the connection is closed": once a
\* user has closed the connection and no user connects, Listen does not dial.
NoDialAfterClose ==
    [][(lpc = "dial" /\ ~connected /\ connected') => stopCh \notin stopped]_vars
=============================================================================
