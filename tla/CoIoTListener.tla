--------------------------- MODULE CoIoTListener ---------------------------
(***************************************************************************)
(* gen1/coiot.go: the listener for the status datagrams Gen1 devices send  *)
(* to a multicast group.  Start opens a connection and a stop channel and  *)
(* begins a read loop; the loop reads the listener's fields without its    *)
(* mutex, and hands every datagram, still in its one buffer, to a          *)
(* goroutine that parses it and calls the handlers.                        *)
(***************************************************************************)
EXTENDS Naturals, FiniteSets

CONSTANTS
    MaxStarts,          \* bound: successful Starts
    MaxDatagrams,       \* bound: datagrams sent to the group
    MaxHandlers         \* bound: OnStatus calls

VARIABLES
    running,            \* CoIoTListener.running
    session,            \* the Start whose conn and stopCh the fields hold; 0 before any
    stopped,            \* sessions whose conn and stopCh are closed
    loops,              \* loop (numbered by its Start) -> [at, of, buf]
    arrived,            \* datagrams are numbered in the order they are sent
    waiting,            \* session -> datagrams its connection holds
    workers,            \* handleMessage goroutines: [loop, about, reads, at]
    handlers,           \* how many are registered
    calls               \* <<datagram the goroutine was started for, the one handed over>>

coiotVars == <<running, session, stopped, loops, arrived, waiting, workers, handlers, calls>>

\* A loop tests the channel, reads, or has ended; `of' is the session it read from the
\* fields when it tested.  buf holds the datagram last read into it, 0 before any.
Loop == [at : {"test", "read", "ended"}, of : 0..MaxStarts, buf : 0..MaxDatagrams]

CInit ==
    /\ running = FALSE /\ session = 0 /\ stopped = {}
    /\ loops = [l \in {} |-> 0]
    /\ arrived = 0 /\ waiting = [s \in {} |-> {}]
    /\ workers = {} /\ handlers = 0 /\ calls = {}

Live == {l \in DOMAIN loops : loops[l].at # "ended"}

OnStatus ==
    /\ handlers < MaxHandlers
    /\ handlers' = handlers + 1
    /\ UNCHANGED <<running, session, stopped, loops, arrived, waiting, workers, calls>>

Start ==
    /\ ~running                               \* else an error
    /\ session < MaxStarts
    /\ running' = TRUE
    /\ session' = session + 1
    /\ loops' = [l \in DOMAIN loops \cup {session + 1} |->
                    IF l \in DOMAIN loops THEN loops[l]
                    ELSE [at |-> "test", of |-> 0, buf |-> 0]]
    /\ waiting' = [s \in DOMAIN waiting \cup {session + 1} |->
                    IF s \in DOMAIN waiting THEN waiting[s] ELSE {}]
    /\ UNCHANGED <<stopped, arrived, workers, handlers, calls>>

Stop ==
    /\ running
    /\ running' = FALSE
    /\ stopped' = stopped \cup {session}
    /\ waiting' = [waiting EXCEPT ![session] = {}]
    /\ UNCHANGED <<session, loops, arrived, workers, handlers, calls>>

\* The network: every open connection of the group gets the datagram.
Datagram ==
    /\ arrived < MaxDatagrams
    /\ arrived' = arrived + 1
    /\ waiting' = [s \in DOMAIN waiting |->
                    IF s \in stopped THEN waiting[s] ELSE waiting[s] \cup {arrived + 1}]
    /\ UNCHANGED <<running, session, stopped, loops, workers, handlers, calls>>

\* Mutant of TestStop: it does not look at the channel.
NeverTests(l) ==
    /\ loops[l].at = "test"
    /\ loops' = [loops EXCEPT ![l].at = "read", ![l].of = session]
    /\ UNCHANGED <<running, session, stopped, arrived, waiting, workers, handlers, calls>>

\* select on l.stopCh, whichever Start that field belongs to now; then l.conn.
TestStop(l) ==
    /\ loops[l].at = "test"
    /\ loops' = [loops EXCEPT ![l] =
            IF session \in stopped THEN [@ EXCEPT !.at = "ended"]
                                   ELSE [@ EXCEPT !.at = "read", !.of = session]]
    /\ UNCHANGED <<running, session, stopped, arrived, waiting, workers, handlers, calls>>

\* ReadFromUDP returns the oldest datagram, and a goroutine takes it from there.
Read(l) ==
    /\ loops[l].at = "read"
    /\ \E d \in waiting[loops[l].of] :
          /\ \A x \in waiting[loops[l].of] : d <= x
          /\ waiting' = [waiting EXCEPT ![loops[l].of] = @ \ {d}]
          /\ loops' = [loops EXCEPT ![l].at = "test", ![l].buf = d]
          /\ workers' = workers \cup {[loop |-> l, about |-> d, reads |-> 0, at |-> "parse"]}
    /\ UNCHANGED <<running, session, stopped, arrived, handlers, calls>>

\* After a second without one it returns, and at once on a closed connection; either
\* way the loop goes on, unless the channel the field now holds is closed.
ReadFails(l) ==
    /\ loops[l].at = "read"
    /\ \/ loops[l].of \in stopped
       \/ waiting[loops[l].of] = {}
    /\ loops' = [loops EXCEPT ![l].at = "test"]
    /\ UNCHANGED <<running, session, stopped, arrived, waiting, workers, handlers, calls>>

\* A message of which one part was overwritten by a later one.
Torn == MaxDatagrams + 1

\* Mutant of Parse: the loops share one buffer.
ParseAny(w) ==
    /\ w.at = "parse"
    /\ \E l \in DOMAIN loops :
          workers' = (workers \ {w}) \cup {[w EXCEPT !.at = "call", !.reads = loops[l].buf]}
    /\ UNCHANGED <<running, session, stopped, loops, arrived, waiting, handlers, calls>>

\* parseCoAPMessage reads the loop's buffer, as it is by now.  If that is a later
\* datagram, cut to the length of the first, or both in part, it may not parse at all.
Parse(w) ==
    LET now == loops[w.loop].buf
    IN  /\ w.at = "parse"
        /\ \/ \E r \in {now} \cup (IF now = w.about THEN {} ELSE {Torn}) :
                 workers' = (workers \ {w}) \cup {[w EXCEPT !.at = "call", !.reads = r]}
           \/ now # w.about /\ workers' = workers \ {w}
        /\ UNCHANGED <<running, session, stopped, loops, arrived, waiting, handlers, calls>>

Dispatch(w) ==
    /\ w.at = "call"
    /\ workers' = workers \ {w}
    /\ calls' = IF handlers = 0 THEN calls ELSE calls \cup {<<w.about, w.reads>>}
    /\ UNCHANGED <<running, session, stopped, loops, arrived, waiting, handlers>>

CNext ==
    \/ OnStatus \/ Start \/ Stop \/ Datagram
    \/ \E l \in DOMAIN loops : TestStop(l) \/ Read(l) \/ ReadFails(l)
    \/ \E w \in workers : Parse(w) \/ Dispatch(w)

\* A loop that can take a step does: reads have a deadline, and goroutines run.
CFair ==
    /\ \A l \in 1..MaxStarts :
          WF_coiotVars(l \in DOMAIN loops /\ (TestStop(l) \/ Read(l) \/ ReadFails(l)))
    /\ WF_coiotVars(\E w \in workers : Parse(w) \/ Dispatch(w))

CSpec == CInit /\ [][CNext]_coiotVars /\ CFair

-----------------------------------------------------------------------------
CTypeOK ==
    /\ running \in BOOLEAN /\ session \in 0..MaxStarts /\ stopped \subseteq 1..MaxStarts
    /\ DOMAIN loops = 1..session /\ \A l \in DOMAIN loops : loops[l] \in Loop
    /\ running <=> session # 0 /\ session \notin stopped

\* What a handler is given is the datagram its goroutine was started for, or a later
\* one that the same loop read over it, never an earlier one and never nothing; and no
\* loop reads from a connection older than itself.  (coiot.go:189, 218)
NeverOlder ==
    /\ \A c \in calls : c[1] <= c[2]
    /\ \A l \in DOMAIN loops : loops[l].at = "read" => loops[l].of >= l

\* A listener that is stopped comes to rest, unless it is started again: every read loop ends.
\* (coiot.go:200: the read deadline is there for that.)
LoopsEnd == ~running ~> (running \/ Live = {})

\* coiot.go:113: the handlers "will all be called when a status update is received":
\* a call is about the datagram that was received for it.
OwnDatagram == \A c \in calls : c[1] = c[2]
=============================================================================
