----------------------- MODULE CloudWebSocket_proofs -----------------------
(***************************************************************************)
(* Theorems about CloudWebSocket, for any users, any number of connections *)
(* and any backoff limit.                                                  *)
(***************************************************************************)
EXTENDS CloudWebSocket, TLAPS

\* Only the goroutine that holds mu dials, and nobody is connected meanwhile.
Dialling ==
    /\ \A u \in Users : upc[u] = "dial" => mu = u
    /\ lpc = "dial" => mu = Listener
    /\ mu # Nobody => ~connected

\* Channels are numbered by connections that were dialled.
Numbered == dials \in MaybeConn /\ stopCh \in 0..dials /\ stopped \subseteq 0..dials

NoLinkOpen == \A n \in Conns : link[n] \notin {"up", "down"}

CInv ==
    /\ upc \in [Users -> {"idle", "dial"}]
    /\ link \in [Conns -> {"new", "up", "down", "closed"}]
    /\ conn \in MaybeConn
    /\ Dialling
    /\ Numbered
    /\ CloseIsSafe
    /\ NoLeakedLink
    /\ ~connected => NoLinkOpen

LEMMA CInit == Init => CInv
BY CloudBoundsAssumption
DEF Init, CInv, Dialling, Numbered, CloseIsSafe, NoLeakedLink, NoLinkOpen, NoConn, MaybeConn, Conns

\* A successful dial: the new connection has a stop channel of its own and is
\* the only one that is open.
LEMMA DialledSafe ==
    ASSUME CInv, Dialled, dials < MaxConns, ~connected
    PROVE  /\ link' \in [Conns -> {"new", "up", "down", "closed"}]
           /\ conn' \in MaybeConn
           /\ mu' = Nobody /\ connected'
           /\ Numbered' /\ CloseIsSafe' /\ NoLeakedLink'
<1>1. dials \in Nat /\ dials <= MaxConns /\ stopped \subseteq 0..dials /\ MaxConns \in Nat
  BY CloudBoundsAssumption DEF CInv, Numbered, MaybeConn
<1>2. dials + 1 \in Conns /\ dials + 1 \in MaybeConn /\ dials + 1 \notin stopped /\ dials + 1 # 0
  BY <1>1 DEF Conns, MaybeConn
<1>3. link \in [Conns -> {"new", "up", "down", "closed"}] /\ NoLinkOpen
  BY DEF CInv
<1>4. link' = [link EXCEPT ![dials + 1] = "up"] /\ conn' = dials + 1 /\ stopCh' = dials + 1
      /\ mu' = Nobody /\ connected' = TRUE /\ dials' = dials + 1 /\ stopped' = stopped
  BY DEF Dialled
<1>5. NoLeakedLink'
  BY <1>3, <1>4 DEF NoLeakedLink, NoLinkOpen
<1>6. Numbered'
  BY <1>1, <1>2, <1>4 DEF Numbered
<1>7. CloseIsSafe'
  BY <1>2, <1>4 DEF CloseIsSafe, NoConn
<1>8. link' \in [Conns -> {"new", "up", "down", "closed"}]
  BY <1>3, <1>4
<1> QED
  BY <1>2, <1>4, <1>5, <1>6, <1>7, <1>8

LEMMA CNext == CInv /\ [Next]_vars => CInv'
<1> SUFFICES ASSUME CInv, [Next]_vars PROVE CInv'
  OBVIOUS
<1>n. Listener \notin Users /\ Nobody \notin Users \cup {Listener}
  BY CloudNamesAssumption
<1>t. upc \in [Users -> {"idle", "dial"}] /\ link \in [Conns -> {"new", "up", "down", "closed"}]
  BY DEF CInv
<1>s. ASSUME UNCHANGED <<wsVars>>, Dialling', upc' \in [Users -> {"idle", "dial"}] PROVE CInv'
  BY <1>s DEF CInv, wsVars, Numbered, CloseIsSafe, NoLeakedLink, NoLinkOpen
<1>1. ASSUME NEW u \in Users, ConnectBegin(u) PROVE CInv'
  <2>1. UNCHANGED wsVars /\ mu = Nobody /\ mu' = u /\ ~connected /\ lpc' = lpc
        /\ upc' = [upc EXCEPT ![u] = "dial"]
    BY <1>1 DEF ConnectBegin, MustDial, Free
  <2>2. Dialling'
    BY <1>n, <1>t, <2>1 DEF CInv, Dialling, wsVars
  <2> QED
    BY <1>s, <1>t, <2>1, <2>2
<1>2. ASSUME NEW u \in Users, ConnectEnd(u) PROVE CInv'
  <2>1. upc[u] = "dial" /\ upc' = [upc EXCEPT ![u] = "idle"] /\ lpc' = lpc
    BY <1>2 DEF ConnectEnd
  <2>2. mu = u /\ mu # Nobody /\ ~connected
    BY <1>n, <2>1 DEF CInv, Dialling
  <2>3. (\A v \in Users : upc'[v] # "dial") /\ lpc' # "dial"
    BY <1>n, <1>t, <2>1, <2>2 DEF CInv, Dialling
  <2>4. CASE dials < MaxConns /\ Dialled
    <3>1. Dialling'
      BY <2>3, <2>4, <2>2, DialledSafe DEF Dialling
    <3> QED
      BY <1>t, <2>1, <2>2, <2>4, <3>1, DialledSafe DEF CInv
  <2>5. CASE mu' = Nobody /\ UNCHANGED wsVars
    BY <1>s, <1>t, <2>1, <2>3, <2>5 DEF Dialling
  <2> QED
    BY <1>2, <2>4, <2>5 DEF ConnectEnd
<1>3. ASSUME NEW u \in Users, Close(u) PROVE CInv'
  <2>1. /\ connected /\ mu = Nobody /\ stopped' = stopped \cup {stopCh}
        /\ link' = [link EXCEPT ![conn] = "closed"] /\ connected' = FALSE
        /\ UNCHANGED <<mu, conn, stopCh, dials, upc, lpc>>
    BY <1>3 DEF Close, Free
  <2>2. \A n \in Conns : link'[n] \notin {"up", "down"}
    BY <1>t, <2>1 DEF CInv, NoLeakedLink
  <2>3. link' \in [Conns -> {"new", "up", "down", "closed"}]
    BY <1>t, <2>1
  <2>4. Numbered' /\ Dialling'
    BY <2>1 DEF CInv, Numbered, Dialling
  <2> QED
    BY <1>t, <2>1, <2>2, <2>3, <2>4 DEF CInv, CloseIsSafe, NoLeakedLink, NoLinkOpen
<1>4. CASE ListenConnect
  <2>1. UNCHANGED wsVars /\ mu = Nobody /\ mu' = Listener /\ ~connected /\ upc' = upc
    BY <1>4 DEF ListenConnect, MustDial, Free
  <2>2. Dialling'
    BY <1>n, <2>1 DEF CInv, Dialling, wsVars
  <2> QED
    BY <1>s, <1>t, <2>1, <2>2
<1>5. ASSUME ListenDialled \/ ListenDialFailed PROVE CInv'
  <2>1. lpc = "dial" /\ lpc' # "dial" /\ upc' = upc
    BY <1>5 DEF ListenDialled, ListenDialFailed, At, Goto
  <2>2. mu = Listener /\ mu # Nobody /\ ~connected /\ \A v \in Users : upc'[v] # "dial"
    BY <1>n, <2>1 DEF CInv, Dialling
  <2>3. CASE ListenDialled
    <3>1. dials < MaxConns /\ Dialled
      BY <2>3 DEF ListenDialled
    <3>2. Dialling'
      BY <2>1, <2>2, <3>1, DialledSafe DEF Dialling
    <3> QED
      BY <1>t, <2>1, <2>2, <3>1, <3>2, DialledSafe DEF CInv
  <2>4. CASE ListenDialFailed
    BY <1>s, <1>t, <2>1, <2>2, <2>4 DEF ListenDialFailed, Dialling
  <2> QED
    BY <1>5, <2>3, <2>4
<1>6. CASE HandleDisconnection
  <2>1. /\ mu = Nobody /\ connected' = FALSE /\ conn' = NoConn /\ lpc' = "recheck"
        /\ link' = IF conn = NoConn THEN link ELSE [link EXCEPT ![conn] = "closed"]
        /\ UNCHANGED <<mu, stopCh, stopped, dials, upc>>
    BY <1>6 DEF HandleDisconnection, Free, Goto
  <2>2. NoConn \notin Conns /\ NoConn \in MaybeConn
    BY CloudBoundsAssumption DEF NoConn, Conns, MaybeConn
  <2>3. \A n \in Conns : link'[n] \notin {"up", "down"}
    BY <1>t, <2>1, <2>2 DEF CInv, NoLeakedLink
  <2>4. link' \in [Conns -> {"new", "up", "down", "closed"}]
    BY <1>t, <2>1
  <2>5. Numbered' /\ Dialling'
    BY <2>1 DEF CInv, Numbered, Dialling
  <2> QED
    BY <1>t, <2>1, <2>2, <2>3, <2>4, <2>5 DEF CInv, CloseIsSafe, NoLeakedLink, NoLinkOpen
<1>7. ASSUME NEW n \in Conns, Break(n) PROVE CInv'
  <2>1. link[n] = "up" /\ link' = [link EXCEPT ![n] = "down"]
        /\ UNCHANGED <<mu, conn, connected, stopCh, stopped, dials, upc, lpc>>
    BY <1>7 DEF Break
  <2>2. connected /\ n = conn
    BY <2>1 DEF CInv, NoLinkOpen, NoLeakedLink
  <2>3. NoLeakedLink' /\ link' \in [Conns -> {"new", "up", "down", "closed"}]
    BY <1>t, <2>1, <2>2 DEF CInv, NoLeakedLink
  <2> QED
    BY <1>t, <2>1, <2>2, <2>3 DEF CInv, Numbered, Dialling, CloseIsSafe
<1>8. ASSUME UNCHANGED <<mu, wsVars, upc>>, lpc' # "dial" \/ lpc' = lpc PROVE CInv'
  BY <1>s, <1>t, <1>8 DEF CInv, Dialling, wsVars
<1>9. CASE Listen \/ Cancel \/ CheckStop \/ TestConnected \/ ListenConnectEarly
  BY <1>8, <1>9 DEF Listen, Cancel, CheckStop, TestConnected, ListenConnectEarly, At, Goto
<1>10. CASE BackoffBegin \/ BackoffEnd \/ ReadTake \/ ReadSelect \/ ReadMessage \/ ReadError
  BY <1>8, <1>10 DEF BackoffBegin, BackoffEnd, ReadTake, ReadSelect, ReadMessage, ReadError, At, Goto
<1>11. CASE UNCHANGED vars
  BY <1>8, <1>11 DEF vars
<1> QED
  BY <1>1, <1>2, <1>3, <1>4, <1>5, <1>6, <1>7, <1>9, <1>10, <1>11 DEF Next, ListenStep

\* However Connect, Close and the listener interleave, Close never closes a
\* channel twice or writes through a nil connection, and a connection that was
\* dialled is ws.conn until it is closed (websocket.go:133-213, 295-303).
THEOREM CloseNeverPanics == Spec => []CloseSound
<1>1. CInv => CloseSound
  BY DEF CInv, CloseSound
<1> QED
  BY <1>1, CInit, CNext, PTL DEF Spec
=============================================================================
