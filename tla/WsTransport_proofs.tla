------------------------ MODULE WsTransport_proofs ------------------------
(***************************************************************************)
(* Theorems about WsTransport, for any number of callers, id sources,      *)
(* retries, connections and calls, and every setting of the options.       *)
(***************************************************************************)
EXTENDS WsTransport, TLAPS

\* An attempt counted against MaxRetries was begun below it.
AttemptsLeft ==
    \A n \in Conns : xpc[n] \in {"tell", "connect", "dial"} => attempt[n] < MaxRetries

\* Past Connect a caller has a request in hand.
CallInHand ==
    \A c \in Callers :
        cpc[c] \in {"register", "write", "wait", "cleanup"} => call[c] \in Call

\* A read loop that reads holds a connection.
ReadsConn == \A n \in Conns : rpc[n] = "read" => rconn[n] \in Conns

Placed == AttemptsLeft /\ CallInHand /\ ReadsConn

LEMMA TypeInit == Init => TypeOK /\ Placed
<1> SUFFICES ASSUME Init PROVE TypeOK /\ Placed
  OBVIOUS
<1> USE BoundsAssumption DEF Init, NoConn
<1>1. /\ closed \in BOOLEAN /\ state \in States /\ kpc \in ClosePlaces
      /\ panic \in {"none", "nil connection", "nil response", "close of closed channel"}
  BY DEF States, ClosePlaces
<1>2. /\ conn \in MaybeConn /\ stopPing \in MaybeConn /\ pinged \subseteq MaybeConn
      /\ connMu \in {Nobody} \cup Callers \cup Conns
      /\ dials \in Nat
      /\ lastID \in [Sources -> Nat]
  BY DEF MaybeConn
<1>3. /\ pending \in [Id -> Callers \cup {Nobody}]
      /\ call \in [Callers -> Call \cup {NoCall}]
      /\ chan \in [Callers -> Call \cup {Empty, ClosedChan}]
      /\ link \in [Conns -> {"new", "up", "down"}]
  OBVIOUS
<1>4. asked \in [Conns -> SUBSET Call] /\ inbox \in [Conns -> SUBSET Call]
  OBVIOUS
<1>5. cpc \in [Callers -> CallPlaces] /\ rpc \in [Conns -> ReadPlaces]
  BY DEF CallPlaces, ReadPlaces
<1>6. ppc \in [Conns -> PingPlaces] /\ xpc \in [Conns -> ReconPlaces]
  BY DEF PingPlaces, ReconPlaces
<1>7. /\ rconn \in [Conns -> MaybeConn] /\ pwatch \in [Conns -> MaybeConn]
      /\ attempt \in [Conns -> Nat] /\ \A n \in Conns : attempt[n] <= MaxRetries
  BY DEF MaybeConn
<1>8. Placed
  BY DEF Placed, AttemptsLeft, CallInHand, ReadsConn
<1> QED
  BY <1>1, <1>2, <1>3, <1>4, <1>5, <1>6, <1>7, <1>8 DEF TypeOK

LEMMA AttemptsNext == TypeOK /\ AttemptsLeft /\ [Next]_vars => AttemptsLeft'
<1> SUFFICES ASSUME TypeOK, AttemptsLeft, [Next]_vars PROVE AttemptsLeft'
  OBVIOUS
<1> USE DEF AttemptsLeft, reconVars
<1>1. /\ xpc \in [Conns -> ReconPlaces] /\ attempt \in [Conns -> Nat] /\ MaxRetries \in Nat
      /\ \A n \in Conns : attempt[n] <= MaxRetries
  BY BoundsAssumption DEF TypeOK
<1>2. ASSUME UNCHANGED <<xpc, attempt>> PROVE AttemptsLeft'
  BY <1>2
<1>3. ASSUME NEW n \in Conns, ReconStep(n) PROVE AttemptsLeft'
  BY <1>1, <1>3 DEF ReconStep, ReconCheck, ReconTell, ReconConnect, ReconConnectEarly, ReconDial
<1>4. ASSUME NEW n \in Conns, TellDisconnected(n) PROVE AttemptsLeft'
  BY <1>1, <1>4 DEF TellDisconnected
<1>5. ASSUME NEW c \in Callers, CallStep(c) \/ ConnectBegin(c) \/ \E s \in Sources : CallBegin(c, s)
      PROVE UNCHANGED <<xpc, attempt>>
  BY <1>5 DEF CallStep, ConnectBegin, CallBegin, CallConnect, CallConnectEarly, CallDial,
      Register, Write, WriteNilConn, Receive, ContextDone, Cleanup
<1>6. ASSUME NEW n \in Conns,
             \/ ReadStep(n) \/ PingStep(n) \/ Break(n) \/ \E m \in asked[n] : Answer(n, m)
             \/ DropConn(n) \/ CheckPing(n) \/ ClosePing(n) \/ CancelPending(n)
      PROVE UNCHANGED <<xpc, attempt>>
  BY <1>6 DEF ReadStep, PingStep, Break, Answer, DropConn, CheckPing, ClosePing, CancelPending,
      ReadTop, Answered, ReadError, PingSelect, PingStop, PingTick
<1>7. ASSUME CloseBegin \/ CloseStep PROVE UNCHANGED <<xpc, attempt>>
  BY <1>7 DEF CloseBegin, CloseStep, CloseCheckPing, CloseClosePing, CloseDrop, CloseTell
<1>8. ASSUME UNCHANGED vars PROVE UNCHANGED <<xpc, attempt>>
  BY <1>8 DEF vars
<1> QED
  BY <1>2, <1>3, <1>4, <1>5, <1>6, <1>7, <1>8 DEF Next, DisconnectStep

\* The two outcomes of a dial keep the types of everything they touch.
LEMMA DialType ==
    ASSUME TypeOK, Established \/ DialFailed
    PROVE  /\ conn' \in MaybeConn /\ stopPing' \in MaybeConn /\ pinged' \subseteq MaybeConn
           /\ dials' \in Nat /\ connMu' = Nobody /\ state' \in States
           /\ link' \in [Conns -> {"new", "up", "down"}]
           /\ rpc' \in [Conns -> ReadPlaces] /\ ppc' \in [Conns -> PingPlaces]
           /\ rconn' \in [Conns -> MaybeConn] /\ pwatch' \in [Conns -> MaybeConn]
           /\ UNCHANGED <<closed, pending, lastID, asked, inbox, kpc, panic>>
<1>0. dials \in Nat /\ MaxConns \in Nat /\ pinged \subseteq MaybeConn
  BY BoundsAssumption DEF TypeOK
<1>r. rpc \in [Conns -> ReadPlaces] /\ rconn \in [Conns -> MaybeConn]
  BY DEF TypeOK
<1>p. ppc \in [Conns -> PingPlaces] /\ pwatch \in [Conns -> MaybeConn]
  BY DEF TypeOK
<1>l. link \in [Conns -> {"new", "up", "down"}]
  BY DEF TypeOK
<1>1. CASE Established
  <2>0. dials < MaxConns
    BY <1>1 DEF Established
  <2>e. dials + 1 \in Conns /\ dials + 1 \in MaybeConn
    BY <1>0, <2>0 DEF Conns, MaybeConn
  <2>1. /\ dials' \in Nat /\ dials' = dials + 1 /\ dials + 1 \in Conns
        /\ conn' \in MaybeConn /\ stopPing' \in MaybeConn /\ pinged' \subseteq MaybeConn
    BY <1>0, <1>1, <2>e DEF Established
  <2>2. rpc' \in [Conns -> ReadPlaces] /\ link' \in [Conns -> {"new", "up", "down"}]
    BY <1>1, <1>r, <1>l, <2>1 DEF Established, ReadPlaces
  <2>3. ppc' \in [Conns -> PingPlaces]
    BY <1>1, <1>p, <2>1 DEF Established, PingPlaces
  <2>4. rconn' \in [Conns -> MaybeConn] /\ pwatch' \in [Conns -> MaybeConn]
    BY <1>1, <1>r, <1>p DEF Established
  <2>5. state' \in States
    BY <1>1 DEF Established, States
  <2> QED
    BY <1>1, <2>1, <2>2, <2>3, <2>4, <2>5 DEF Established
<1>2. CASE DialFailed
  <2>1. state' \in States
    BY <1>2 DEF DialFailed, States
  <2> QED
    BY <1>2, <2>1 DEF TypeOK, DialFailed, wireVars, readVars, pingVars
<1> QED
  BY <1>1, <1>2

LEMMA CallInHandNext == TypeOK /\ CallInHand /\ [Next]_vars => CallInHand'
<1> SUFFICES ASSUME TypeOK, CallInHand, [Next]_vars PROVE CallInHand'
  OBVIOUS
<1> USE DEF CallInHand
<1>1. /\ cpc \in [Callers -> CallPlaces] /\ call \in [Callers -> Call \cup {NoCall}]
      /\ lastID \in [Sources -> Nat] /\ MaxCalls \in Nat
  BY BoundsAssumption DEF TypeOK
<1>2. ASSUME UNCHANGED <<cpc, call>> PROVE CallInHand'
  BY <1>2
<1>3. ASSUME NEW c \in Callers, NEW s \in Sources, CallBegin(c, s) PROVE CallInHand'
  <2>1. lastID[s] + 1 \in Id
    BY <1>1, <1>3 DEF CallBegin, Id
  <2>2. [source |-> s, id |-> lastID[s] + 1] \in Call
    BY <2>1 DEF Call
  <2> QED
    BY <1>1, <1>3, <2>2 DEF CallBegin
<1>4. ASSUME NEW c \in Callers, CallStep(c) \/ ConnectBegin(c) PROVE CallInHand'
  BY <1>1, <1>4 DEF CallStep, ConnectBegin, CallConnect, CallConnectEarly, CallDial, AfterConnect,
      Register, Write, WriteNilConn, Receive, ContextDone, Cleanup, callVars
<1>5. ASSUME NEW n \in Conns,
             \/ ReadStep(n) \/ PingStep(n) \/ Break(n) \/ \E m \in asked[n] : Answer(n, m)
             \/ DisconnectStep(n) \/ ReconStep(n)
      PROVE UNCHANGED <<cpc, call>>
  BY <1>5 DEF ReadStep, PingStep, DisconnectStep, ReconStep, Break, Answer, DropConn, CheckPing,
      ClosePing, CancelPending, TellDisconnected, ReadTop, Answered, ReadError, PingSelect,
      PingStop, PingTick, ReconCheck, ReconTell, ReconConnect, ReconConnectEarly, ReconDial,
      callVars
<1>6. ASSUME CloseBegin \/ CloseStep PROVE UNCHANGED <<cpc, call>>
  BY <1>6 DEF CloseBegin, CloseStep, CloseCheckPing, CloseClosePing, CloseDrop, CloseTell, callVars
<1>7. ASSUME UNCHANGED vars PROVE UNCHANGED <<cpc, call>>
  BY <1>7 DEF vars
<1> QED
  BY <1>2, <1>3, <1>4, <1>5, <1>6, <1>7 DEF Next

LEMMA ReadsConnNext == TypeOK /\ ReadsConn /\ [Next]_vars => ReadsConn'
<1> SUFFICES ASSUME TypeOK, ReadsConn, [Next]_vars PROVE ReadsConn'
  OBVIOUS
<1> USE DEF ReadsConn
<1>1. /\ rpc \in [Conns -> ReadPlaces] /\ rconn \in [Conns -> MaybeConn]
      /\ (conn # NoConn => conn \in Conns)
  BY DEF TypeOK, MaybeConn
<1>2. ASSUME UNCHANGED <<rpc, rconn>> PROVE ReadsConn'
  BY <1>2
<1>3. ASSUME Established PROVE ReadsConn'
  BY <1>1, <1>3 DEF Established
<1>4. ASSUME NEW n \in Conns, ReadStep(n) \/ DisconnectStep(n) PROVE ReadsConn'
  BY <1>1, <1>4 DEF ReadStep, DisconnectStep, ReadTop, Answered, ReadError, DropConn, CheckPing,
      ClosePing, CancelPending, TellDisconnected, connVars
<1>5. ASSUME NEW n \in Conns,
             \/ PingStep(n) \/ Break(n) \/ \E m \in asked[n] : Answer(n, m)
             \/ ReconStep(n) /\ ~Established
      PROVE UNCHANGED <<rpc, rconn>>
  BY <1>5 DEF PingStep, ReconStep, Break, Answer, PingSelect, PingStop, PingTick, ReconCheck,
      ReconTell, ReconConnect, ReconConnectEarly, ReconDial, DialFailed, StartDial, readVars,
      connVars
<1>6. ASSUME NEW c \in Callers,
             \/ CallStep(c) /\ ~Established
             \/ ConnectBegin(c) \/ \E s \in Sources : CallBegin(c, s)
      PROVE UNCHANGED <<rpc, rconn>>
  BY <1>6 DEF CallStep, ConnectBegin, CallBegin, CallConnect, CallConnectEarly, CallDial,
      Register, Write, WriteNilConn, Receive, ContextDone, Cleanup, DialFailed, StartDial,
      readVars, connVars
<1>7. ASSUME CloseBegin \/ CloseStep PROVE UNCHANGED <<rpc, rconn>>
  BY <1>7 DEF CloseBegin, CloseStep, CloseCheckPing, CloseClosePing, CloseDrop, CloseTell,
      readVars, connVars
<1>8. ASSUME UNCHANGED vars PROVE UNCHANGED <<rpc, rconn>>
  BY <1>8 DEF vars
<1> QED
  BY <1>2, <1>3, <1>4, <1>5, <1>6, <1>7, <1>8 DEF Next

LEMMA TypeNext == TypeOK /\ Placed /\ [Next]_vars => TypeOK'
<1> SUFFICES ASSUME TypeOK, Placed, [Next]_vars PROVE TypeOK'
  OBVIOUS
<1>0. (conn # NoConn => conn \in Conns) /\ NoConn \in MaybeConn
  BY DEF TypeOK, MaybeConn
<1>c. /\ cpc \in [Callers -> CallPlaces]
      /\ call \in [Callers -> Call \cup {NoCall}]
      /\ chan \in [Callers -> Call \cup {Empty, ClosedChan}]
      /\ pending \in [Id -> Callers \cup {Nobody}]
      /\ lastID \in [Sources -> Nat]
  BY DEF TypeOK
<1>r. rpc \in [Conns -> ReadPlaces] /\ rconn \in [Conns -> MaybeConn]
  BY DEF TypeOK
<1>p. ppc \in [Conns -> PingPlaces] /\ pwatch \in [Conns -> MaybeConn]
  BY DEF TypeOK
<1>x. /\ xpc \in [Conns -> ReconPlaces] /\ attempt \in [Conns -> Nat]
      /\ \A m \in Conns : attempt[m] <= MaxRetries
      /\ MaxRetries \in Nat
  BY BoundsAssumption DEF TypeOK
<1>l. link \in [Conns -> {"new", "up", "down"}]
  BY DEF TypeOK
<1>w. asked \in [Conns -> SUBSET Call] /\ inbox \in [Conns -> SUBSET Call]
  BY DEF TypeOK
<1>s. /\ stopPing \in MaybeConn /\ pinged \subseteq MaybeConn
      /\ connMu \in {Nobody} \cup Callers \cup Conns
  BY DEF TypeOK
<1>k. /\ closed \in BOOLEAN /\ state \in States /\ kpc \in ClosePlaces
      /\ panic \in {"none", "nil connection", "nil response", "close of closed channel"}
  BY DEF TypeOK
<1> USE DEF connVars, wireVars, callVars, readVars, pingVars, reconVars
<1>1. ASSUME NEW c \in Callers, NEW s \in Sources, CallBegin(c, s) PROVE TypeOK'
  <2>1. cpc' \in [Callers -> CallPlaces]
    BY <1>1, <1>c DEF CallBegin, CallPlaces
  <2>2. lastID[s] \in Nat /\ lastID[s] + 1 \in Id
    BY <1>1, <1>c, BoundsAssumption, <2>1 DEF CallBegin, Id
  <2>3. lastID' \in [Sources -> Nat]
    BY <1>1, <1>c, BoundsAssumption, <2>1, <2>2 DEF CallBegin
  <2>4. [source |-> s, id |-> lastID[s] + 1] \in Call
    BY <1>1, <1>c, BoundsAssumption, <2>1, <2>2, <2>3 DEF CallBegin, Call, Id
  <2>5. call' \in [Callers -> Call \cup {NoCall}]
    BY <1>1, <1>c, <2>1, <2>2, <2>3, <2>4 DEF CallBegin
  <2> QED
    BY <1>1, <2>1, <2>2, <2>3, <2>4, <2>5 DEF TypeOK, CallBegin
<1>2. ASSUME NEW c \in Callers, ConnectBegin(c) PROVE TypeOK'
  <2>1. cpc' \in [Callers -> CallPlaces]
    BY <1>2, <1>c DEF ConnectBegin, CallPlaces
  <2> QED
    BY <1>2, <2>1 DEF TypeOK, ConnectBegin
<1>3. ASSUME NEW c \in Callers, CallConnect(c) PROVE TypeOK'
  <2>1. cpc' \in [Callers -> CallPlaces]
    BY <1>3, <1>c DEF CallConnect, StartDial, CallPlaces
  <2>2. state' \in States
    BY <1>3, <1>k DEF CallConnect, StartDial, States
  <2>3. connMu' \in {Nobody} \cup Callers \cup Conns
    BY <1>3, <1>s DEF CallConnect, StartDial
  <2> QED
    BY <1>3, <2>1, <2>2, <2>3 DEF TypeOK, CallConnect, StartDial
<1>4. ASSUME NEW c \in Callers, CallConnectEarly(c) PROVE TypeOK'
  <2>1. cpc' \in [Callers -> CallPlaces]
    BY <1>4, <1>c DEF CallConnectEarly, AfterConnect, CallPlaces
  <2>2. call' \in [Callers -> Call \cup {NoCall}]
    BY <1>4, <1>c, <2>1 DEF CallConnectEarly, AfterConnect
  <2> QED
    BY <1>4, <2>1, <2>2 DEF TypeOK, CallConnectEarly, AfterConnect
<1>5. ASSUME NEW c \in Callers, CallDial(c) PROVE TypeOK'
  <2>1. cpc' \in [Callers -> CallPlaces]
    BY <1>5, <1>c DEF CallDial, AfterConnect, CallPlaces
  <2>2. call' \in [Callers -> Call \cup {NoCall}]
    BY <1>5, <1>c, <2>1 DEF CallDial, AfterConnect
  <2>3. Established \/ DialFailed
    BY <1>5 DEF CallDial, AfterConnect
  <2> QED
    BY <1>5, <2>1, <2>2, <2>3, DialType DEF TypeOK, CallDial, AfterConnect
<1>6. ASSUME NEW c \in Callers, Register(c) PROVE TypeOK'
  <2>1. cpc' \in [Callers -> CallPlaces]
    BY <1>6, <1>c DEF Register, CallPlaces
  <2>2. chan' \in [Callers -> Call \cup {Empty, ClosedChan}]
    BY <1>6, <1>c, <2>1 DEF Register
  <2>3. pending' \in [Id -> Callers \cup {Nobody}]
    BY <1>6, <1>c DEF Register
  <2> QED
    BY <1>6, <2>1, <2>2, <2>3 DEF TypeOK, Register
<1>7. ASSUME NEW c \in Callers, Write(c) PROVE TypeOK'
  <2>1. call[c] \in Call
    BY <1>7, <1>c DEF Write, Placed, CallInHand
  <2>2. cpc' \in [Callers -> CallPlaces]
    BY <1>7, <1>c DEF Write, CallPlaces
  <2>3. asked' \in [Conns -> SUBSET Call]
    BY <1>7, <1>w, <1>0, <2>1, <2>2 DEF Write
  <2> QED
    BY <1>7, <2>1, <2>2, <2>3 DEF TypeOK, Write
<1>8. ASSUME NEW c \in Callers, WriteNilConn(c) PROVE TypeOK'
  <2>1. panic' \in {"none", "nil connection", "nil response", "close of closed channel"}
    BY <1>8, <1>c, <1>k DEF WriteNilConn
  <2> QED
    BY <1>8, <2>1 DEF TypeOK, WriteNilConn
<1>9. ASSUME NEW c \in Callers, Receive(c) PROVE TypeOK'
  <2>1. cpc' \in [Callers -> CallPlaces]
    BY <1>9, <1>c DEF Receive, CallPlaces
  <2>2. chan' \in [Callers -> Call \cup {Empty, ClosedChan}]
    BY <1>9, <1>c, <2>1 DEF Receive
  <2>3. panic' \in {"none", "nil connection", "nil response", "close of closed channel"}
    BY <1>9, <1>c, <1>k DEF Receive
  <2> QED
    BY <1>9, <2>1, <2>2, <2>3 DEF TypeOK, Receive
<1>10. ASSUME NEW c \in Callers, ContextDone(c) PROVE TypeOK'
  <2>1. cpc' \in [Callers -> CallPlaces]
    BY <1>10, <1>c DEF ContextDone, CallPlaces
  <2> QED
    BY <1>10, <2>1 DEF TypeOK, ContextDone
<1>11. ASSUME NEW c \in Callers, Cleanup(c) PROVE TypeOK'
  <2>1. cpc' \in [Callers -> CallPlaces]
    BY <1>11, <1>c DEF Cleanup, CallPlaces
  <2>2. chan' \in [Callers -> Call \cup {Empty, ClosedChan}]
    BY <1>11, <1>c, <2>1 DEF Cleanup
  <2>3. call' \in [Callers -> Call \cup {NoCall}]
    BY <1>11, <1>c, <2>1, <2>2 DEF Cleanup
  <2>4. pending' \in [Id -> Callers \cup {Nobody}]
    BY <1>11, <1>c DEF Cleanup
  <2> QED
    BY <1>11, <2>1, <2>2, <2>3, <2>4 DEF TypeOK, Cleanup
<1>12. ASSUME NEW n \in Conns, ReadTop(n) PROVE TypeOK'
  <2>1. rpc' \in [Conns -> ReadPlaces]
    BY <1>12, <1>r DEF ReadTop, ReadPlaces
  <2>2. rconn' \in [Conns -> MaybeConn]
    BY <1>12, <1>r, <1>0 DEF ReadTop, MaybeConn
  <2> QED
    BY <1>12, <2>1, <2>2 DEF TypeOK, ReadTop
<1>13. ASSUME NEW n \in Conns, Answered(n) PROVE TypeOK'
  <2>1. rpc' \in [Conns -> ReadPlaces]
    BY <1>13, <1>r DEF Answered, ReadPlaces
  <2>2. rconn[n] \in Conns
    BY <1>13, <1>r, <1>0 DEF Answered, Placed, ReadsConn
  <2>3. inbox' \in [Conns -> SUBSET Call]
    BY <1>13, <1>w, <2>1, <2>2 DEF Answered
  <2>4. chan' \in [Callers -> Call \cup {Empty, ClosedChan}]
    BY <1>13, <1>c, <1>w, <2>1, <2>2, <2>3 DEF Answered
  <2> QED
    BY <1>13, <2>1, <2>2, <2>3, <2>4 DEF TypeOK, Answered
<1>14. ASSUME NEW n \in Conns, ReadError(n) PROVE TypeOK'
  <2>1. rpc' \in [Conns -> ReadPlaces]
    BY <1>14, <1>r DEF ReadError, ReadPlaces
  <2> QED
    BY <1>14, <2>1 DEF TypeOK, ReadError
<1>15. ASSUME NEW n \in Conns, DropConn(n) PROVE TypeOK'
  <2>1. rpc' \in [Conns -> ReadPlaces]
    BY <1>15, <1>r DEF DropConn, ReadPlaces
  <2>2. link' \in [Conns -> {"new", "up", "down"}]
    BY <1>15, <1>l DEF DropConn
  <2>3. conn' \in MaybeConn
    BY <1>15, <1>0 DEF DropConn
  <2> QED
    BY <1>15, <2>1, <2>2, <2>3 DEF TypeOK, DropConn
<1>16. ASSUME NEW n \in Conns, CheckPing(n) PROVE TypeOK'
  <2>1. rpc' \in [Conns -> ReadPlaces]
    BY <1>16, <1>r DEF CheckPing, ReadPlaces
  <2> QED
    BY <1>16, <2>1 DEF TypeOK, CheckPing
<1>17. ASSUME NEW n \in Conns, ClosePing(n) PROVE TypeOK'
  <2>1. rpc' \in [Conns -> ReadPlaces]
    BY <1>17, <1>r DEF ClosePing, ReadPlaces
  <2>2. pinged' \subseteq MaybeConn
    BY <1>17, <1>s, <1>0 DEF ClosePing
  <2>3. panic' \in {"none", "nil connection", "nil response", "close of closed channel"}
    BY <1>17, <1>c, <1>k DEF ClosePing
  <2> QED
    BY <1>17, <2>1, <2>2, <2>3 DEF TypeOK, ClosePing
<1>18. ASSUME NEW n \in Conns, CancelPending(n) PROVE TypeOK'
  <2>1. rpc' \in [Conns -> ReadPlaces]
    BY <1>18, <1>r DEF CancelPending, ReadPlaces
  <2>2. chan' \in [Callers -> Call \cup {Empty, ClosedChan}]
    BY <1>18, <1>c, <2>1 DEF CancelPending
  <2>3. pending' \in [Id -> Callers \cup {Nobody}]
    BY <1>18, <1>c DEF CancelPending
  <2> QED
    BY <1>18, <2>1, <2>2, <2>3 DEF TypeOK, CancelPending
<1>19. ASSUME NEW n \in Conns, TellDisconnected(n) PROVE TypeOK'
  <2>1. rpc' \in [Conns -> ReadPlaces]
    BY <1>19, <1>r DEF TellDisconnected, ReadPlaces
  <2>2. xpc' \in [Conns -> ReconPlaces]
    BY <1>19, <1>x DEF TellDisconnected, ReconPlaces
  <2>3. state' \in States
    BY <1>19, <1>k DEF TellDisconnected, States
  <2> QED
    BY <1>19, <2>1, <2>2, <2>3 DEF TypeOK, TellDisconnected
<1>20. ASSUME NEW n \in Conns, ReconCheck(n) PROVE TypeOK'
  <2>1. xpc' \in [Conns -> ReconPlaces]
    BY <1>20, <1>x DEF ReconCheck, ReconPlaces
  <2>2. state' \in States
    BY <1>20, <1>k DEF ReconCheck, States
  <2> QED
    BY <1>20, <2>1, <2>2 DEF TypeOK, ReconCheck
<1>21. ASSUME NEW n \in Conns, ReconTell(n) PROVE TypeOK'
  <2>1. xpc' \in [Conns -> ReconPlaces]
    BY <1>21, <1>x DEF ReconTell, ReconPlaces
  <2>2. state' \in States
    BY <1>21, <1>k DEF ReconTell, States
  <2> QED
    BY <1>21, <2>1, <2>2 DEF TypeOK, ReconTell
<1>22. ASSUME NEW n \in Conns, ReconConnect(n) PROVE TypeOK'
  <2>1. xpc' \in [Conns -> ReconPlaces]
    BY <1>22, <1>x DEF ReconConnect, StartDial, ReconPlaces
  <2>2. state' \in States
    BY <1>22, <1>k DEF ReconConnect, StartDial, States
  <2>3. connMu' \in {Nobody} \cup Callers \cup Conns
    BY <1>22, <1>s DEF ReconConnect, StartDial
  <2> QED
    BY <1>22, <2>1, <2>2, <2>3 DEF TypeOK, ReconConnect, StartDial
<1>23. ASSUME NEW n \in Conns, ReconConnectEarly(n) PROVE TypeOK'
  <2>1. xpc' \in [Conns -> ReconPlaces]
    BY <1>23, <1>x DEF ReconConnectEarly, ReconPlaces
  <2>2. attempt[n] < MaxRetries 
    BY <1>23, <1>x DEF ReconConnectEarly, Placed, AttemptsLeft
  <2>3. attempt' \in [Conns -> Nat] /\ \A m \in Conns : attempt'[m] <= MaxRetries
    BY <1>23, <1>x, <2>1, <2>2 DEF ReconConnectEarly
  <2> QED
    BY <1>23, <2>1, <2>2, <2>3 DEF TypeOK, ReconConnectEarly
<1>24. ASSUME NEW n \in Conns, ReconDial(n) PROVE TypeOK'
  <2>1. xpc' \in [Conns -> ReconPlaces]
    BY <1>24, <1>x DEF ReconDial, ReconPlaces
  <2>2. attempt[n] < MaxRetries 
    BY <1>24, <1>x DEF ReconDial, Placed, AttemptsLeft
  <2>3. attempt' \in [Conns -> Nat] /\ \A m \in Conns : attempt'[m] <= MaxRetries
    BY <1>24, <1>x, <2>1, <2>2 DEF ReconDial
  <2>4. Established \/ DialFailed
    BY <1>24 DEF ReconDial
  <2> QED
    BY <1>24, <2>1, <2>2, <2>3, <2>4, DialType DEF TypeOK, ReconDial
<1>25. ASSUME NEW n \in Conns, PingSelect(n) PROVE TypeOK'
  <2>1. ppc' \in [Conns -> PingPlaces]
    BY <1>25, <1>p DEF PingSelect, PingPlaces
  <2>2. pwatch' \in [Conns -> MaybeConn]
    BY <1>25, <1>p, <1>s DEF PingSelect
  <2> QED
    BY <1>25, <2>1, <2>2 DEF TypeOK, PingSelect
<1>26. ASSUME NEW n \in Conns, PingStop(n) PROVE TypeOK'
  <2>1. ppc' \in [Conns -> PingPlaces]
    BY <1>26, <1>p DEF PingStop, PingPlaces
  <2> QED
    BY <1>26, <2>1 DEF TypeOK, PingStop
<1>27. ASSUME NEW n \in Conns, PingTick(n) PROVE TypeOK'
  <2>1. ppc' \in [Conns -> PingPlaces]
    BY <1>27, <1>p DEF PingTick, PingPlaces
  <2> QED
    BY <1>27, <2>1 DEF TypeOK, PingTick
<1>28. ASSUME CloseBegin PROVE TypeOK'
  <2>1. kpc' \in ClosePlaces
    BY <1>28, <1>k DEF CloseBegin, ClosePlaces
  <2>2. closed' \in BOOLEAN
    BY <1>28, <1>k DEF CloseBegin
  <2> QED
    BY <1>28, <2>1, <2>2 DEF TypeOK, CloseBegin
<1>29. ASSUME CloseCheckPing PROVE TypeOK'
  <2>1. kpc' \in ClosePlaces
    BY <1>29, <1>k DEF CloseCheckPing, ClosePlaces
  <2> QED
    BY <1>29, <2>1 DEF TypeOK, CloseCheckPing
<1>30. ASSUME CloseClosePing PROVE TypeOK'
  <2>1. kpc' \in ClosePlaces
    BY <1>30, <1>k DEF CloseClosePing, ClosePlaces
  <2>2. pinged' \subseteq MaybeConn
    BY <1>30, <1>s, <1>0 DEF CloseClosePing
  <2>3. panic' \in {"none", "nil connection", "nil response", "close of closed channel"}
    BY <1>30, <1>c, <1>k DEF CloseClosePing
  <2> QED
    BY <1>30, <2>1, <2>2, <2>3 DEF TypeOK, CloseClosePing
<1>31. ASSUME CloseDrop PROVE TypeOK'
  <2>1. kpc' \in ClosePlaces
    BY <1>31, <1>k DEF CloseDrop, ClosePlaces
  <2>2. link' \in [Conns -> {"new", "up", "down"}]
    BY <1>31, <1>l DEF CloseDrop
  <2>3. conn' \in MaybeConn
    BY <1>31, <1>0 DEF CloseDrop
  <2> QED
    BY <1>31, <2>1, <2>2, <2>3 DEF TypeOK, CloseDrop
<1>32. ASSUME CloseTell PROVE TypeOK'
  <2>1. kpc' \in ClosePlaces
    BY <1>32, <1>k DEF CloseTell, ClosePlaces
  <2>2. state' \in States
    BY <1>32, <1>k DEF CloseTell, States
  <2> QED
    BY <1>32, <2>1, <2>2 DEF TypeOK, CloseTell
<1>33. ASSUME NEW n \in Conns, Break(n) PROVE TypeOK'
  <2>1. link' \in [Conns -> {"new", "up", "down"}]
    BY <1>33, <1>l DEF Break
  <2> QED
    BY <1>33, <2>1 DEF TypeOK, Break
<1>34. ASSUME NEW n \in Conns, NEW m \in asked[n], Answer(n, m) PROVE TypeOK'
  <2>1. asked' \in [Conns -> SUBSET Call] /\ inbox' \in [Conns -> SUBSET Call]
    BY <1>34, <1>w, <1>0 DEF Answer
  <2> QED
    BY <1>34, <2>1 DEF TypeOK, Answer
<1>35. CASE UNCHANGED vars
  BY <1>35 DEF vars, TypeOK
<1> QED
  BY <1>1, <1>2, <1>3, <1>4, <1>5, <1>6, <1>7, <1>8, <1>9, <1>10, <1>11, <1>12, <1>13, <1>14, <1>15, <1>16, <1>17, <1>18, <1>19, <1>20, <1>21, <1>22, <1>23, <1>24, <1>25, <1>26, <1>27, <1>28, <1>29, <1>30, <1>31, <1>32, <1>33, <1>34, <1>35
  DEF Next, CallStep, ReadStep, DisconnectStep, ReconStep, PingStep, CloseStep

THEOREM TypeCorrect == Spec => []TypeOK
<1>1. Init => TypeOK /\ Placed
  BY TypeInit
<1>2. TypeOK /\ Placed /\ [Next]_vars => (TypeOK /\ Placed)'
  BY TypeNext, AttemptsNext, CallInHandNext, ReadsConnNext DEF Placed
<1> QED
  BY <1>1, <1>2, PTL DEF Spec

-----------------------------------------------------------------------------
(* Connections: who holds connMu, which read loop is alive, what Close leaves. *)

Closing == kpc \in {"tell", "done"}
Reading == {"top", "read", "drop"}

\* connMu is held exactly by the one goroutine that dials, and only while there
\* is no connection; Close cannot have passed it.
DialLock ==
    /\ \A c \in Callers : cpc[c] = "dial" => connMu = c
    /\ \A n \in Conns : xpc[n] = "dial" => connMu = n
    /\ connMu # Nobody => conn = NoConn /\ ~Closing

CloseOrder ==
    /\ kpc # "open" => closed
    /\ Closing => conn = NoConn

\* The read loop of connection n lives as long as n is w.conn, or was when Close
\* forgot it.
ReaderOfConn ==
    /\ \A n \in Conns : rpc[n] \in Reading => n = conn \/ Closing
    /\ \A n \in Conns : rpc[n] = "read" => rconn[n] = n

ConnInv == DialLock /\ CloseOrder /\ ReaderOfConn /\ NoLeakedLink

LEMMA ConnInit == Init => ConnInv
BY DEF Init, ConnInv, DialLock, CloseOrder, ReaderOfConn, NoLeakedLink, Reading, Closing, NoConn

\* A dial that ends releases connMu, and nobody else was dialling.
LEMMA DialEnds ==
    ASSUME TypeOK, ConnInv, connMu # Nobody, Established \/ DialFailed,
           \A c \in Callers : cpc'[c] = "dial" => cpc[c] = "dial" /\ c # connMu,
           \A n \in Conns : xpc'[n] = "dial" => xpc[n] = "dial" /\ n # connMu
    PROVE  ConnInv'
<1>c. connMu' = Nobody /\ closed' = closed /\ kpc' = kpc /\ rconn' = rconn
  BY DEF Established, DialFailed, readVars
<1>1. DialLock'
  BY <1>c DEF ConnInv, DialLock
<1>2. CloseOrder'
  BY <1>c DEF ConnInv, DialLock, CloseOrder, Closing, Established, DialFailed
<1>3. conn = NoConn /\ ~Closing
  BY DEF ConnInv, DialLock
<1>4. \A n \in Conns : n # NoConn
  BY DEF Conns, NoConn
<1>5. \A n \in Conns : rpc[n] \notin Reading /\ link[n] # "up"
  BY <1>3, <1>4 DEF ConnInv, ReaderOfConn, NoLeakedLink, Closing
<1>6. rpc \in [Conns -> ReadPlaces] /\ link \in [Conns -> {"new", "up", "down"}]
  BY DEF TypeOK
<1>7. CASE Established
  <2>1. ASSUME NEW n \in Conns, n # conn' PROVE rpc'[n] = rpc[n] /\ link'[n] = link[n]
    BY <1>6, <1>7, <2>1 DEF Established
  <2>2. \A n \in Conns : rpc'[n] # "read"
    BY <1>5, <1>6, <1>7 DEF Established, Reading
  <2>3. ReaderOfConn'
    BY <1>5, <2>1, <2>2 DEF ReaderOfConn
  <2>4. NoLeakedLink'
    BY <1>5, <2>1 DEF NoLeakedLink
  <2> QED
    BY <1>1, <1>2, <2>3, <2>4 DEF ConnInv
<1>8. CASE DialFailed
  BY <1>1, <1>2, <1>5, <1>8 DEF ConnInv, ReaderOfConn, NoLeakedLink, DialFailed, wireVars,
     readVars, Reading
<1> QED
  BY <1>7, <1>8

LEMMA ConnNext == TypeOK /\ Placed /\ ConnInv /\ [Next]_vars => ConnInv'
<1> SUFFICES ASSUME TypeOK, Placed, ConnInv, [Next]_vars PROVE ConnInv'
  OBVIOUS
<1>t. /\ cpc \in [Callers -> CallPlaces] /\ xpc \in [Conns -> ReconPlaces]
      /\ rpc \in [Conns -> ReadPlaces] /\ rconn \in [Conns -> MaybeConn]
      /\ link \in [Conns -> {"new", "up", "down"}]
      /\ (conn # NoConn => conn \in Conns)
  BY DEF TypeOK, MaybeConn
<1> USE NamesAssumption DEF ConnInv, DialLock, CloseOrder, ReaderOfConn, NoLeakedLink, Closing,
        Reading, Free, connVars, wireVars, callVars, readVars, pingVars, reconVars
<1>0. ASSUME UNCHANGED <<closed, conn, connMu, rpc, rconn, link, kpc>>,
             \A c \in Callers : cpc'[c] = "dial" => cpc[c] = "dial",
             \A n \in Conns : xpc'[n] = "dial" => xpc[n] = "dial"
      PROVE ConnInv'
  BY <1>0
<1>1. ASSUME NEW c \in Callers,
             \/ ConnectBegin(c) \/ \E s \in Sources : CallBegin(c, s)
             \/ CallConnectEarly(c) \/ Register(c) \/ Write(c) \/ WriteNilConn(c)
             \/ Receive(c) \/ ContextDone(c) \/ Cleanup(c)
      PROVE ConnInv'
  BY <1>0, <1>1, <1>t DEF ConnectBegin, CallBegin, CallConnectEarly, Register, Write,
     WriteNilConn, Receive, ContextDone, Cleanup, AfterConnect
<1>2. ASSUME NEW c \in Callers, CallConnect(c) PROVE ConnInv'
  BY <1>2, <1>t DEF CallConnect, StartDial, MustDial
<1>3. ASSUME NEW n \in Conns, ReconConnect(n) PROVE ConnInv'
  BY <1>3, <1>t DEF ReconConnect, StartDial, MustDial
<1>4. ASSUME NEW c \in Callers, CallDial(c) PROVE ConnInv'
  <2>1. connMu = c /\ connMu # Nobody
    BY <1>4 DEF CallDial
  <2>2. \A d \in Callers : cpc'[d] = "dial" => cpc[d] = "dial" /\ d # connMu
    BY <1>4, <1>t, <2>1 DEF CallDial, AfterConnect
  <2>3. \A n \in Conns : xpc'[n] = "dial" => xpc[n] = "dial" /\ n # connMu
    BY <1>4, <2>1 DEF CallDial
  <2>4. Established \/ DialFailed
    BY <1>4 DEF CallDial
  <2> QED
    BY <2>1, <2>2, <2>3, <2>4, DialEnds
<1>5. ASSUME NEW n \in Conns, ReconDial(n) PROVE ConnInv'
  <2>1. connMu = n /\ connMu # Nobody
    BY <1>5 DEF ReconDial
  <2>2. \A m \in Conns : xpc'[m] = "dial" => xpc[m] = "dial" /\ m # connMu
    BY <1>5, <1>t, <2>1 DEF ReconDial
  <2>3. \A c \in Callers : cpc'[c] = "dial" => cpc[c] = "dial" /\ c # connMu
    BY <1>5, <2>1 DEF ReconDial
  <2>4. Established \/ DialFailed
    BY <1>5 DEF ReconDial
  <2> QED
    BY <2>1, <2>2, <2>3, <2>4, DialEnds
<1>6. ASSUME NEW n \in Conns, ReadTop(n) PROVE ConnInv'
  BY <1>6, <1>t DEF ReadTop
<1>7. ASSUME NEW n \in Conns,
             Answered(n) \/ ReadError(n) \/ CheckPing(n) \/ ClosePing(n) \/ CancelPending(n)
      PROVE ConnInv'
  <2>1. CASE Answered(n)
    BY <1>t, <2>1 DEF Answered
  <2>2. CASE ReadError(n)
    BY <1>t, <2>2 DEF ReadError
  <2>3. CASE CheckPing(n) \/ ClosePing(n)
    BY <1>t, <2>3 DEF CheckPing, ClosePing
  <2>4. CASE CancelPending(n)
    BY <1>t, <2>4 DEF CancelPending
  <2> QED
    BY <1>7, <2>1, <2>2, <2>3, <2>4
<1>8. ASSUME NEW n \in Conns, DropConn(n) PROVE ConnInv'
  BY <1>8, <1>t DEF DropConn
<1>9. ASSUME NEW n \in Conns, TellDisconnected(n) PROVE ConnInv'
  BY <1>9, <1>t DEF TellDisconnected
<1>10. ASSUME NEW n \in Conns, ReconCheck(n) \/ ReconTell(n) \/ ReconConnectEarly(n) \/ PingStep(n)
                             \/ \E m \in asked[n] : Answer(n, m)
       PROVE ConnInv'
  BY <1>0, <1>10, <1>t DEF ReconCheck, ReconTell, ReconConnectEarly, PingStep, PingSelect, PingStop,
     PingTick, Answer
<1>11. ASSUME NEW n \in Conns, Break(n) PROVE ConnInv'
  BY <1>11, <1>t DEF Break
<1>12. ASSUME CloseBegin \/ CloseCheckPing \/ CloseClosePing \/ CloseTell PROVE ConnInv'
  BY <1>12, <1>t DEF CloseBegin, CloseCheckPing, CloseClosePing, CloseTell
<1>13. ASSUME CloseDrop PROVE ConnInv'
  BY <1>13, <1>t DEF CloseDrop
<1>14. CASE UNCHANGED vars
  BY <1>0, <1>14 DEF vars
<1> QED
  BY <1>1, <1>2, <1>3, <1>4, <1>5, <1>6, <1>7, <1>8, <1>9, <1>10, <1>11, <1>12, <1>13, <1>14
  DEF Next, CallStep, ReadStep, DisconnectStep, ReconStep, CloseStep

\* Whatever breaks and whoever connects, one read loop reads a connection, none
\* is leaked while the transport is in use, and none is made after Close.
THEOREM ConnectionSafety == Spec => [](ConnectionsSound /\ NoConnectionAfterClose)
<1>1. Init => TypeOK /\ Placed /\ ConnInv
  BY TypeInit, ConnInit
<1>2. TypeOK /\ Placed /\ ConnInv /\ [Next]_vars => (TypeOK /\ Placed /\ ConnInv)'
  BY TypeNext, AttemptsNext, CallInHandNext, ReadsConnNext, ConnNext DEF Placed
<1>3. ConnInv => ConnectionsSound /\ NoConnectionAfterClose
  BY DEF ConnInv, ReaderOfConn, CloseOrder, ConnectionsSound, SingleReader, NoConnectionAfterClose, Closing
<1> QED
  BY <1>1, <1>2, <1>3, PTL DEF Spec

\* On its own, for the run that closes the transport: no caller and no reconnect goroutine
\* makes a connection once Close has dropped the last (websocket.go:107-112).
THEOREM NoneAfterClose == Spec => []NoConnectionAfterClose
BY ConnectionSafety, PTL

-----------------------------------------------------------------------------
(* Requests and answers: who is in the table, and what may be in a channel. *)

InUse == {"write", "wait", "cleanup"}

\* Outside the part of Call that waits, a caller's channel holds nothing; idle, it has no
\* request either.
Unasked ==
    \A c \in Callers : /\ cpc[c] \notin InUse => chan[c] = Empty
                       /\ cpc[c] = "idle" => call[c] = NoCall

LEMMA NotACall == NoCall \notin Call /\ Empty \notin Call /\ ClosedChan \notin Call
BY BoundsAssumption DEF NoCall, Empty, ClosedChan, Call, Id

LEMMA WaitsNext ==
    TypeOK /\ Placed /\ PendingInUse /\ Unasked /\ [Next]_vars => PendingInUse' /\ Unasked'
<1> SUFFICES ASSUME TypeOK, Placed, PendingInUse, Unasked, [Next]_vars
             PROVE  PendingInUse' /\ Unasked'
  OBVIOUS
<1>t. /\ cpc \in [Callers -> CallPlaces] /\ call \in [Callers -> Call \cup {NoCall}]
      /\ chan \in [Callers -> Call \cup {Empty, ClosedChan}]
      /\ pending \in [Id -> Callers \cup {Nobody}]
      /\ inbox \in [Conns -> SUBSET Call]
      /\ \A c \in Callers : cpc[c] \in {"register"} \cup InUse => call[c] \in Call
      /\ \A r \in Call : r.id \in Id
      /\ \A i \in Id : pending[i] # Nobody => pending[i] \in Callers
  BY DEF TypeOK, Placed, CallInHand, InUse, Call
<1> USE NamesAssumption DEF PendingInUse, Unasked, InUse
<1>1. ASSUME UNCHANGED <<pending, call, chan>>,
             \A c \in Callers : /\ cpc[c] \in InUse => cpc'[c] \in InUse
                                /\ cpc'[c] = "idle" => call[c] = NoCall
      PROVE  PendingInUse' /\ Unasked'
  BY <1>1, <1>t
<1>2. ASSUME NEW c \in Callers, NEW s \in Sources, CallBegin(c, s)
      PROVE  PendingInUse' /\ Unasked'
  BY <1>2, <1>t DEF CallBegin
<1>3. ASSUME NEW c \in Callers, CallConnectEarly(c) \/ CallDial(c)
      PROVE  PendingInUse' /\ Unasked'
  <2>1. /\ UNCHANGED <<pending, chan>> /\ cpc[c] \in {"connect", "dial"}
        /\ \/ /\ cpc' = [cpc EXCEPT ![c] = "idle"]
              /\ call' = [call EXCEPT ![c] = NoCall]
           \/ /\ cpc' = [cpc EXCEPT ![c] = AfterConnect(c)]
              /\ UNCHANGED call
    BY <1>3 DEF CallConnectEarly, CallDial, Established, DialFailed
  <2>2. AfterConnect(c) = IF call[c] = NoCall THEN "idle" ELSE "register"
    BY DEF AfterConnect
  <2> QED
    BY <2>1, <2>2, <1>t
<1>4. ASSUME NEW c \in Callers, Register(c) PROVE PendingInUse' /\ Unasked'
  <2>1. /\ cpc[c] = "register" /\ cpc' = [cpc EXCEPT ![c] = "write"] /\ call' = call
        /\ chan' = [chan EXCEPT ![c] = Empty]
        /\ pending' = [pending EXCEPT ![call[c].id] = c]
    BY <1>4 DEF Register
  <2>2. call[c].id \in Id /\ Empty # ClosedChan
    BY <1>t, <2>1 DEF Empty, ClosedChan
  <2> QED
    BY <1>t, <2>1, <2>2
<1>5. ASSUME NEW c \in Callers, Cleanup(c) PROVE PendingInUse' /\ Unasked'
  <2>1. /\ cpc[c] = "cleanup" /\ cpc' = [cpc EXCEPT ![c] = "idle"]
        /\ call' = [call EXCEPT ![c] = NoCall]
        /\ chan' = [chan EXCEPT ![c] = Empty]
        /\ pending' = [pending EXCEPT ![call[c].id] = Nobody]
    BY <1>5 DEF Cleanup
  <2>2. call[c].id \in Id
    BY <1>t, <2>1
  <2>3. \A i \in Id : pending'[i] # Nobody => pending'[i] = pending[i] /\ pending[i] # c
    BY <1>t, <2>1, <2>2
  <2> QED
    BY <1>t, <2>1, <2>3
<1>6. ASSUME NEW c \in Callers, Receive(c) PROVE PendingInUse' /\ Unasked'
  <2>1. UNCHANGED <<pending, call>> /\ cpc[c] = "wait"
    BY <1>6 DEF Receive
  <2>2. CASE UNCHANGED <<cpc, chan>>
    BY <1>1, <2>1, <2>2
  <2>3. CASE /\ cpc' = [cpc EXCEPT ![c] = "cleanup"]
             /\ chan' = [chan EXCEPT ![c] = Empty]
    <3>1. Empty # ClosedChan
      BY DEF Empty, ClosedChan
    <3> QED
      BY <1>t, <2>1, <2>3, <3>1
  <2> QED
    BY <1>6, <2>2, <2>3 DEF Receive
<1>7. ASSUME NEW n \in Conns, Answered(n) PROVE PendingInUse' /\ Unasked'
  <2>1. PICK m \in inbox[rconn[n]] :
          chan' = [c \in Callers |->
                     IF pending[m.id] = c /\ chan[c] = Empty THEN m ELSE chan[c]]
    BY <1>7 DEF Answered
  <2>2. m \in Call /\ m # ClosedChan /\ m.id \in Id
    BY <1>7, <1>t, NotACall DEF Placed, ReadsConn, Answered
  <2>3. UNCHANGED <<pending, cpc, call>>
    BY <1>7 DEF Answered
  <2> QED
    BY <1>t, <2>1, <2>2, <2>3
<1>8. ASSUME NEW n \in Conns, CancelPending(n) PROVE PendingInUse' /\ Unasked'
  BY <1>8, <1>t DEF CancelPending
<1>9. ASSUME NEW c \in Callers,
             ConnectBegin(c) \/ CallConnect(c) \/ Write(c) \/ WriteNilConn(c) \/ ContextDone(c)
      PROVE  PendingInUse' /\ Unasked'
  <2>1. UNCHANGED <<pending, call, chan>>
    BY <1>9 DEF ConnectBegin, CallConnect, StartDial, Write, WriteNilConn, ContextDone, callVars
  <2>2. \/ cpc' = cpc
        \/ cpc[c] \notin InUse /\ \E p \in {"connect", "dial"} : cpc' = [cpc EXCEPT ![c] = p]
        \/ \E p \in {"wait", "cleanup"} : cpc' = [cpc EXCEPT ![c] = p]
    BY <1>9 DEF ConnectBegin, CallConnect, Write, WriteNilConn, ContextDone, callVars
  <2> QED
    BY <1>1, <1>t, <2>1, <2>2
<1>10. ASSUME NEW n \in Conns,
              \/ ReadTop(n) \/ ReadError(n) \/ DropConn(n) \/ CheckPing(n) \/ ClosePing(n)
              \/ TellDisconnected(n) \/ ReconStep(n) \/ PingStep(n) \/ Break(n)
              \/ \E m \in asked[n] : Answer(n, m)
       PROVE  UNCHANGED <<pending, cpc, call, chan>>
  BY <1>10 DEF ReadTop, ReadError, DropConn, CheckPing, ClosePing, TellDisconnected, ReconStep,
      ReconCheck, ReconTell, ReconConnect, StartDial, ReconConnectEarly, ReconDial, Established,
      DialFailed, PingStep, PingSelect, PingStop, PingTick, Break, Answer, callVars
<1>11. ASSUME CloseBegin \/ CloseStep PROVE UNCHANGED <<pending, cpc, call, chan>>
  BY <1>11 DEF CloseBegin, CloseStep, CloseCheckPing, CloseClosePing, CloseDrop, CloseTell, callVars
<1>12. CASE UNCHANGED vars
  BY <1>1, <1>12 DEF vars
<1>13. ASSUME UNCHANGED <<pending, cpc, call, chan>> PROVE PendingInUse' /\ Unasked'
  BY <1>1, <1>13
<1> QED
  BY <1>2, <1>3, <1>4, <1>5, <1>6, <1>7, <1>8, <1>9, <1>10, <1>11, <1>12, <1>13
  DEF Next, CallStep, ReadStep, DisconnectStep

LEMMA WaitsInit == Init => PendingInUse /\ Unasked
BY DEF Init, PendingInUse, Unasked, InUse

\* Every entry of the pending table belongs to a call that waits under that id and whose
\* channel is open, for any number of callers and of id sources (websocket.go:199-209,
\* 271-279, 312-317).
THEOREM TableInUse == Spec => []PendingInUse
<1>1. Init => TypeOK /\ Placed /\ PendingInUse /\ Unasked
  BY TypeInit, WaitsInit
<1>2. /\ TypeOK /\ Placed /\ PendingInUse /\ Unasked /\ [Next]_vars
      => (TypeOK /\ Placed /\ PendingInUse /\ Unasked)'
  BY TypeNext, AttemptsNext, CallInHandNext, ReadsConnNext, WaitsNext DEF Placed
<1> QED
  BY <1>1, <1>2, PTL DEF Spec

-----------------------------------------------------------------------------
(* The transport as a Correlator.  One source of ids is what makes it one:  *)
(* with two, an id does not say which request an answer is to, and the      *)
(* answer to one can reach the caller of the other.                         *)

SingleSource == \A s, t \in Sources : s = t

LEMMA CorrelatorInit == Init => Calls!Init
<1> SUFFICES ASSUME Init PROVE Calls!Init
  OBVIOUS
<1>1. \A r \in Call : ~(r.id <= lastID[r.source])
  BY DEF Init, Call, Id
<1> QED
  BY <1>1 DEF Init, Calls!Init

LEMMA CorrelatorStep ==
    ASSUME SingleSource, TypeOK, Placed, PendingInUse, Unasked, [Next]_vars
    PROVE  [Calls!Next]_(Calls!callVars)
<1> DEFINE Drawn == {r \in Call : r.id <= lastID[r.source]}
           Same == UNCHANGED <<call, chan, Drawn>>
<1>t. /\ cpc \in [Callers -> CallPlaces] /\ call \in [Callers -> Call \cup {NoCall}]
      /\ chan \in [Callers -> Call \cup {Empty, ClosedChan}]
      /\ pending \in [Id -> Callers \cup {Nobody}]
      /\ inbox \in [Conns -> SUBSET Call]
      /\ \A c \in Callers : cpc[c] \in {"register"} \cup InUse => call[c] \in Call
      /\ lastID \in [Sources -> Nat] /\ MaxCalls \in Nat
  BY BoundsAssumption DEF TypeOK, Placed, CallInHand, InUse
<1>s. Same => UNCHANGED Calls!callVars
  BY DEF Calls!callVars
<1>d. lastID' = lastID => Drawn' = Drawn
  OBVIOUS
<1>1. ASSUME NEW c \in Callers, NEW s \in Sources, CallBegin(c, s) PROVE Calls!Ask(c)
  <2> DEFINE r == [source |-> s, id |-> lastID[s] + 1]
  <2>1. /\ cpc[c] = "idle" /\ lastID[s] < MaxCalls /\ lastID' = [lastID EXCEPT ![s] = @ + 1]
        /\ call' = [call EXCEPT ![c] = r] /\ chan' = chan
    BY <1>1 DEF CallBegin
  <2>2. r \in Call /\ r \notin Drawn
    BY <1>t, <2>1 DEF Call, Id
  <2>3. ASSUME NEW q \in Call PROVE q \in Drawn' <=> q \in Drawn \cup {r}
    <3>1. q.source \in Sources /\ q.id \in Nat /\ q = [source |-> q.source, id |-> q.id]
      BY DEF Call, Id
    <3>2. q = r <=> q.source = s /\ q.id = lastID[s] + 1
      BY <3>1
    <3> QED
      BY <1>t, <2>1, <3>1, <3>2
  <2>4. Drawn' = Drawn \cup {r}
    BY <2>2, <2>3
  <2>5. call[c] = NoCall
    BY <2>1 DEF Unasked
  <2> QED
    BY <2>1, <2>2, <2>4, <2>5 DEF Calls!Ask
<1>2. ASSUME NEW c \in Callers, CallConnectEarly(c) \/ CallDial(c)
      PROVE  Same \/ Calls!Return(c)
  <2>1. /\ UNCHANGED <<lastID, chan>> /\ cpc[c] \in {"connect", "dial"}
        /\ call' = [call EXCEPT ![c] = NoCall] \/ UNCHANGED call
    BY <1>2 DEF CallConnectEarly, CallDial, Established, DialFailed
  <2>2. chan[c] = Empty
    BY <2>1 DEF Unasked, InUse
  <2>3. chan' = [chan EXCEPT ![c] = Empty]
    BY <1>t, <2>1, <2>2
  <2>4. call[c] = NoCall /\ call' = [call EXCEPT ![c] = NoCall] => call' = call
    BY <1>t
  <2> QED
    BY <1>d, <2>1, <2>3, <2>4 DEF Calls!Return
<1>3. ASSUME NEW c \in Callers, Register(c) PROVE Same
  <2>1. cpc[c] = "register" /\ chan' = [chan EXCEPT ![c] = Empty] /\ UNCHANGED <<lastID, call>>
    BY <1>3 DEF Register
  <2>2. chan[c] = Empty
    BY <2>1 DEF Unasked, InUse
  <2> QED
    BY <1>t, <1>d, <2>1, <2>2
<1>4. ASSUME NEW c \in Callers, Receive(c) PROVE Same \/ Calls!Look(c)
  BY <1>4, <1>d DEF Receive, Calls!Look
<1>5. ASSUME NEW c \in Callers, Cleanup(c) PROVE Calls!Return(c)
  <2>1. /\ cpc[c] = "cleanup" /\ call' = [call EXCEPT ![c] = NoCall]
        /\ chan' = [chan EXCEPT ![c] = Empty] /\ lastID' = lastID
    BY <1>5 DEF Cleanup
  <2>2. call[c] # NoCall
    BY <1>t, <2>1, NotACall DEF InUse
  <2> QED
    BY <1>d, <2>1, <2>2 DEF Calls!Return
<1>6. ASSUME NEW n \in Conns, Answered(n)
      PROVE  Same \/ \E c \in Callers : Calls!Reply(c)
  <2>1. PICK m \in inbox[rconn[n]] :
          chan' = [c \in Callers |->
                     IF pending[m.id] = c /\ chan[c] = Empty THEN m ELSE chan[c]]
    BY <1>6 DEF Answered
  <2>2. m \in Call /\ m.id \in Id
    BY <1>6, <1>t DEF Placed, ReadsConn, Answered, Call
  <2>3. UNCHANGED <<lastID, call>>
    BY <1>6 DEF Answered
  <2>4. CASE \E c \in Callers : pending[m.id] = c /\ chan[c] = Empty
    <3>1. PICK c \in Callers : pending[m.id] = c /\ chan[c] = Empty
      BY <2>4
    <3>2. cpc[c] \in InUse /\ call[c].id = m.id
      BY <2>2, <3>1, NamesAssumption DEF PendingInUse, InUse
    <3>3. call[c] \in Call
      BY <1>t, <3>2
    <3>4. call[c] = m
      BY <2>2, <3>2, <3>3 DEF SingleSource, Call
    <3>5. chan' = [chan EXCEPT ![c] = call[c]]
      BY <1>t, <2>1, <3>1, <3>4
    <3> QED
      BY <1>d, <2>3, <3>1, <3>3, <3>5, NotACall DEF Calls!Reply
  <2>5. CASE ~ \E c \in Callers : pending[m.id] = c /\ chan[c] = Empty
    BY <1>t, <1>d, <2>1, <2>3, <2>5
  <2> QED
    BY <2>4, <2>5
<1>7. ASSUME NEW n \in Conns, CancelPending(n) PROVE Calls!Break
  <2> DEFINE S == {c \in Callers : chan[c] = Empty /\ \E i \in Id : pending[i] = c}
  <2>1. /\ chan' = [c \in Callers |-> IF c \in S THEN ClosedChan ELSE chan[c]]
        /\ UNCHANGED <<lastID, call>>
    BY <1>7 DEF CancelPending, callVars
  <2>2. \A c \in S : call[c] # NoCall
    BY <1>t, NamesAssumption, NotACall DEF PendingInUse, InUse
  <2>3. S \in SUBSET {c \in Callers : call[c] # NoCall /\ chan[c] = Empty}
    BY <2>2
  <2> HIDE DEF S
  <2> QED
    BY <1>d, <2>1, <2>3 DEF Calls!Break
<1>8. ASSUME NEW c \in Callers,
             ConnectBegin(c) \/ CallConnect(c) \/ Write(c) \/ WriteNilConn(c) \/ ContextDone(c)
      PROVE  UNCHANGED <<call, chan, lastID>>
  BY <1>8 DEF ConnectBegin, CallConnect, StartDial, Write, WriteNilConn, ContextDone, callVars
<1>9. ASSUME NEW n \in Conns,
             \/ ReadTop(n) \/ ReadError(n) \/ DropConn(n) \/ CheckPing(n) \/ ClosePing(n)
             \/ TellDisconnected(n) \/ ReconStep(n) \/ PingStep(n) \/ Break(n)
             \/ \E m \in asked[n] : Answer(n, m)
      PROVE  UNCHANGED <<call, chan, lastID>>
  BY <1>9 DEF ReadTop, ReadError, DropConn, CheckPing, ClosePing, TellDisconnected, ReconStep,
      ReconCheck, ReconTell, ReconConnect, StartDial, ReconConnectEarly, ReconDial, Established,
      DialFailed, PingStep, PingSelect, PingStop, PingTick, Break, Answer, callVars
<1>10. ASSUME CloseBegin \/ CloseStep PROVE UNCHANGED <<call, chan, lastID>>
  BY <1>10 DEF CloseBegin, CloseStep, CloseCheckPing, CloseClosePing, CloseDrop, CloseTell, callVars
<1>11. CASE UNCHANGED vars
  BY <1>11, <1>s, <1>d DEF vars
<1>12. ASSUME UNCHANGED <<call, chan, lastID>> PROVE Same
  BY <1>12, <1>d
<1> HIDE DEF Same
<1> QED
  BY <1>s, <1>1, <1>2, <1>3, <1>4, <1>5, <1>6, <1>7, <1>8, <1>9, <1>10, <1>11, <1>12
  DEF Next, CallStep, ReadStep, DisconnectStep, Calls!Next

\* With one source of ids the transport implements the abstract Call: whatever breaks,
\* reconnects, times out or answers late, a caller is handed the answer to its own request
\* or word that the connection broke, and no request is asked twice (websocket.go:193-234
\* against 267-280 and 311-317).
THEOREM TransportCorrelates == ASSUME SingleSource PROVE Spec => WsCorrelates
<1>1. Init => TypeOK /\ Placed /\ PendingInUse /\ Unasked
  BY TypeInit, WaitsInit
<1>2. /\ TypeOK /\ Placed /\ PendingInUse /\ Unasked /\ [Next]_vars
      => (TypeOK /\ Placed /\ PendingInUse /\ Unasked)'
  BY TypeNext, AttemptsNext, CallInHandNext, ReadsConnNext, WaitsNext DEF Placed
<1>3. /\ TypeOK /\ Placed /\ PendingInUse /\ Unasked /\ [Next]_vars
      => [Calls!Next]_(Calls!callVars)
  BY CorrelatorStep
<1> QED
  BY <1>1, <1>2, <1>3, CorrelatorInit, PTL DEF Spec, WsCorrelates, Calls!Spec

=============================================================================
