------------------------------ MODULE MCFleet ------------------------------
(***************************************************************************)
(* The integrator: accounts, fleet and connections, and the tokens they    *)
(* are served with.  A behaviour is in one of the two (part).              *)
(***************************************************************************)
EXTENDS MCFleetManager

\* Of IntegratorTokens.
CONSTANTS Askers, Loops, Buffer, Lifetime, MaxTime, MaxFails

\* A token lives at least as long as the buffer before its expiry: with a shorter life it is
\* due for renewal from the start, and one unit without success can be its last.  A loop is
\* a goroutine of its own.
ASSUME TokensAssumption ==
    /\ Buffer \in Nat /\ Lifetime \in Nat /\ Buffer <= Lifetime
    /\ Askers \cap Loops = {}

VARIABLES part,
    now, last, expires, asker, checked, told, refreshRunning, channel, shut, loops, due,
    ctxEnded, watched, claims, fails, failed

tokenVars == <<now, last, expires, asker, checked, told, refreshRunning, channel, shut,
               loops, due, ctxEnded, watched, claims, fails, failed>>

Tokens == INSTANCE IntegratorTokens WITH closed <- shut

MCInit ==
    /\ part \in {"fleet", "tokens"}
    /\ Init /\ Tokens!TokenInit
    /\ part # "tokens" => expires = 0

MCNext ==
    \/ part = "fleet" /\ Next /\ UNCHANGED <<part, tokenVars>>
    \/ part = "tokens" /\ Tokens!TokenNext /\ UNCHANGED <<part, vars>>

MCSpec == MCInit /\ [][MCNext]_<<part, vars, tokenVars>>

\* Whoever asks, a loop left over from an earlier start or a user, no two authentications
\* begin within one interval (auth.go:24, 75-160).
RefreshApart == Tokens!RefreshApart

\* A token never expires while a loop watches it, through as many failures in a row as the
\* buffer before its expiry has room for (auth.go:105-160).
NeverLapses == Tokens!NeverLapses
=============================================================================
