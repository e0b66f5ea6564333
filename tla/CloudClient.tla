---------------------------- MODULE CloudClient ----------------------------
(***************************************************************************)
(* cloud/client.go: the requests of several goroutines to the cloud API.   *)
(* Each passes a rate limiter that sleeps holding its mutex, then reads    *)
(* the token and the server it belongs to, then makes the request; Login   *)
(* passes the limiter too and SetToken replaces token and server.          *)
(***************************************************************************)
EXTENDS Integers, FiniteSets

CONSTANTS
    Goroutines,   \* goroutines that make requests, or log in
    Interval,     \* 1/requestsPerSecond, in units of time
    MaxTime,      \* bound: units of time
    MaxCalls,     \* bound: calls that begin
    Accounts      \* the accounts logged in to; each has its own server

VARIABLES
    clock,
    lastCall,    \* the limiter's
    holder,      \* who holds its mutex, or Unheld
    at,          \* goroutine -> place
    kind,        \* goroutine -> "request" | "login"
    until,       \* goroutine -> when its sleep is over
    overdue,     \* goroutines whose context has ended
    access,      \* [token, server]: accessToken and baseURL, by account
    read,        \* goroutine -> what it read of it
    begun,       \* calls begun
    passedAt,    \* when the last call did pass the limiter
    gap          \* time between it and the one before

clientVars == <<clock, lastCall, holder, at, kind, until, overdue, access, read, begun, passedAt, gap>>

Unheld == "nobody"
None == "none"
LongAgo == -Interval

ClientInit ==
    /\ clock = 0
    /\ lastCall = LongAgo
    /\ holder = Unheld
    /\ at = [g \in Goroutines |-> "idle"]
    /\ kind = [g \in Goroutines |-> "request"]
    /\ until = [g \in Goroutines |-> 0]
    /\ overdue = {}
    /\ access \in {[token |-> None, server |-> None]} \cup
                  {[token |-> a, server |-> a] : a \in Accounts}
    /\ read = [g \in Goroutines |-> [token |-> None, server |-> None]]
    /\ begun = 0
    /\ passedAt = LongAgo
    /\ gap = Interval

Begin(g) ==
    /\ at[g] = "idle"
    /\ begun < MaxCalls
    /\ begun' = begun + 1
    /\ \E k \in {"request", "login"} : kind' = [kind EXCEPT ![g] = k]
    /\ at' = [at EXCEPT ![g] = "queued"]
    /\ overdue' = overdue \ {g}
    /\ UNCHANGED <<clock, lastCall, holder, until, access, read, passedAt, gap>>

(* The mutex; only then is the time of the last call looked at.              *)
Lock(g) ==
    /\ at[g] = "queued"
    /\ holder = Unheld
    /\ holder' = g
    /\ until' = [until EXCEPT ![g] = lastCall + Interval]
    /\ at' = [at EXCEPT ![g] = "sleeping"]
    /\ UNCHANGED <<clock, lastCall, kind, overdue, access, read, begun, passedAt, gap>>

\* Mutant of Pass: the time noted is that at which the call should have been.
PassAsPlanned(g) ==
    /\ at[g] = "sleeping"
    /\ clock >= until[g]
    /\ gap' = clock - passedAt
    /\ passedAt' = clock
    /\ lastCall' = until[g]
    /\ holder' = Unheld
    /\ at' = [at EXCEPT ![g] = "passed"]
    /\ UNCHANGED <<clock, kind, until, overdue, access, read, begun>>

(* The sleep is over, at once when the last call is long enough ago.         *)
Pass(g) ==
    /\ at[g] = "sleeping"
    /\ clock >= until[g]
    /\ gap' = clock - passedAt
    /\ passedAt' = clock
    /\ lastCall' = clock
    /\ holder' = Unheld
    /\ at' = [at EXCEPT ![g] = "passed"]
    /\ UNCHANGED <<clock, kind, until, overdue, access, read, begun>>

(* The context of the one that sleeps ends its sleep, and the call with it.  *)
GiveUp(g) ==
    /\ at[g] = "sleeping"
    /\ clock < until[g]
    /\ g \in overdue
    /\ holder' = Unheld
    /\ at' = [at EXCEPT ![g] = "idle"]
    /\ UNCHANGED <<clock, lastCall, kind, until, overdue, access, read, begun, passedAt, gap>>

(* Token and server are read together; without them there is no request.     *)
ReadAccess(g) ==
    /\ at[g] = "passed"
    /\ kind[g] = "request"
    /\ IF access.token = None \/ access.server = None
       THEN /\ at' = [at EXCEPT ![g] = "idle"]
            /\ UNCHANGED read
       ELSE /\ at' = [at EXCEPT ![g] = "sent"]
            /\ read' = [read EXCEPT ![g] = access]
    /\ UNCHANGED <<clock, lastCall, holder, kind, until, overdue, access, begun, passedAt, gap>>

(* The answer, the error, or the context: the call is over.                  *)
Answer(g) ==
    /\ at[g] = "sent"
    /\ at' = [at EXCEPT ![g] = "idle"]
    /\ UNCHANGED <<clock, lastCall, holder, kind, until, overdue, access, read, begun, passedAt, gap>>

\* Mutant of LoggedIn: the server of the first account is kept for good.
LoggedInOnce(g) ==
    /\ at[g] = "passed"
    /\ kind[g] = "login"
    /\ at' = [at EXCEPT ![g] = "idle"]
    /\ \/ UNCHANGED access
       \/ \E a \in Accounts :
             access' = [token |-> a,
                        server |-> IF access.server = None THEN a ELSE access.server]
    /\ UNCHANGED <<clock, lastCall, holder, kind, until, overdue, read, begun, passedAt, gap>>

(* Login brings a token with the address of its server, which SetToken       *)
(* stores with it, or an error.                                              *)
LoggedIn(g) ==
    /\ at[g] = "passed"
    /\ kind[g] = "login"
    /\ at' = [at EXCEPT ![g] = "idle"]
    /\ \/ UNCHANGED access
       \/ \E a \in Accounts : access' = [token |-> a, server |-> a]
    /\ UNCHANGED <<clock, lastCall, holder, kind, until, overdue, read, begun, passedAt, gap>>

ContextEnds(g) ==
    /\ at[g] # "idle"
    /\ g \notin overdue
    /\ overdue' = overdue \cup {g}
    /\ UNCHANGED <<clock, lastCall, holder, at, kind, until, access, read, begun, passedAt, gap>>

(* Time does not wait for a sleeper, but every sleep ends within the bound.  *)
Tick ==
    /\ clock < MaxTime
    /\ clock' = clock + 1
    /\ UNCHANGED <<lastCall, holder, at, kind, until, overdue, access, read, begun, passedAt, gap>>

Step(g) == Lock(g) \/ Pass(g) \/ GiveUp(g) \/ ReadAccess(g) \/ Answer(g) \/ LoggedIn(g)

ClientNext ==
    \/ \E g \in Goroutines : Begin(g) \/ Step(g) \/ ContextEnds(g)
    \/ Tick

ClientSpec == ClientInit /\ [][ClientNext]_clientVars

-----------------------------------------------------------------------------
(* The state of the client and of the goroutines in it.                      *)
ClientTypeOK ==
    /\ clock \in 0 .. MaxTime
    /\ lastCall \in LongAgo .. MaxTime
    /\ holder \in Goroutines \cup {Unheld}
    /\ at \in [Goroutines -> {"idle", "queued", "sleeping", "passed", "sent"}]
    /\ overdue \subseteq Goroutines
    /\ begun \in 0 .. MaxCalls

(* The limiter serves many goroutines and the account may change under them: *)
(* two calls are never closer than the interval, whoever makes them and      *)
(* however late they were, and a request carries a token to the server it    *)
(* was issued for.                                                           *)
ClientSound ==
    /\ gap >= Interval
    /\ \A g \in Goroutines : at[g] = "sent" => read[g].token = read[g].server

(* Violated. wait returns "ctx.Err()" when the context ends (client.go:337): *)
(* a goroutine that waits for the mutex cannot see that its context ended,   *)
(* and sleeps behind all those before it.                                    *)
ContextIsSeen == \A g \in overdue : at[g] = "queued" => holder = Unheld
=============================================================================
