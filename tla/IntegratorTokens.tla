-------------------------- MODULE IntegratorTokens --------------------------
(***************************************************************************)
(* integrator/auth.go: a TokenManager renews the JWT of one client, asked  *)
(* by users (EnsureValid) and by its own loop (StartAutoRefresh).  A unit  *)
(* of time is MinTokenRefreshInterval, one minute; the HTTP client gives   *)
(* up after half of that, so an authentication ends within the unit it     *)
(* began in.                                                               *)
(***************************************************************************)
EXTENDS Integers, FiniteSets

CONSTANTS
    Askers,      \* goroutines that call EnsureValid
    Buffer,      \* refreshBuffer, in units
    Lifetime,    \* life of a token, in units
    MaxTime,     \* bound: units of time
    Loops,       \* bound: one for each call of StartAutoRefresh
    MaxFails     \* bound: authentications that fail

VARIABLES
    now,       \* the time
    last,      \* lastRefresh: when somebody last decided to authenticate
    expires,   \* expiry of client.authData, 0 for none
    asker,     \* Askers and loops -> place in EnsureValid
    checked,   \* those that saw NeedsRefresh and not yet the lock
    told,      \* asker -> what EnsureValid returned: "" | "nil" | "error"
    refreshRunning,
    channel,   \* number of the channel refreshDone holds
    closed,    \* numbers of the channels closed
    loops,     \* loop -> its place: "none" | "select" | "busy" | "ended"
    due,       \* loops whose ticker has fired
    ctxEnded,  \* loops whose context has ended
    watched,   \* units for which a loop has been at it, without a break
    claims,    \* authentications begun in this unit of time
    fails,     \* authentications that failed since the last success
    failed     \* all of them

tokenVars == <<now, last, expires, asker, checked, told, refreshRunning, channel,
               closed, loops, due, ctxEnded, watched, claims, fails, failed>>

Who == Askers \cup Loops
Never == -1
Live == {l \in Loops : loops[l] \in {"select", "busy"}}

TokenInit ==
    /\ now = 0
    /\ last = Never
    /\ expires \in {0, Lifetime}
    /\ asker = [w \in Who |-> "idle"]
    /\ checked = {}
    /\ told = [a \in Askers |-> ""]
    /\ refreshRunning = FALSE
    /\ channel = 0
    /\ closed = {}
    /\ loops = [l \in Loops |-> "none"]
    /\ due = {}
    /\ ctxEnded = {}
    /\ watched = 0
    /\ claims = 0
    /\ fails = 0
    /\ failed = 0

looping == <<refreshRunning, channel, closed, loops, due, ctxEnded, watched>>

NeedsRefresh == expires = 0 \/ expires - now < Buffer
Expired == expires # 0 /\ now >= expires

(* EnsureValid: the first look is not under the lock the rest is done under. *)
Done(w) == IF w \in Loops THEN loops' = [loops EXCEPT ![w] = "select"] ELSE UNCHANGED loops
Tell(w, what) ==
    IF w \in Askers THEN told' = [told EXCEPT ![w] = what] ELSE UNCHANGED told

EnsureValid(a) ==
    /\ asker[a] = "idle"
    /\ IF NeedsRefresh
       THEN /\ checked' = checked \cup {a}
            /\ asker' = [asker EXCEPT ![a] = "checked"]
            /\ told' = [told EXCEPT ![a] = ""]
       ELSE /\ told' = [told EXCEPT ![a] = "nil"]
            /\ UNCHANGED <<checked, asker>>
    /\ UNCHANGED <<now, last, expires, looping, claims, fails, failed>>

TooSoon == last # Never /\ now - last < 1

\* Mutant of Claim: the interval is not looked at again under the lock.
ClaimUnchecked(w) ==
    /\ w \in checked
    /\ last' = now
    /\ claims' = claims + 1
    /\ asker' = [asker EXCEPT ![w] = "asking"]
    /\ checked' = checked \ {w}
    /\ UNCHANGED <<now, expires, told, looping, fails, failed>>

(* The one critical section: who finds the last attempt long enough ago      *)
(* notes the time and authenticates, everybody else returns nil.             *)
Claim(w) ==
    /\ w \in checked
    /\ IF TooSoon
       THEN /\ asker' = [asker EXCEPT ![w] = "idle"]
            /\ Tell(w, "nil")
            /\ Done(w)
            /\ UNCHANGED <<last, claims>>
       ELSE /\ last' = now
            /\ claims' = claims + 1
            /\ asker' = [asker EXCEPT ![w] = "asking"]
            /\ UNCHANGED <<told, loops>>
    /\ checked' = checked \ {w}
    /\ UNCHANGED <<now, expires, refreshRunning, channel, closed, due, ctxEnded, watched,
                   fails, failed>>

(* Client.Authenticate: the token comes, or an error and the old one stays.  *)
Authenticate(w) ==
    /\ asker[w] = "asking"
    /\ \/ /\ expires' = now + Lifetime
          /\ fails' = 0
          /\ Tell(w, "nil")
          /\ UNCHANGED failed
       \/ /\ failed < MaxFails
          /\ fails' = fails + 1
          /\ failed' = failed + 1
          /\ Tell(w, "error")
          /\ UNCHANGED expires
    /\ asker' = [asker EXCEPT ![w] = "idle"]
    /\ Done(w)
    /\ UNCHANGED <<now, last, checked, refreshRunning, channel, closed, due,
                   ctxEnded, watched, claims>>

StartAutoRefresh ==
    /\ ~refreshRunning
    /\ \E l \in Loops : loops[l] = "none" /\ loops' = [loops EXCEPT ![l] = "select"]
    /\ refreshRunning' = TRUE
    /\ channel' = channel + 1
    /\ UNCHANGED <<now, last, expires, asker, checked, told, closed, due, ctxEnded, watched,
                   claims, fails, failed>>

(* A loop that waits in its select at this moment waits on the channel that  *)
(* is closed; one that is busy will look at the field again.                 *)
StopAutoRefresh ==
    /\ refreshRunning
    /\ refreshRunning' = FALSE
    /\ closed' = closed \cup {channel}
    /\ loops' = [l \in Loops |-> IF loops[l] = "select" THEN "ended" ELSE loops[l]]
    /\ due' = {l \in due : loops[l] # "select"}
    /\ watched' = 0
    /\ UNCHANGED <<now, last, expires, asker, checked, told, channel, ctxEnded,
                   claims, fails, failed>>

ContextEnds(l) ==
    /\ loops[l] # "none"
    /\ l \notin ctxEnded
    /\ ctxEnded' = ctxEnded \cup {l}
    /\ watched' = 0
    /\ UNCHANGED <<now, last, expires, asker, checked, told, refreshRunning, channel,
                   closed, loops, due, claims, fails, failed>>

LoopEnds(l) ==
    /\ loops[l] = "select"
    /\ l \in ctxEnded \/ channel \in closed
    /\ loops' = [loops EXCEPT ![l] = "ended"]
    /\ due' = due \ {l}
    /\ watched' = 0
    /\ UNCHANGED <<now, last, expires, asker, checked, told, refreshRunning, channel,
                   closed, ctxEnded, claims, fails, failed>>

\* Mutant of LoopTick: the loop asks once the token has expired, and not before.
LoopTickLate(l) ==
    /\ loops[l] = "select"
    /\ l \in due
    /\ due' = due \ {l}
    /\ IF expires = 0 \/ Expired
       THEN /\ loops' = [loops EXCEPT ![l] = "busy"]
            /\ checked' = checked \cup {l}
       ELSE UNCHANGED <<loops, checked>>
    /\ UNCHANGED <<now, last, expires, asker, told, refreshRunning, channel, closed,
                   ctxEnded, watched, claims, fails, failed>>

(* The ticker fires once in a unit and the loop asks if it must.             *)
LoopTick(l) ==
    /\ loops[l] = "select"
    /\ l \in due
    /\ due' = due \ {l}
    /\ IF NeedsRefresh
       THEN /\ loops' = [loops EXCEPT ![l] = "busy"]
            /\ checked' = checked \cup {l}
       ELSE UNCHANGED <<loops, checked>>
    /\ UNCHANGED <<now, last, expires, asker, told, refreshRunning, channel, closed,
                   ctxEnded, watched, claims, fails, failed>>

(* Nothing takes as long as a unit: before time passes the tickers have been *)
(* heard and the authentications are over.                                   *)
Quiet == due \cap Live = {} /\ checked = {} /\ \A w \in Who : asker[w] # "asking"

TimePasses ==
    /\ now < MaxTime
    /\ Quiet
    /\ now' = now + 1
    /\ claims' = 0
    /\ due' = Live
    /\ watched' = IF Live \ ctxEnded # {} THEN watched + 1 ELSE 0
    /\ UNCHANGED <<last, expires, asker, checked, told, refreshRunning, channel,
                   closed, loops, ctxEnded, fails, failed>>

TokenNext ==
    \/ \E a \in Askers : EnsureValid(a)
    \/ \E w \in Who : Claim(w) \/ Authenticate(w)
    \/ StartAutoRefresh
    \/ StopAutoRefresh
    \/ \E l \in Loops : ContextEnds(l) \/ LoopEnds(l) \/ LoopTick(l)
    \/ TimePasses

TokenSpec == TokenInit /\ [][TokenNext]_tokenVars

-----------------------------------------------------------------------------
(* The state of the token manager and of a region.                           *)
TokensTypeOK ==
    /\ now \in 0 .. MaxTime
    /\ last \in {Never} \cup 0 .. now
    /\ expires \in 0 .. MaxTime + Lifetime
    /\ asker \in [Who -> {"idle", "checked", "asking"}]
    /\ told \in [Askers -> {"", "nil", "error"}]
    /\ loops \in [Loops -> {"none", "select", "busy", "ended"}]
    /\ channel \in 0 .. Cardinality(Loops)
    /\ closed \subseteq 1 .. Cardinality(Loops)

(* "MinTokenRefreshInterval prevents excessive refresh attempts" (auth.go:24)*)
(* whoever asks: the loop, loops left over from an earlier start, and users  *)
(* never begin two authentications in one interval.                          *)
RefreshApart == claims <= 1

(* A token never expires while a loop watches it: one that has been at it    *)
(* since the token came within the buffer keeps it valid, through as many    *)
(* failures in a row as the buffer has intervals, less two, and however      *)
(* often users ask in between.                                               *)
NeverLapses ==
    [][Expired' /\ ~Expired => fails >= Buffer - 1 \/ watched < Buffer - 1]_tokenVars

(* Violated. "EnsureValid ensures the token is valid, refreshing if          *)
(* necessary" (auth.go:75): within a minute of an attempt that failed, or    *)
(* while another is under way, it returns nil with no valid token.           *)
EnsureMeansValid == \A a \in Askers : told[a] = "nil" => expires # 0

(* Violated. "StopAutoRefresh stops the automatic token refresh"             *)
(* (auth.go:108): a loop that is busy when the channel is closed looks at    *)
(* the field again, and after another start finds an open channel in it.     *)
OneLoop == Cardinality(Live) <= 1

(* Violated. "StartAutoRefresh starts a background goroutine" (auth.go:93):  *)
(* once the loop has ended with its context the flag still says it runs.     *)
RunningMeansLoop == refreshRunning => Live # {}

=============================================================================
