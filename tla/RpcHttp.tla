------------------------------ MODULE RpcHttp ------------------------------
(***************************************************************************)
(* rpc/client.go and rpc/batch.go over transport/http.go: a call is built, *)
(* sent once or, after an error that allows it, several times, and the     *)
(* answer is parsed.  The device executes what reaches it; the network may *)
(* lose a request or an answer.  Commands are not idempotent: a toggle     *)
(* that is executed twice is undone.                                       *)
(***************************************************************************)
EXTENDS Naturals, Sequences, FiniteSets

CONSTANTS
    MaxRetries,   \* opts.maxRetries
    BatchSize,    \* requests of a batch
    MaxFaults,    \* bound: requests and answers lost, errors of the device
    MaxCalls      \* bound: calls

VARIABLES
    auth,        \* opts.authType: "none" | "basic" | "digest"
    protected,   \* the device wants a password
    place,       \* "idle" | "attempt" | "send" | "backoff"
    request,     \* [kind, ids]: kind "rpc" | "rest" | "batch"
    nextID,      \* RequestBuilder.idCounter
    attempt,
    authorized,  \* the request carries an Authorization header
    ended,       \* the context of the call has ended
    executed,    \* how often the device executed a command of the call
    lostAny,     \* something of the call was lost
    fatal,       \* an attempt of the call failed for good
    outcome,     \* what the last call returned
    faults,
    calls

httpVars == <<auth, protected, place, request, nextID, attempt, authorized, ended,
              executed, lostAny, fatal, outcome, faults, calls>>

call == <<auth, protected, request, nextID, calls>>

Errors == {"auth", "notFound", "status", "network", "context", "parse", "rpc"}
NoRequest == [kind |-> "rpc", ids |-> <<>>]

HInit ==
    /\ auth \in {"none", "basic", "digest"}
    /\ protected \in BOOLEAN
    /\ place = "idle"
    /\ request = NoRequest
    /\ nextID = 0
    /\ attempt = 0
    /\ authorized = FALSE
    /\ ended = FALSE
    /\ executed = 0
    /\ lostAny = FALSE
    /\ fatal = FALSE
    /\ outcome = "none"
    /\ faults = 0
    /\ calls = 0

(* RequestBuilder.Build and BuildBatch draw the ids; a REST request has none.*)
Drawn(kind) ==
    CASE kind = "rpc"   -> <<nextID + 1>>
      [] kind = "batch" -> [i \in 1 .. BatchSize |-> nextID + i]
      [] kind = "rest"  -> <<>>

Begin(kind) ==
    /\ place = "idle"
    /\ calls < MaxCalls
    /\ calls' = calls + 1
    /\ request' = [kind |-> kind, ids |-> Drawn(kind)]
    /\ nextID' = nextID + Len(Drawn(kind))
    /\ attempt' = 0
    /\ place' = "attempt"
    /\ authorized' = FALSE
    /\ ended' = FALSE
    /\ executed' = 0
    /\ lostAny' = FALSE
    /\ fatal' = FALSE
    /\ outcome' = "none"
    /\ UNCHANGED <<auth, protected, faults>>

ShouldRetry(error) == error \notin {"auth", "notFound", "context", "parse", "rpc"}

\* Mutant of Failed: an error of the credentials is tried again.
FailedRetryAuth(error) ==
    /\ fatal' = (fatal \/ ~ShouldRetry(error))
    /\ IF (ShouldRetry(error) \/ error = "auth") /\ attempt < MaxRetries
       THEN /\ place' = "backoff"
            /\ UNCHANGED outcome
       ELSE /\ place' = "idle"
            /\ outcome' = error

(* Call: after the last attempt, or an error that is not worth another, the  *)
(* call returns it.                                                          *)
Failed(error) ==
    /\ fatal' = (fatal \/ ~ShouldRetry(error))
    /\ IF ShouldRetry(error) /\ attempt < MaxRetries
       THEN /\ place' = "backoff"
            /\ UNCHANGED outcome
       ELSE /\ place' = "idle"
            /\ outcome' = error

Fault == faults < MaxFaults /\ faults' = faults + 1

(* applyAuth: basic credentials go into the header, digest ones need a       *)
(* challenge first.                                                          *)
ApplyAuth ==
    /\ place = "attempt"
    /\ auth # "digest"
    /\ authorized' = (auth = "basic")
    /\ place' = "send"
    /\ UNCHANGED <<call, attempt, ended, executed, lostAny, fatal, outcome, faults>>

(* The challenge is asked with the request's own method and address and no   *)
(* body: a device that wants no password takes a REST request for the        *)
(* command, and anything but 401 means that no header is needed.             *)
Challenge ==
    /\ place = "attempt"
    /\ auth = "digest"
    /\ ~ended
    /\ executed' = IF request.kind = "rest" /\ ~protected THEN executed + 1 ELSE executed
    /\ authorized' = protected
    /\ place' = "send"
    /\ UNCHANGED <<call, attempt, ended, lostAny, fatal, outcome, faults>>

ChallengeLost ==
    /\ place = "attempt"
    /\ auth = "digest"
    /\ \/ /\ ended
          /\ Failed("context")
          /\ UNCHANGED <<executed, lostAny, faults>>
       \/ /\ Fault
          /\ lostAny' = TRUE
          /\ \/ UNCHANGED executed
             \/ /\ request.kind = "rest" /\ ~protected
                /\ executed' = executed + 1
          /\ Failed("network")
    /\ UNCHANGED <<call, attempt, authorized, ended>>

(* A batch travels as the params of one request without a method, which no   *)
(* device executes: its answer is an error object, where Execute wants a     *)
(* list of answers.                                                          *)
Executes == ~protected \/ authorized
Runs == IF request.kind = "batch" THEN 0 ELSE 1

Answered ==
    /\ place = "send"
    /\ ~ended
    /\ IF ~Executes
       THEN /\ Failed("auth")
            /\ UNCHANGED executed
       ELSE /\ executed' = executed + Runs
            /\ IF request.kind = "batch" THEN Failed("parse")
               ELSE /\ place' = "idle"
                    /\ outcome' = "result"
                    /\ UNCHANGED fatal
    /\ UNCHANGED <<call, attempt, authorized, ended, lostAny, faults>>

(* The device refuses without executing: 404, another status, or an RPC      *)
(* error object, which is an answer and ends the call.                       *)
Refused ==
    /\ place = "send"
    /\ ~ended
    /\ Executes
    /\ Fault
    /\ \E error \in {"notFound", "status"} \cup
                    (IF request.kind = "rest" THEN {} ELSE {"rpc"}) : Failed(error)
    /\ UNCHANGED <<call, attempt, authorized, ended, executed, lostAny>>

(* The request is lost, or its answer; the context too may end in between.   *)
Lost ==
    /\ place = "send"
    /\ Fault
    /\ lostAny' = TRUE
    /\ executed' \in {executed} \cup (IF Executes THEN {executed + Runs} ELSE {})
    /\ Failed("network")
    /\ UNCHANGED <<call, attempt, authorized, ended>>

(* The client's own timeout counts as the end of a context and is not tried  *)
(* again.                                                                    *)
TimesOut ==
    /\ place = "send"
    /\ \/ ended /\ UNCHANGED faults
       \/ Fault
    /\ lostAny' = TRUE
    /\ executed' \in {executed} \cup (IF Executes THEN {executed + Runs} ELSE {})
    /\ Failed("context")
    /\ UNCHANGED <<call, attempt, authorized, ended>>

Backoff ==
    /\ place = "backoff"
    /\ attempt' = attempt + 1
    /\ place' = "attempt"
    /\ authorized' = FALSE
    /\ UNCHANGED <<call, ended, executed, lostAny, fatal, outcome, faults>>

BackoffEnds ==
    /\ place = "backoff"
    /\ ended
    /\ place' = "idle"
    /\ outcome' = "context"
    /\ UNCHANGED <<call, attempt, authorized, ended, executed, lostAny, fatal, faults>>

ContextEnds ==
    /\ place # "idle"
    /\ ~ended
    /\ ended' = TRUE
    /\ UNCHANGED <<call, place, attempt, authorized, executed, lostAny, fatal, outcome, faults>>

HNext ==
    \/ \E kind \in {"rpc", "rest", "batch"} : Begin(kind)
    \/ ApplyAuth
    \/ Challenge
    \/ ChallengeLost
    \/ Answered
    \/ Refused
    \/ Lost
    \/ TimesOut
    \/ Backoff
    \/ BackoffEnds
    \/ ContextEnds

HSpec == HInit /\ [][HNext]_httpVars

-----------------------------------------------------------------------------
(* The state of a call.                                                      *)
HTypeOK ==
    /\ auth \in {"none", "basic", "digest"}
    /\ place \in {"idle", "attempt", "send", "backoff"}
    /\ request.kind \in {"rpc", "rest", "batch"}
    /\ nextID \in 0 .. MaxCalls * BatchSize
    /\ attempt \in 0 .. MaxRetries
    /\ executed \in 0 .. 2 * (MaxRetries + 1)
    /\ outcome \in {"none", "result"} \cup Errors

(* Retries and two kinds of authentication around a command that must not be *)
(* executed at random: a result means the device executed it; with nothing   *)
(* lost and no digest challenge to an open device, exactly once, and an      *)
(* error then means it did not; after an error that is final nothing more is *)
(* sent; and an attempt never executes more than the challenge and the       *)
(* command.                                                                  *)
HttpSound ==
    /\ outcome = "result" => executed >= 1
    /\ ~lostAny /\ (auth # "digest" \/ request.kind = "rpc") =>
          executed = (IF outcome = "result" THEN 1 ELSE 0)
    /\ fatal => place = "idle"
    /\ request.kind # "rest" \/ auth # "digest" => executed <= attempt + 1

(* Violated. "Make initial request to get WWW-Authenticate challenge"        *)
(* (http.go:243): the initial request to an open Gen1 device is the command, *)
(* which the real request executes again.                                    *)
ChallengeIsHarmless == outcome = "result" /\ ~lostAny => executed <= 1

(* Violated. "Batch multiple RPC calls into a single round-trip" (rpc/doc.go:29):*)
(* over HTTP a batch is never executed.                                      *)
BatchRuns == request.kind = "batch" /\ place = "idle" /\ faults = 0 /\ ~ended /\ outcome # "auth" =>
                 outcome = "result"

(* Violated. "Retry timeout and network errors" (http.go:415): the timeout   *)
(* of the HTTP client is an error of the context, which is not tried again.  *)
TimeoutsAreRetried == outcome = "context" => ended
=============================================================================
