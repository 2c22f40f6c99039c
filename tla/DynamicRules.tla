---------------------------- MODULE DynamicRules ----------------------------
(***************************************************************************)
(* dynamic_rules.go: the cached rules document, GetDynamicRules as the     *)
(* rules loop and the host call it, fetchDynamicRules on the transport's   *)
(* breaker, and the server, which publishes newer versions meanwhile.  The *)
(* cache is read under a.mu, the request runs without it and the answer is *)
(* stored under a.mu again, so answers may be stored in any order.         *)
(***************************************************************************)
EXTENDS CircuitBreaker

CONSTANTS
    RulesLoop,      \* the rulesLoop goroutine; the other RulesCallers are the host's
    TTL,            \* the document's ttl, in ticks
    HTTPTimeout,    \* cfg.HTTPTimeout, in ticks
    RetryAttempts,  \* cfg.RetryAttempts
    MaxVersions     \* bound: versions the server publishes

ASSUME RulesAssumption ==
    /\ RulesLoop \in RulesCallers
    /\ TTL \in Nat \ {0} /\ HTTPTimeout \in Nat
    /\ RetryAttempts \in Nat /\ MaxVersions \in Nat \ {0}

VARIABLES
    latest,     \* the version the server serves
    cached,     \* a.cachedRules: a version, 0 for nil
    age,        \* now - a.rulesLastUpdate, which the code compares with the ttl
    place,      \* per rules caller: where in GetDynamicRules it is
    attempt,    \* per rules caller: attempt of fetchDynamicRules
    doc,        \* per rules caller: the version served when the request left;
                \* once it is answered, the version in the answer
    wireAge,    \* per rules caller: how long the request has been under way
    closed,     \* Stop was called: a.ctx is cancelled
    outdated    \* history: per version, how long ago a newer one replaced it

rulesVars == <<latest, cached, age, place, attempt, doc, wireAge, closed, outdated>>
allVars == <<vars, rulesVars>>

Telemetry == Callers \ RulesCallers
Versions == 1..MaxVersions
OutdatedMost == TTL + HTTPTimeout

RulesTypeOK ==
    /\ TypeOK
    /\ latest \in Versions /\ cached \in 0..latest
    /\ age \in 0..TTL
    /\ place \in [RulesCallers -> {"idle", "gate", "wire", "store", "exited"}]
    /\ attempt \in [RulesCallers -> 0..RetryAttempts]
    /\ doc \in [RulesCallers -> 0..latest]
    /\ wireAge \in [RulesCallers -> 0..HTTPTimeout]
    /\ closed \in BOOLEAN
    /\ outdated \in [Versions -> 0..OutdatedMost]

RulesInit ==
    /\ Init
    /\ latest = 1 /\ cached = 0 /\ age = TTL
    /\ place = [c \in RulesCallers |-> "idle"]
    /\ attempt = [c \in RulesCallers |-> 0]
    /\ doc = [c \in RulesCallers |-> 0] /\ wireAge = [c \in RulesCallers |-> 0]
    /\ closed = FALSE
    /\ outdated = [v \in Versions |-> 0]

-----------------------------------------------------------------------------
\* The context of the loop's calls is a.ctx, done once Stop has cancelled it.  A host's
\* own may end at any moment of its call, but hosts wait for what they asked of a server
\* that has recovered.
CtxDone(c) == c = RulesLoop /\ closed
CtxMayEnd(c) == IF c = RulesLoop THEN closed ELSE call[c] # "good"

Goto(c, p) == place' = [place EXCEPT ![c] = p]

\* A fresh start for the locals of fetchDynamicRules.
Clear(c) ==
    /\ attempt' = [attempt EXCEPT ![c] = 0]
    /\ wireAge' = [wireAge EXCEPT ![c] = 0]

\* Mutant of GiveUp: the stale document counts as fetched.
GiveUpRenews(c) ==
    /\ Goto(c, "idle") /\ Clear(c)
    /\ age' = 0

\* A failed fetch: GetDynamicRules returns the last known rules, nil if there are
\* none, and leaves the cache alone.
GiveUp(c) ==
    /\ Goto(c, "idle") /\ Clear(c)
    /\ UNCHANGED age

\* Mutant of Lookup: whatever is cached is served for ever.
LookupNeverExpires(c) ==
    /\ place[c] = "idle"
    /\ cached = 0
    /\ Goto(c, "gate")
    /\ UNCHANGED <<vars, latest, cached, age, attempt, doc, wireAge, closed, outdated>>

\* GetDynamicRules finds no document within its ttl.  Otherwise it returns the
\* cached one at once and changes nothing.
Lookup(c) ==
    /\ place[c] = "idle"
    /\ cached = 0 \/ age >= TTL
    /\ Goto(c, "gate")
    /\ UNCHANGED <<vars, latest, cached, age, attempt, doc, wireAge, closed, outdated>>

\* Mutant of Again: a retry is always granted.
AgainForever(c) ==
    /\ Goto(c, "gate")
    /\ wireAge' = [wireAge EXCEPT ![c] = 0]
    /\ UNCHANGED <<attempt, age>>

\* Another attempt, if one is left and the pause is not cut short by the context.
Again(c) ==
    \/ /\ attempt[c] < RetryAttempts /\ ~CtxDone(c)
       /\ Goto(c, "gate")
       /\ attempt' = [attempt EXCEPT ![c] = @ + 1]
       /\ wireAge' = [wireAge EXCEPT ![c] = 0]
       /\ UNCHANGED age
    \/ /\ attempt[c] >= RetryAttempts \/ CtxMayEnd(c)
       /\ GiveUp(c)

\* limiterGate denies a slot; the wait burns an attempt.
Denied(c) ==
    /\ place[c] = "gate"
    /\ Again(c)
    /\ UNCHANGED <<vars, latest, cached, doc, closed, outdated>>

\* The breaker rejects the call.
Refused(c) ==
    /\ place[c] = "gate"
    /\ state = "open" /\ elapsed < RecoveryTimeout
    /\ GiveUp(c)
    /\ UNCHANGED <<vars, latest, cached, doc, closed, outdated>>

\* A slot, Admit, and the GET leaves.
Fetch(c) ==
    /\ place[c] = "gate"
    /\ Send(c)
    /\ Goto(c, "wire")
    /\ doc' = [doc EXCEPT ![c] = latest]
    /\ UNCHANGED <<latest, cached, age, attempt, wireAge, closed, outdated>>

\* 200 with the version current at some moment of the request, or with a body that does
\* not parse: before the server has recovered, or cut off by the end of the context.
Fetched(c) ==
    /\ place[c] = "wire"
    /\ Reply(c, "success")
    /\ \/ /\ Goto(c, "store") /\ Clear(c)
          /\ \E v \in doc[c]..latest : doc' = [doc EXCEPT ![c] = v]
          /\ UNCHANGED age
       \/ /\ call[c] = "doubtful" \/ CtxMayEnd(c)
          /\ GiveUp(c)
          /\ doc' = [doc EXCEPT ![c] = 0]
    /\ UNCHANGED <<latest, cached, closed, outdated>>

\* A network error, 429 or any other status.
FetchFails(c) ==
    /\ place[c] = "wire"
    /\ \E v \in {"failure", "permanent"} : Reply(c, v)
    /\ Again(c)
    /\ doc' = [doc EXCEPT ![c] = 0]
    /\ UNCHANGED <<latest, cached, closed, outdated>>

\* The context ends during the request, which the breaker counts as a failure.
Cancelled(c) ==
    /\ place[c] = "wire" /\ CtxMayEnd(c)
    /\ failureCount < MaxFailureCount /\ Failure
    /\ call' = [call EXCEPT ![c] = "idle"]
    /\ sinceFailure' = 0
    /\ GiveUp(c)
    /\ doc' = [doc EXCEPT ![c] = 0]
    /\ UNCHANGED <<healthy, latest, cached, closed, outdated>>

\* The fetched document replaces whatever is cached by now, and is returned.
Store(c) ==
    /\ place[c] = "store"
    /\ cached' = doc[c]
    /\ age' = 0
    /\ doc' = [doc EXCEPT ![c] = 0]
    /\ Goto(c, "idle")
    /\ UNCHANGED <<vars, latest, attempt, wireAge, closed, outdated>>

\* rulesLoop sees that its context is cancelled.
LoopExit ==
    /\ closed /\ place[RulesLoop] = "idle"
    /\ Goto(RulesLoop, "exited")
    /\ UNCHANGED <<vars, latest, cached, age, attempt, doc, wireAge, closed, outdated>>

Stop ==
    /\ ~closed
    /\ closed' = TRUE
    /\ UNCHANGED <<vars, latest, cached, age, place, attempt, doc, wireAge, outdated>>

\* The server publishes a newer document.
Publish ==
    /\ latest < MaxVersions
    /\ latest' = latest + 1
    /\ UNCHANGED <<vars, cached, age, place, attempt, doc, wireAge, closed, outdated>>

\* A tick, which no request outlives by more than HTTPTimeout; the step from an
\* answer to the cache takes no time.
RulesTick ==
    /\ \A c \in RulesCallers : /\ place[c] # "store"
                               /\ place[c] = "wire" => wireAge[c] < HTTPTimeout
    /\ elapsed' = Later(elapsed) /\ sinceFailure' = Later(sinceFailure)
    /\ age' = IF age < TTL THEN age + 1 ELSE TTL
    /\ wireAge' = [c \in RulesCallers |-> IF place[c] = "wire" THEN wireAge[c] + 1 ELSE 0]
    /\ outdated' = [v \in Versions |-> IF v < latest /\ outdated[v] < OutdatedMost
                                       THEN outdated[v] + 1 ELSE outdated[v]]
    /\ UNCHANGED <<state, failureCount, call, healthy, latest, cached, place, attempt, doc, closed>>

RulesStep(c) ==
    \/ Denied(c) \/ Refused(c) \/ Fetch(c) \/ Fetched(c) \/ FetchFails(c) \/ Cancelled(c)
    \/ Store(c)

TelemetrySend(c) == Send(c) /\ UNCHANGED rulesVars
TelemetryReply(c) == (\E v \in Verdicts : Reply(c, v)) /\ UNCHANGED rulesVars

RulesNext ==
    \/ \E c \in Telemetry : TelemetrySend(c) \/ TelemetryReply(c)
    \/ \E c \in RulesCallers : Lookup(c) \/ RulesStep(c)
    \/ LoopExit \/ Stop \/ Publish
    \/ RulesTick
    \/ Heal /\ UNCHANGED rulesVars

RulesSpec == RulesInit /\ [][RulesNext]_allVars

\* As in CircuitBreaker; the loop's ticker fires, a request ends.  The limiter
\* does not deny a caller for ever (its window slides and the telemetry loops
\* pause), and a cancelled loop keeps finding ctx.Done ready.
RulesFairness ==
    /\ WF_allVars(RulesTick)
    /\ \A c \in Telemetry : WF_allVars(TelemetrySend(c)) /\ WF_allVars(TelemetryReply(c))
    /\ \A c \in RulesCallers : WF_allVars(RulesStep(c))
    /\ WF_allVars(Lookup(RulesLoop)) /\ SF_allVars(Fetch(RulesLoop)) /\ SF_allVars(LoopExit)

FairRulesSpec == RulesSpec /\ RulesFairness

-----------------------------------------------------------------------------
\* A document handed out within its ttl was the current one at most the age of the
\* cache and one request ago, even when a slow answer was stored over a newer one
\* and whatever failed polls returned in between (GetDynamicRules).
FreshEnough ==
    cached # 0 /\ age < TTL => outdated[cached] <= age + HTTPTimeout

\* Once the server has recovered and publishes nothing new, the cache ends up with
\* the current rules for good: neither a late answer, nor the breaker, nor denials
\* keep an old document in it.
RulesConverge == <>[]healthy /\ []~closed => <>[](cached = latest)

\* Stop's wait for rulesLoop ends: fetchDynamicRules runs out of attempts and the
\* loop sees that its context is cancelled.
LoopEnds == closed ~> place[RulesLoop] = "exited"
=============================================================================
