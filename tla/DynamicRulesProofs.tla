-------------------------- MODULE DynamicRulesProofs --------------------------
(***************************************************************************)
(* TLAPS proofs about the circuit breaker, alone and shared with the rules *)
(* callers, and about the rules document, for every set of callers, every  *)
(* threshold, timeout and ttl, any number of retries and versions: the     *)
(* breaker opens and closes as it should, and the cache is as fresh as its *)
(* ttl claims, give or take one request.                                   *)
(***************************************************************************)
EXTENDS DynamicRules, TLAPS

-----------------------------------------------------------------------------
\* The breaker by itself, for any callers.

\* The inductive invariant: ClosedBelowThreshold relates the state to the count,
\* HalfOpenAfterWindow relates it to the clock, and OpenedAtLastFailure the clock
\* to the failures reported.
IInv == TypeOK /\ ClosedBelowThreshold /\ HalfOpenAfterWindow /\ OpenedAtLastFailure

\* newCircuitBreaker establishes the invariant.
LEMMA InitInv == Init => IInv
<1> SUFFICES ASSUME Init PROVE IInv
  OBVIOUS
<1>1. TypeOK
  <2>1. healthy \in BOOLEAN
    BY Zenon DEF Init
  <2>2. /\ state \in States /\ failureCount \in Nat
        /\ elapsed \in 0..RecoveryTimeout /\ sinceFailure \in 0..RecoveryTimeout
    BY BreakerAssumption DEF Init, States
  <2>3. call \in [Callers -> {"idle", "doubtful", "good"}]
    BY DEF Init
  <2> QED
    BY <2>1, <2>2, <2>3 DEF TypeOK
<1>2. ClosedBelowThreshold /\ HalfOpenAfterWindow /\ OpenedAtLastFailure
  BY BreakerAssumption
     DEF Init, ClosedBelowThreshold, HalfOpenAfterWindow, OpenedAtLastFailure
<1> QED
  BY <1>1, <1>2 DEF IInv

\* Every admission, verdict and clock tick preserves the invariant.
LEMMA NextInv == IInv /\ [Next]_vars => IInv'
<1> SUFFICES ASSUME IInv, [Next]_vars PROVE IInv'
  OBVIOUS
<1> USE BreakerAssumption DEF IInv, TypeOK, ClosedBelowThreshold,
        HalfOpenAfterWindow, OpenedAtLastFailure, States
<1>1. ASSUME NEW c \in Callers, Send(c) PROVE IInv'
  BY <1>1 DEF Send, Admitted
<1>2. ASSUME NEW c \in Callers, NEW v \in Verdicts, Reply(c, v) PROVE IInv'
  <2>1. call' \in [Callers -> {"idle", "doubtful", "good"}]
        /\ healthy' \in BOOLEAN
    BY <1>2 DEF Reply
  <2>2. CASE v = "success" /\ Success
    <3>1. sinceFailure' = sinceFailure
      BY <1>2, <2>2 DEF Reply, CountsAsFailure
    <3> QED
      BY <2>1, <2>2, <3>1 DEF Success
  <2>3. CASE CountsAsFailure(c, v) /\ Failure
    <3>1. sinceFailure' = 0
      BY <1>2, <2>3 DEF Reply
    <3> QED
      BY <2>1, <2>3, <3>1 DEF Failure
  <2>4. CASE v = "permanent" /\ c \notin RulesCallers /\ UNCHANGED breaker
    <3>1. sinceFailure' = sinceFailure
      BY <1>2, <2>4 DEF Reply, CountsAsFailure
    <3> QED
      BY <2>1, <2>4, <3>1 DEF breaker
  <2> QED
    BY <1>2, <2>2, <2>3, <2>4 DEF Reply, Report
<1>3. CASE Tick
  BY <1>3 DEF Tick, Later
<1>4. CASE Heal
  BY <1>4 DEF Heal, breaker
<1>5. CASE UNCHANGED vars
  BY <1>5 DEF vars
<1> QED
  BY <1>1, <1>2, <1>3, <1>4, <1>5 DEF Next

\* The inductive invariant holds in every reachable state of the breaker.
THEOREM Invariant == Spec => []IInv
  BY InitInv, NextInv, PTL DEF Spec

\* Types of the breaker's variables (CircuitBreaker struct).
THEOREM TypeCorrect == Spec => []TypeOK
  BY Invariant, PTL DEF IInv

\* The breaker is closed exactly below the threshold, under any interleaving of
\* verdicts (Success, Failure).
THEOREM ClosedBelow == Spec => []ClosedBelowThreshold
  BY Invariant, PTL DEF IInv

\* No request leaves during the recovery window of a full failure count (Admit).
THEOREM QuarantineHolds == Spec => Quarantine
<1> DEFINE Honoured ==
      \A c \in Callers : call[c] = "idle" /\ call'[c] # "idle" =>
          failureCount < Threshold \/ sinceFailure = RecoveryTimeout
<1>1. IInv /\ [Next]_vars => [Honoured]_vars
  <2> SUFFICES ASSUME IInv, Next, NEW c \in Callers,
                      call[c] = "idle", call'[c] # "idle"
               PROVE  failureCount < Threshold \/ sinceFailure = RecoveryTimeout
    BY DEF vars
  <2> USE BreakerAssumption DEF IInv, TypeOK, ClosedBelowThreshold,
          HalfOpenAfterWindow, OpenedAtLastFailure, States
  <2>1. ASSUME NEW d \in Callers, Send(d)
        PROVE  failureCount < Threshold \/ sinceFailure = RecoveryTimeout
    BY <2>1 DEF Send, Admitted
  <2>2. ASSUME NEW d \in Callers, NEW v \in Verdicts, Reply(d, v) PROVE FALSE
    BY <2>2 DEF Reply
  <2>3. ~Tick /\ ~Heal
    BY DEF Tick, Heal
  <2> QED
    BY <2>1, <2>2, <2>3 DEF Next
<1> QED
  BY Invariant, <1>1, PTL DEF Spec, Quarantine

-----------------------------------------------------------------------------
\* The rules document.

AgeTypes ==
  /\ latest \in Versions /\ cached \in 0..latest
  /\ age \in Nat
  /\ place \in [RulesCallers -> {"idle", "gate", "wire", "store", "exited"}]
  /\ doc \in [RulesCallers -> Nat]
  /\ wireAge \in [RulesCallers -> 0..HTTPTimeout]
  /\ outdated \in [Versions -> Nat]

\* An older version was replaced earlier; what is served was not replaced at all.
Replaced ==
  /\ \A v, w \in Versions : v <= w => outdated[w] <= outdated[v]
  /\ \A v \in Versions : v >= latest => outdated[v] = 0

\* A version on its way was current when its request left, and an answer took no longer
\* than a request may.
OnItsWay ==
  \A c \in RulesCallers :
    /\ place[c] \in {"wire", "store"} => doc[c] \in 1..latest
    /\ place[c] = "wire" => outdated[doc[c]] <= wireAge[c]
    /\ place[c] = "store" => outdated[doc[c]] <= HTTPTimeout

FreshInv == AgeTypes /\ Replaced /\ OnItsWay /\ FreshEnough

LEMMA FreshInvInit == RulesInit => FreshInv
BY RulesAssumption DEF RulesInit, FreshInv, AgeTypes, Replaced, OnItsWay, FreshEnough, Versions

\* A caller goes on without an answer and without a change to the cache.
LEMMA WithoutAnswer ==
  ASSUME FreshInv, NEW c \in RulesCallers,
         GiveUp(c) \/ Again(c) \/ (Goto(c, "gate") /\ UNCHANGED <<age, wireAge>>),
         UNCHANGED <<latest, cached, outdated>>,
         doc' \in [RulesCallers -> Nat],
         \A d \in RulesCallers \ {c} : doc'[d] = doc[d]
  PROVE  FreshInv'
<1>1. /\ age' = age
      /\ wireAge' \in [RulesCallers -> 0..HTTPTimeout]
      /\ \A d \in RulesCallers \ {c} : wireAge'[d] = wireAge[d]
  BY RulesAssumption DEF GiveUp, Again, Clear, FreshInv, AgeTypes
<1>2. PICK p \in {"idle", "gate"} : place' = [place EXCEPT ![c] = p]
  BY DEF GiveUp, Again, Goto
<1> QED
  BY <1>1, <1>2 DEF FreshInv, AgeTypes, Replaced, OnItsWay, FreshEnough, Versions

LEMMA FreshInvNext == FreshInv /\ [RulesNext]_allVars => FreshInv'
<1> SUFFICES ASSUME FreshInv, [RulesNext]_allVars PROVE FreshInv'
  OBVIOUS
<1>a. ASSUME UNCHANGED rulesVars PROVE FreshInv'
  BY <1>a DEF rulesVars, FreshInv, AgeTypes, Replaced, OnItsWay, FreshEnough, Versions
<1>1. CASE UNCHANGED allVars
  BY <1>1, <1>a DEF allVars
<1>2. ASSUME NEW c \in Telemetry, TelemetrySend(c) \/ TelemetryReply(c) PROVE FreshInv'
  BY <1>2, <1>a DEF TelemetrySend, TelemetryReply
<1>3. ASSUME NEW c \in RulesCallers, Lookup(c) \/ Denied(c) \/ Refused(c) PROVE FreshInv'
  BY <1>3, WithoutAnswer DEF Lookup, Denied, Refused, FreshInv, AgeTypes
<1>4. ASSUME NEW c \in RulesCallers, FetchFails(c) \/ Cancelled(c) PROVE FreshInv'
  BY <1>4, WithoutAnswer DEF FetchFails, Cancelled, FreshInv, AgeTypes
<1>5. ASSUME NEW c \in RulesCallers, Fetch(c) PROVE FreshInv'
  <2>1. /\ place' = [place EXCEPT ![c] = "wire"]
        /\ doc' = [doc EXCEPT ![c] = latest]
        /\ UNCHANGED <<latest, cached, age, wireAge, outdated>>
    BY <1>5 DEF Fetch, Goto
  <2>2. latest \in 1..latest /\ outdated[latest] = 0
    BY RulesAssumption DEF FreshInv, AgeTypes, Replaced, Versions
  <2>3. AgeTypes' /\ Replaced' /\ FreshEnough'
    BY <2>1, <2>2 DEF FreshInv, AgeTypes, Replaced, FreshEnough, Versions
  <2>4. OnItsWay'
    BY <2>1, <2>2, RulesAssumption DEF FreshInv, AgeTypes, OnItsWay
  <2> QED
    BY <2>3, <2>4 DEF FreshInv
<1>6. ASSUME NEW c \in RulesCallers, Fetched(c) PROVE FreshInv'
  <2>1. CASE GiveUp(c) /\ doc' = [doc EXCEPT ![c] = 0]
    BY <1>6, <2>1, WithoutAnswer DEF Fetched, FreshInv, AgeTypes
  <2>2. CASE Goto(c, "store") /\ Clear(c)
               /\ \E v \in doc[c]..latest : doc' = [doc EXCEPT ![c] = v]
    <3>1. PICK v \in doc[c]..latest : doc' = [doc EXCEPT ![c] = v]
      BY <2>2
    <3>2. /\ place[c] = "wire" /\ place' = [place EXCEPT ![c] = "store"]
          /\ wireAge' = [wireAge EXCEPT ![c] = 0]
          /\ UNCHANGED <<latest, cached, age, outdated>>
      BY <1>6, <2>2 DEF Fetched, Goto, Clear, GiveUp
    <3>3. v \in 1..latest /\ v \in Versions /\ doc[c] \in Versions /\ doc[c] <= v
      BY <3>2, RulesAssumption DEF FreshInv, AgeTypes, OnItsWay, Versions
    <3>4. outdated[v] <= HTTPTimeout
      BY <3>2, <3>3, RulesAssumption DEF FreshInv, AgeTypes, Replaced, OnItsWay
    <3>5. AgeTypes'
      BY <3>1, <3>2, <3>3, RulesAssumption DEF FreshInv, AgeTypes
    <3>6. Replaced' /\ FreshEnough'
      BY <3>2 DEF FreshInv, Replaced, FreshEnough
    <3>7. OnItsWay'
      BY <3>1, <3>2, <3>3, <3>4 DEF FreshInv, AgeTypes, OnItsWay
    <3> QED
      BY <3>5, <3>6, <3>7 DEF FreshInv
  <2> QED
    BY <1>6, <2>1, <2>2 DEF Fetched
<1>7. ASSUME NEW c \in RulesCallers, Store(c) PROVE FreshInv'
  <2>1. /\ place[c] = "store" /\ place' = [place EXCEPT ![c] = "idle"]
        /\ cached' = doc[c] /\ age' = 0 /\ doc' = [doc EXCEPT ![c] = 0]
        /\ UNCHANGED <<latest, wireAge, outdated>>
    BY <1>7 DEF Store, Goto
  <2>2. doc[c] \in 1..latest /\ outdated[doc[c]] <= HTTPTimeout
    BY <2>1 DEF FreshInv, OnItsWay
  <2>3. AgeTypes' /\ Replaced' /\ OnItsWay'
    BY <2>1, <2>2 DEF FreshInv, AgeTypes, Replaced, OnItsWay, Versions
  <2>4. FreshEnough'
    BY <2>1, <2>2, RulesAssumption DEF FreshEnough
  <2> QED
    BY <2>3, <2>4 DEF FreshInv
<1>8. CASE LoopExit
  <2>1. /\ place' = [place EXCEPT ![RulesLoop] = "exited"]
        /\ UNCHANGED <<latest, cached, age, doc, wireAge, outdated>>
    BY <1>8 DEF LoopExit, Goto
  <2> QED
    BY <2>1 DEF FreshInv, AgeTypes, Replaced, OnItsWay, FreshEnough, Versions
<1>9. CASE Stop
  BY <1>9 DEF Stop, FreshInv, AgeTypes, Replaced, OnItsWay, FreshEnough, Versions
<1>10. CASE Publish
  BY <1>10, RulesAssumption
     DEF Publish, FreshInv, AgeTypes, Replaced, OnItsWay, FreshEnough, Versions
<1>11. CASE RulesTick
  <2>1. /\ latest' = latest /\ cached' = cached /\ place' = place /\ doc' = doc
        /\ age' = IF age < TTL THEN age + 1 ELSE TTL
        /\ wireAge' = [c \in RulesCallers |-> IF place[c] = "wire" THEN wireAge[c] + 1 ELSE 0]
        /\ outdated' = [v \in Versions |-> IF v < latest /\ outdated[v] < OutdatedMost
                                           THEN outdated[v] + 1 ELSE outdated[v]]
        /\ \A c \in RulesCallers : /\ place[c] # "store"
                                   /\ place[c] = "wire" => wireAge[c] < HTTPTimeout
    BY <1>11 DEF RulesTick
  <2>2. TTL \in Nat /\ HTTPTimeout \in Nat /\ MaxVersions \in Nat /\ OutdatedMost \in Nat
    BY RulesAssumption DEF OutdatedMost
  <2>3. \A v \in Versions : outdated[v] \in Nat /\ outdated'[v] \in outdated[v]..(outdated[v] + 1)
    BY <2>1, <2>2 DEF FreshInv, AgeTypes
  <2>4. AgeTypes'
    BY <2>1, <2>2, <2>3 DEF FreshInv, AgeTypes, Versions
  <2>5. Replaced'
    <3>1. ASSUME NEW v \in Versions, NEW w \in Versions, v <= w PROVE outdated'[w] <= outdated'[v]
      <4>1. v \in Nat /\ w \in Nat /\ latest \in Nat
        BY <2>2 DEF FreshInv, AgeTypes, Versions
      <4>2. outdated[w] <= outdated[v] /\ (w >= latest => outdated[w] = 0)
        BY <3>1 DEF FreshInv, Replaced
      <4>3. /\ outdated'[v] = IF v < latest /\ outdated[v] < OutdatedMost THEN outdated[v] + 1 ELSE outdated[v]
            /\ outdated'[w] = IF w < latest /\ outdated[w] < OutdatedMost THEN outdated[w] + 1 ELSE outdated[w]
        BY <2>1
      <4> QED
        BY <2>2, <2>3, <3>1, <4>1, <4>2, <4>3
    <3>2. ASSUME NEW v \in Versions, v >= latest PROVE outdated'[v] = 0
      <4>1. v \in Nat /\ latest \in Nat
        BY <2>2 DEF FreshInv, AgeTypes, Versions
      <4> QED
        BY <2>1, <3>2, <4>1 DEF FreshInv, Replaced
    <3> QED
      BY <2>1, <3>1, <3>2 DEF Replaced
  <2>6. OnItsWay'
    <3>1. ASSUME NEW c \in RulesCallers
          PROVE  /\ place[c] = "wire" => doc[c] \in 1..latest /\ outdated'[doc[c]] <= wireAge'[c]
                 /\ place[c] # "store"
      <4>1. place[c] = "wire" => doc[c] \in 1..latest /\ outdated[doc[c]] <= wireAge[c]
        BY DEF FreshInv, OnItsWay
      <4>2. doc[c] \in 1..latest => doc[c] \in Versions
        BY <2>2 DEF FreshInv, AgeTypes, Versions
      <4>3. wireAge[c] \in Nat
        BY <2>2 DEF FreshInv, AgeTypes
      <4>4. place[c] # "store" /\ (place[c] = "wire" => wireAge'[c] = wireAge[c] + 1)
        BY <2>1
      <4> QED
        BY <2>3, <4>1, <4>2, <4>3, <4>4
    <3> QED
      BY <2>1, <3>1 DEF OnItsWay
  <2>7. FreshEnough'
    BY <2>1, <2>2, <2>3 DEF FreshInv, AgeTypes, FreshEnough, Versions
  <2> QED
    BY <2>4, <2>5, <2>6, <2>7 DEF FreshInv
<1>12. CASE Heal /\ UNCHANGED rulesVars
  BY <1>12, <1>a
<1> QED
  BY <1>1, <1>2, <1>3, <1>4, <1>5, <1>6, <1>7, <1>8, <1>9, <1>10, <1>11, <1>12
     DEF RulesNext, RulesStep

\* For every instance: a document handed out within its ttl was replaced at most the age
\* of the cache and one request ago, however answers of concurrent calls overtake each
\* other and whatever polls fail (GetDynamicRules, fetchDynamicRules).
THEOREM CacheIsFresh == RulesSpec => []FreshEnough
<1>1. FreshInv => FreshEnough
  BY DEF FreshInv
<1> QED
  BY FreshInvInit, FreshInvNext, <1>1, PTL DEF RulesSpec

-----------------------------------------------------------------------------
\* The rules calls share the breaker with the telemetry calls; a request that is
\* cancelled under way reports a failure of its own.
LEMMA SharedBreaker == IInv /\ [RulesNext]_allVars => IInv'
<1> SUFFICES ASSUME IInv, [RulesNext]_allVars PROVE IInv'
  OBVIOUS
<1>1. ASSUME UNCHANGED vars \/ Next PROVE IInv'
  BY <1>1, NextInv
<1>2. ASSUME NEW c \in Callers, Send(c) \/ \E v \in Verdicts : Reply(c, v) PROVE IInv'
  BY <1>1, <1>2 DEF Next
<1>3. RulesCallers \subseteq Callers /\ Telemetry \subseteq Callers
  BY CallersAssumption DEF Telemetry
<1>4. ASSUME NEW c \in Telemetry, TelemetrySend(c) \/ TelemetryReply(c) PROVE IInv'
  BY <1>2, <1>3, <1>4 DEF TelemetrySend, TelemetryReply
<1>5. ASSUME NEW c \in RulesCallers, Cancelled(c) PROVE IInv'
  <2>1. /\ Failure /\ call' = [call EXCEPT ![c] = "idle"]
        /\ sinceFailure' = 0 /\ healthy' = healthy
    BY <1>5 DEF Cancelled
  <2> QED
    BY <1>3, <2>1, BreakerAssumption DEF IInv, TypeOK, ClosedBelowThreshold,
       HalfOpenAfterWindow, OpenedAtLastFailure, States, Failure
<1>6. ASSUME NEW c \in RulesCallers, Lookup(c) \/ RulesStep(c) PROVE IInv'
  <2>1. CASE Fetch(c)
    BY <1>2, <1>3, <2>1 DEF Fetch
  <2>2. CASE Fetched(c) \/ FetchFails(c)
    BY <1>2, <1>3, <2>2 DEF Fetched, FetchFails, Verdicts
  <2>3. CASE Lookup(c) \/ Denied(c) \/ Refused(c) \/ Store(c)
    BY <1>1, <2>3 DEF Lookup, Denied, Refused, Store
  <2> QED
    BY <1>5, <1>6, <2>1, <2>2, <2>3 DEF RulesStep
<1>7. CASE RulesTick
  BY <1>7, BreakerAssumption DEF RulesTick, Later, IInv, TypeOK, ClosedBelowThreshold,
     HalfOpenAfterWindow, OpenedAtLastFailure
<1>8. CASE LoopExit \/ Stop \/ Publish
  BY <1>1, <1>8 DEF LoopExit, Stop, Publish
<1>9. CASE Heal /\ UNCHANGED rulesVars
  BY <1>1, <1>9 DEF Next
<1>10. CASE UNCHANGED allVars
  BY <1>1, <1>10 DEF allVars
<1> QED
  BY <1>4, <1>6, <1>7, <1>8, <1>9, <1>10 DEF RulesNext

LEMMA SharedInvariant == RulesSpec => []IInv
<1>1. RulesInit => Init
  BY DEF RulesInit
<1> QED
  BY <1>1, InitInv, SharedBreaker, PTL DEF RulesSpec

\* The breaker is closed exactly below its threshold also while rules requests, some
\* of them cancelled by Stop, report to it (fetchDynamicRules).
THEOREM SharedClosedBelow == RulesSpec => []ClosedBelowThreshold
  BY SharedInvariant, PTL DEF IInv

\* No request of either kind leaves while the breaker holds its quarantine (Admit).
THEOREM SharedQuarantine == RulesSpec => Quarantine
<1> DEFINE Honoured ==
      \A c \in Callers : call[c] = "idle" /\ call'[c] # "idle" =>
          failureCount < Threshold \/ sinceFailure = RecoveryTimeout
<1>1. IInv /\ [RulesNext]_allVars => [Honoured]_vars
  <2> SUFFICES ASSUME IInv, RulesNext, NEW c \in Callers,
                      call[c] = "idle", call'[c] # "idle"
               PROVE  failureCount < Threshold \/ sinceFailure = RecoveryTimeout
    BY DEF vars, allVars
  <2>1. RulesCallers \subseteq Callers /\ Telemetry \subseteq Callers
    BY CallersAssumption DEF Telemetry
  <2>2. ASSUME NEW d \in Callers, Send(d)
        PROVE  failureCount < Threshold \/ sinceFailure = RecoveryTimeout
    BY <2>2, BreakerAssumption DEF Send, Admitted, IInv, TypeOK, ClosedBelowThreshold,
       HalfOpenAfterWindow, OpenedAtLastFailure, States
  <2>3. ASSUME NEW d \in Callers, NEW v \in Verdicts, Reply(d, v) PROVE FALSE
    BY <2>3 DEF Reply, IInv, TypeOK
  <2>4. ASSUME NEW d \in Telemetry, TelemetrySend(d) \/ TelemetryReply(d)
        PROVE  failureCount < Threshold \/ sinceFailure = RecoveryTimeout
    BY <2>1, <2>2, <2>3, <2>4 DEF TelemetrySend, TelemetryReply
  <2>5. ASSUME NEW d \in RulesCallers, Lookup(d) \/ RulesStep(d)
        PROVE  failureCount < Threshold \/ sinceFailure = RecoveryTimeout
    <3>1. CASE Fetch(d)
      BY <2>1, <2>2, <3>1 DEF Fetch
    <3>2. CASE Fetched(d) \/ FetchFails(d)
      BY <2>1, <2>3, <3>2 DEF Fetched, FetchFails, Verdicts
    <3>3. CASE Lookup(d) \/ Denied(d) \/ Refused(d) \/ Store(d)
      BY <3>3 DEF Lookup, Denied, Refused, Store, vars
    <3>4. CASE Cancelled(d)
      BY <2>1, <3>4 DEF Cancelled, IInv, TypeOK
    <3> QED
      BY <2>5, <3>1, <3>2, <3>3, <3>4 DEF RulesStep
  <2>6. CASE LoopExit \/ Stop \/ Publish \/ RulesTick \/ (Heal /\ UNCHANGED rulesVars)
    BY <2>6 DEF LoopExit, Stop, Publish, RulesTick, Heal, vars
  <2> QED
    BY <2>4, <2>5, <2>6 DEF RulesNext
<1> QED
  BY SharedInvariant, <1>1, PTL DEF RulesSpec, Quarantine

-----------------------------------------------------------------------------
\* The part of RulesTypeOK that is not the breaker's.  No answer, however late, brings
\* a version the server has not published (cached, doc), and the retries and the age of
\* a request stay within their limits.
RulesTypes ==
  /\ latest \in Versions /\ cached \in 0..latest
  /\ age \in 0..TTL
  /\ place \in [RulesCallers -> {"idle", "gate", "wire", "store", "exited"}]
  /\ attempt \in [RulesCallers -> 0..RetryAttempts]
  /\ doc \in [RulesCallers -> 0..latest]
  /\ wireAge \in [RulesCallers -> 0..HTTPTimeout]
  /\ closed \in BOOLEAN
  /\ outdated \in [Versions -> 0..OutdatedMost]

\* The ways to go on without an answer.
LEMMA GoesOn ==
  ASSUME RulesTypes, NEW c \in RulesCallers, GiveUp(c) \/ Again(c)
  PROVE  /\ age' = age
         /\ place' \in [RulesCallers -> {"idle", "gate", "wire", "store", "exited"}]
         /\ attempt' \in [RulesCallers -> 0..RetryAttempts]
         /\ wireAge' \in [RulesCallers -> 0..HTTPTimeout]
BY RulesAssumption DEF RulesTypes, GiveUp, Again, Goto, Clear

LEMMA RulesTypesNext == RulesTypes /\ [RulesNext]_allVars => RulesTypes'
<1> SUFFICES ASSUME RulesTypes, [RulesNext]_allVars PROVE RulesTypes'
  OBVIOUS
<1>1. ASSUME UNCHANGED rulesVars PROVE RulesTypes'
  BY <1>1 DEF rulesVars, RulesTypes
<1>2. CASE UNCHANGED allVars \/ (Heal /\ UNCHANGED rulesVars)
  BY <1>1, <1>2 DEF allVars
<1>3. ASSUME NEW c \in Telemetry, TelemetrySend(c) \/ TelemetryReply(c) PROVE RulesTypes'
  BY <1>1, <1>3 DEF TelemetrySend, TelemetryReply
<1>4. ASSUME NEW c \in RulesCallers, Lookup(c) PROVE RulesTypes'
  BY <1>4 DEF Lookup, Goto, RulesTypes
<1>5. ASSUME NEW c \in RulesCallers, Denied(c) \/ Refused(c) PROVE RulesTypes'
  BY <1>5, GoesOn DEF Denied, Refused, RulesTypes
<1>6. ASSUME NEW c \in RulesCallers, FetchFails(c) \/ Cancelled(c) PROVE RulesTypes'
  <2>1. GiveUp(c) \/ Again(c)
    BY <1>6 DEF FetchFails, Cancelled
  <2>2. doc' = [doc EXCEPT ![c] = 0] /\ UNCHANGED <<latest, cached, closed, outdated>>
    BY <1>6 DEF FetchFails, Cancelled
  <2>3. doc' \in [RulesCallers -> 0..latest]
    BY <2>2, RulesAssumption DEF RulesTypes, Versions
  <2> QED
    BY <2>1, <2>2, <2>3, GoesOn DEF RulesTypes
<1>7. ASSUME NEW c \in RulesCallers, Fetch(c) PROVE RulesTypes'
  <2>1. latest \in 0..latest
    BY RulesAssumption DEF RulesTypes, Versions
  <2> QED
    BY <1>7, <2>1 DEF Fetch, Goto, RulesTypes
<1>8. ASSUME NEW c \in RulesCallers, Fetched(c) PROVE RulesTypes'
  <2>1. UNCHANGED <<latest, cached, closed, outdated>>
    BY <1>8 DEF Fetched
  <2>2. doc' \in [RulesCallers -> 0..latest]
    <3>1. latest \in Nat /\ doc[c] \in 0..latest
      BY RulesAssumption DEF RulesTypes, Versions
    <3>2. \A v \in doc[c]..latest : v \in 0..latest
      BY <3>1
    <3>3. \E v \in 0..latest : doc' = [doc EXCEPT ![c] = v]
      <4>1. 0 \in 0..latest
        BY <3>1
      <4> QED
        BY <1>8, <3>2, <4>1 DEF Fetched
    <3> QED
      BY <3>3 DEF RulesTypes
  <2>3. CASE GiveUp(c)
    BY <2>1, <2>2, <2>3, GoesOn DEF RulesTypes
  <2>4. CASE Goto(c, "store") /\ Clear(c) /\ UNCHANGED age
    BY <2>1, <2>2, <2>4, RulesAssumption DEF RulesTypes, Goto, Clear
  <2> QED
    BY <1>8, <2>3, <2>4 DEF Fetched
<1>9. ASSUME NEW c \in RulesCallers, Store(c) PROVE RulesTypes'
  <2>1. 0 \in 0..latest /\ 0 \in 0..TTL
    BY RulesAssumption DEF RulesTypes, Versions
  <2> QED
    BY <1>9, <2>1 DEF Store, Goto, RulesTypes
<1>10. CASE LoopExit \/ Stop
  BY <1>10 DEF LoopExit, Stop, Goto, RulesTypes
<1>11. CASE Publish
  <2>1. /\ latest' = latest + 1 /\ latest < MaxVersions
        /\ UNCHANGED <<cached, age, place, attempt, doc, wireAge, closed, outdated>>
    BY <1>11 DEF Publish
  <2>2. latest' \in Versions /\ (0..latest) \subseteq (0..latest')
    BY <2>1, RulesAssumption DEF RulesTypes, Versions
  <2> QED
    BY <2>1, <2>2 DEF RulesTypes
<1>12. CASE RulesTick
  <2>1. /\ UNCHANGED <<latest, cached, place, attempt, doc, closed>>
        /\ age' = IF age < TTL THEN age + 1 ELSE TTL
        /\ wireAge' = [c \in RulesCallers |-> IF place[c] = "wire" THEN wireAge[c] + 1 ELSE 0]
        /\ outdated' = [v \in Versions |-> IF v < latest /\ outdated[v] < OutdatedMost
                                           THEN outdated[v] + 1 ELSE outdated[v]]
        /\ \A c \in RulesCallers : place[c] = "wire" => wireAge[c] < HTTPTimeout
    BY <1>12 DEF RulesTick
  <2>2. TTL \in Nat /\ HTTPTimeout \in Nat /\ OutdatedMost \in Nat
    BY RulesAssumption DEF OutdatedMost
  <2>3. age' \in 0..TTL
    BY <2>1, <2>2 DEF RulesTypes
  <2>4. wireAge' \in [RulesCallers -> 0..HTTPTimeout]
    BY <2>1, <2>2 DEF RulesTypes
  <2>5. outdated' \in [Versions -> 0..OutdatedMost]
    BY <2>1, <2>2 DEF RulesTypes
  <2> QED
    BY <2>1, <2>3, <2>4, <2>5 DEF RulesTypes
<1> QED
  BY <1>2, <1>3, <1>4, <1>5, <1>6, <1>7, <1>8, <1>9, <1>10, <1>11, <1>12
     DEF RulesNext, RulesStep

\* A cached document, and one under way, was published, and retries, requests and
\* counters keep their limits, in whatever order answers come in (GetDynamicRules,
\* fetchDynamicRules).
THEOREM RulesTypeCorrect == RulesSpec => []RulesTypeOK
<1>1. RulesInit => RulesTypes
  <2> SUFFICES ASSUME RulesInit PROVE RulesTypes
    OBVIOUS
  <2>1. closed \in BOOLEAN
    BY Zenon DEF RulesInit
  <2>2. OutdatedMost \in Nat
    BY RulesAssumption DEF OutdatedMost
  <2> QED
    BY <2>1, <2>2, RulesAssumption DEF RulesInit, RulesTypes, Versions
<1>2. IInv /\ RulesTypes => RulesTypeOK
  BY DEF IInv, RulesTypes, RulesTypeOK
<1> QED
  BY <1>1, <1>2, RulesTypesNext, SharedInvariant, PTL DEF RulesSpec
=============================================================================
