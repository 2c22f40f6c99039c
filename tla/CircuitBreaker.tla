--------------------------- MODULE CircuitBreaker ---------------------------
(***************************************************************************)
(* circuit_breaker.go, together with the way transport.sendBatch and       *)
(* transport.fetchDynamicRules use it: a call is admitted, runs without    *)
(* any lock, and reports its verdict later, so verdicts of concurrent      *)
(* calls arrive in any order and in any breaker state.                     *)
(***************************************************************************)
EXTENDS Integers

CONSTANTS
    Callers,           \* goroutines that send requests through the transport
    RulesCallers,      \* those of them that fetch dynamic rules
    Threshold,         \* breakerFailureThreshold
    RecoveryTimeout,   \* breakerRecoveryTimeout, in ticks
    MaxFailureCount    \* bound on failureCount, for TLC only

ASSUME CallersAssumption == RulesCallers \subseteq Callers
ASSUME BreakerAssumption == /\ Threshold \in Nat \ {0}
                            /\ RecoveryTimeout \in Nat \ {0}
                            /\ MaxFailureCount \in Nat

VARIABLES
    state,          \* cb.state
    failureCount,   \* cb.failureCount
    elapsed,        \* now - cb.openedAt, which the code only compares with
                    \* recoveryTimeout, so it stops there
    call,           \* per caller: no request, one that may still fail, or one
                    \* sent to a server that has recovered
    sinceFailure,   \* history: time since a failure was last reported, up to RecoveryTimeout
    healthy         \* the ingestion API has recovered for good, rules endpoint included

breaker == <<state, failureCount, elapsed>>
vars == <<state, failureCount, elapsed, call, sinceFailure, healthy>>

States == {"closed", "open", "half_open"}
Verdicts == {"success", "failure", "permanent"}

TypeOK ==
    /\ state \in States
    /\ failureCount \in Nat
    /\ elapsed \in 0..RecoveryTimeout
    /\ sinceFailure \in 0..RecoveryTimeout
    /\ call \in [Callers -> {"idle", "doubtful", "good"}]
    /\ healthy \in BOOLEAN

\* newCircuitBreaker; openedAt is the zero time, long past.
Init ==
    /\ state = "closed"
    /\ failureCount = 0
    /\ elapsed = RecoveryTimeout
    /\ sinceFailure = RecoveryTimeout
    /\ call = [c \in Callers |-> "idle"]
    /\ healthy = FALSE

-----------------------------------------------------------------------------
\* Mutants: plausible bugs that the properties below must catch.
FailureKeepsOpenedAt ==
    /\ failureCount' = failureCount + 1
    /\ state' = IF state = "half_open" \/ failureCount + 1 >= Threshold THEN "open" ELSE state
    /\ elapsed' = IF state = "closed" THEN 0 ELSE elapsed

SuccessDecrements ==
    /\ state' = "closed"
    /\ failureCount' = failureCount - 1
    /\ UNCHANGED elapsed

SuccessKeepsCount ==
    /\ state' = "closed"
    /\ UNCHANGED <<failureCount, elapsed>>

AdmittedNeverProbes ==
    /\ state # "open"
    /\ UNCHANGED breaker
-----------------------------------------------------------------------------
\* Admit, when it returns nil.
Admitted ==
    /\ \/ state # "open" /\ UNCHANGED state
       \/ state = "open" /\ elapsed >= RecoveryTimeout /\ state' = "half_open"
    /\ UNCHANGED <<failureCount, elapsed>>

Success ==
    /\ state' = "closed"
    /\ failureCount' = 0
    /\ UNCHANGED elapsed

Failure ==
    /\ failureCount' = failureCount + 1
    /\ IF state = "half_open" \/ failureCount + 1 >= Threshold
       THEN state' = "open" /\ elapsed' = 0
       ELSE UNCHANGED <<state, elapsed>>

-----------------------------------------------------------------------------
\* A caller whose Admit fails returns ErrCircuitOpen and changes nothing.
Send(c) ==
    /\ call[c] = "idle"
    /\ Admitted
    /\ call' = [call EXCEPT ![c] = IF healthy THEN "good" ELSE "doubtful"]
    /\ UNCHANGED <<sinceFailure, healthy>>

\* The verdicts that reach Failure: network errors, 429, 401, 403 and 5xx; and,
\* from fetchDynamicRules, every other status but 200 ("permanent": 400, 404,
\* 413, 422), on which sendBatch reports nothing.
CountsAsFailure(c, verdict) ==
    verdict = "failure" \/ (verdict = "permanent" /\ c \in RulesCallers)

Report(c, verdict) ==
    \/ verdict = "success" /\ Success
    \/ CountsAsFailure(c, verdict) /\ failureCount < MaxFailureCount /\ Failure
    \/ verdict = "permanent" /\ c \notin RulesCallers /\ UNCHANGED breaker

Reply(c, verdict) ==
    /\ call[c] # "idle"
    /\ call[c] = "good" => ~CountsAsFailure(c, verdict)
    /\ Report(c, verdict)
    /\ call' = [call EXCEPT ![c] = "idle"]
    /\ sinceFailure' = IF CountsAsFailure(c, verdict) THEN 0 ELSE sinceFailure
    /\ UNCHANGED healthy

\* A tick later, up to RecoveryTimeout.
Later(t) == IF t < RecoveryTimeout THEN t + 1 ELSE RecoveryTimeout

Tick ==
    /\ elapsed < RecoveryTimeout \/ sinceFailure < RecoveryTimeout
    /\ elapsed' = Later(elapsed)
    /\ sinceFailure' = Later(sinceFailure)
    /\ UNCHANGED <<state, failureCount, call, healthy>>

Heal ==
    /\ ~healthy
    /\ healthy' = TRUE
    /\ UNCHANGED <<breaker, call, sinceFailure>>

Next ==
    \/ \E c \in Callers : Send(c) \/ \E v \in Verdicts : Reply(c, v)
    \/ Tick
    \/ Heal

Spec == Init /\ [][Next]_vars

\* Time passes, requests end (HTTPTimeout), and the flush, status and rules
\* tickers keep calling.
Fairness ==
    /\ WF_vars(Tick)
    /\ \A c \in Callers : /\ WF_vars(Send(c))
                          /\ WF_vars(\E v \in Verdicts : Reply(c, v))

FairSpec == Spec /\ Fairness

-----------------------------------------------------------------------------
\* A probe only goes out after the recovery window (Admit).
HalfOpenAfterWindow == state = "half_open" => elapsed = RecoveryTimeout

\* From the threshold on, openedAt is the time of the last failure (Failure).
OpenedAtLastFailure == failureCount >= Threshold => elapsed = sinceFailure

\* The breaker is closed exactly while fewer than threshold consecutive
\* failures have been reported (Success, Failure): late verdicts of calls
\* admitted earlier can not leave it closed over a full failure count, nor open
\* with a reset one.
ClosedBelowThreshold == state = "closed" <=> failureCount < Threshold

\* Once threshold consecutive failures are in, no request goes out (Admit)
\* before recoveryTimeout has passed since the last of them, whatever the order
\* in which concurrent calls report.
Quarantine ==
    [][\A c \in Callers : call[c] = "idle" /\ call'[c] # "idle" =>
          failureCount < Threshold \/ sinceFailure = RecoveryTimeout]_vars

\* When the server recovers for good the breaker eventually rejects no call any
\* more: no late failure and no half-open state can keep it open.
Recovers == <>[]healthy => <>[](state # "open")

\* circuit_breaker.go: "Permanent rejections must not be reported here."
PermanentExempt ==
    [][\A c \in Callers : Reply(c, "permanent") => UNCHANGED <<state, failureCount>>]_vars

=============================================================================
