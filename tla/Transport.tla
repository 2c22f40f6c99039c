------------------------------ MODULE Transport ------------------------------
(***************************************************************************)
(* transport.go: one call of sendEvents, sendMetrics or sendStatus, from   *)
(* serialisation through sendBatch's retry loop to the recursive 413       *)
(* split, composed with the circuit breaker.  The recursion is a stack of  *)
(* split batches whose halves are still to be sent.  The limiter grants or *)
(* denies freely, since it is shared with other goroutines (RateLimiter);  *)
(* verdicts of concurrent calls on the breaker are CircuitBreaker's topic. *)
(***************************************************************************)
EXTENDS Integers, Sequences, FiniteSets, SequencesExt

CONSTANTS
    MaxBatch,          \* the largest batch, for TLC only
    Capacity,          \* items the server accepts in one request
    RetryAttempts,     \* cfg.RetryAttempts
    Threshold,         \* breakerFailureThreshold
    RecoveryTimeout    \* breakerRecoveryTimeout, in ticks

ASSUME TransportAssumption == /\ MaxBatch \in Nat \ {0}
                              /\ Capacity \in Nat \ {0}
                              /\ RetryAttempts \in Nat
                              /\ Threshold \in Nat \ {0}
                              /\ RecoveryTimeout \in Nat \ {0}

VARIABLES
    mode,             \* "batch": events or metrics in clear, "encrypted", "status"
    batch,            \* the slice the agent sends
    big,              \* the items the server finds too large by themselves
    pc,               \* where the goroutine is
    part,             \* the slice sendBatch works on
    stack,            \* the splits under way, innermost last
    attempt,          \* sendBatch's attempt
    outcome,          \* what the last send returned
    cancelled,        \* ctx is done
    requestsSent, requestsFailed,
    state, failureCount, elapsed,   \* the breaker
    answered,         \* history: items with a definitive answer
    dropped,          \* history: items dropped because of a 413
    requests,         \* history: calls of client.Do
    late,             \* history: those of them after ctx was done
    troubles,         \* history: failing answers in a row
    calm              \* history: time since the last of them, up to RecoveryTimeout

breaker == <<state, failureCount, elapsed>>
counters == <<requestsSent, requestsFailed>>
call == <<mode, batch, big>>
history == <<answered, dropped, requests, late, troubles, calm>>
vars == <<call, pc, part, stack, attempt, outcome, cancelled, counters, breaker, history>>

Breaker == INSTANCE CircuitBreaker WITH
    Callers <- {}, RulesCallers <- {}, MaxFailureCount <- 0,
    call <- <<>>, sinceFailure <- calm, healthy <- FALSE

\* A Go slice [from, to) of the batch.
Slice(from, to) == [from |-> from, to |-> to]
Items(s) == s.from..(s.to - 1)
Size(s) == s.to - s.from

Outcomes == {"accepted", "partial", "permanent", "failed"}
Slices == [from : 1..MaxBatch, to : 2..(MaxBatch + 1)]

TypeOK ==
    /\ mode \in {"batch", "encrypted", "status"}
    /\ batch \in Slices /\ part \in Slices
    /\ Items(part) \subseteq Items(batch) /\ Items(part) # {}
    /\ big \subseteq Items(batch)
    /\ pc \in {"marshal", "gate", "denied", "admit", "wire", "aborted", "backoff",
              "return", "done"}
    /\ stack \in Seq([right : Slices, left : Outcomes \cup {"pending"}])
    /\ attempt \in 0..RetryAttempts
    /\ outcome \in Outcomes
    /\ cancelled \in BOOLEAN
    /\ requestsSent \in Nat /\ requestsFailed \in Nat
    /\ state \in Breaker!States /\ failureCount \in Nat /\ elapsed \in 0..RecoveryTimeout
    /\ answered \subseteq Items(batch) /\ dropped \subseteq Items(batch)
    /\ requests \in Nat /\ late \in Nat /\ troubles \in Nat /\ calm \in 0..RecoveryTimeout

\* The agent calls with a non-empty batch (flushEvents returns early otherwise);
\* a status report is one item.  Earlier calls have left the breaker as they will.
Init ==
    /\ mode \in {"batch", "encrypted", "status"}
    /\ \E n \in 1..MaxBatch : /\ mode = "status" => n = 1
                             /\ batch = Slice(1, n + 1)
    /\ big \in SUBSET Items(batch)
    /\ pc = "marshal"
    /\ part = batch
    /\ stack = <<>>
    /\ attempt = 0
    /\ outcome = "failed"
    /\ cancelled = FALSE
    /\ requestsSent = 0 /\ requestsFailed = 0
    /\ \/ state = "closed" /\ failureCount \in 0..(Threshold - 1) /\ elapsed = RecoveryTimeout
       \/ state = "open" /\ failureCount = Threshold /\ elapsed \in 0..RecoveryTimeout
       \/ state = "half_open" /\ failureCount = Threshold /\ elapsed = RecoveryTimeout
    /\ answered = {} /\ dropped = {}
    /\ requests = 0 /\ late = 0 /\ troubles = 0 /\ calm = RecoveryTimeout

-----------------------------------------------------------------------------
\* Mutants: plausible bugs that the properties below must catch.
RetryableOneMore == attempt <= RetryAttempts

GateKeepsAttempt ==
    /\ pc = "denied" /\ pc' = "gate"
    /\ UNCHANGED <<attempt, call, part, stack, outcome, cancelled, counters, breaker, history>>

ConfirmsEither(left, right) == {left, right} \cap {"accepted", "permanent"} # {}

LastSplitPairs(s) == Size(s) <= 2

WakeSkipsBreaker ==
    /\ pc = "backoff" /\ pc' = "wire" /\ attempt' = attempt + 1
    /\ requests' = requests + 1
    /\ UNCHANGED <<call, part, stack, outcome, cancelled, counters, breaker, answered, dropped, late,
                   troubles, calm>>

-----------------------------------------------------------------------------
\* outcomeConfirms, of both halves of a split batch.
Confirms(o) == o \in {"accepted", "permanent"}
BothConfirm(left, right) == Confirms(left) /\ Confirms(right)

Return(o) == pc' = "return" /\ outcome' = o

\* Whether sendBatch has an attempt left.
Retryable == attempt < RetryAttempts

\* Serialisation, and encryption if there is a key; items are opaque.
Marshal ==
    /\ pc = "marshal" /\ pc' = "gate"
    /\ attempt' = 0
    /\ UNCHANGED <<call, part, stack, outcome, cancelled, counters, breaker, history>>

MarshalFails ==
    /\ pc = "marshal" /\ Return("partial")
    /\ UNCHANGED <<call, part, stack, attempt, cancelled, counters, breaker, history>>

\* limiterGate lets the attempt through, or has it wait.
GateOpen ==
    /\ pc = "gate" /\ pc' \in {"admit", "denied"}
    /\ UNCHANGED <<call, part, stack, attempt, outcome, cancelled, counters, breaker, history>>

\* The wait is over: the denial has cost an attempt.
GateBurns ==
    /\ pc = "denied" /\ Retryable
    /\ pc' = "gate" /\ attempt' = attempt + 1
    /\ UNCHANGED <<call, part, stack, outcome, cancelled, counters, breaker, history>>

\* No attempt is left, or ctx ended during the wait.
GateFails ==
    /\ pc = "denied" /\ (~Retryable \/ cancelled)
    /\ Return("failed")
    /\ UNCHANGED <<call, part, stack, attempt, cancelled, counters, breaker, history>>

\* breaker.Admit returns ErrCircuitOpen.
Refused ==
    /\ pc = "admit" /\ state = "open" /\ elapsed < RecoveryTimeout
    /\ Return("failed")
    /\ UNCHANGED <<call, part, stack, attempt, cancelled, counters, breaker, history>>

\* client.Do, which sends nothing when ctx is done already.  normalizeEndpoint has
\* parsed the URL, so NewRequestWithContext does not fail.
Do ==
    /\ pc = "admit" /\ Breaker!Admitted
    /\ pc' = IF cancelled THEN "aborted" ELSE "wire"
    /\ requests' = requests + 1
    /\ late' = IF cancelled THEN late + 1 ELSE late
    /\ UNCHANGED <<call, part, stack, attempt, outcome, cancelled, counters, answered, dropped,
                   troubles, calm>>

\* A failing attempt: the breaker hears of it.
Trouble ==
    /\ Breaker!Failure
    /\ requestsFailed' = requestsFailed + 1
    /\ troubles' = troubles + 1 /\ calm' = 0
    /\ UNCHANGED <<call, part, stack, attempt, cancelled, requestsSent, answered, dropped, requests, late>>

\* Mutant of NetError: a cancelled request is retried.
NetErrorRetries ==
    /\ pc \in {"wire", "aborted"} /\ Trouble
    /\ IF Retryable THEN pc' = "backoff" /\ UNCHANGED outcome ELSE Return("failed")

\* A network error or a cancelled request, which is not retried.
NetError ==
    /\ pc \in {"wire", "aborted"} /\ Trouble
    /\ IF Retryable /\ ~cancelled THEN pc' = "backoff" /\ UNCHANGED outcome
                                  ELSE Return("failed")

\* 429, 5xx, 401 and 403.
RetryableStatus ==
    /\ pc = "wire" /\ Trouble
    /\ IF Retryable THEN pc' = "backoff" /\ UNCHANGED outcome ELSE Return("failed")

\* sleepCtx has slept: the attempt passes limiter and breaker again.
Wake ==
    /\ pc = "backoff" /\ pc' = "gate" /\ attempt' = attempt + 1
    /\ UNCHANGED <<call, part, stack, outcome, cancelled, counters, breaker, history>>

SleepCancelled ==
    /\ pc = "backoff" /\ cancelled /\ Return("failed")
    /\ UNCHANGED <<call, part, stack, attempt, cancelled, counters, breaker, history>>

\* The ingestion API: a request is too large for the number or for one of its items.
TooLarge(s) == Size(s) > Capacity \/ Items(s) \cap big # {}

\* breaker.Success, and the end of a row of failing answers.
Calms == Breaker!Success /\ troubles' = 0 /\ UNCHANGED calm

\* 201, or a 200 that evaluateBatchResponse finds clean or that nobody evaluates.
Accepted ==
    /\ pc = "wire" /\ ~TooLarge(part) /\ Calms
    /\ requestsSent' = requestsSent + 1
    /\ answered' = answered \cup Items(part)
    /\ Return("accepted")
    /\ UNCHANGED <<call, part, stack, attempt, cancelled, requestsFailed, dropped, requests, late>>

\* A 200 with success:false, errors or a malformed body.
Flawed ==
    /\ pc = "wire" /\ ~TooLarge(part) /\ mode # "status" /\ Calms
    /\ requestsSent' = requestsSent + 1
    /\ Return("partial")
    /\ UNCHANGED <<call, part, stack, attempt, cancelled, requestsFailed, answered, dropped, requests,
                   late>>

\* 400, 404 and 422.
Rejected ==
    /\ pc = "wire"
    /\ answered' = answered \cup Items(part)
    /\ Return("permanent")
    /\ UNCHANGED <<call, part, stack, attempt, cancelled, counters, breaker, dropped, requests, late,
                   troubles, calm>>

\* Any other status; no counter moves.
Unexpected ==
    /\ pc = "wire" /\ Calms /\ Return("partial")
    /\ UNCHANGED <<call, part, stack, attempt, cancelled, counters, answered, dropped, requests, late>>

LastSplit(s) == Size(s) <= 1
Mid(s) == s.from + Size(s) \div 2

\* Mutants of the two actions below.
CountedTwice ==
    /\ pc = "wire" /\ TooLarge(part) /\ (mode # "batch" \/ LastSplit(part))
    /\ requestsFailed' = requestsFailed + 2
    /\ Return("permanent")
    /\ UNCHANGED <<call, part, stack, attempt, cancelled, requestsSent, breaker, history>>

SplitOverlaps ==
    /\ pc = "wire" /\ TooLarge(part) /\ mode = "batch" /\ ~LastSplit(part)
    /\ part' = Slice(part.from, Mid(part))
    /\ stack' = Append(stack, [right |-> Slice(Mid(part) - 1, part.to), left |-> "pending"])
    /\ pc' = "marshal"
    /\ UNCHANGED <<call, attempt, outcome, cancelled, counters, breaker, history>>

\* 413 on a single item, or on a payload that cannot be split: dropped for good.
TooLargeDropped ==
    /\ pc = "wire" /\ TooLarge(part) /\ (mode # "batch" \/ LastSplit(part))
    /\ requestsFailed' = requestsFailed + 1
    /\ answered' = answered \cup Items(part)
    /\ dropped' = dropped \cup Items(part)
    /\ Return("permanent")
    /\ UNCHANGED <<call, part, stack, attempt, cancelled, requestsSent, breaker, requests, late,
                   troubles, calm>>

\* 413 on more: the left half goes first.
Split ==
    /\ pc = "wire" /\ TooLarge(part) /\ mode = "batch" /\ ~LastSplit(part)
    /\ part' = Slice(part.from, Mid(part))
    /\ stack' = Append(stack, [right |-> Slice(Mid(part), part.to), left |-> "pending"])
    /\ pc' = "marshal"
    /\ UNCHANGED <<call, attempt, outcome, cancelled, counters, breaker, history>>

\* The left half is back, whatever its outcome: the right half goes next.
LeftDone ==
    /\ pc = "return" /\ stack # <<>> /\ Last(stack).left = "pending"
    /\ stack' = [stack EXCEPT ![Len(stack)].left = outcome]
    /\ part' = Last(stack).right
    /\ pc' = "marshal"
    /\ UNCHANGED <<call, attempt, outcome, cancelled, counters, breaker, history>>

BothDone ==
    /\ pc = "return" /\ stack # <<>> /\ Last(stack).left # "pending"
    /\ outcome' = IF BothConfirm(Last(stack).left, outcome) THEN "accepted" ELSE "failed"
    /\ stack' = Front(stack)
    /\ UNCHANGED <<call, pc, part, attempt, cancelled, counters, breaker, history>>

\* The call returns to the agent.
Done ==
    /\ pc = "return" /\ stack = <<>> /\ pc' = "done"
    /\ UNCHANGED <<call, part, stack, attempt, outcome, cancelled, counters, breaker, history>>

Cancel ==
    /\ ~cancelled /\ pc # "done" /\ cancelled' = TRUE
    /\ UNCHANGED <<call, pc, part, stack, attempt, outcome, counters, breaker, history>>

Tick ==
    /\ pc # "done" /\ (elapsed < RecoveryTimeout \/ calm < RecoveryTimeout)
    /\ elapsed' = Breaker!Later(elapsed) /\ calm' = Breaker!Later(calm)
    /\ UNCHANGED <<call, pc, part, stack, attempt, outcome, cancelled, counters, state, failureCount,
                   answered, dropped, requests, late, troubles>>

Attempt == GateOpen \/ GateBurns \/ GateFails \/ Refused \/ Do \/ Wake \/ SleepCancelled

Answer ==
    \/ NetError \/ RetryableStatus \/ Accepted \/ Flawed \/ Rejected \/ Unexpected
    \/ TooLargeDropped \/ Split

Step == Marshal \/ MarshalFails \/ Attempt \/ Answer \/ LeftDone \/ BothDone \/ Done

Over == pc = "done" /\ UNCHANGED vars

Next == Step \/ Cancel \/ Tick \/ Over

Spec == Init /\ [][Next]_vars

\* The goroutine is scheduled, sleeps end, and a request ends by HTTPTimeout.
FairSpec == Spec /\ WF_vars(Step)

-----------------------------------------------------------------------------
\* What the agent relies on (settleEvents): the call settles a batch exactly when
\* every item was accepted, rejected for good or dropped as too large, however the
\* batch was split and whichever half failed (splitOrDropEvents).  In the other
\* direction no batch is requeued that has all its answers.
SendContract == pc = "done" => (Confirms(outcome) <=> answered = Items(batch))

\* Within one call no item that has its answer is sent again: the halves of a split
\* do not overlap and only failing attempts are retried (splitOrDropEvents, sendBatch).
NoResend == pc = "wire" => Items(part) \cap answered = {}

\* In clear, a 413 costs only the items that are too large by themselves, never a
\* neighbour in the same batch (splitOrDropEvents).
OnlyBigDropped == mode = "batch" => dropped \subseteq big

\* Retries, denials of the limiter and splits together cost a bounded number of
\* requests: RetryAttempts + 1 for each of the 2n - 1 parts of a batch of n (sendBatch).
RequestBound ==
    requests <= (IF mode = "batch" THEN 2 * Size(batch) - 1 ELSE 1) * (RetryAttempts + 1)

\* No request goes out within the recovery timeout of the threshold-th failing answer
\* in a row, be it a retry of the same part or the other half of a split (sendBatch).
RetriesRespectBreaker ==
    [][requests' # requests => troubles < Threshold \/ calm = RecoveryTimeout]_vars

\* Once ctx is done (Stop cancels the loops) no part of the batch is tried more than
\* once, so a cancelled flush costs the breaker at most one failure per item
\* (sendBatch, splitOrDropEvents).
CancelBound == late <= Size(batch)

\* requestsSent and requestsFailed count no request twice, although 413 is counted
\* by the callers of sendBatch and all else inside.
CountedOnce == requestsSent + requestsFailed <= requests

\* Every call returns: the limiter, backoffs and splits cannot hold a flush for ever
\* (limiterGate, sendBatch, splitOrDropEvents).
Ends == <>(pc = "done")

\* The whole machinery of retries, splits and cancellation is the contract of
\* Settlement: answers come for whole parts that had none before, nothing is taken
\* back, and the outcome follows from them (sendEvents, sendMetrics).
Contract == INSTANCE Settlement WITH
    batch <- Items(batch),
    result <- IF pc # "done" THEN "pending" ELSE IF Confirms(outcome) THEN "settled" ELSE "requeue"

Implements == Contract!Spec
=============================================================================
