----------------------------- MODULE RateLimiter -----------------------------
(***************************************************************************)
(* rate_limiter.go and transport.limiterGate: the sliding-window limiter   *)
(* every request attempt passes, shared by the flush, status and rules     *)
(* goroutines.  A denied caller reads RetryAfter in a second critical      *)
(* section, sleeps, and tries again until its attempts are used up.        *)
(***************************************************************************)
EXTENDS Naturals, Sequences, FiniteSets

CONSTANTS
    Callers,         \* goroutines that send requests
    MaxCalls,        \* maxCalls
    Window,          \* window, in ticks
    RetryAttempts    \* cfg.RetryAttempts

ASSUME LimiterAssumption == /\ MaxCalls \in Nat \ {0}
                            /\ Window \in Nat \ {0}
                            /\ RetryAttempts \in Nat

VARIABLES
    calls,       \* l.calls as ages (now - ts), oldest first.  The code only asks
                 \* whether an age has reached the window, so ages stop there.
    pc,          \* where each caller is in limiterGate
    attempt,     \* sendBatch's attempt, per caller
    wait,        \* what is left of the caller's sleep
    granted,     \* history: ages of the grants of the last Window ticks
    overtaken    \* history: a slot was granted to another caller since the
                 \* caller read RetryAfter

vars == <<calls, pc, attempt, wait, granted, overtaken>>

TypeOK ==
    /\ calls \in Seq(0..Window)
    /\ pc \in [Callers -> {"idle", "acquire", "denied", "sleeping"}]
    /\ attempt \in [Callers -> 0..RetryAttempts]
    /\ wait \in [Callers -> 0..Window]
    /\ granted \in Seq(0..(Window - 1))
    /\ overtaken \in [Callers -> BOOLEAN]

Init ==
    /\ calls = <<>>
    /\ pc = [c \in Callers |-> "idle"]
    /\ attempt = [c \in Callers |-> 0]
    /\ wait = [c \in Callers |-> 0]
    /\ granted = <<>>
    /\ overtaken = [c \in Callers |-> FALSE]

-----------------------------------------------------------------------------
\* Mutants: plausible bugs that the properties below must catch.
PrunedTooEarly == SelectSeq(calls, LAMBDA age : age + 1 < Window)

RetryAfterShort == IF calls = <<>> \/ Head(calls) = Window THEN 0 ELSE Window - Head(calls) - 1

WakeOneMore(c) ==
    /\ pc[c] = "sleeping" /\ wait[c] = 0 /\ attempt[c] <= RetryAttempts
    /\ pc' = [pc EXCEPT ![c] = "acquire"]
    /\ attempt' = [attempt EXCEPT ![c] = @ + 1]
    /\ UNCHANGED <<calls, wait, granted, overtaken>>

WakeForever(c) ==
    /\ pc[c] = "sleeping" /\ wait[c] = 0
    /\ pc' = [pc EXCEPT ![c] = "acquire"]
    /\ UNCHANGED <<calls, attempt, wait, granted, overtaken>>

-----------------------------------------------------------------------------
\* What of s is still inside the window, in its order.  (SelectSeq, written without its
\* recursion so that it can be reasoned about.)
Recent(s) ==
    LET kept == {n \in 1..Len(s) : s[n] < Window}
        Nth(m) == CHOOSE n \in kept : Cardinality(kept \cap 1..n) = m
    IN  [m \in 1..Cardinality(kept) |-> s[Nth(m)]]

\* pruneLocked
Pruned == Recent(calls)

\* RetryAfter; ages stop at Window, so the difference is never negative.
RetryAfter == IF calls = <<>> THEN 0 ELSE Window - Head(calls)

\* A goroutine starts a request, or enters with the attempt that a failed request left
\* it at: sendBatch passes the limiter again before every retry.
Begin(c) ==
    /\ pc[c] = "idle"
    /\ pc' = [pc EXCEPT ![c] = "acquire"]
    /\ \E k \in 0..RetryAttempts : attempt' = [attempt EXCEPT ![c] = k]
    /\ UNCHANGED <<calls, wait, granted, overtaken>>

\* Acquire returns true and the request goes out.
Grant(c) ==
    /\ pc[c] = "acquire"
    /\ Len(Pruned) < MaxCalls
    /\ calls' = Append(Pruned, 0)
    /\ granted' = Append(granted, 0)
    /\ pc' = [pc EXCEPT ![c] = "idle"]
    /\ overtaken' = [d \in Callers |-> overtaken[d] \/ pc[d] = "sleeping"]
    /\ UNCHANGED <<attempt, wait>>

\* Acquire returns false, having pruned.
Deny(c) ==
    /\ pc[c] = "acquire"
    /\ Len(Pruned) >= MaxCalls
    /\ calls' = Pruned
    /\ pc' = [pc EXCEPT ![c] = "denied"]
    /\ UNCHANGED <<attempt, wait, granted, overtaken>>

\* limiterGate asks how long to wait.
Suspend(c) ==
    /\ pc[c] = "denied"
    /\ wait' = [wait EXCEPT ![c] = RetryAfter]
    /\ overtaken' = [overtaken EXCEPT ![c] = FALSE]
    /\ pc' = [pc EXCEPT ![c] = "sleeping"]
    /\ UNCHANGED <<calls, attempt, granted>>

\* The sleep is over: give up, or burn an attempt and acquire again.
Wake(c) ==
    /\ pc[c] = "sleeping" /\ wait[c] = 0
    /\ IF attempt[c] >= RetryAttempts
       THEN pc' = [pc EXCEPT ![c] = "idle"] /\ UNCHANGED attempt
       ELSE /\ pc' = [pc EXCEPT ![c] = "acquire"]
            /\ attempt' = [attempt EXCEPT ![c] = @ + 1]
    /\ UNCHANGED <<calls, wait, granted, overtaken>>

\* The context ends during the sleep.
Cancel(c) ==
    /\ pc[c] = "sleeping"
    /\ pc' = [pc EXCEPT ![c] = "idle"]
    /\ UNCHANGED <<calls, attempt, wait, granted, overtaken>>

Older(age) == IF age < Window THEN age + 1 ELSE Window

Tick ==
    /\ calls' = [i \in 1..Len(calls) |-> Older(calls[i])]
    /\ granted' = Recent([i \in 1..Len(granted) |-> granted[i] + 1])
    /\ wait' = [c \in Callers |-> IF wait[c] > 0 THEN wait[c] - 1 ELSE 0]
    /\ UNCHANGED <<pc, attempt, overtaken>>

Gate(c) == Begin(c) \/ Grant(c) \/ Deny(c) \/ Suspend(c) \/ Wake(c) \/ Cancel(c)

Next == Tick \/ \E c \in Callers : Gate(c)

Spec == Init /\ [][Next]_vars

\* Time passes, and a goroutine inside limiterGate is eventually scheduled.
FairSpec ==
    /\ Spec
    /\ WF_vars(Tick)
    /\ \A c \in Callers : WF_vars(Grant(c) \/ Deny(c) \/ Suspend(c) \/ Wake(c))

-----------------------------------------------------------------------------
\* Never more than maxCalls requests in any window (Acquire, pruneLocked),
\* counted from the grants themselves and not from the pruned list.
WindowBound == Len(granted) <= MaxCalls

\* The pause RetryAfter suggests is long enough: when it is over a slot is free
\* unless another caller took one in the meantime, even though the list may have
\* changed between the denial and the question.
WaitIsEnough ==
    \A c \in Callers :
        pc[c] = "sleeping" /\ wait[c] = 0 /\ ~overtaken[c] => Len(granted) < MaxCalls

\* A request is never stuck in the limiter: it is granted or gives up after
\* RetryAttempts waits, however many callers compete (limiterGate).
GateEnds == \A c \in Callers : pc[c] = "acquire" ~> pc[c] = "idle"
=============================================================================
