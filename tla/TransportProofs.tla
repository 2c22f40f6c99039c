---------------------------- MODULE TransportProofs ----------------------------
(***************************************************************************)
(* TLAPS proofs about Transport, for every batch, every set of items that   *)
(* are too large, every order of answers and every breaker: the outcome of  *)
(* a send fits the answers, nothing is sent again once it was answered, the *)
(* machinery of retries and splits implements Settlement, and the requests  *)
(* of a call are bounded, those after its context ended by one per item.    *)
(***************************************************************************)
EXTENDS Transport, FiniteSetTheorems, SequenceTheorems, TLAPS

Frames == [right : [from : Int, to : Int], left : Outcomes \union {"pending"}]
Ended == {"return", "done"}
Top == Len(stack) + 1
Pending(n) == stack[n].left = "pending"

SendTypes ==
  /\ batch \in [from : Int, to : Int] /\ batch.from < batch.to
  /\ part \in [from : Int, to : Int]
  /\ stack \in Seq(Frames)
  /\ outcome \in Outcomes
  /\ answered \subseteq Items(batch)
  /\ pc = "done" => stack = <<>>

\* The splits under way are nested: the n-th divides [lo[n], hi[n]), its right half ends
\* where the divided slice does, and every later slice lies in the half under way.
Nested(lo, hi) ==
  /\ lo \in [1..Top -> Int] /\ hi \in [1..Top -> Int]
  /\ lo[1] = batch.from /\ hi[1] = batch.to
  /\ \A n \in 1..Top : batch.from <= lo[n] /\ lo[n] < hi[n] /\ hi[n] <= batch.to
  /\ \A n \in 1..Len(stack) :
       /\ stack[n].right.to = hi[n]
       /\ lo[n] < stack[n].right.from /\ stack[n].right.from < hi[n]
       /\ lo[n + 1] = IF Pending(n) THEN lo[n] ELSE stack[n].right.from
       /\ hi[n + 1] = IF Pending(n) THEN stack[n].right.from ELSE hi[n]
  /\ \A n \in 1..Len(stack), k \in 1..Top :
       n < k => IF Pending(n) THEN hi[k] <= stack[n].right.from ELSE stack[n].right.from <= lo[k]

\* What has its answer: left halves as their outcomes say, nothing to the right of the
\* innermost slice, and of that slice nothing, or what the outcome says once it is back.
\* (part is then its last piece.)
Answers(lo, hi) ==
  /\ \A n \in 1..Len(stack) :
       ~Pending(n) => (Confirms(stack[n].left) <=> lo[n]..(stack[n].right.from - 1) \subseteq answered)
  /\ hi[Top]..(batch.to - 1) \intersect answered = {}
  /\ part.to = hi[Top]
  /\ pc \notin Ended => /\ part.from = lo[Top]
                        /\ lo[Top]..(hi[Top] - 1) \intersect answered = {}
  /\ pc \in Ended => (Confirms(outcome) <=> lo[Top]..(hi[Top] - 1) \subseteq answered)

SendInv == SendTypes /\ \E lo, hi : Nested(lo, hi) /\ Answers(lo, hi)

-----------------------------------------------------------------------------
\* The steps, by what they do to the batch.

\* Nothing: an attempt goes on, or something else happens.
Goes ==
  /\ {pc, pc'} \intersect Ended = {} \/ pc' = pc
  /\ outcome' = outcome
  /\ UNCHANGED <<batch, part, stack, answered>>

\* The slice fails.
Fails ==
  /\ pc \notin Ended /\ pc' = "return" /\ outcome' \in {"partial", "failed"}
  /\ UNCHANGED <<batch, part, stack, answered>>

\* The slice gets its answers.
Settles ==
  /\ pc \notin Ended /\ pc' = "return" /\ outcome' \in {"accepted", "permanent"}
  /\ answered' = answered \union Items(part)
  /\ UNCHANGED <<batch, part, stack>>

LEMMA StepKinds ==
  ASSUME [Next]_vars
  PROVE  Goes \/ Fails \/ Settles \/ Split \/ LeftDone \/ BothDone \/ Done
<1> USE DEF Ended, call, history, breaker, counters
<1>1. CASE UNCHANGED vars
  BY <1>1 DEF vars, Goes
<1>2. CASE Marshal \/ MarshalFails
  BY <1>2 DEF Marshal, MarshalFails, Return, Goes, Fails
<1>3. CASE Attempt
  BY <1>3 DEF Attempt, GateOpen, GateBurns, GateFails, Refused, Do, Wake, SleepCancelled,
              Return, Goes, Fails
<1>4. CASE NetError \/ RetryableStatus \/ Flawed \/ Unexpected
  BY <1>4 DEF NetError, RetryableStatus, Flawed, Unexpected, Trouble, Return, Goes, Fails
<1>5. CASE Accepted \/ Rejected \/ TooLargeDropped
  BY <1>5 DEF Accepted, Rejected, TooLargeDropped, Return, Settles
<1>6. CASE Cancel \/ Tick \/ Over
  BY <1>6 DEF Cancel, Tick, Over, vars, Goes
<1> QED
  BY <1>1, <1>2, <1>3, <1>4, <1>5, <1>6 DEF Next, Step, Answer

-----------------------------------------------------------------------------
LEMMA SendInvInit == Init => SendInv
<1> SUFFICES ASSUME Init PROVE SendInv
  OBVIOUS
<1>1. SendTypes
  BY TransportAssumption DEF Init, SendTypes, Slice, Items, Outcomes
<1> DEFINE lo == [n \in {1} |-> batch.from]
           hi == [n \in {1} |-> batch.to]
<1>2. Len(stack) = 0 /\ Top = 1 /\ 1..Top = {1} /\ 1..Len(stack) = {}
  BY DEF Init, Top
<1>3. lo[1] = batch.from /\ hi[1] = batch.to
  OBVIOUS
<1>4. batch \in [from : Int, to : Int] /\ batch.from < batch.to
  BY <1>1 DEF SendTypes
<1>5. Nested(lo, hi)
  BY <1>2, <1>3, <1>4 DEF Nested
<1>6. Answers(lo, hi)
  BY <1>2, <1>3 DEF Answers, Init, Ended
<1> QED
  BY <1>1, <1>5, <1>6 DEF SendInv

\* A step that leaves the splits alone.
LEMMA SameSplits ==
  ASSUME NEW lo, NEW hi, Nested(lo, hi), UNCHANGED <<batch, stack>>
  PROVE  Nested(lo, hi)' /\ Top' = Top
BY DEF Nested, Top, Pending

LEMMA GoesKeeps ==
  ASSUME SendInv, Goes
  PROVE  SendInv'
<1>1. PICK lo, hi : Nested(lo, hi) /\ Answers(lo, hi)
  BY DEF SendInv
<1>2. Nested(lo, hi)' /\ Top' = Top
  BY <1>1, SameSplits DEF Goes
<1>3. Answers(lo, hi)'
  BY <1>1, <1>2 DEF Answers, Goes, Pending
<1>4. SendTypes'
  BY DEF SendInv, SendTypes, Goes, Items, Ended
<1> QED
  BY <1>2, <1>3, <1>4 DEF SendInv

LEMMA FailsKeeps ==
  ASSUME SendInv, Fails
  PROVE  SendInv'
<1>1. PICK lo, hi : Nested(lo, hi) /\ Answers(lo, hi)
  BY DEF SendInv
<1>2. Nested(lo, hi)' /\ Top' = Top
  BY <1>1, SameSplits DEF Fails
<1>3. lo[Top] \in lo[Top]..(hi[Top] - 1)
  <2>1. Top \in 1..Top
    BY DEF SendInv, SendTypes, Top
  <2> QED
    BY <1>1, <2>1 DEF Nested
<1>4. Answers(lo, hi)'
  BY <1>1, <1>2, <1>3 DEF Answers, Fails, Pending, Confirms, Ended
<1>5. SendTypes'
  BY DEF SendInv, SendTypes, Fails, Items, Outcomes
<1> QED
  BY <1>2, <1>4, <1>5 DEF SendInv

LEMMA SettlesKeeps ==
  ASSUME SendInv, Settles
  PROVE  SendInv'
<1>1. PICK lo, hi : Nested(lo, hi) /\ Answers(lo, hi)
  BY DEF SendInv
<1>2. Nested(lo, hi)' /\ Top' = Top
  BY <1>1, SameSplits DEF Settles
<1>3. Top \in 1..Top /\ Top \in Nat /\ Len(stack) \in Nat
  BY DEF SendInv, SendTypes, Top
<1>4. /\ part.from = lo[Top] /\ part.to = hi[Top]
      /\ Items(part) = lo[Top]..(hi[Top] - 1)
  BY <1>1 DEF Answers, Settles, Items
<1>5. lo[Top] \in Int /\ hi[Top] \in Int /\ hi[Top] <= batch.to /\ batch.from <= lo[Top]
      /\ batch.from \in Int /\ batch.to \in Int
  BY <1>1, <1>3 DEF Nested, SendInv, SendTypes
<1>6. ASSUME NEW n \in 1..Len(stack), ~Pending(n)
      PROVE  /\ lo[n]..(stack[n].right.from - 1) \intersect Items(part) = {}
             /\ lo[n] \in Int /\ stack[n].right.from \in Int
  <2>1. n < Top /\ n \in 1..Top
    BY <1>3 DEF Top
  <2>2. stack[n].right.from <= lo[Top]
    BY <1>1, <1>3, <1>6, <2>1 DEF Nested
  <2>3. lo[n] \in Int /\ stack[n].right.from \in Int
    <3>1. stack[n] \in Frames
      BY DEF SendInv, SendTypes
    <3> QED
      BY <1>1, <2>1, <3>1 DEF Nested, Frames
  <2> QED
    BY <1>4, <1>5, <2>2, <2>3
<1>7. Answers(lo, hi)'
  <2>1. ASSUME NEW n \in 1..Len(stack), ~Pending(n)
        PROVE  Confirms(stack[n].left) <=> lo[n]..(stack[n].right.from - 1) \subseteq answered'
    BY <1>1, <1>6, <2>1 DEF Answers, Settles
  <2>2. hi[Top]..(batch.to - 1) \intersect answered' = {}
    BY <1>1, <1>4, <1>5 DEF Answers, Settles
  <2>3. Confirms(outcome') /\ lo[Top]..(hi[Top] - 1) \subseteq answered'
    BY <1>4 DEF Settles, Confirms
  <2>4. part'.to = hi[Top'] /\ pc' = "return" /\ UNCHANGED <<batch, stack>>
    BY <1>2, <1>4 DEF Settles
  <2> QED
    BY <1>2, <2>1, <2>2, <2>3, <2>4 DEF Answers, Pending, Ended
<1>8. SendTypes'
  <2>1. Items(part) \subseteq Items(batch)
    BY <1>4, <1>5 DEF Items
  <2> QED
    BY <2>1 DEF SendInv, SendTypes, Settles, Items, Outcomes
<1> QED
  BY <1>2, <1>7, <1>8 DEF SendInv

\* The slice in work is divided, and its left half is the slice in work.
LEMMA SplitKeeps ==
  ASSUME SendInv, Split
  PROVE  SendInv'
<1>1. PICK lo, hi : Nested(lo, hi) /\ Answers(lo, hi)
  BY DEF SendInv
<1>0. PICK t, m, frame : t = Top /\ m = Mid(part)
                         /\ frame = [right |-> Slice(m, part.to), left |-> "pending"]
  OBVIOUS
<1> DEFINE lo1 == [n \in 1..(t + 1) |-> IF n <= t THEN lo[n] ELSE lo[t]]
           hi1 == [n \in 1..(t + 1) |-> IF n <= t THEN hi[n] ELSE m]
<1>2. /\ Len(stack) \in Nat /\ Top = t /\ t = Len(stack) + 1 /\ t \in 1..t
      /\ stack \in Seq(Frames)
  BY <1>0 DEF SendInv, SendTypes, Top
<1>3. /\ part.from \in Int /\ part.to \in Int
      /\ part.from = lo[t] /\ part.to = hi[t]
      /\ batch.from \in Int /\ batch.to \in Int
  BY <1>1, <1>2 DEF SendInv, SendTypes, Answers, Split, Ended
<1>4. m \in Int /\ part.from < m /\ m < part.to
  <2>1. part.to - part.from > 1
    BY <1>3 DEF Split, LastSplit, Size
  <2> QED
    BY <1>0, <1>3, <2>1 DEF Mid, Size
<1>5. frame \in Frames
  BY <1>0, <1>3, <1>4 DEF Frames, Slice, Outcomes
<1>6. /\ stack' \in Seq(Frames) /\ Len(stack') = Len(stack) + 1 /\ Top' = t + 1
      /\ stack'[t] = frame
      /\ \A n \in 1..Len(stack) : stack'[n] = stack[n]
  BY <1>0, <1>2, <1>5 DEF Split, Top
<1>7. /\ lo1 \in [1..Top' -> Int] /\ hi1 \in [1..Top' -> Int]
      /\ \A n \in 1..t : lo1[n] = lo[n] /\ hi1[n] = hi[n]
      /\ lo1[t + 1] = lo[t] /\ hi1[t + 1] = m
  BY <1>1, <1>2, <1>3, <1>4, <1>6 DEF Nested
<1> HIDE DEF lo1, hi1
<1>8. frame.right.from = m /\ frame.right.to = part.to /\ frame.left = "pending"
  BY <1>0 DEF Slice
<1>9. UNCHANGED <<batch, answered>>
  BY DEF Split, call, history
<1>10. \A n \in 1..Len(stack) : Pending(n)' <=> Pending(n)
  BY <1>6 DEF Pending
<1>11. stack'[t].left = "pending"
  BY <1>6, <1>8 DEF Pending
<1>12. Nested(lo1, hi1)'
  <2>1. lo1[1] = batch'.from /\ hi1[1] = batch'.to
    <3>1. lo[1] = batch.from /\ hi[1] = batch.to
      BY <1>1 DEF Nested
    <3> QED
      BY <1>2, <1>7, <1>9, <3>1
  <2>2. ASSUME NEW n \in 1..Top'
        PROVE  batch'.from <= lo1[n] /\ lo1[n] < hi1[n] /\ hi1[n] <= batch'.to
    <3>1. n \in 1..t \/ n = t + 1
      BY <1>2, <1>6
    <3>2. /\ batch.from <= lo[t] /\ hi[t] <= batch.to
          /\ n \in 1..t => batch.from <= lo[n] /\ lo[n] < hi[n] /\ hi[n] <= batch.to
      BY <1>1, <1>2 DEF Nested
    <3> QED
      BY <1>3, <1>4, <1>7, <1>9, <3>1, <3>2
  <2>3. ASSUME NEW n \in 1..Len(stack)'
        PROVE  /\ stack'[n].right.to = hi1[n]
               /\ lo1[n] < stack'[n].right.from /\ stack'[n].right.from < hi1[n]
               /\ lo1[n + 1] = IF Pending(n)' THEN lo1[n] ELSE stack'[n].right.from
               /\ hi1[n + 1] = IF Pending(n)' THEN stack'[n].right.from ELSE hi1[n]
    <3>1. CASE n \in 1..Len(stack)
      <4>1. n \in 1..t /\ n + 1 \in 1..t
        BY <1>2, <3>1
      <4> QED
        BY <1>1, <1>6, <1>7, <1>10, <3>1, <4>1 DEF Nested
    <3>2. CASE n = t
      BY <1>2, <1>3, <1>4, <1>6, <1>7, <1>8, <1>11, <3>2 DEF Pending
    <3> QED
      BY <1>2, <1>6, <3>1, <3>2
  <2>4. ASSUME NEW n \in 1..Len(stack)', NEW k \in 1..Top', n < k
        PROVE  IF Pending(n)' THEN hi1[k] <= stack'[n].right.from
                              ELSE stack'[n].right.from <= lo1[k]
    <3>1. CASE n \in 1..Len(stack) /\ k \in 1..t
      BY <1>1, <1>2, <1>6, <1>7, <1>10, <2>4, <3>1 DEF Nested
    <3>2. CASE n \in 1..Len(stack) /\ k = t + 1
      <4>1. n < t
        BY <1>2, <3>2
      <4>2. IF Pending(n) THEN hi[t] <= stack[n].right.from ELSE stack[n].right.from <= lo[t]
        BY <1>1, <1>2, <3>2, <4>1 DEF Nested
      <4>3. stack[n].right.from \in Int
        <5>1. stack[n] \in Frames
          BY <1>2, <3>2
        <5> QED
          BY <5>1 DEF Frames
      <4> QED
        BY <1>3, <1>4, <1>6, <1>7, <1>10, <3>2, <4>2, <4>3
    <3>3. CASE n = t
      BY <1>2, <1>4, <1>6, <1>7, <1>8, <1>11, <2>4, <3>3 DEF Pending
    <3> QED
      BY <1>2, <1>6, <3>1, <3>2, <3>3
  <2> QED
    BY <1>7, <2>1, <2>2, <2>3, <2>4 DEF Nested
<1>13. Answers(lo1, hi1)'
  <2>1. ASSUME NEW n \in 1..Len(stack)', ~Pending(n)'
        PROVE  Confirms(stack'[n].left) <=> lo1[n]..(stack'[n].right.from - 1) \subseteq answered'
    <3>1. n \in 1..Len(stack) /\ n \in 1..t
      BY <1>2, <1>6, <1>11, <2>1 DEF Pending
    <3> QED
      BY <1>1, <1>6, <1>7, <1>9, <1>10, <2>1, <3>1 DEF Answers
  <2>2. lo[t]..(hi[t] - 1) \intersect answered = {} /\ hi[t]..(batch.to - 1) \intersect answered = {}
    BY <1>1, <1>2 DEF Answers, Split, Ended
  <2>3. hi1[Top']..(batch'.to - 1) \intersect answered' = {}
    <3>1. hi[t] <= batch.to
      BY <1>1, <1>2 DEF Nested
    <3>2. m..(batch.to - 1) \subseteq (lo[t]..(hi[t] - 1)) \union (hi[t]..(batch.to - 1))
      BY <1>3, <1>4, <3>1
    <3> QED
      BY <1>6, <1>7, <1>9, <2>2, <3>2
  <2>4. lo1[Top']..(hi1[Top'] - 1) \intersect answered' = {}
    BY <1>3, <1>4, <1>6, <1>7, <1>9, <2>2
  <2>5. part'.from = lo1[Top'] /\ part'.to = hi1[Top']
    BY <1>0, <1>3, <1>6, <1>7 DEF Split, Slice
  <2> QED
    BY <2>1, <2>3, <2>4, <2>5 DEF Answers, Split, Ended
<1>14. SendTypes'
  <2>1. part' \in [from : Int, to : Int]
    BY <1>0, <1>3, <1>4 DEF Split, Slice
  <2> QED
    BY <1>6, <1>9, <2>1 DEF SendInv, SendTypes, Split, Items
<1> QED
  BY <1>12, <1>13, <1>14 DEF SendInv

\* The innermost split, seen from the slices it divides.
LEMMA Innermost ==
  ASSUME SendInv, stack # <<>>, NEW lo, NEW hi, Nested(lo, hi),
         NEW m, m = Len(stack), NEW t, t = Top
  PROVE  /\ m \in Nat /\ m \in 1..m /\ t = m + 1 /\ m \in 1..t /\ t \in 1..t
         /\ stack \in Seq(Frames) /\ stack[m] \in Frames
         /\ lo[m] \in Int /\ hi[m] \in Int /\ stack[m].right.from \in Int
         /\ batch.from \in Int /\ batch.to \in Int
         /\ batch.from <= lo[m] /\ hi[m] <= batch.to
         /\ lo[m] < stack[m].right.from /\ stack[m].right.from < hi[m]
         /\ stack[m].right.to = hi[m]
         /\ lo[t] = IF Pending(m) THEN lo[m] ELSE stack[m].right.from
         /\ hi[t] = IF Pending(m) THEN stack[m].right.from ELSE hi[m]
<1>1. m \in Nat /\ m \in 1..m /\ t = m + 1 /\ m \in 1..t /\ t \in 1..t /\ stack \in Seq(Frames)
  BY DEF SendInv, SendTypes, Top
<1>2. stack[m] \in Frames
  BY <1>1
<1>3. stack[m].right.from \in Int
  BY <1>2 DEF Frames
<1>4. batch.from \in Int /\ batch.to \in Int
  BY DEF SendInv, SendTypes
<1> QED
  BY <1>1, <1>2, <1>3, <1>4 DEF Nested

\* The left half is back, and the right half is the slice in work.
LEMMA LeftDoneKeeps ==
  ASSUME SendInv, LeftDone
  PROVE  SendInv'
<1>1. PICK lo, hi : Nested(lo, hi) /\ Answers(lo, hi)
  BY DEF SendInv
<1>0. PICK m, t, mid : m = Len(stack) /\ t = Top /\ mid = stack[m].right.from
  OBVIOUS
<1>2. stack # <<>> /\ Pending(m) /\ pc = "return"
  BY <1>0 DEF LeftDone, Last, Pending
<1>3. /\ m \in Nat /\ m \in 1..m /\ t = m + 1 /\ m \in 1..t /\ t \in 1..t
      /\ stack \in Seq(Frames) /\ stack[m] \in Frames
      /\ lo[m] \in Int /\ hi[m] \in Int /\ mid \in Int
      /\ batch.from \in Int /\ batch.to \in Int
      /\ batch.from <= lo[m] /\ hi[m] <= batch.to
      /\ lo[m] < mid /\ mid < hi[m]
      /\ stack[m].right.to = hi[m]
      /\ lo[t] = lo[m] /\ hi[t] = mid
  BY <1>0, <1>1, <1>2, Innermost
<1> DEFINE lo1 == [n \in 1..t |-> IF n = t THEN mid ELSE lo[n]]
           hi1 == [n \in 1..t |-> IF n = t THEN hi[m] ELSE hi[n]]
<1>4. /\ lo1 \in [1..t -> Int] /\ hi1 \in [1..t -> Int]
      /\ \A n \in 1..m : lo1[n] = lo[n] /\ hi1[n] = hi[n]
      /\ lo1[t] = mid /\ hi1[t] = hi[m]
  BY <1>0, <1>1, <1>3 DEF Nested
<1> HIDE DEF lo1, hi1
<1>5. outcome \in Outcomes /\ outcome # "pending"
  BY DEF SendInv, SendTypes, Outcomes
<1>6. /\ stack' \in Seq(Frames) /\ Len(stack') = m /\ Top' = t
      /\ \A n \in 1..m : stack'[n].right = stack[n].right
      /\ \A n \in 1..m : n # m => stack'[n] = stack[n]
      /\ stack'[m].left = outcome
  <2>1. stack' = [stack EXCEPT ![m] = [stack[m] EXCEPT !.left = outcome]]
    BY <1>0 DEF LeftDone
  <2>2. [stack[m] EXCEPT !.left = outcome] \in Frames
    BY <1>3, <1>5 DEF Frames
  <2>3. stack' \in Seq(Frames) /\ Len(stack') = m
    BY <1>0, <1>3, <2>1, <2>2
  <2>4. /\ stack'[m].left = outcome
        /\ stack'[m].right = stack[m].right
        /\ \A n \in 1..m : n # m => stack'[n] = stack[n]
    BY <1>0, <1>3, <2>1 DEF Frames
  <2> QED
    BY <1>0, <1>3, <2>3, <2>4 DEF Top
<1>7. UNCHANGED <<batch, answered>> /\ part' = stack[m].right
  BY <1>0 DEF LeftDone, call, history, Last
<1>8. /\ \A n \in 1..m : n # m => (stack'[n].left = "pending" <=> stack[n].left = "pending")
      /\ stack'[m].left # "pending" /\ stack[m].left = "pending"
  BY <1>2, <1>5, <1>6 DEF Pending
<1>9. Nested(lo1, hi1)'
  <2>1. lo1[1] = batch'.from /\ hi1[1] = batch'.to
    BY <1>1, <1>3, <1>4, <1>7 DEF Nested
  <2>2. ASSUME NEW n \in 1..t
        PROVE  batch'.from <= lo1[n] /\ lo1[n] < hi1[n] /\ hi1[n] <= batch'.to
    <3>1. CASE n \in 1..m
      <4>1. batch.from <= lo[n] /\ lo[n] < hi[n] /\ hi[n] <= batch.to
        BY <1>0, <1>1, <1>3 DEF Nested
      <4> QED
        BY <1>4, <1>7, <3>1, <4>1
    <3>2. CASE n = t
      <4>1. batch.from <= mid /\ mid < hi[m] /\ hi[m] <= batch.to
        BY <1>3
      <4> QED
        BY <1>4, <1>7, <3>2, <4>1
    <3> QED
      BY <1>3, <3>1, <3>2
  <2>3. ASSUME NEW n \in 1..m
        PROVE  /\ stack'[n].right.to = hi1[n]
               /\ lo1[n] < stack'[n].right.from /\ stack'[n].right.from < hi1[n]
               /\ lo1[n + 1] = IF stack'[n].left = "pending" THEN lo1[n] ELSE stack'[n].right.from
               /\ hi1[n + 1] = IF stack'[n].left = "pending" THEN stack'[n].right.from ELSE hi1[n]
    <3>1. CASE n = m
      BY <1>0, <1>3, <1>4, <1>6, <1>8, <3>1
    <3>2. CASE n # m
      <4>1. n + 1 \in 1..m
        BY <1>3, <3>2
      <4>2. /\ stack[n].right.to = hi[n]
            /\ lo[n] < stack[n].right.from /\ stack[n].right.from < hi[n]
            /\ lo[n + 1] = IF stack[n].left = "pending" THEN lo[n] ELSE stack[n].right.from
            /\ hi[n + 1] = IF stack[n].left = "pending" THEN stack[n].right.from ELSE hi[n]
        BY <1>0, <1>1 DEF Nested, Pending
      <4> QED
        BY <1>4, <1>6, <1>8, <3>2, <4>1, <4>2
    <3> QED
      BY <3>1, <3>2
  <2>4. ASSUME NEW n \in 1..m, NEW k \in 1..t, n < k
        PROVE  IF stack'[n].left = "pending" THEN hi1[k] <= stack'[n].right.from
                                             ELSE stack'[n].right.from <= lo1[k]
    <3>1. CASE n = m
      BY <1>0, <1>3, <1>4, <1>6, <1>8, <2>4, <3>1
    <3>2. CASE n # m /\ k \in 1..m
      BY <1>0, <1>1, <1>3, <1>4, <1>6, <1>8, <2>4, <3>2 DEF Nested, Pending
    <3>3. CASE n # m /\ k = t
      <4>1. n < m
        BY <1>3, <3>3
      <4>2. IF stack[n].left = "pending" THEN hi[m] <= stack[n].right.from
                                         ELSE stack[n].right.from <= lo[m]
        BY <1>0, <1>1, <1>3, <4>1 DEF Nested, Pending
      <4>3. stack[n].right.from \in Int
        <5>1. stack[n] \in Frames
          BY <1>0, <1>3
        <5> QED
          BY <5>1 DEF Frames
      <4> QED
        BY <1>3, <1>4, <1>6, <1>8, <3>3, <4>2, <4>3
    <3> QED
      BY <1>3, <3>1, <3>2, <3>3
  <2> QED
    BY <1>4, <1>6, <2>1, <2>2, <2>3, <2>4 DEF Nested, Pending
<1>10. /\ Confirms(outcome) <=> lo[t]..(hi[t] - 1) \subseteq answered
       /\ hi[t]..(batch.to - 1) \intersect answered = {}
  BY <1>0, <1>1, <1>2 DEF Answers, Ended
<1>11. Answers(lo1, hi1)'
  <2>1. ASSUME NEW n \in 1..m, stack'[n].left # "pending"
        PROVE  Confirms(stack'[n].left) <=> lo1[n]..(stack'[n].right.from - 1) \subseteq answered'
    <3>1. CASE n = m
      BY <1>0, <1>3, <1>4, <1>6, <1>7, <1>10, <3>1
    <3>2. CASE n # m
      BY <1>0, <1>1, <1>4, <1>6, <1>7, <2>1, <3>2 DEF Answers, Pending
    <3> QED
      BY <3>1, <3>2
  <2>2. hi1[t]..(batch'.to - 1) \intersect answered' = {}
    BY <1>3, <1>4, <1>7, <1>10
  <2>3. lo1[t]..(hi1[t] - 1) \intersect answered' = {}
    BY <1>3, <1>4, <1>7, <1>10
  <2>4. part'.from = lo1[t] /\ part'.to = hi1[t]
    BY <1>0, <1>3, <1>4, <1>7
  <2>5. pc' = "marshal"
    BY DEF LeftDone
  <2> QED
    BY <1>6, <2>1, <2>2, <2>3, <2>4, <2>5 DEF Answers, Pending, Ended
<1>12. SendTypes'
  <2>1. part' \in [from : Int, to : Int]
    BY <1>3, <1>7 DEF Frames
  <2> QED
    BY <1>6, <1>7, <2>1 DEF SendInv, SendTypes, LeftDone, Items
<1> QED
  BY <1>9, <1>11, <1>12 DEF SendInv

\* Both halves are back: the outcome is that of the slice they make up.
LEMMA BothDoneKeeps ==
  ASSUME SendInv, BothDone
  PROVE  SendInv'
<1>1. PICK lo, hi : Nested(lo, hi) /\ Answers(lo, hi)
  BY DEF SendInv
<1>0. PICK m, t, mid : m = Len(stack) /\ t = Top /\ mid = stack[m].right.from
  OBVIOUS
<1>2. stack # <<>> /\ ~Pending(m) /\ pc = "return"
  BY <1>0 DEF BothDone, Last, Pending
<1>3. /\ m \in Nat /\ m \in 1..m /\ t = m + 1 /\ m \in 1..t /\ t \in 1..t
      /\ stack \in Seq(Frames)
      /\ lo[m] \in Int /\ hi[m] \in Int /\ mid \in Int
      /\ lo[m] < mid /\ mid < hi[m]
      /\ lo[t] = mid /\ hi[t] = hi[m]
  BY <1>0, <1>1, <1>2, Innermost
<1> DEFINE lo1 == [n \in 1..m |-> lo[n]]
           hi1 == [n \in 1..m |-> hi[n]]
<1>4. /\ lo1 \in [1..m -> Int] /\ hi1 \in [1..m -> Int]
      /\ \A n \in 1..m : lo1[n] = lo[n] /\ hi1[n] = hi[n]
  BY <1>0, <1>1, <1>3 DEF Nested
<1> HIDE DEF lo1, hi1
<1>5. /\ stack' \in Seq(Frames) /\ Len(stack') = m - 1 /\ Top' = m
      /\ \A n \in 1..(m - 1) : stack'[n] = stack[n]
  BY <1>0, <1>3 DEF BothDone, Front, Top
<1>6. UNCHANGED <<batch, part, answered, pc>>
  BY DEF BothDone, call, history
<1>7. /\ 1..(m - 1) \subseteq 1..m /\ 1..m \subseteq 1..t
      /\ \A n \in 1..(m - 1) : n + 1 \in 1..m
  BY <1>3
<1>8. Nested(lo1, hi1)'
  <2>1. lo1[1] = batch'.from /\ hi1[1] = batch'.to
    BY <1>1, <1>3, <1>4, <1>6 DEF Nested
  <2>2. \A n \in 1..m : batch'.from <= lo1[n] /\ lo1[n] < hi1[n] /\ hi1[n] <= batch'.to
    BY <1>0, <1>1, <1>4, <1>6, <1>7 DEF Nested
  <2>3. ASSUME NEW n \in 1..(m - 1)
        PROVE  /\ stack'[n].right.to = hi1[n]
               /\ lo1[n] < stack'[n].right.from /\ stack'[n].right.from < hi1[n]
               /\ lo1[n + 1] = IF stack'[n].left = "pending" THEN lo1[n] ELSE stack'[n].right.from
               /\ hi1[n + 1] = IF stack'[n].left = "pending" THEN stack'[n].right.from ELSE hi1[n]
    <3>1. /\ stack[n].right.to = hi[n]
          /\ lo[n] < stack[n].right.from /\ stack[n].right.from < hi[n]
          /\ lo[n + 1] = IF stack[n].left = "pending" THEN lo[n] ELSE stack[n].right.from
          /\ hi[n + 1] = IF stack[n].left = "pending" THEN stack[n].right.from ELSE hi[n]
      BY <1>0, <1>1, <1>7 DEF Nested, Pending
    <3> QED
      BY <1>4, <1>5, <1>7, <3>1
  <2>4. ASSUME NEW n \in 1..(m - 1), NEW k \in 1..m, n < k
        PROVE  IF stack'[n].left = "pending" THEN hi1[k] <= stack'[n].right.from
                                             ELSE stack'[n].right.from <= lo1[k]
    <3>1. IF stack[n].left = "pending" THEN hi[k] <= stack[n].right.from
                                       ELSE stack[n].right.from <= lo[k]
      BY <1>0, <1>1, <1>7, <2>4 DEF Nested, Pending
    <3> QED
      BY <1>4, <1>5, <3>1
  <2> QED
    BY <1>4, <1>5, <2>1, <2>2, <2>3, <2>4 DEF Nested, Pending
<1>9. /\ Confirms(outcome) <=> mid..(hi[m] - 1) \subseteq answered
      /\ Confirms(stack[m].left) <=> lo[m]..(mid - 1) \subseteq answered
      /\ hi[m]..(batch.to - 1) \intersect answered = {}
      /\ part.to = hi[m]
  BY <1>0, <1>1, <1>2, <1>3 DEF Answers, Ended
<1>10. Confirms(outcome') <=> lo[m]..(hi[m] - 1) \subseteq answered
  <2>1. lo[m]..(hi[m] - 1) = (lo[m]..(mid - 1)) \union (mid..(hi[m] - 1))
    BY <1>3
  <2>2. Confirms(outcome') <=> Confirms(stack[m].left) /\ Confirms(outcome)
    BY <1>0 DEF BothDone, BothConfirm, Confirms, Last
  <2> QED
    BY <1>9, <2>1, <2>2
<1>11. Answers(lo1, hi1)'
  <2>1. ASSUME NEW n \in 1..(m - 1), stack'[n].left # "pending"
        PROVE  Confirms(stack'[n].left) <=> lo1[n]..(stack'[n].right.from - 1) \subseteq answered'
    BY <1>0, <1>1, <1>4, <1>5, <1>6, <1>7, <2>1 DEF Answers, Pending
  <2> QED
    BY <1>2, <1>3, <1>4, <1>5, <1>6, <1>9, <1>10, <2>1 DEF Answers, Pending, Ended
<1>12. SendTypes'
  <2>1. outcome' \in Outcomes
    BY DEF BothDone, Outcomes
  <2> QED
    BY <1>2, <1>5, <1>6, <2>1 DEF SendInv, SendTypes, Items
<1> QED
  BY <1>8, <1>11, <1>12 DEF SendInv

LEMMA DoneKeeps ==
  ASSUME SendInv, Done
  PROVE  SendInv'
<1>1. PICK lo, hi : Nested(lo, hi) /\ Answers(lo, hi)
  BY DEF SendInv
<1>2. UNCHANGED <<batch, part, stack, answered, outcome>> /\ pc' = "done" /\ pc = "return"
  BY DEF Done, call, history
<1>3. Nested(lo, hi)' /\ Top' = Top
  BY <1>1, <1>2, SameSplits
<1>4. Answers(lo, hi)'
  BY <1>1, <1>2, <1>3 DEF Answers, Pending, Ended
<1>5. SendTypes'
  BY <1>2 DEF SendInv, SendTypes, Done, Items
<1> QED
  BY <1>3, <1>4, <1>5 DEF SendInv

LEMMA SendInvNext == SendInv /\ [Next]_vars => SendInv'
BY StepKinds, GoesKeeps, FailsKeeps, SettlesKeeps, SplitKeeps, LeftDoneKeeps, BothDoneKeeps,
   DoneKeeps

THEOREM SendInvariant == Spec => []SendInv
BY SendInvInit, SendInvNext, PTL DEF Spec

\* When the call is over the slice in work is the whole batch.
LEMMA WholeBatch ==
  ASSUME SendInv, pc \in Ended, stack = <<>>
  PROVE  Confirms(outcome) <=> answered = Items(batch)
<1>1. PICK lo, hi : Nested(lo, hi) /\ Answers(lo, hi)
  BY DEF SendInv
<1>2. Top = 1
  BY DEF Top
<1>3. Confirms(outcome) <=> Items(batch) \subseteq answered
  BY <1>1, <1>2 DEF Nested, Answers, Items
<1> QED
  BY <1>3 DEF SendInv, SendTypes

\* The slice in work is a part of the batch that has no answers yet.
LEMMA PartIsOpen ==
  ASSUME SendInv, pc \notin Ended
  PROVE  /\ Items(part) \intersect answered = {}
         /\ Items(part) \subseteq Items(batch) /\ Items(part) # {}
<1>1. PICK lo, hi : Nested(lo, hi) /\ Answers(lo, hi)
  BY DEF SendInv
<1>2. /\ part.from = lo[Top] /\ part.to = hi[Top]
      /\ lo[Top]..(hi[Top] - 1) \intersect answered = {}
  BY <1>1 DEF Answers
<1>3. /\ part.from \in Int /\ part.to \in Int /\ batch.from \in Int /\ batch.to \in Int
      /\ Top \in 1..Top
  BY DEF SendInv, SendTypes, Top
<1>4. batch.from <= part.from /\ part.from < part.to /\ part.to <= batch.to
  BY <1>1, <1>2, <1>3 DEF Nested
<1>5. part.from \in Items(part)
  BY <1>3, <1>4 DEF Items
<1> QED
  BY <1>2, <1>3, <1>4, <1>5 DEF Items

-----------------------------------------------------------------------------
\* For every instance: the outcome of a send confirms exactly when every item of the
\* batch has its answer, through any splits and retries (settleEvents, splitOrDropEvents).
THEOREM SendIsHonest == Spec => []SendContract
<1>1. SendInv => SendContract
  BY WholeBatch DEF SendContract, SendInv, SendTypes, Ended
<1> QED
  BY SendInvariant, <1>1, PTL

\* For every instance: no item that has its answer is in a request under way
\* (splitOrDropEvents, sendBatch).
THEOREM NeverResent == Spec => []NoResend
<1>1. SendInv => NoResend
  BY PartIsOpen DEF NoResend, Ended
<1> QED
  BY SendInvariant, <1>1, PTL

\* For every instance: each step of a call is an answer for some items, its return, or
\* a stutter of Settlement (sendEvents, sendMetrics).
THEOREM SendSettles == Spec => Implements
<1> USE DEF Contract!vars
<1>1. Init => Contract!Init
  <2> SUFFICES ASSUME Init PROVE Contract!Init
    OBVIOUS
  <2>1. SendInv /\ pc = "marshal" /\ answered = {}
    BY SendInvInit DEF Init
  <2>2. batch.from \in Int /\ batch.to \in Int /\ batch.from < batch.to
    BY <2>1 DEF SendInv, SendTypes
  <2>3. IsFiniteSet(Items(batch))
    BY <2>2, FS_Interval DEF Items
  <2>4. Items(batch) # {}
    BY <2>1, PartIsOpen DEF Ended
  <2>5. Contract!IsFiniteSet(Items(batch))
    BY <2>3 DEF IsFiniteSet, Contract!IsFiniteSet
  <2> QED
    BY <2>1, <2>4, <2>5 DEF Contract!Init
<1>2. SendInv /\ [Next]_vars => [Contract!Next]_(Contract!vars)
  <2> SUFFICES ASSUME SendInv, [Next]_vars PROVE [Contract!Next]_(Contract!vars)
    OBVIOUS
  <2>1. CASE Goes \/ Fails \/ Split \/ LeftDone \/ BothDone
    BY <2>1 DEF Goes, Fails, Split, LeftDone, BothDone, call, history, Items, Ended
  <2>2. CASE Settles
    <3>1. /\ Items(part) # {} /\ Items(part) \subseteq Items(batch) \ answered
          /\ Items(part) \in SUBSET Items(batch)
      BY <2>2, PartIsOpen DEF Settles
    <3>2. Contract!Answer(Items(part))
      BY <2>2, <3>1 DEF Contract!Answer, Settles, Items, Ended
    <3> QED
      BY <3>1, <3>2 DEF Contract!Next
  <2>3. CASE Done
    <3>1. Confirms(outcome) <=> answered = Items(batch)
      BY <2>3, WholeBatch DEF Done, Ended
    <3>2. Contract!Return
      BY <2>3, <3>1 DEF Contract!Return, Done, call, history, Items
    <3> QED
      BY <3>2 DEF Contract!Next
  <2> QED
    BY <2>1, <2>2, <2>3, StepKinds
<1> QED
  BY <1>1, <1>2, SendInvariant, PTL DEF Spec, Implements, Contract!Spec

-----------------------------------------------------------------------------
\* For every instance: in clear, a 413 costs only items that are too large by themselves
\* (splitOrDropEvents).
THEOREM NeighboursSurvive == Spec => []OnlyBigDropped
<1>1. Init => OnlyBigDropped
  BY DEF Init, OnlyBigDropped
<1>2. SendInv /\ OnlyBigDropped /\ [Next]_vars => OnlyBigDropped'
  <2> SUFFICES ASSUME SendInv, OnlyBigDropped, [Next]_vars PROVE OnlyBigDropped'
    OBVIOUS
  <2> USE DEF OnlyBigDropped, call, history
  <2>1. CASE TooLargeDropped
    <3>1. part.from \in Int /\ part.to \in Int
      BY DEF SendInv, SendTypes
    <3>2. Items(part) # {}
      BY <2>1, PartIsOpen DEF TooLargeDropped, Ended
    <3>3. mode = "batch" => Items(part) = {part.from} /\ ~(Size(part) > Capacity)
      BY <2>1, <3>1, <3>2, TransportAssumption DEF TooLargeDropped, LastSplit, Size, Items
    <3>4. mode = "batch" => Items(part) \subseteq big
      BY <2>1, <3>3 DEF TooLargeDropped, TooLarge
    <3> QED
      BY <2>1, <3>4 DEF TooLargeDropped
  <2>2. CASE ~TooLargeDropped
    <3>1. UNCHANGED <<mode, big, dropped>>
      BY <2>2 DEF Next, vars, Step, Attempt, Answer, Marshal, MarshalFails, GateOpen, GateBurns,
                  GateFails, Refused, Do, Wake, SleepCancelled, NetError, RetryableStatus, Trouble,
                  Accepted, Flawed, Rejected, Unexpected, Split, LeftDone, BothDone, Done, Cancel,
                  Tick, Over
    <3> QED
      BY <3>1
  <2> QED
    BY <2>1, <2>2
<1> QED
  BY <1>1, <1>2, SendInvariant, PTL DEF Spec

-----------------------------------------------------------------------------
\* A request under way is one that no counter has seen.
CountInv ==
  /\ requestsSent \in Nat /\ requestsFailed \in Nat /\ requests \in Nat
  /\ requestsSent + requestsFailed <= requests
  /\ pc \in {"wire", "aborted"} => requestsSent + requestsFailed < requests

LEMMA CountInvariant == Spec => []CountInv
<1>1. Init => CountInv
  BY DEF Init, CountInv
<1>2. CountInv /\ [Next]_vars => CountInv'
  <2> SUFFICES ASSUME CountInv, [Next]_vars PROVE CountInv'
    OBVIOUS
  <2> USE DEF CountInv, counters, history
  <2>1. CASE UNCHANGED vars \/ Over
    BY <2>1 DEF vars, Over
  <2>2. CASE Marshal \/ MarshalFails
    BY <2>2 DEF Marshal, MarshalFails, Return
  <2>3. CASE Attempt
    BY <2>3 DEF Attempt, GateOpen, GateBurns, GateFails, Refused, Do, Wake, SleepCancelled, Return
  <2>4. CASE NetError \/ RetryableStatus
    BY <2>4 DEF NetError, RetryableStatus, Trouble, Return
  <2>5. CASE Accepted \/ Flawed \/ Rejected \/ Unexpected
    BY <2>5 DEF Accepted, Flawed, Rejected, Unexpected, Return
  <2>6. CASE TooLargeDropped \/ Split
    BY <2>6 DEF TooLargeDropped, Split, Return
  <2>7. CASE LeftDone \/ BothDone \/ Done \/ Cancel \/ Tick
    BY <2>7 DEF LeftDone, BothDone, Done, Cancel, Tick
  <2> QED
    BY <2>1, <2>2, <2>3, <2>4, <2>5, <2>6, <2>7 DEF Next, Step, Answer
<1> QED
  BY <1>1, <1>2, PTL DEF Spec

\* For every instance: requestsSent and requestsFailed count no request twice (sendBatch,
\* splitOrDropEvents, sendEncryptedBatch).
THEOREM NoneCountedTwice == Spec => []CountedOnce
<1>1. CountInv => CountedOnce
  BY DEF CountInv, CountedOnce
<1> QED
  BY <1>1, CountInvariant, PTL

-----------------------------------------------------------------------------
\* The breaker has seen every failing answer of the row, and from the threshold on its
\* clock runs since the last of them.
BreakerInv ==
  /\ state \in {"closed", "open", "half_open"} /\ failureCount \in Nat /\ troubles \in Nat
  /\ elapsed \in 0..RecoveryTimeout /\ calm \in 0..RecoveryTimeout
  /\ troubles <= failureCount
  /\ state = "closed" => failureCount < Threshold
  /\ state = "half_open" => elapsed = RecoveryTimeout
  /\ troubles >= Threshold => elapsed = calm

LEMMA BreakerInit == Init => BreakerInv
BY TransportAssumption DEF BreakerInv, Init

LEMMA BreakerNext ==
  ASSUME BreakerInv, [Next]_vars
  PROVE  /\ BreakerInv'
         /\ requests' # requests => troubles < Threshold \/ calm = RecoveryTimeout
<1> USE TransportAssumption DEF BreakerInv, breaker, history
<1>1. CASE Do
  BY <1>1 DEF Do, Breaker!Admitted
<1>2. CASE NetError \/ RetryableStatus
  <2>1. Breaker!Failure /\ troubles' = troubles + 1 /\ calm' = 0 /\ requests' = requests
    BY <1>2 DEF NetError, RetryableStatus, Trouble
  <2> QED
    BY <2>1 DEF Breaker!Failure
<1>3. CASE Accepted \/ Flawed \/ Unexpected
  <2>1. Breaker!Success /\ troubles' = 0 /\ calm' = calm /\ requests' = requests
    BY <1>3 DEF Accepted, Flawed, Unexpected, Calms
  <2> QED
    BY <2>1 DEF Breaker!Success
<1>4. CASE Tick
  BY <1>4 DEF Tick, Breaker!Later
<1>5. CASE ~(Do \/ NetError \/ RetryableStatus \/ Accepted \/ Flawed \/ Unexpected \/ Tick)
  <2>1. UNCHANGED <<breaker, requests, troubles, calm>>
    BY <1>5 DEF Next, vars, Step, Attempt, Answer, Marshal, MarshalFails, GateOpen, GateBurns,
                GateFails, Refused, Wake, SleepCancelled, Rejected, TooLargeDropped, Split,
                LeftDone, BothDone, Done, Cancel, Over
  <2> QED
    BY <2>1
<1> QED
  BY <1>1, <1>2, <1>3, <1>4, <1>5

\* For every instance: a retry or the other half of a split is held back by the breaker
\* like any other request (sendBatch).
THEOREM BreakerHoldsRetries == Spec => RetriesRespectBreaker
<1>1. BreakerInv /\ [Next]_vars => BreakerInv'
  BY BreakerNext
<1>2. BreakerInv /\ [Next]_vars
        => [requests' # requests => troubles < Threshold \/ calm = RecoveryTimeout]_vars
  BY BreakerNext
<1> QED
  BY <1>1, <1>2, BreakerInit, PTL DEF Spec, RetriesRespectBreaker

-----------------------------------------------------------------------------
\* The slice in work, and the piece that ended last, lie in the batch.
LEMMA PartFits ==
  ASSUME SendInv
  PROVE  /\ part.from \in Int /\ part.to \in Int /\ batch.from \in Int /\ batch.to \in Int
         /\ batch.from < part.to /\ part.to <= batch.to
         /\ pc \notin Ended => batch.from <= part.from /\ part.from < part.to
<1>1. PICK lo, hi : Nested(lo, hi) /\ Answers(lo, hi)
  BY DEF SendInv
<1>2. /\ part.from \in Int /\ part.to \in Int /\ batch.from \in Int /\ batch.to \in Int
      /\ Top \in 1..Top
  BY DEF SendInv, SendTypes, Top
<1>3. batch.from <= lo[Top] /\ lo[Top] < hi[Top] /\ hi[Top] <= batch.to /\ lo[Top] \in Int
  BY <1>1, <1>2 DEF Nested
<1> QED
  BY <1>1, <1>2, <1>3 DEF Answers

\* The right half begins where the left half ended.
LEMMA RightFollows ==
  ASSUME SendInv, LeftDone
  PROVE  part'.from = part.to
<1>1. PICK lo, hi : Nested(lo, hi) /\ Answers(lo, hi)
  BY DEF SendInv
<1>2. PICK m, t : m = Len(stack) /\ t = Top
  OBVIOUS
<1>3. stack # <<>> /\ Pending(m) /\ part' = stack[m].right
  BY <1>2 DEF LeftDone, Last, Pending
<1>4. hi[t] = stack[m].right.from
  BY <1>1, <1>2, <1>3, Innermost
<1> QED
  BY <1>1, <1>2, <1>3, <1>4 DEF Answers

\* Items that were tried after ctx was done lie to the left of what is still to be tried.
LateInv ==
  /\ late \in Nat
  /\ pc = "aborted" => cancelled
  /\ late <= (IF pc \in Ended THEN part.to
              ELSE IF pc = "aborted" THEN part.from + 1 ELSE part.from) - batch.from

LEMMA LateInit == Init => LateInv
BY SendInvInit, PartFits DEF Init, LateInv, Ended

LEMMA LateNext == SendInv /\ LateInv /\ [Next]_vars => LateInv'
<1> SUFFICES ASSUME SendInv, LateInv, [Next]_vars PROVE LateInv'
  OBVIOUS
<1> USE DEF call, history, Ended
<1>1. /\ part.from \in Int /\ part.to \in Int /\ batch.from \in Int /\ batch.to \in Int
      /\ batch.from < part.to /\ part.to <= batch.to
      /\ pc \notin Ended => batch.from <= part.from /\ part.from < part.to
  BY PartFits
<1>2. CASE UNCHANGED vars \/ Over
  BY <1>2 DEF vars, Over, LateInv
<1>3. CASE Marshal \/ GateOpen \/ GateBurns \/ Wake
  BY <1>3 DEF Marshal, GateOpen, GateBurns, Wake, LateInv
<1>4. CASE MarshalFails \/ GateFails \/ Refused \/ SleepCancelled
  BY <1>1, <1>4 DEF MarshalFails, GateFails, Refused, SleepCancelled, Return, LateInv
<1>5. CASE Do
  <2>1. CASE cancelled
    BY <1>1, <1>5, <2>1 DEF Do, LateInv
  <2>2. CASE ~cancelled
    BY <1>1, <1>5, <2>2 DEF Do, LateInv
  <2> QED
    BY <2>1, <2>2
<1>6. CASE NetError \/ RetryableStatus
  <2>1. UNCHANGED <<batch, part, late, cancelled>> /\ pc \in {"wire", "aborted"}
    BY <1>6 DEF NetError, RetryableStatus, Trouble
  <2>2. pc' = "return" \/ (pc' = "backoff" /\ pc = "wire")
    BY <1>6 DEF NetError, RetryableStatus, Return, LateInv
  <2> QED
    BY <1>1, <2>1, <2>2 DEF LateInv
<1>7. CASE Accepted \/ Flawed \/ Rejected \/ Unexpected \/ TooLargeDropped
  BY <1>1, <1>7 DEF Accepted, Flawed, Rejected, Unexpected, TooLargeDropped, Return, LateInv
<1>8. CASE Split
  <2>1. part'.from = part.from
    BY <1>8 DEF Split, Slice
  <2> QED
    BY <1>8, <2>1 DEF Split, LateInv
<1>9. CASE LeftDone
  BY <1>9, RightFollows DEF LeftDone, LateInv
<1>10. CASE BothDone \/ Done
  BY <1>10 DEF BothDone, Done, LateInv
<1>11. CASE Cancel \/ Tick
  BY <1>11 DEF Cancel, Tick, LateInv
<1> QED
  BY <1>2, <1>3, <1>4, <1>5, <1>6, <1>7, <1>8, <1>9, <1>10, <1>11 DEF Next, Step, Attempt, Answer

\* For every instance: once ctx is done no item is tried twice, however the batch is
\* split, so a flush that Stop cancels costs the breaker at most one failure per item
\* (sendBatch, splitOrDropEvents).
THEOREM CancelledOnce == Spec => []CancelBound
<1>1. SendInv /\ LateInv => CancelBound
  BY PartFits DEF LateInv, CancelBound, Size, Ended
<1> QED
  BY <1>1, LateInit, LateNext, SendInvariant, PTL DEF Spec
-----------------------------------------------------------------------------
\* The splits whose right half is still to be sent.
Waiting == {n \in 1..Len(stack) : Pending(n)}

\* Their right halves lie behind the slice in work, each with an item of its own.
LEMMA WaitingFits ==
  ASSUME SendInv
  PROVE  /\ IsFiniteSet(Waiting) /\ Cardinality(Waiting) \in Nat
         /\ Cardinality(Waiting) <= batch.to - part.to
<1>1. PICK lo, hi : Nested(lo, hi) /\ Answers(lo, hi)
  BY DEF SendInv
<1>2. /\ part.to \in Int /\ batch.to \in Int /\ part.to <= batch.to
      /\ Len(stack) \in Nat /\ Top = Len(stack) + 1 /\ stack \in Seq(Frames)
  BY PartFits DEF SendInv, SendTypes, Top
<1> DEFINE places == part.to..(batch.to - 1)
           f == [n \in Waiting |-> stack[n].right.from]
<1>3. ASSUME NEW n \in Waiting
      PROVE  /\ n \in 1..Len(stack) /\ Pending(n) /\ stack[n].right.from \in Int
             /\ part.to <= stack[n].right.from /\ stack[n].right.from < batch.to
  <2>1. n \in 1..Len(stack) /\ Pending(n) /\ n \in 1..Top /\ Top \in 1..Top /\ n < Top
    BY <1>2 DEF Waiting
  <2>2. stack[n].right.from \in Int
    <3>1. stack[n] \in Frames
      BY <1>2, <2>1
    <3> QED
      BY <3>1 DEF Frames
  <2>3. stack[n].right.from < hi[n] /\ hi[n] <= batch.to /\ hi[n] \in Int
    BY <1>1, <2>1 DEF Nested
  <2>4. hi[Top] <= stack[n].right.from
    BY <1>1, <2>1 DEF Nested
  <2> QED
    BY <1>1, <1>2, <2>1, <2>2, <2>3, <2>4 DEF Answers
<1>4. ASSUME NEW n \in Waiting, NEW k \in Waiting, n < k
      PROVE  stack[k].right.from < stack[n].right.from
  <2>1. n \in 1..Len(stack) /\ k \in 1..Len(stack) /\ k \in 1..Top /\ Pending(n)
    BY <1>2, <1>3
  <2>2. hi[k] <= stack[n].right.from /\ stack[k].right.from < hi[k] /\ hi[k] \in Int
    BY <1>1, <1>4, <2>1 DEF Nested
  <2> QED
    BY <1>3, <2>2
<1>5. f \in [Waiting -> places]
  BY <1>2, <1>3
<1>6. \A n, k \in Waiting : f[n] = f[k] => n = k
  <2> SUFFICES ASSUME NEW n \in Waiting, NEW k \in Waiting, f[n] = f[k], n # k PROVE FALSE
    OBVIOUS
  <2>1. n < k \/ k < n
    BY <1>3
  <2> QED
    BY <1>3, <1>4, <2>1
<1>7. f \in Injection(Waiting, places)
  BY <1>5, <1>6 DEF Injection, IsInjective
<1>8. /\ IsFiniteSet(places)
      /\ Cardinality(places) = batch.to - part.to
  <2>0. PICK a, b : a = part.to /\ b = batch.to - 1
    OBVIOUS
  <2>1. a \in Int /\ b \in Int /\ batch.to - part.to = IF a > b THEN 0 ELSE b - a + 1
    BY <1>2, <2>0
  <2>2. IsFiniteSet(a..b) /\ Cardinality(a..b) = IF a > b THEN 0 ELSE b - a + 1
    BY <2>1, FS_Interval, Zenon
  <2> QED
    BY <2>0, <2>1, <2>2
<1> HIDE DEF f, places
<1>9. IsFiniteSet(Waiting) /\ Cardinality(Waiting) <= Cardinality(places)
  BY <1>7, <1>8, FS_Injection
<1>10. Cardinality(Waiting) \in Nat
  BY <1>9, FS_CardinalityType
<1> QED
  BY <1>2, <1>8, <1>9, <1>10

\* A split adds one, and one is gone when its left half is back.
LEMMA SplitWaits ==
  ASSUME SendInv, Split
  PROVE  Cardinality(Waiting)' = Cardinality(Waiting) + 1
<1>0. PICK m, frame : m = Len(stack) + 1
                      /\ frame = [right |-> Slice(Mid(part), part.to), left |-> "pending"]
  OBVIOUS
<1>1. stack \in Seq(Frames) /\ m \in Nat /\ m \notin 1..Len(stack)
  BY <1>0 DEF SendInv, SendTypes
<1>2. stack' = Append(stack, frame) /\ frame.left = "pending"
  BY <1>0 DEF Split
<1>3. /\ Len(stack') = m /\ 1..m = 1..Len(stack) \union {m}
      /\ stack'[m] = frame /\ \A n \in 1..Len(stack) : stack'[n] = stack[n]
  BY <1>0, <1>1, <1>2
<1>4. Waiting' = Waiting \union {m} /\ m \notin Waiting
  BY <1>1, <1>2, <1>3 DEF Waiting, Pending
<1> QED
  BY <1>4, WaitingFits, FS_AddElement

LEMMA LeftWaits ==
  ASSUME SendInv, LeftDone
  PROVE  Cardinality(Waiting)' = Cardinality(Waiting) - 1
<1>0. PICK m : m = Len(stack)
  OBVIOUS
<1>1. stack \in Seq(Frames) /\ m \in 1..m /\ m \in Nat /\ stack[m].left = "pending"
  BY <1>0 DEF SendInv, SendTypes, LeftDone, Last
<1>2. outcome # "pending"
  BY DEF SendInv, SendTypes, Outcomes
<1>3. stack' = [stack EXCEPT ![m] = [stack[m] EXCEPT !.left = outcome]]
  BY <1>0 DEF LeftDone
<1>4. stack[m] \in Frames
  BY <1>0, <1>1
<1>5. /\ Len(stack') = m /\ stack'[m].left = outcome
      /\ \A n \in 1..m : n # m => stack'[n] = stack[n]
  BY <1>0, <1>1, <1>3, <1>4 DEF Frames
<1>6. Waiting' = Waiting \ {m} /\ m \in Waiting
  BY <1>0, <1>1, <1>2, <1>5 DEF Waiting, Pending
<1> QED
  BY <1>6, WaitingFits, FS_RemoveElement

LEMMA BothWaits ==
  ASSUME SendInv, BothDone
  PROVE  Waiting' = Waiting
<1>0. PICK m : m = Len(stack)
  OBVIOUS
<1>1. stack \in Seq(Frames) /\ m \in 1..m /\ m \in Nat /\ stack[m].left # "pending"
  BY <1>0 DEF SendInv, SendTypes, BothDone, Last
<1>2. Len(stack') = m - 1 /\ \A n \in 1..(m - 1) : stack'[n] = stack[n]
  BY <1>0, <1>1 DEF BothDone, Front
<1>3. 1..m = 1..(m - 1) \union {m}
  BY <1>1
<1> QED
  BY <1>0, <1>1, <1>2, <1>3 DEF Waiting, Pending
\* The attempts that n parts may cost.
Quota(n) == n * (RetryAttempts + 1)

LEMMA QuotaGrows ==
  /\ \A n \in Int : Quota(n) \in Int /\ Quota(n + 1) = Quota(n) + RetryAttempts + 1
  /\ \A m, n \in Int : m <= n => Quota(m) <= Quota(n)
  /\ Quota(0) = 0 /\ Quota(1) = RetryAttempts + 1
<1>1. RetryAttempts \in Nat
  BY TransportAssumption
<1>2. ASSUME NEW n \in Int
      PROVE  Quota(n) \in Int /\ Quota(n + 1) = Quota(n) + RetryAttempts + 1
  BY <1>1 DEF Quota
<1>3. ASSUME NEW m \in Int, NEW n \in Int, m <= n PROVE Quota(m) <= Quota(n)
  BY <1>1, <1>3 DEF Quota
<1>4. Quota(0) = 0 /\ Quota(1) = RetryAttempts + 1
  BY <1>1 DEF Quota
<1> QED
  BY <1>2, <1>3, <1>4

\* The parts begun before the one in work, or before the agent's next move: of the items
\* to the left each split made at most two parts, and each split under way is one.
Begun == IF pc \in Ended THEN 2 * (part.to - batch.from) - 1 + Cardinality(Waiting)
                         ELSE 2 * (part.from - batch.from) + Cardinality(Waiting)

\* The attempts that the part in work has begun.
Tries == IF pc \in Ended \union {"marshal"} THEN 0
         ELSE IF pc \in {"wire", "aborted", "backoff"} THEN attempt + 1 ELSE attempt

TryInv ==
  /\ requests \in Nat /\ attempt \in 0..RetryAttempts
  /\ pc = "backoff" => attempt < RetryAttempts
  /\ requests <= Quota(Begun) + Tries
  /\ mode # "batch" => /\ stack = <<>>
                       /\ requests <= IF pc \in Ended THEN RetryAttempts + 1 ELSE Tries

LEMMA BegunType == SendInv => Begun \in Int /\ Tries \in {0, attempt, attempt + 1}
BY PartFits, WaitingFits DEF Begun, Tries

\* A part that is over has had its quota.
LEMMA PartEnds ==
  ASSUME SendInv, TryInv, pc \notin Ended, pc' = "return",
         UNCHANGED <<mode, batch, part, stack, requests, attempt>>
  PROVE  TryInv'
<1>0. PICK b, c, w : b = Begun /\ c = Begun' /\ w = Cardinality(Waiting)
  OBVIOUS
<1>1. b \in Int /\ Tries \in Nat /\ Tries <= RetryAttempts + 1 /\ RetryAttempts \in Nat
  BY <1>0, BegunType, TransportAssumption DEF TryInv, Tries
<1>2. Waiting' = Waiting
  BY DEF Waiting, Pending
<1>3. c = 2 * (part.to - batch.from) - 1 + w
  BY <1>0, <1>2 DEF Begun, Ended
<1>4. b = 2 * (part.from - batch.from) + w
  BY <1>0 DEF Begun
<1>5. c \in Int /\ b + 1 <= c
  BY <1>0, <1>3, <1>4, PartFits, WaitingFits
<1>6. Quota(b + 1) <= Quota(c) /\ Quota(b + 1) = Quota(b) + RetryAttempts + 1
      /\ Quota(b) \in Int /\ Quota(c) \in Int
  <2>1. PICK d : d = b + 1
    OBVIOUS
  <2>2. d \in Int /\ d <= c
    BY <1>1, <1>5, <2>1
  <2>3. Quota(d) <= Quota(c) /\ Quota(b) \in Int /\ Quota(c) \in Int
    BY <1>1, <1>5, <2>2, QuotaGrows, Zenon
  <2>4. Quota(b + 1) = Quota(b) + RetryAttempts + 1
    BY <1>1, QuotaGrows, Zenon
  <2> QED
    BY <2>1, <2>3, <2>4
<1>7. requests <= Quota(c) /\ requests \in Nat
  BY <1>0, <1>1, <1>6 DEF TryInv
<1>8. Tries' = 0
  BY DEF Tries, Ended
<1> QED
  BY <1>0, <1>1, <1>6, <1>7, <1>8 DEF TryInv, Ended

\* Between two attempts nothing is requested.
LEMMA PartGoesOn ==
  ASSUME SendInv, TryInv, {pc, pc'} \intersect Ended = {},
         UNCHANGED <<mode, batch, part, stack>>,
         attempt' \in 0..RetryAttempts, pc' = "backoff" => attempt' < RetryAttempts,
         requests' \in Nat, requests' - requests <= Tries' - Tries
  PROVE  TryInv'
<1>0. PICK b : b = Begun
  OBVIOUS
<1>1. Waiting' = Waiting
  BY DEF Waiting, Pending
<1>2. Begun' = b /\ b \in Int
  BY <1>0, <1>1, BegunType DEF Begun
<1>3. Tries \in Int /\ Tries' \in Int
  BY TransportAssumption DEF Tries, TryInv
<1>4. Quota(b) \in Int
  BY <1>2, QuotaGrows
<1>5. PICK q, t, u : q = Quota(b) /\ t = Tries /\ u = Tries'
  OBVIOUS
<1>6. requests <= q + t /\ requests \in Nat
  BY <1>0, <1>5 DEF TryInv
<1>7. PICK r, v : r = requests /\ v = requests'
  OBVIOUS
<1>8. /\ q \in Int /\ t \in Int /\ u \in Int /\ r \in Int /\ v \in Int
      /\ v - r <= u - t /\ r <= q + t
  <2>1. q \in Int
    BY <1>4, <1>5, Zenon
  <2>2. t \in Int /\ u \in Int
    BY <1>3, <1>5, Zenon
  <2>3. r \in Int
    BY <1>6, <1>7
  <2>4. v \in Int
    BY <1>7
  <2>5. v - r <= u - t
    BY <1>5, <1>7, Zenon
  <2>6. r <= q + t
    BY <1>6, <1>7, Zenon
  <2> QED
    BY <2>1, <2>2, <2>3, <2>4, <2>5, <2>6
<1>9. v <= q + u
  BY <1>8
<1>10. mode # "batch" => requests' <= u /\ stack' = <<>>
  <2>1. mode # "batch" => r <= t /\ stack = <<>>
    BY <1>5, <1>7 DEF TryInv
  <2>2. r <= t => v <= u
    BY <1>8
  <2> QED
    BY <1>7, <2>1, <2>2
<1> QED
  BY <1>2, <1>5, <1>7, <1>9, <1>10 DEF TryInv

LEMMA TryInit == Init => TryInv
<1> SUFFICES ASSUME Init PROVE TryInv
  OBVIOUS
<1>1. SendInv /\ pc = "marshal" /\ part = batch /\ stack = <<>> /\ requests = 0 /\ attempt = 0
  BY SendInvInit DEF Init
<1>2. Waiting = {}
  BY <1>1 DEF Waiting
<1>3. Begun = 0
  BY <1>1, <1>2, FS_EmptySet, PartFits DEF Begun, Ended
<1> QED
  BY <1>1, <1>3, QuotaGrows, TransportAssumption DEF TryInv, Tries, Ended

LEMMA TryNext == SendInv /\ TryInv /\ [Next]_vars => TryInv'
<1> SUFFICES ASSUME SendInv, TryInv, [Next]_vars PROVE TryInv'
  OBVIOUS
<1> USE DEF call, history, Ended
<1>1. RetryAttempts \in Nat /\ requests \in Nat /\ attempt \in 0..RetryAttempts
  BY TransportAssumption DEF TryInv
<1>2. CASE UNCHANGED vars \/ Over
  BY <1>2 DEF vars, Over, TryInv, Begun, Tries, Waiting, Pending
<1>3. CASE Marshal \/ GateOpen \/ Do
  BY <1>1, <1>3, PartGoesOn DEF Marshal, GateOpen, Do, Tries
<1>4. CASE GateBurns
  BY <1>1, <1>4, PartGoesOn DEF GateBurns, Retryable, Tries
<1>5. CASE Wake
  <2>1. attempt + 1 \in 0..RetryAttempts
    BY <1>1, <1>5 DEF Wake, TryInv
  <2> QED
    BY <1>1, <1>5, <2>1, PartGoesOn DEF Wake, Tries
<1>6. CASE MarshalFails \/ GateFails \/ Refused \/ SleepCancelled
  BY <1>6, PartEnds DEF MarshalFails, GateFails, Refused, SleepCancelled, Return
<1>7. CASE NetError \/ RetryableStatus
  <2>1. UNCHANGED <<mode, batch, part, stack, requests, attempt>> /\ pc \in {"wire", "aborted"}
    BY <1>7 DEF NetError, RetryableStatus, Trouble
  <2>2. pc' = "return" \/ (pc' = "backoff" /\ Retryable)
    BY <1>7 DEF NetError, RetryableStatus, Return
  <2>3. CASE pc' = "return"
    BY <2>1, <2>3, PartEnds
  <2>4. CASE pc' = "backoff" /\ Retryable
    BY <1>1, <2>1, <2>4, PartGoesOn DEF Retryable, Tries
  <2> QED
    BY <2>2, <2>3, <2>4
<1>8. CASE Accepted \/ Flawed \/ Rejected \/ Unexpected \/ TooLargeDropped
  BY <1>8, PartEnds DEF Accepted, Flawed, Rejected, Unexpected, TooLargeDropped, Return
<1>9. CASE Split
  <2>1. PICK b : b = Begun
    OBVIOUS
  <2>2. part'.from = part.from
    BY <1>9 DEF Split, Slice
  <2>3. Begun' = b + 1 /\ b \in Int
    <3>1. PICK w, v : w = Cardinality(Waiting) /\ v = Cardinality(Waiting)'
      OBVIOUS
    <3>2. v = w + 1 /\ w \in Nat
      BY <1>9, <3>1, SplitWaits, WaitingFits
    <3>3. /\ b = 2 * (part.from - batch.from) + w
          /\ Begun' = 2 * (part.from - batch.from) + v
      BY <1>9, <2>1, <2>2, <3>1 DEF Split, Begun
    <3> QED
      BY <3>2, <3>3, PartFits
  <2>4. Tries = attempt + 1 /\ Tries' = 0
    BY <1>9 DEF Split, Tries
  <2>5. Quota(b + 1) = Quota(b) + RetryAttempts + 1 /\ Quota(b) \in Int
    BY <2>3, QuotaGrows
  <2>6. requests <= Quota(b + 1)
    BY <1>1, <2>1, <2>4, <2>5 DEF TryInv
  <2> QED
    BY <1>1, <1>9, <2>3, <2>4, <2>5, <2>6 DEF Split, TryInv
<1>10. CASE LeftDone
  <2>1. Begun' = Begun
    <3>1. PICK w, v : w = Cardinality(Waiting) /\ v = Cardinality(Waiting)'
      OBVIOUS
    <3>2. v = w - 1 /\ w \in Nat
      BY <1>10, <3>1, LeftWaits, WaitingFits
    <3>3. /\ Begun = 2 * (part.to - batch.from) - 1 + w
          /\ Begun' = 2 * (part.to - batch.from) + v
      BY <1>10, <3>1, RightFollows DEF LeftDone, Begun
    <3> QED
      BY <3>2, <3>3, PartFits
  <2>2. Tries' = 0 /\ Tries = 0
    BY <1>10 DEF LeftDone, Tries
  <2>3. mode = "batch"
    BY <1>10 DEF LeftDone, TryInv
  <2> QED
    BY <1>10, <2>1, <2>2, <2>3 DEF LeftDone, TryInv
<1>11. CASE BothDone
  <2>1. Begun' = Begun
    BY <1>11, BothWaits DEF BothDone, Begun
  <2>2. Tries' = 0 /\ Tries = 0
    BY <1>11 DEF BothDone, Tries
  <2>3. mode = "batch"
    BY <1>11 DEF BothDone, TryInv
  <2> QED
    BY <1>11, <2>1, <2>2, <2>3 DEF BothDone, TryInv
<1>12. CASE Done
  <2>1. Begun' = Begun /\ Tries' = 0 /\ Tries = 0
    BY <1>12 DEF Done, Begun, Tries, Waiting, Pending
  <2> QED
    BY <1>12, <2>1 DEF Done, TryInv
<1>13. CASE Cancel \/ Tick
  BY <1>13 DEF Cancel, Tick, TryInv, Begun, Tries, Waiting, Pending
<1> QED
  BY <1>2, <1>3, <1>4, <1>5, <1>6, <1>7, <1>8, <1>9, <1>10, <1>11, <1>12, <1>13
     DEF Next, Step, Attempt, Answer

\* For every instance: a batch of n items costs at most RetryAttempts + 1 requests for
\* each of its 2n - 1 possible parts, whatever the server answers (sendBatch,
\* splitOrDropEvents, limiterGate).
THEOREM RequestsBounded == Spec => []RequestBound
<1>1. SendInv /\ TryInv => RequestBound
  <2> SUFFICES ASSUME SendInv, TryInv PROVE RequestBound
    OBVIOUS
  <2>0. PICK b, w, n : b = Begun /\ w = Cardinality(Waiting) /\ n = Size(batch)
    OBVIOUS
  <2>1. /\ RetryAttempts \in Nat /\ requests \in Nat
        /\ Tries \in Nat /\ Tries <= RetryAttempts + 1
        /\ pc \in Ended => Tries = 0
    BY TransportAssumption DEF TryInv, Tries
  <2>2. b \in Int /\ n \in Int
    BY <2>0, BegunType, PartFits DEF Size
  <2>3. /\ pc \in Ended => b <= 2 * n - 1
        /\ pc \notin Ended => b + 1 <= 2 * n - 1
    BY <2>0, PartFits, WaitingFits DEF Begun, Size
  <2>4. /\ Quota(b) \in Int /\ Quota(b + 1) = Quota(b) + RetryAttempts + 1
        /\ Quota(2 * n - 1) \in Int
        /\ b <= 2 * n - 1 => Quota(b) <= Quota(2 * n - 1)
        /\ b + 1 <= 2 * n - 1 => Quota(b + 1) <= Quota(2 * n - 1)
    BY <2>2, QuotaGrows
  <2>5. requests <= Quota(2 * n - 1)
    <3>1. PICK q, r, t : q = Quota(b) /\ r = Quota(2 * n - 1) /\ t = Tries
      OBVIOUS
    <3>2. requests <= q + t
      BY <2>0, <3>1 DEF TryInv
    <3>3. pc \in Ended => q <= r /\ t = 0
      BY <2>1, <2>3, <2>4, <3>1
    <3>4. pc \notin Ended => q + RetryAttempts + 1 <= r
      BY <2>1, <2>3, <2>4, <3>1
    <3> QED
      BY <2>1, <2>4, <3>1, <3>2, <3>3, <3>4
  <2>6. mode # "batch" => requests <= RetryAttempts + 1
    <3>1. PICK t : t = Tries
      OBVIOUS
    <3>2. mode # "batch" => requests <= IF pc \in Ended THEN RetryAttempts + 1 ELSE t
      BY <3>1 DEF TryInv
    <3> QED
      BY <2>1, <3>1, <3>2
  <2>7. Quota(1) = RetryAttempts + 1
    BY QuotaGrows
  <2>8. requests <= Quota(IF mode = "batch" THEN 2 * n - 1 ELSE 1)
    BY <2>5, <2>6, <2>7
  <2> QED
    BY <2>0, <2>8 DEF RequestBound, Quota
<1> QED
  BY <1>1, TryInit, TryNext, SendInvariant, PTL DEF Spec
-----------------------------------------------------------------------------
\* What the other invariants leave open about the types.
RestTypes ==
  /\ mode \in {"batch", "encrypted", "status"}
  /\ batch \in Slices /\ part \in Slices
  /\ Items(part) \subseteq Items(batch) /\ Items(part) # {}
  /\ big \subseteq Items(batch) /\ dropped \subseteq Items(batch)
  /\ pc \in {"marshal", "gate", "denied", "admit", "wire", "aborted", "backoff",
             "return", "done"}
  /\ stack \in Seq([right : Slices, left : Outcomes \union {"pending"}])
  /\ cancelled \in BOOLEAN

\* A half of a slice is a slice of the same batch.
LEMMA HalfTypes ==
  ASSUME SendInv, RestTypes,
         NEW s \in [from : Int, to : Int], s.from < s.to,
         batch.from <= s.from, s.to <= batch.to
  PROVE  s \in Slices /\ Items(s) \subseteq Items(batch) /\ Items(s) # {}
<1>1. MaxBatch \in Nat
  BY TransportAssumption
<1>2. PICK a, b, x, y : a = s.from /\ b = s.to /\ x = batch.from /\ y = batch.to
  OBVIOUS
<1>3. a \in Int /\ b \in Int /\ x \in 1..MaxBatch /\ y \in 2..(MaxBatch + 1)
  BY <1>2 DEF RestTypes, Slices
<1>4. a < b /\ x <= a /\ b <= y
  BY <1>2
<1>5. a \in 1..MaxBatch /\ b \in 2..(MaxBatch + 1)
  BY <1>1, <1>3, <1>4
<1>6. s \in Slices
  BY <1>2, <1>5 DEF Slices
<1>7. a \in a..(b - 1) /\ a..(b - 1) \subseteq x..(y - 1)
  BY <1>1, <1>3, <1>4
<1> QED
  BY <1>2, <1>6, <1>7 DEF Items

LEMMA RestInit == Init => RestTypes
<1> SUFFICES ASSUME Init PROVE RestTypes
  OBVIOUS
<1>1. PICK n \in 1..MaxBatch : batch = Slice(1, n + 1)
  BY DEF Init
<1>2. MaxBatch \in Nat /\ 1 \in 1..MaxBatch /\ n + 1 \in 2..(MaxBatch + 1) /\ 1 \in 1..n
  BY TransportAssumption
<1>3. batch \in Slices /\ Items(batch) # {}
  BY <1>1, <1>2 DEF Slice, Slices, Items
<1>4. stack = <<>> /\ part = batch /\ dropped = {} /\ pc = "marshal"
      /\ mode \in {"batch", "encrypted", "status"} /\ big \subseteq Items(batch)
  BY DEF Init
<1>5. cancelled \in BOOLEAN
  BY Zenon DEF Init
<1>6. stack \in Seq([right : Slices, left : Outcomes \union {"pending"}])
  BY <1>4
<1> QED
  BY <1>3, <1>4, <1>5, <1>6 DEF RestTypes

LEMMA RestNext == SendInv /\ RestTypes /\ [Next]_vars => RestTypes'
<1> SUFFICES ASSUME SendInv, RestTypes, [Next]_vars PROVE RestTypes'
  OBVIOUS
<1> USE DEF call, history
<1>1. CASE UNCHANGED vars \/ Over
  BY <1>1 DEF vars, Over, RestTypes, Items
<1>2. CASE Marshal \/ MarshalFails \/ GateOpen \/ GateBurns \/ GateFails \/ Refused \/ Wake
  BY <1>2 DEF Marshal, MarshalFails, GateOpen, GateBurns, GateFails, Refused, Wake, Return,
              RestTypes, Items
<1>3. CASE SleepCancelled \/ Do \/ Done \/ Tick
  BY <1>3 DEF SleepCancelled, Do, Done, Tick, Return, RestTypes, Items
<1>4. CASE NetError \/ RetryableStatus
  <2>1. UNCHANGED <<mode, batch, part, big, dropped, stack, cancelled>>
        /\ pc' \in {"backoff", "return"}
    BY <1>4 DEF NetError, RetryableStatus, Trouble, Return
  <2> QED
    BY <2>1 DEF RestTypes, Items
<1>5. CASE Accepted \/ Flawed \/ Rejected \/ Unexpected
  BY <1>5 DEF Accepted, Flawed, Rejected, Unexpected, Return, RestTypes, Items
<1>6. CASE TooLargeDropped
  BY <1>6 DEF TooLargeDropped, Return, RestTypes, Items
<1>7. CASE Split
  <2>1. PICK m : m = Mid(part)
    OBVIOUS
  <2>2. /\ part.from \in Int /\ part.to \in Int /\ batch.from \in Int /\ batch.to \in Int
        /\ batch.from <= part.from /\ part.to <= batch.to
    BY <1>7, PartFits DEF Split, Ended
  <2>3. m \in Int /\ part.from < m /\ m < part.to
    <3>1. part.to - part.from > 1
      BY <1>7, <2>2 DEF Split, LastSplit, Size
    <3> QED
      BY <2>1, <2>2, <3>1 DEF Mid, Size
  <2>4. /\ Slice(part.from, m) \in Slices
        /\ Items(Slice(part.from, m)) \subseteq Items(batch) /\ Items(Slice(part.from, m)) # {}
    <3>1. PICK s : s = Slice(part.from, m)
      OBVIOUS
    <3>2. s \in [from : Int, to : Int] /\ s.from = part.from /\ s.to = m
      BY <2>2, <2>3, <3>1 DEF Slice
    <3>3. s.from < s.to /\ batch.from <= s.from /\ s.to <= batch.to
      BY <2>2, <2>3, <3>2
    <3> QED
      BY <3>1, <3>2, <3>3, HalfTypes
  <2>5. Slice(m, part.to) \in Slices
    <3>1. PICK s : s = Slice(m, part.to)
      OBVIOUS
    <3>2. s \in [from : Int, to : Int] /\ s.from = m /\ s.to = part.to
      BY <2>2, <2>3, <3>1 DEF Slice
    <3>3. s.from < s.to /\ batch.from <= s.from /\ s.to <= batch.to
      BY <2>2, <2>3, <3>2
    <3> QED
      BY <3>1, <3>2, <3>3, HalfTypes
  <2>6. stack' \in Seq([right : Slices, left : Outcomes \union {"pending"}])
    BY <1>7, <2>1, <2>5 DEF Split, RestTypes
  <2> QED
    BY <1>7, <2>1, <2>4, <2>6 DEF Split, RestTypes, Items
<1>8. CASE LeftDone
  <2>1. PICK lo, hi : Nested(lo, hi) /\ Answers(lo, hi)
    BY DEF SendInv
  <2>2. PICK m, t, r : m = Len(stack) /\ t = Top /\ r = stack[m].right
    OBVIOUS
  <2>3. stack # <<>> /\ part' = r
    BY <1>8, <2>2 DEF LeftDone, Last
  <2>4. /\ m \in 1..m /\ m \in Nat /\ stack[m] \in Frames
        /\ lo[m] \in Int /\ hi[m] \in Int /\ r.from \in Int /\ r.to = hi[m]
        /\ batch.from \in Int /\ batch.to \in Int
        /\ batch.from <= lo[m] /\ hi[m] <= batch.to /\ lo[m] < r.from /\ r.from < hi[m]
    BY <2>1, <2>2, <2>3, Innermost
  <2>5. r \in [from : Int, to : Int] /\ r.from < r.to /\ batch.from <= r.from /\ r.to <= batch.to
    BY <2>2, <2>4 DEF Frames
  <2>6. r \in Slices /\ Items(r) \subseteq Items(batch) /\ Items(r) # {}
    BY <2>5, HalfTypes
  <2>7. stack' \in Seq([right : Slices, left : Outcomes \union {"pending"}])
    <3>1. outcome \in Outcomes
      BY DEF SendInv, SendTypes
    <3>2. stack[m] \in [right : Slices, left : Outcomes \union {"pending"}]
      <4>1. PICK S : S = [right : Slices, left : Outcomes \union {"pending"}]
        OBVIOUS
      <4>2. stack \in Seq(S)
        BY <4>1 DEF RestTypes
      <4>3. stack[m] \in S
        BY <2>2, <2>4, <4>2
      <4> QED
        BY <4>1, <4>3
    <3>3. stack' = [stack EXCEPT ![m] = [stack[m] EXCEPT !.left = outcome]]
      BY <1>8, <2>2 DEF LeftDone
    <3>4. [stack[m] EXCEPT !.left = outcome]
            \in [right : Slices, left : Outcomes \union {"pending"}]
      BY <3>1, <3>2
    <3> QED
      BY <2>2, <2>4, <3>3, <3>4 DEF RestTypes
  <2> QED
    BY <1>8, <2>3, <2>6, <2>7 DEF LeftDone, RestTypes, Items
<1>9. CASE BothDone
  <2>1. stack' \in Seq([right : Slices, left : Outcomes \union {"pending"}])
    <3>1. stack # <<>> /\ stack' = SubSeq(stack, 1, Len(stack) - 1)
      BY <1>9 DEF BothDone, Front
    <3>2. PICK S : S = [right : Slices, left : Outcomes \union {"pending"}]
      OBVIOUS
    <3>3. stack \in Seq(S)
      BY <3>2 DEF RestTypes
    <3>4. Len(stack) \in Nat /\ Len(stack) > 0
      BY <3>1, <3>3
    <3>5. stack' \in Seq(S)
      BY <3>1, <3>3, <3>4
    <3> QED
      BY <3>2, <3>5
  <2> QED
    BY <1>9, <2>1 DEF BothDone, RestTypes, Items
<1>10. CASE Cancel
  BY <1>10 DEF Cancel, RestTypes, Items
<1> QED
  BY <1>1, <1>2, <1>3, <1>4, <1>5, <1>6, <1>7, <1>8, <1>9, <1>10
     DEF Next, Step, Attempt, Answer

\* For every instance: types of the send and of the breaker behind it (sendBatch,
\* splitOrDropEvents, CircuitBreaker).
THEOREM SendTypeCorrect == Spec => []TypeOK
<1>1. Init => RestTypes /\ LateInv /\ TryInv
  BY TryInit, LateInit, RestInit
<1>2. BreakerInv /\ [Next]_vars => BreakerInv'
  BY BreakerNext
<1>3. SendInv /\ RestTypes /\ LateInv /\ TryInv /\ BreakerInv /\ CountInv => TypeOK
  <2> SUFFICES ASSUME SendInv, RestTypes, LateInv, TryInv, BreakerInv, CountInv PROVE TypeOK
    OBVIOUS
  <2>1. outcome \in Outcomes /\ answered \subseteq Items(batch)
    BY DEF SendInv, SendTypes
  <2>2. attempt \in 0..RetryAttempts
    BY Zenon DEF TryInv
  <2>3. late \in Nat
    BY Zenon DEF LateInv
  <2>4. state \in Breaker!States
    BY DEF BreakerInv, Breaker!States
  <2>5. /\ failureCount \in Nat /\ troubles \in Nat
        /\ elapsed \in 0..RecoveryTimeout /\ calm \in 0..RecoveryTimeout
    BY Zenon DEF BreakerInv
  <2>6. requestsSent \in Nat /\ requestsFailed \in Nat /\ requests \in Nat
    BY Zenon DEF CountInv
  <2> QED
    BY <2>1, <2>2, <2>3, <2>4, <2>5, <2>6, Zenon DEF TypeOK, RestTypes
<1> QED
  BY <1>1, <1>2, <1>3, SendInvariant, CountInvariant, BreakerInit, RestNext, LateNext, TryNext,
     PTL DEF Spec
===============================================================================
