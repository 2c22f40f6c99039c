-------------------------- MODULE RateLimiterProofs --------------------------
(***************************************************************************)
(* TLAPS proofs about RateLimiter, for every set of callers, every window, *)
(* cap and number of retries: the cap holds in every window, and the pause *)
(* that RetryAfter suggests is long enough.                                *)
(***************************************************************************)
EXTENDS RateLimiter, FiniteSetTheorems, TLAPS

-----------------------------------------------------------------------------
\* What pruning keeps.

\* The oldest call comes first.
Ordered(s) == \A m, n \in 1..Len(s) : m <= n => s[n] <= s[m]

\* The positions a pruning keeps.
Keeps(s) == {n \in 1..Len(s) : s[n] < Window}

\* If these are the last ones, what is kept is the rest of the sequence.
LEMMA RecentIsSuffix ==
  ASSUME NEW s, NEW j \in Nat, NEW l \in Nat, Keeps(s) = (j + 1)..(j + l)
  PROVE  Recent(s) = [m \in 1..l |-> s[j + m]]
<1> DEFINE kept == Keeps(s)
           Nth(m) == CHOOSE n \in kept : Cardinality(kept \intersect 1..n) = m
<1>1. kept = (j + 1)..(j + l)
  OBVIOUS
<1>2. Recent(s) = [m \in 1..Cardinality(kept) |-> s[Nth(m)]]
  BY DEF Recent, Keeps
<1> HIDE DEF kept
<1>3. ASSUME NEW n \in kept
      PROVE  Cardinality(kept \intersect 1..n) = n - j
  <2>1. n \in Int /\ j + 1 <= n /\ n <= j + l
    BY <1>1
  <2>2. kept \intersect 1..n = (j + 1)..n
    BY <1>1, <2>1
  <2>3. PICK a : a = j + 1
    OBVIOUS
  <2>4. a \in Int /\ n \in Int /\ n - j = IF a > n THEN 0 ELSE n - a + 1
    BY <2>1, <2>3
  <2>5. Cardinality(a..n) = IF a > n THEN 0 ELSE n - a + 1
    BY <2>4, FS_Interval, Zenon
  <2> QED
    BY <2>2, <2>3, <2>4, <2>5
<1>4. Cardinality(kept) = l
  <2>1. PICK a, b : a = j + 1 /\ b = j + l
    OBVIOUS
  <2>2. a \in Int /\ b \in Int /\ l = IF a > b THEN 0 ELSE b - a + 1
    BY <2>1
  <2>3. Cardinality(a..b) = IF a > b THEN 0 ELSE b - a + 1
    BY <2>2, FS_Interval, Zenon
  <2> QED
    BY <1>1, <2>1, <2>2, <2>3
<1>5. ASSUME NEW m \in 1..l
      PROVE  Nth(m) = j + m
  <2>1. j + m \in kept
    BY <1>1
  <2>2. \A n \in kept : Cardinality(kept \intersect 1..n) = m <=> n = j + m
    <3> SUFFICES ASSUME NEW n \in kept
                 PROVE  Cardinality(kept \intersect 1..n) = m <=> n = j + m
      OBVIOUS
    <3>1. Cardinality(kept \intersect 1..n) = n - j /\ n \in Int
      BY <1>1, <1>3
    <3> QED
      BY <3>1
  <2> QED
    BY <2>1, <2>2
<1> HIDE DEF Nth
<1> QED
  BY <1>2, <1>4, <1>5

\* Of an ordered sequence they are.
LEMMA KeepsSuffix ==
  ASSUME NEW s \in Seq(Nat), Ordered(s)
  PROVE  \E j, l \in Nat : Len(s) = j + l /\ Keeps(s) = (j + 1)..(j + l)
<1> DEFINE L == Len(s)
           kept == Keeps(s)
           l == Cardinality(kept)
<1>1. L \in Nat /\ kept \subseteq 1..L /\ Window \in Nat
  BY LimiterAssumption DEF Keeps
<1>2. IsFiniteSet(1..L) /\ Cardinality(1..L) = L
  <2>1. Cardinality(1..L) = IF 1 > L THEN 0 ELSE L - 1 + 1
    BY <1>1, FS_Interval
  <2>2. IsFiniteSet(1..L)
    BY <1>1, FS_Interval
  <2> QED
    BY <1>1, <2>1, <2>2
<1>3. IsFiniteSet(kept) /\ l \in Nat /\ l <= L
  <2>1. IsFiniteSet(kept) /\ Cardinality(kept) <= Cardinality(1..L)
    BY <1>1, <1>2, FS_Subset
  <2> QED
    BY <1>2, <2>1, FS_CardinalityType
<1>4. ASSUME NEW n \in 1..L, n \in kept
      PROVE  n > L - l
  <2>1. n..L \subseteq kept
    <3> SUFFICES ASSUME NEW k \in n..L PROVE k \in kept
      OBVIOUS
    <3>1. k \in 1..L /\ n <= k /\ s[n] < Window
      BY <1>1, <1>4 DEF Keeps
    <3>2. s[k] <= s[n] /\ s[k] \in Nat /\ s[n] \in Nat
      BY <3>1 DEF Ordered
    <3> QED
      BY <1>1, <3>1, <3>2 DEF Keeps
  <2>2. Cardinality(n..L) <= l
    BY <1>3, <2>1, FS_Subset
  <2>3. n \in Int /\ L \in Int /\ n <= L
    BY <1>1
  <2>4. Cardinality(n..L) = IF n > L THEN 0 ELSE L - n + 1
    BY <2>3, FS_Interval, Zenon
  <2> HIDE DEF L, l
  <2> QED
    BY <1>1, <1>3, <2>2, <2>3, <2>4
<1>5. ASSUME NEW n \in 1..L, n \notin kept
      PROVE  n <= L - l
  <2>1. kept \subseteq (n + 1)..L
    <3> SUFFICES ASSUME NEW k \in kept PROVE k > n
      BY <1>1
    <3>1. k \in 1..L /\ s[k] < Window /\ ~(s[n] < Window)
      BY <1>5 DEF Keeps
    <3>2. s[n] \in Nat /\ s[k] \in Nat
      BY <3>1
    <3>3. k <= n => s[n] <= s[k]
      BY <3>1 DEF Ordered
    <3> QED
      BY <1>1, <3>1, <3>2, <3>3
  <2>2. PICK a : a = n + 1
    OBVIOUS
  <2>3. a \in Int /\ L \in Int /\ n \in Int /\ n <= L
    BY <1>1, <2>2
  <2>4. IsFiniteSet(a..L) /\ Cardinality(a..L) = IF a > L THEN 0 ELSE L - a + 1
    BY <2>3, FS_Interval, Zenon
  <2>5. l <= Cardinality(a..L)
    BY <2>1, <2>2, <2>4, FS_Subset
  <2> HIDE DEF L, l
  <2> QED
    BY <1>1, <1>3, <2>2, <2>3, <2>4, <2>5
<1>6. PICK x, y, j : x = l /\ y = L /\ j = y - x
  OBVIOUS
<1>7. x \in Nat /\ j \in Nat /\ y = j + x
  BY <1>1, <1>3, <1>6
<1>8. kept = (j + 1)..(j + x)
  <2> HIDE DEF kept, L, l
  <2>1. \A n \in 1..L : n \in kept <=> n > j
    BY <1>1, <1>3, <1>4, <1>5, <1>6
  <2>2. kept \subseteq 1..(j + x) /\ L = j + x
    BY <1>1, <1>6, <1>7
  <2>3. ASSUME NEW n \in Int
        PROVE  n \in kept <=> n \in (j + 1)..(j + x)
    BY <1>7, <2>1, <2>2
  <2>4. kept \subseteq Int
    BY <1>1
  <2>5. (j + 1)..(j + x) \subseteq Int
    BY <1>7
  <2> QED
    BY <2>3, <2>4, <2>5, Zenon
<1> QED
  BY <1>6, <1>7, <1>8
-----------------------------------------------------------------------------
\* The list of calls is the grants of the last window, after older ones that the next
\* Acquire prunes.
Listed(j) ==
  /\ Len(calls) = j + Len(granted)
  /\ \A n \in 1..j : calls[n] = Window
  /\ \A n \in 1..Len(granted) : calls[j + n] = granted[n]

LimiterInv ==
  /\ TypeOK
  /\ Ordered(granted) /\ Len(calls) <= MaxCalls
  /\ \E j \in Nat : Listed(j)
  /\ \A c \in Callers : pc[c] = "denied" => calls # <<>>

\* A caller that sleeps, and whom nobody has overtaken, sleeps until the oldest grant
\* has left the window, if all slots are taken.
WaitInv ==
  \A c \in Callers : pc[c] = "sleeping" /\ ~overtaken[c] =>
    \/ Len(granted) < MaxCalls
    \/ granted # <<>> /\ granted[1] + wait[c] >= Window

\* So Acquire finds in the list exactly the grants of the last window.
LEMMA PrunedIsGranted ==
  ASSUME LimiterInv
  PROVE  Pruned = granted
<1>1. PICK j \in Nat : Listed(j)
  BY DEF LimiterInv
<1>2. /\ granted \in Seq(0..(Window - 1)) /\ Len(granted) \in Nat /\ Window \in Nat
      /\ calls \in Seq(0..Window)
  BY LimiterAssumption DEF LimiterInv, TypeOK
<1>3. PICK l : l = Len(granted)
  OBVIOUS
<1>4. ASSUME NEW n \in 1..Len(calls)
      PROVE  calls[n] < Window <=> n > j
  <2>1. CASE n \in 1..j
    BY <1>1, <1>2, <2>1 DEF Listed
  <2>2. CASE n > j
    <3>1. PICK k \in 1..Len(granted) : n = j + k
      BY <1>1, <1>2, <2>2 DEF Listed
    <3>2. calls[j + k] = granted[k]
      BY <1>1, Zenon DEF Listed
    <3>3. granted[k] \in 0..(Window - 1)
      BY <1>2
    <3> QED
      BY <1>2, <2>2, <3>1, <3>2, <3>3
  <2> QED
    BY <1>2, <2>1, <2>2
<1>5. Keeps(calls) = (j + 1)..(j + l)
  <2>1. Len(calls) = j + l /\ l \in Nat
    BY <1>1, <1>2, <1>3 DEF Listed
  <2>2. ASSUME NEW n \in Int
        PROVE  n \in Keeps(calls) <=> n \in (j + 1)..(j + l)
    BY <1>4, <2>1 DEF Keeps
  <2>3. Keeps(calls) \subseteq Int /\ (j + 1)..(j + l) \subseteq Int
    BY <2>1 DEF Keeps
  <2> QED
    BY <2>2, <2>3, Zenon
<1>6. Pruned = [m \in 1..l |-> calls[j + m]]
  BY <1>2, <1>3, <1>5, RecentIsSuffix DEF Pruned
<1>7. \A m \in 1..l : calls[j + m] = granted[m]
  BY <1>1, <1>3 DEF Listed
<1>8. granted = [m \in 1..l |-> granted[m]]
  BY <1>2, <1>3
<1> QED
  BY <1>6, <1>7, <1>8

\* Nothing in the list has expired.
LEMMA NothingExpired ==
  ASSUME calls' = granted', granted' \in Seq(0..(Window - 1))
  PROVE  \E j \in Nat : Listed(j)'
<1>1. Len(calls') = 0 + Len(granted')
  OBVIOUS
<1>2. \A n \in 1..Len(granted') : calls'[0 + n] = granted'[n]
  OBVIOUS
<1>3. 1..0 = {}
  OBVIOUS
<1>4. Listed(0)'
  BY <1>1, <1>2, <1>3 DEF Listed
<1> QED
  BY <1>4

LEMMA LimiterInit == Init => LimiterInv /\ WaitInv
<1> SUFFICES ASSUME Init PROVE LimiterInv /\ WaitInv
  OBVIOUS
<1>1. calls = <<>> /\ granted = <<>> /\ Len(calls) = 0 /\ Len(granted) = 0
  BY DEF Init
<1>2. /\ pc = [c \in Callers |-> "idle"] /\ attempt = [c \in Callers |-> 0]
      /\ wait = [c \in Callers |-> 0] /\ overtaken = [c \in Callers |-> FALSE]
  BY DEF Init
<1>3. TypeOK
  <2>1. overtaken \in [Callers -> BOOLEAN]
    BY <1>2
  <2> QED
    BY <1>1, <1>2, <2>1, LimiterAssumption DEF TypeOK
<1>4. Listed(0) /\ Ordered(granted)
  BY <1>1 DEF Listed, Ordered
<1> QED
  BY <1>1, <1>2, <1>3, <1>4, LimiterAssumption DEF LimiterInv, WaitInv

LEMMA GrantKeeps ==
  ASSUME LimiterInv, WaitInv, NEW c \in Callers, Grant(c)
  PROVE  LimiterInv' /\ WaitInv'
<1>1. /\ granted \in Seq(0..(Window - 1)) /\ Window \in Nat /\ Window > 0
      /\ Len(granted) \in Nat /\ MaxCalls \in Nat
  BY LimiterAssumption DEF LimiterInv, TypeOK
<1>2. calls' = granted' /\ granted' = Append(granted, 0) /\ Len(granted) < MaxCalls
  BY PrunedIsGranted DEF Grant
<1>3. /\ granted' \in Seq(0..(Window - 1)) /\ Len(granted') = Len(granted) + 1
      /\ granted'[Len(granted) + 1] = 0
      /\ \A n \in 1..Len(granted) : granted'[n] = granted[n]
  BY <1>1, <1>2
<1>4. calls' \in Seq(0..Window) /\ Len(calls') <= MaxCalls /\ calls' # <<>>
  BY <1>1, <1>2, <1>3
<1>5. Ordered(granted')
  <2> SUFFICES ASSUME NEW m \in 1..Len(granted'), NEW n \in 1..Len(granted'), m <= n
               PROVE  granted'[n] <= granted'[m]
    BY DEF Ordered
  <2>1. CASE n = Len(granted) + 1
    BY <1>1, <1>3, <2>1
  <2>2. CASE n # Len(granted) + 1
    <3>1. m \in 1..Len(granted) /\ n \in 1..Len(granted)
      BY <1>1, <1>3, <2>2
    <3> QED
      BY <1>3, <3>1 DEF LimiterInv, Ordered
  <2> QED
    BY <2>1, <2>2
<1>6. TypeOK'
  <2>1. overtaken' \in [Callers -> BOOLEAN]
    BY Zenon DEF LimiterInv, TypeOK, Grant
  <2> QED
    BY <1>3, <1>4, <2>1 DEF LimiterInv, TypeOK, Grant
<1>7. \E j \in Nat : Listed(j)'
  BY <1>2, <1>3, NothingExpired
<1>8. WaitInv'
  <2>1. ASSUME NEW d \in Callers, pc'[d] = "sleeping" PROVE overtaken'[d]
    <3>1. pc[d] = "sleeping"
      BY <2>1 DEF Grant, LimiterInv, TypeOK
    <3> QED
      BY <3>1 DEF Grant
  <2> QED
    BY <2>1 DEF WaitInv
<1> QED
  BY <1>4, <1>5, <1>6, <1>7, <1>8 DEF LimiterInv
\* A denial prunes the list to the grants of the window.
LEMMA DenyKeeps ==
  ASSUME LimiterInv, WaitInv, NEW c \in Callers, Deny(c)
  PROVE  LimiterInv' /\ WaitInv'
<1>1. /\ granted \in Seq(0..(Window - 1)) /\ Window \in Nat /\ Window > 0
      /\ Len(granted) \in Nat /\ MaxCalls \in Nat /\ MaxCalls > 0
  BY LimiterAssumption DEF LimiterInv, TypeOK
<1>2. calls' = granted /\ granted' = granted /\ Len(granted) >= MaxCalls
  BY PrunedIsGranted DEF Deny
<1>3. Len(granted) <= Len(calls)
  <2>1. PICK j \in Nat : Listed(j)
    BY DEF LimiterInv
  <2> QED
    BY <1>1, <2>1 DEF Listed
<1>4. calls' \in Seq(0..Window) /\ Len(calls') <= MaxCalls /\ calls' # <<>>
  <2>1. Len(calls) \in Nat
    BY DEF LimiterInv, TypeOK
  <2> QED
    BY <1>1, <1>2, <1>3, <2>1 DEF LimiterInv
<1>5. TypeOK'
  BY <1>1, <1>2, <1>4 DEF LimiterInv, TypeOK, Deny
<1>6. \E j \in Nat : Listed(j)'
  BY <1>1, <1>2, NothingExpired
<1>7. Ordered(granted')
  BY <1>2 DEF LimiterInv
<1>8. WaitInv'
  <2>1. ASSUME NEW d \in Callers, pc'[d] = "sleeping"
        PROVE  pc[d] = "sleeping" /\ overtaken'[d] = overtaken[d] /\ wait'[d] = wait[d]
    BY <2>1 DEF Deny, LimiterInv, TypeOK
  <2> QED
    BY <1>2, <2>1 DEF WaitInv
<1> QED
  BY <1>4, <1>5, <1>6, <1>7, <1>8 DEF LimiterInv

\* RetryAfter is the time until the oldest call in the list leaves the window.
LEMMA SuspendKeeps ==
  ASSUME LimiterInv, WaitInv, NEW c \in Callers, Suspend(c)
  PROVE  LimiterInv' /\ WaitInv'
<1>1. /\ granted \in Seq(0..(Window - 1)) /\ calls \in Seq(0..Window) /\ Window \in Nat
      /\ Len(granted) \in Nat /\ MaxCalls \in Nat /\ calls # <<>>
  BY LimiterAssumption DEF LimiterInv, TypeOK, Suspend
<1>2. calls[1] \in 0..Window /\ RetryAfter = Window - calls[1] /\ RetryAfter \in 0..Window
  BY <1>1 DEF RetryAfter
<1>3. UNCHANGED <<calls, granted>>
  BY DEF Suspend
<1>4. TypeOK'
  BY <1>2 DEF LimiterInv, TypeOK, Suspend
<1>5. LimiterInv'
  <2>1. \E j \in Nat : Listed(j)'
    BY <1>3 DEF LimiterInv, Listed
  <2>2. \A d \in Callers : pc'[d] = "denied" => calls' # <<>>
    BY <1>1, <1>3
  <2> QED
    BY <1>3, <1>4, <2>1, <2>2 DEF LimiterInv, Ordered
<1>6. Len(granted) < MaxCalls \/ (granted # <<>> /\ granted[1] + RetryAfter >= Window)
  <2>1. PICK j \in Nat : Listed(j)
    BY DEF LimiterInv
  <2>2. Len(calls) <= MaxCalls /\ Len(calls) = j + Len(granted) /\ Len(calls) > 0
    <3>1. Len(calls) \in Nat /\ Len(calls) > 0
      BY <1>1
    <3>2. Len(calls) <= MaxCalls
      BY DEF LimiterInv
    <3> QED
      BY <2>1, <3>1, <3>2 DEF Listed
  <2>3. CASE j > 0
    BY <1>1, <2>2, <2>3
  <2>4. CASE j = 0
    <3>1. 1 \in 1..Len(granted) /\ calls[0 + 1] = granted[1]
      BY <1>1, <2>1, <2>2, <2>4 DEF Listed
    <3> QED
      BY <1>1, <1>2, <2>2, <2>4, <3>1
  <2> QED
    BY <2>3, <2>4
<1>7. WaitInv'
  <2> SUFFICES ASSUME NEW d \in Callers, pc'[d] = "sleeping", ~overtaken'[d]
               PROVE  Len(granted) < MaxCalls \/ (granted # <<>> /\ granted[1] + wait'[d] >= Window)
    BY <1>3 DEF WaitInv
  <2>1. CASE d = c
    <3>1. wait'[c] = RetryAfter
      BY DEF Suspend, LimiterInv, TypeOK
    <3> QED
      BY <1>6, <2>1, <3>1
  <2>2. CASE d # c
    <3>1. pc[d] = "sleeping" /\ ~overtaken[d] /\ wait'[d] = wait[d]
      BY <2>2 DEF Suspend, LimiterInv, TypeOK
    <3> QED
      BY <3>1 DEF WaitInv
  <2> QED
    BY <2>1, <2>2
<1> QED
  BY <1>5, <1>7

\* Nothing is granted, and nobody falls asleep.
LEMMA MoveKeeps ==
  ASSUME LimiterInv, WaitInv, NEW c \in Callers, Begin(c) \/ Wake(c) \/ Cancel(c)
  PROVE  LimiterInv' /\ WaitInv'
<1>1. UNCHANGED <<calls, wait, granted, overtaken>>
  BY DEF Begin, Wake, Cancel
<1>2. /\ pc' \in [Callers -> {"idle", "acquire", "denied", "sleeping"}]
      /\ attempt' \in [Callers -> 0..RetryAttempts]
  <2>1. CASE Begin(c)
    BY <2>1, LimiterAssumption DEF Begin, LimiterInv, TypeOK
  <2>2. CASE Cancel(c)
    BY <2>2 DEF Cancel, LimiterInv, TypeOK
  <2>3. CASE Wake(c)
    <3>1. attempt[c] \in 0..RetryAttempts /\ RetryAttempts \in Nat
      BY LimiterAssumption DEF LimiterInv, TypeOK
    <3>2. attempt[c] < RetryAttempts => attempt[c] + 1 \in 0..RetryAttempts
      BY <3>1
    <3>3. pc' \in [Callers -> {"idle", "acquire", "denied", "sleeping"}]
      BY <2>3 DEF Wake, LimiterInv, TypeOK
    <3>4. CASE attempt[c] >= RetryAttempts
      BY <2>3, <3>3, <3>4 DEF Wake, LimiterInv, TypeOK
    <3>5. CASE attempt[c] < RetryAttempts
      <4>1. attempt' = [attempt EXCEPT ![c] = attempt[c] + 1]
        BY <2>3, <3>1, <3>5 DEF Wake
      <4> QED
        BY <3>2, <3>3, <3>5, <4>1 DEF LimiterInv, TypeOK
    <3> QED
      BY <3>1, <3>4, <3>5
  <2> QED
    BY <2>1, <2>2, <2>3
<1>3. \A d \in Callers : pc'[d] \in {"sleeping", "denied"} => pc'[d] = pc[d]
  BY DEF Begin, Wake, Cancel, LimiterInv, TypeOK
<1>4. TypeOK'
  BY <1>1, <1>2 DEF LimiterInv, TypeOK
<1>5. \E j \in Nat : Listed(j)'
  BY <1>1 DEF LimiterInv, Listed
<1>6. LimiterInv'
  BY <1>1, <1>3, <1>4, <1>5 DEF LimiterInv, Ordered
<1>7. WaitInv'
  BY <1>1, <1>3 DEF WaitInv
<1> QED
  BY <1>6, <1>7
\* A tick ages the list, and what reaches the window leaves it.
LEMMA TickKeeps ==
  ASSUME LimiterInv, WaitInv, Tick
  PROVE  LimiterInv' /\ WaitInv'
<1> DEFINE aged == [n \in 1..Len(granted) |-> granted[n] + 1]
<1>1. /\ granted \in Seq(0..(Window - 1)) /\ calls \in Seq(0..Window) /\ Window \in Nat
      /\ Window > 0 /\ Len(granted) \in Nat /\ Len(calls) \in Nat /\ MaxCalls \in Nat
  BY LimiterAssumption DEF LimiterInv, TypeOK
<1>2. /\ aged \in Seq(Nat) /\ Len(aged) = Len(granted)
      /\ \A n \in 1..Len(granted) : aged[n] = granted[n] + 1 /\ aged[n] \in 1..Window
  BY <1>1
<1>3. granted' = Recent(aged)
  BY DEF Tick
<1> HIDE DEF aged
<1>4. Ordered(aged)
  <2> SUFFICES ASSUME NEW m \in 1..Len(granted), NEW n \in 1..Len(granted), m <= n
               PROVE  aged[n] <= aged[m]
    BY <1>2 DEF Ordered
  <2>1. granted[n] <= granted[m] /\ granted[n] \in Nat /\ granted[m] \in Nat
    BY <1>1 DEF LimiterInv, Ordered
  <2> QED
    BY <1>2, <2>1
<1>5. PICK i, l \in Nat : Len(granted) = i + l /\ Keeps(aged) = (i + 1)..(i + l)
  BY <1>2, <1>4, KeepsSuffix
<1>6. granted' = [m \in 1..l |-> aged[i + m]]
  BY <1>3, <1>5, RecentIsSuffix
<1>7. \A m \in 1..l : i + m \in 1..Len(granted) /\ i + m \in Keeps(aged)
  BY <1>5
<1>8. /\ granted' \in Seq(0..(Window - 1)) /\ Len(granted') = l
      /\ \A m \in 1..l : granted'[m] = granted[i + m] + 1
  <2>1. ASSUME NEW m \in 1..l
        PROVE  aged[i + m] \in 0..(Window - 1) /\ aged[i + m] = granted[i + m] + 1
    <3>1. PICK n : n = i + m
      OBVIOUS
    <3>2. n \in 1..Len(granted) /\ aged[n] < Window
      BY <1>7, <3>1 DEF Keeps
    <3> QED
      BY <1>1, <1>2, <3>1, <3>2
  <2>2. granted' \in [1..l -> 0..(Window - 1)]
    BY <1>6, <2>1
  <2>3. granted' \in Seq(0..(Window - 1)) /\ Len(granted') = l
    <3>1. PICK S : S = 0..(Window - 1)
      OBVIOUS
    <3>2. granted' \in [1..l -> S] /\ l \in Nat
      BY <2>2, <3>1
    <3>3. granted' \in Seq(S) /\ Len(granted') = l
      BY <3>2
    <3> QED
      BY <3>1, <3>3
  <2> QED
    BY <1>6, <2>1, <2>3
<1>9. Ordered(granted')
  <2> SUFFICES ASSUME NEW m \in 1..l, NEW n \in 1..l, m <= n
               PROVE  granted'[n] <= granted'[m]
    BY <1>8 DEF Ordered
  <2>1. PICK a, b : a = i + m /\ b = i + n
    OBVIOUS
  <2>2. a \in 1..Len(granted) /\ b \in 1..Len(granted) /\ a <= b
    BY <1>7, <2>1
  <2>3. granted[b] <= granted[a] /\ granted[a] \in Nat /\ granted[b] \in Nat
    BY <1>1, <2>2 DEF LimiterInv, Ordered
  <2> QED
    BY <1>8, <2>1, <2>3
<1>10. /\ calls' \in Seq(0..Window) /\ Len(calls') = Len(calls)
       /\ \A n \in 1..Len(calls) : calls'[n] = IF calls[n] < Window THEN calls[n] + 1 ELSE Window
  <2>1. calls' = [n \in 1..Len(calls) |-> Older(calls[n])]
    BY DEF Tick
  <2>2. \A n \in 1..Len(calls) : calls[n] \in 0..Window
    BY <1>1
  <2>3. \A n \in 1..Len(calls) : Older(calls[n]) \in 0..Window
    BY <1>1, <2>2 DEF Older
  <2> QED
    BY <1>1, <2>1, <2>3 DEF Older
<1>11. \E k \in Nat : Listed(k)'
  <2>1. PICK j \in Nat : Listed(j)
    BY DEF LimiterInv
  <2>2. PICK k : k = j + i
    OBVIOUS
  <2>3. Len(calls') = k + Len(granted') /\ k \in Nat
    BY <1>5, <1>8, <1>10, <2>1, <2>2 DEF Listed
  <2>4. ASSUME NEW n \in 1..k
        PROVE  calls'[n] = Window
    <3>1. n \in 1..Len(calls)
      BY <1>5, <1>8, <1>10, <2>3
    <3>2. CASE n \in 1..j
      BY <1>1, <1>10, <2>1, <3>1, <3>2 DEF Listed
    <3>3. CASE n > j
      <4>1. PICK m \in 1..i : n = j + m
        BY <2>2, <3>3
      <4>2. m \in 1..Len(granted) /\ m \notin Keeps(aged)
        BY <1>5, <4>1
      <4>3. calls[n] = granted[m]
        BY <2>1, <4>1, <4>2 DEF Listed
      <4>4. ~(granted[m] + 1 < Window) /\ granted[m] \in 0..(Window - 1)
        BY <1>1, <1>2, <4>2 DEF Keeps
      <4>5. calls'[n] = IF calls[n] < Window THEN calls[n] + 1 ELSE Window
        BY <1>10, <3>1
      <4>6. PICK g : g = granted[m]
        OBVIOUS
      <4>7. g \in 0..(Window - 1) /\ ~(g + 1 < Window)
            /\ calls'[n] = IF g < Window THEN g + 1 ELSE Window
        BY <4>3, <4>4, <4>5, <4>6
      <4> QED
        BY <1>1, <4>7
    <3> QED
      BY <2>2, <3>2, <3>3
  <2>5. ASSUME NEW m \in 1..l
        PROVE  calls'[k + m] = granted'[m]
    <3>1. PICK a, n : a = i + m /\ n = j + a
      OBVIOUS
    <3>2. n = k + m /\ a \in 1..Len(granted)
      BY <1>7, <2>2, <3>1
    <3>3. n \in 1..Len(calls)
      BY <1>1, <2>1, <3>1, <3>2 DEF Listed
    <3>4. calls[n] = granted[a]
      BY <2>1, <3>1, <3>2 DEF Listed
    <3>5. granted[a] + 1 < Window /\ granted[a] \in 0..(Window - 1)
      <4>1. aged[a] < Window
        BY <1>7, <3>1 DEF Keeps
      <4>2. aged[a] = granted[a] + 1
        BY <1>2, <3>2
      <4>3. granted[a] \in 0..(Window - 1)
        BY <1>1, <3>2
      <4> QED
        BY <4>1, <4>2, <4>3
    <3>6. calls'[n] = granted[a] + 1
      BY <1>1, <1>10, <3>3, <3>4, <3>5
    <3> QED
      BY <1>8, <3>1, <3>2, <3>6
  <2>6. Listed(k)'
    BY <1>8, <2>3, <2>4, <2>5 DEF Listed
  <2> QED
    BY <2>3, <2>6
<1>12. wait' \in [Callers -> 0..Window]
       /\ \A c \in Callers : wait'[c] = IF wait[c] > 0 THEN wait[c] - 1 ELSE 0
  BY <1>1 DEF Tick, LimiterInv, TypeOK
<1>13. TypeOK'
  BY <1>8, <1>10, <1>12 DEF LimiterInv, TypeOK, Tick
<1>14. LimiterInv'
  <2>1. \A c \in Callers : pc'[c] = "denied" => calls' # <<>>
    <3>1. calls # <<>> => calls' # <<>>
      BY <1>1, <1>10
    <3> QED
      BY <3>1 DEF Tick, LimiterInv
  <2>2. Len(calls') <= MaxCalls
    BY <1>10 DEF LimiterInv
  <2> QED
    BY <1>9, <1>11, <1>13, <2>1, <2>2 DEF LimiterInv
<1>15. WaitInv'
  <2> SUFFICES ASSUME NEW c \in Callers, pc[c] = "sleeping", ~overtaken[c]
               PROVE  Len(granted') < MaxCalls
                        \/ (granted' # <<>> /\ granted'[1] + wait'[c] >= Window)
    BY DEF WaitInv, Tick
  <2>1. Len(granted) <= MaxCalls
    <3>1. PICK j \in Nat : Listed(j)
      BY DEF LimiterInv
    <3> QED
      BY <1>1, <3>1 DEF LimiterInv, Listed
  <2>2. Len(granted) < MaxCalls \/ (granted # <<>> /\ granted[1] + wait[c] >= Window)
    BY DEF WaitInv
  <2>3. CASE i > 0 \/ Len(granted) < MaxCalls
    BY <1>1, <1>5, <1>8, <2>1, <2>3
  <2>4. CASE i = 0 /\ Len(granted) >= MaxCalls
    <3>1. 1 \in 1..l /\ granted[1] \in 0..(Window - 1) /\ granted # <<>> /\ granted' # <<>>
      BY <1>1, <1>5, <1>8, <2>2, <2>4
    <3>2. granted'[1] = granted[1] + 1
      BY <1>8, <2>4, <3>1
    <3>3. wait[c] \in 0..Window /\ wait'[c] = IF wait[c] > 0 THEN wait[c] - 1 ELSE 0
      BY <1>12 DEF LimiterInv, TypeOK
    <3>4. granted[1] + wait[c] >= Window
      BY <1>1, <2>2, <2>4
    <3>5. PICK g, w, v : g = granted[1] /\ w = wait[c] /\ v = wait'[c]
      OBVIOUS
    <3>6. g + 1 + v >= Window
      <4>1. g \in 0..(Window - 1) /\ w \in 0..Window /\ g + w >= Window
        BY <3>1, <3>3, <3>4, <3>5
      <4>2. v = IF w > 0 THEN w - 1 ELSE 0
        BY <3>3, <3>5
      <4> QED
        BY <1>1, <4>1, <4>2
    <3> QED
      BY <3>1, <3>2, <3>5, <3>6
  <2> QED
    BY <1>1, <1>5, <2>3, <2>4
<1> QED
  BY <1>14, <1>15

LEMMA LimiterNext == LimiterInv /\ WaitInv /\ [Next]_vars => LimiterInv' /\ WaitInv'
<1> SUFFICES ASSUME LimiterInv, WaitInv, [Next]_vars PROVE LimiterInv' /\ WaitInv'
  OBVIOUS
<1>1. CASE UNCHANGED vars
  <2>1. UNCHANGED <<calls, pc, attempt, wait, granted, overtaken>>
    BY <1>1 DEF vars
  <2>2. TypeOK' /\ (\E j \in Nat : Listed(j)')
    BY <2>1 DEF LimiterInv, TypeOK, Listed
  <2> QED
    BY <2>1, <2>2 DEF LimiterInv, WaitInv, Ordered
<1> QED
  BY <1>1, TickKeeps, GrantKeeps, DenyKeeps, SuspendKeeps, MoveKeeps DEF Next, Gate

THEOREM LimiterInvariant == Spec => [](LimiterInv /\ WaitInv)
BY LimiterInit, LimiterNext, PTL DEF Spec

-----------------------------------------------------------------------------
\* For every instance: types of the limiter and of its callers' waits (RateLimiter,
\* limiterGate).
THEOREM LimiterTypeCorrect == Spec => []TypeOK
<1>1. LimiterInv => TypeOK
  BY DEF LimiterInv
<1> QED
  BY <1>1, LimiterInvariant, PTL

\* For every instance: never more than maxCalls requests in any window, whatever the
\* order in which callers acquire, wait and give up (Acquire, pruneLocked).
THEOREM WindowHolds == Spec => []WindowBound
<1>1. LimiterInv => WindowBound
  <2> SUFFICES ASSUME LimiterInv PROVE WindowBound
    OBVIOUS
  <2>1. PICK j \in Nat : Listed(j)
    BY DEF LimiterInv
  <2>2. Len(granted) \in Nat /\ MaxCalls \in Nat /\ Len(calls) <= MaxCalls
    BY LimiterAssumption DEF LimiterInv, TypeOK
  <2> QED
    BY <2>1, <2>2 DEF Listed, WindowBound
<1> QED
  BY <1>1, LimiterInvariant, PTL

\* For every instance: after the pause RetryAfter suggested there is a slot, unless another
\* caller has taken one since (RetryAfter, limiterGate).
THEOREM PauseIsEnough == Spec => []WaitIsEnough
<1>1. LimiterInv /\ WaitInv => WaitIsEnough
  <2> SUFFICES ASSUME LimiterInv, WaitInv, NEW c \in Callers,
                      pc[c] = "sleeping", wait[c] = 0, ~overtaken[c]
               PROVE  Len(granted) < MaxCalls
    BY DEF WaitIsEnough
  <2>1. Len(granted) < MaxCalls \/ (granted # <<>> /\ granted[1] + 0 >= Window)
    BY DEF WaitInv
  <2>2. granted # <<>> => granted[1] \in 0..(Window - 1)
    <3>1. granted \in Seq(0..(Window - 1))
      BY DEF LimiterInv, TypeOK
    <3>2. PICK S : S = 0..(Window - 1)
      OBVIOUS
    <3>3. granted \in Seq(S)
      BY <3>1, <3>2
    <3>4. granted # <<>> => granted[1] \in S
      BY <3>3
    <3> QED
      BY <3>2, <3>4
  <2> QED
    BY <2>1, <2>2, LimiterAssumption
<1> QED
  BY <1>1, LimiterInvariant, PTL
==============================================================================
