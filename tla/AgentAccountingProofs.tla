------------------------ MODULE AgentAccountingProofs ------------------------
(***************************************************************************)
(* TLAPS proof that the counters of Stats add up at every moment, for any  *)
(* number of flush loops and host flushes, through requeues, reloads and   *)
(* crashes.  Accounting counts the entries of all batches under way; the   *)
(* proof is about how one flusher's step changes that count: by its own    *)
(* share and nobody else's.                                                *)
(***************************************************************************)
EXTENDS AgentProofs

\* InFlight, of any places P, kinds K and batches B of the flushers.
Flight(P, K, B, k, S) ==
  {x \in Flushers \X (1..BufferSize) : P[x[1]] \in S /\ K[x[1]] = k /\ x[2] <= Len(B[x[1]])}

\* What f contributes to it.
Share(P, K, B, f, k, S) == IF P[f] \in S /\ K[f] = k THEN Len(B[f]) ELSE 0

\* A batch was one kind's queue, so the cap bounds it as well.
FitBatch == \A f \in Flushers : pc[f] \in Holding => Len(batch[f]) <= BufferSize

BooksInv == CoreInv /\ FitBatch /\ Accounting

LEMMA FlushersFinite == IsFiniteSet(Flushers)
<1>1. IsFiniteSet({AutoLoop}) /\ IsFiniteSet({Stopper})
  BY FS_Singleton
<1> QED
  BY <1>1, FlushersAssumption, FS_Union DEF Flushers, Loops

LEMMA IntervalSize ==
  ASSUME NEW n \in Nat
  PROVE  IsFiniteSet(1..n) /\ Cardinality(1..n) = n
<1>1. 1 \in Int /\ n \in Int
  OBVIOUS
<1>2. IsFiniteSet(1..n) /\ Cardinality(1..n) = IF 1 > n THEN 0 ELSE n - 1 + 1
  BY Zenon, <1>1, FS_Interval
<1>3. n = IF 1 > n THEN 0 ELSE n - 1 + 1
  OBVIOUS
<1> QED
  BY <1>2, <1>3

\* The share of f has its length; the rest is finite.
LEMMA FlightSplit ==
  ASSUME NEW P, NEW K, NEW B, NEW f \in Flushers, NEW k, NEW S,
         Share(P, K, B, f, k, S) \in 0..BufferSize
  PROVE  LET rest == {x \in Flight(P, K, B, k, S) : x[1] # f}
         IN  /\ Cardinality(rest) \in Nat
             /\ Cardinality(Flight(P, K, B, k, S)) = Cardinality(rest) + Share(P, K, B, f, k, S)
<1> DEFINE rest == {x \in Flight(P, K, B, k, S) : x[1] # f}
           n == Share(P, K, B, f, k, S)
           own == {f} \X (1..n)
<1>1. BufferSize \in Nat /\ n \in Nat /\ n <= BufferSize
  BY AgentAssumption
<1>2. IsFiniteSet(rest) /\ Cardinality(rest) \in Nat
  <2>1. IsFiniteSet(Flushers \X (1..BufferSize))
    BY Zenon, <1>1, FlushersFinite, IntervalSize, FS_Product
  <2>2. rest \in SUBSET (Flushers \X (1..BufferSize))
    BY DEF Flight
  <2> QED
    BY <2>1, <2>2, FS_Subset, FS_CardinalityType
<1>3. IsFiniteSet(own) /\ Cardinality(own) = n
  <2> HIDE DEF n
  <2>1. IsFiniteSet(1..n) /\ Cardinality(1..n) = n
    BY <1>1, IntervalSize
  <2>2. IsFiniteSet({f}) /\ Cardinality({f}) = 1
    BY FS_Singleton
  <2>3. IsFiniteSet({f} \X (1..n)) /\ Cardinality({f} \X (1..n)) = 1 * n
    <3>1. /\ IsFiniteSet({f} \X (1..n))
          /\ Cardinality({f} \X (1..n)) = Cardinality({f}) * Cardinality(1..n)
      BY Zenon, <2>1, <2>2, FS_Product
    <3> QED
      BY <2>1, <2>2, <3>1
  <2> QED
    BY <1>1, <2>3
<1>4. rest \intersect own = {} /\ Cardinality({}) = 0
  BY FS_EmptySet
<1>5. Flight(P, K, B, k, S) = rest \union own
  <2>1. ASSUME NEW x \in Flight(P, K, B, k, S), x[1] = f PROVE x \in own
    <3>1. x \in Flushers \X (1..BufferSize) /\ P[f] \in S /\ K[f] = k /\ x[2] <= Len(B[f])
      BY <2>1 DEF Flight
    <3>2. n = Len(B[f])
      BY <3>1 DEF Share
    <3>3. x = <<f, x[2]>> /\ x[2] \in 1..BufferSize
      BY <2>1, <3>1
    <3> HIDE DEF n
    <3>4. x[2] \in 1..n
      BY <1>1, <3>1, <3>2, <3>3
    <3> QED
      BY <3>3, <3>4
  <2>2. ASSUME NEW x \in own PROVE x \in Flight(P, K, B, k, S)
    <3>1. x[1] = f /\ x[2] \in 1..n /\ x = <<f, x[2]>>
      BY <2>2
    <3>2. P[f] \in S /\ K[f] = k /\ n = Len(B[f])
      BY <1>1, <3>1 DEF Share
    <3> HIDE DEF n
    <3>3. x[2] \in 1..BufferSize /\ x[2] <= Len(B[f])
      BY <1>1, <3>1, <3>2
    <3>4. x \in Flushers \X (1..BufferSize)
      BY <3>1, <3>3
    <3> QED
      BY <3>1, <3>2, <3>3, <3>4 DEF Flight
  <2> QED
    BY <2>1, <2>2
<1> HIDE DEF rest, own
<1>6. Cardinality(rest \union own) = Cardinality(rest) + n
  <2>1. Cardinality(rest \union own) = Cardinality(rest) + Cardinality(own) - 0
    BY <1>2, <1>3, <1>4, FS_Union
  <2> HIDE DEF n
  <2> QED
    BY <1>1, <1>2, <1>3, <2>1
<1> QED
  BY <1>2, <1>5, <1>6 DEF rest

-----------------------------------------------------------------------------
\* The books, around one step.

CountingPlaces == {"send", "confirm", "count", "fail"}

Before(f, k, S) == Share(pc, kind, batch, f, k, S)
After(f, k, S) == Share(pc', kind', batch', f, k, S)

OnlyOne(f) == \A g \in Flushers \ {f} : pc'[g] = pc[g] /\ kind'[g] = kind[g] /\ batch'[g] = batch[g]

\* What the step adds to one side of Stats' two equations it adds to the other.
Ledger(f, k) ==
  /\ stats'[k].buffered + Len(queue[k]) + Before(f, k, Holding) + stats[k].sent
       + stats[k].dropped + reloadEvicted[k]
     = stats[k].buffered + Len(queue'[k]) + After(f, k, Holding) + stats'[k].sent
       + stats'[k].dropped + reloadEvicted'[k]
  /\ stats'[k].flushed + Before(f, k, CountingPlaces) + stats[k].sent + stats[k].failed
     = stats[k].flushed + After(f, k, CountingPlaces) + stats'[k].sent + stats'[k].failed

\* A change at f alone changes the count by the difference of f's share.
LEMMA FlightNext ==
  ASSUME NEW f \in Flushers, NEW k, NEW S, OnlyOne(f),
         Before(f, k, S) \in 0..BufferSize, After(f, k, S) \in 0..BufferSize
  PROVE  /\ Cardinality(Flight(pc, kind, batch, k, S)) \in Nat
         /\ Cardinality(Flight(pc', kind', batch', k, S)) \in Nat
         /\ Cardinality(Flight(pc', kind', batch', k, S)) + Before(f, k, S)
              = Cardinality(Flight(pc, kind, batch, k, S)) + After(f, k, S)
<1>1. {x \in Flight(pc', kind', batch', k, S) : x[1] # f}
        = {x \in Flight(pc, kind, batch, k, S) : x[1] # f}
  BY DEF Flight, OnlyOne
<1>2. BufferSize \in Nat
  BY AgentAssumption
<1> DEFINE rest == Cardinality({x \in Flight(pc, kind, batch, k, S) : x[1] # f})
<1>3. rest \in Nat /\ Cardinality(Flight(pc, kind, batch, k, S)) = rest + Before(f, k, S)
  BY FlightSplit DEF Before
<1>4. Cardinality(Flight(pc', kind', batch', k, S)) = rest + After(f, k, S)
  BY <1>1, FlightSplit DEF After
<1> HIDE DEF rest
<1> QED
  BY <1>2, <1>3, <1>4

LEMMA ShareBounds ==
  ASSUME CoreInv, CoreInv', FitBatch, FitBatch', NEW f \in Flushers, NEW k,
         NEW S, S \subseteq Holding
  PROVE  Before(f, k, S) \in 0..BufferSize /\ After(f, k, S) \in 0..BufferSize
<1>1. batch[f] \in Seq(Entries) /\ batch'[f] \in Seq(Entries)
  BY DEF CoreInv, TypeOK, FlusherTypeOK
<1>2. Len(batch[f]) \in Nat /\ Len(batch'[f]) \in Nat /\ BufferSize \in Nat
  BY <1>1, LenProperties, AgentAssumption
<1>3. /\ pc[f] \in S => Len(batch[f]) <= BufferSize
      /\ pc'[f] \in S => Len(batch'[f]) <= BufferSize
  BY DEF FitBatch
<1> QED
  BY <1>2, <1>3 DEF Before, After, Share

LEMMA LedgerKeeps ==
  ASSUME CoreInv, CoreInv', FitBatch, FitBatch', Accounting,
         NEW f \in Flushers, OnlyOne(f), \A k \in Kinds : Ledger(f, k)
  PROVE  Accounting'
<1> DEFINE held(k) == Cardinality(InFlight(k, Holding))
           counting(k) == Cardinality(InFlight(k, CountingPlaces))
           held2(k) == Cardinality(Flight(pc', kind', batch', k, Holding))
           counting2(k) == Cardinality(Flight(pc', kind', batch', k, CountingPlaces))
<1>1. ASSUME NEW k \in Kinds, NEW S, S \subseteq Holding
      PROVE  /\ Cardinality(InFlight(k, S)) \in Nat
             /\ Cardinality(Flight(pc', kind', batch', k, S)) \in Nat
             /\ Cardinality(Flight(pc', kind', batch', k, S)) + Before(f, k, S)
                  = Cardinality(InFlight(k, S)) + After(f, k, S)
             /\ Before(f, k, S) \in Nat /\ After(f, k, S) \in Nat
  <2>1. Before(f, k, S) \in 0..BufferSize /\ After(f, k, S) \in 0..BufferSize
    BY <1>1, ShareBounds
  <2>2. InFlight(k, S) = Flight(pc, kind, batch, k, S)
    BY DEF InFlight, Flight
  <2>3. BufferSize \in Nat
    BY AgentAssumption
  <2>4. /\ Cardinality(Flight(pc, kind, batch, k, S)) \in Nat
        /\ Cardinality(Flight(pc', kind', batch', k, S)) \in Nat
        /\ Cardinality(Flight(pc', kind', batch', k, S)) + Before(f, k, S)
             = Cardinality(Flight(pc, kind, batch, k, S)) + After(f, k, S)
    BY <2>1, FlightNext
  <2>5. Before(f, k, S) \in Nat /\ After(f, k, S) \in Nat
    BY <2>1, <2>3
  <2> QED
    BY Zenon, <2>2, <2>4, <2>5
<1>2. ASSUME NEW k \in Kinds
      PROVE  /\ stats'[k].buffered = Len(queue'[k]) + held2(k)
                     + stats'[k].sent + stats'[k].dropped + reloadEvicted'[k]
             /\ stats'[k].flushed = counting2(k) + stats'[k].sent + stats'[k].failed
  <2>1. /\ held(k) \in Nat /\ held2(k) \in Nat
        /\ held2(k) + Before(f, k, Holding) = held(k) + After(f, k, Holding)
        /\ Before(f, k, Holding) \in Nat /\ After(f, k, Holding) \in Nat
    BY <1>1, <1>2
  <2>2. CountingPlaces \subseteq Holding
    BY DEF CountingPlaces, Holding
  <2>3. /\ counting(k) \in Nat /\ counting2(k) \in Nat
        /\ counting2(k) + Before(f, k, CountingPlaces) = counting(k) + After(f, k, CountingPlaces)
        /\ Before(f, k, CountingPlaces) \in Nat /\ After(f, k, CountingPlaces) \in Nat
    BY <1>1, <1>2, <2>2
  <2>4. /\ stats[k] \in Counters /\ stats'[k] \in Counters
        /\ reloadEvicted[k] \in Nat /\ reloadEvicted'[k] \in Nat
        /\ queue[k] \in Seq(Entries) /\ queue'[k] \in Seq(Entries)
    BY <1>2 DEF CoreInv, TypeOK, FieldTypeOK, HistoryTypeOK
  <2>5. /\ Len(queue[k]) \in Nat /\ Len(queue'[k]) \in Nat
        /\ stats[k].buffered \in Nat /\ stats'[k].buffered \in Nat
        /\ stats[k].flushed \in Nat /\ stats'[k].flushed \in Nat
        /\ stats[k].sent \in Nat /\ stats'[k].sent \in Nat
        /\ stats[k].failed \in Nat /\ stats'[k].failed \in Nat
        /\ stats[k].dropped \in Nat /\ stats'[k].dropped \in Nat
    BY <2>4, LenProperties DEF Counters
  <2>6. /\ stats[k].buffered = Len(queue[k]) + held(k)
                     + stats[k].sent + stats[k].dropped + reloadEvicted[k]
        /\ stats[k].flushed = counting(k) + stats[k].sent + stats[k].failed
    BY <1>2 DEF Accounting, CountingPlaces
  <2>7. Ledger(f, k)
    BY <1>2
  <2> DEFINE b == stats[k].buffered  b2 == stats'[k].buffered
             u == stats[k].flushed   u2 == stats'[k].flushed
             s == stats[k].sent      s2 == stats'[k].sent
             x == stats[k].failed    x2 == stats'[k].failed
             d == stats[k].dropped   d2 == stats'[k].dropped
             r == reloadEvicted[k]   r2 == reloadEvicted'[k]
             q == Len(queue[k])      q2 == Len(queue'[k])
             g == Before(f, k, Holding)         g2 == After(f, k, Holding)
             c == Before(f, k, CountingPlaces)  c2 == After(f, k, CountingPlaces)
             h == held(k)            h2 == held2(k)
             n == counting(k)        n2 == counting2(k)
  <2>8. /\ b2 + q + g + s + d + r = b + q2 + g2 + s2 + d2 + r2
        /\ u2 + c + s + x = u + c2 + s2 + x2
    BY <2>7 DEF Ledger
  <2> HIDE DEF held, held2, counting, counting2, b, b2, u, u2, s, s2, x, x2, d, d2, r, r2,
               q, q2, g, g2, c, c2, h, h2, n, n2
  <2>9. /\ b \in Nat /\ b2 \in Nat /\ u \in Nat /\ u2 \in Nat /\ s \in Nat /\ s2 \in Nat
        /\ x \in Nat /\ x2 \in Nat /\ d \in Nat /\ d2 \in Nat /\ r \in Nat /\ r2 \in Nat
        /\ q \in Nat /\ q2 \in Nat
    BY <2>4, <2>5 DEF b, b2, u, u2, s, s2, x, x2, d, d2, r, r2, q, q2
  <2>10. /\ h \in Nat /\ h2 \in Nat /\ g \in Nat /\ g2 \in Nat /\ h2 + g = h + g2
    BY <2>1 DEF g, g2, h, h2
  <2>11. /\ n \in Nat /\ n2 \in Nat /\ c \in Nat /\ c2 \in Nat /\ n2 + c = n + c2
    BY <2>3 DEF c, c2, n, n2
  <2>12. b = q + h + s + d + r /\ u = n + s + x
    BY <2>6 DEF b, u, s, x, d, r, q, h, n
  <2>13. b2 = q2 + h2 + s2 + d2 + r2
    BY <2>8, <2>9, <2>10, <2>12
  <2>14. u2 = n2 + s2 + x2
    BY <2>8, <2>9, <2>11, <2>12
  <2> QED
    BY <2>13, <2>14 DEF b2, u2, s2, x2, d2, r2, q2, h2, n2
<1> QED
  BY <1>2 DEF Accounting, InFlight, Flight, CountingPlaces

-----------------------------------------------------------------------------
\* The steps, by what they book.

\* A step that moves no entry and counts none.
Quiet(f) ==
  /\ OnlyOne(f) /\ UNCHANGED <<queue, stats, reloadEvicted>>
  /\ \A k \in Kinds, S \in {Holding, CountingPlaces} : After(f, k, S) = Before(f, k, S)

LEMMA QuietLedger ==
  ASSUME NEW f \in Flushers, Quiet(f), NEW k \in Kinds
  PROVE  Ledger(f, k)
<1>1. /\ queue' = queue /\ stats' = stats /\ reloadEvicted' = reloadEvicted
      /\ After(f, k, Holding) = Before(f, k, Holding)
      /\ After(f, k, CountingPlaces) = Before(f, k, CountingPlaces)
  BY Zenon DEF Quiet
<1> QED
  BY Zenon, <1>1 DEF Ledger

\* Two places that hold a batch alike, or neither of which does.
LEMMA QuietMove ==
  ASSUME CoreInv, NEW f \in Flushers, NEW a, NEW b,
         pc[f] = a, pc' = [pc EXCEPT ![f] = b],
         UNCHANGED <<queue, stats, reloadEvicted, kind, batch>>,
         a \in Holding <=> b \in Holding, a \in CountingPlaces <=> b \in CountingPlaces
  PROVE  Quiet(f)
<1>1. pc \in [Flushers -> Places]
  BY DEF CoreInv, TypeOK, FlusherTypeOK
<1>2. pc'[f] = b /\ \A g \in Flushers \ {f} : pc'[g] = pc[g]
  BY <1>1
<1>3. \A S \in {Holding, CountingPlaces} : pc'[f] \in S <=> pc[f] \in S
  BY <1>2
<1>4. \A k \in Kinds, S \in {Holding, CountingPlaces} : After(f, k, S) = Before(f, k, S)
  BY <1>3 DEF Before, After, Share
<1> QED
  BY Zenon, <1>2, <1>4 DEF Quiet, OnlyOne

\* f holds no batch before nor after.
LEMMA QuietTurn ==
  ASSUME CoreInv, NEW f \in Flushers, pc[f] \in {"drain", "orphans"}, NextKind(f),
         UNCHANGED <<queue, stats, reloadEvicted>>
  PROVE  Quiet(f)
<1>1. /\ pc \in [Flushers -> Places] /\ kind \in [Flushers -> Kinds]
      /\ batch \in [Flushers -> Seq(Entries)]
  BY DEF CoreInv, TypeOK, FlusherTypeOK
<1>2. OnlyOne(f) /\ pc'[f] \in {"drain", "close", "idle"}
  BY <1>1 DEF OnlyOne, NextKind, Goto, AfterKind
<1>3. \A S \in {Holding, CountingPlaces} : pc[f] \notin S /\ pc'[f] \notin S
  BY <1>2 DEF Holding, CountingPlaces
<1> QED
  BY Zenon, <1>2, <1>3 DEF Quiet, Before, After, Share

\* A call that appends nothing, and the steps around the flushers.
LEMMA QuietElsewhere ==
  ASSUME UNCHANGED <<queue, stats, reloadEvicted, pc, kind, batch>>
  PROVE  Quiet(Stopper) /\ Stopper \in Flushers
BY Zenon DEF Quiet, OnlyOne, Before, After, Share, Flushers

\* What f and the other kinds see of a step that counts something for f's kind.
LEMMA OtherKinds ==
  ASSUME CoreInv, NEW f \in Flushers, NEW k \in Kinds, k # kind[f],
         stats'[k] = stats[k], queue'[k] = queue[k], reloadEvicted' = reloadEvicted,
         kind'[f] = kind[f] \/ pc'[f] \notin Holding
  PROVE  Ledger(f, k)
<1>1. \A S \in {Holding, CountingPlaces} : Before(f, k, S) = 0 /\ After(f, k, S) = 0
  BY DEF Before, After, Share, Holding, CountingPlaces
<1> QED
  BY Zenon, <1>1 DEF Ledger

\* The fields of a counter after one count.
LEMMA Counted ==
  ASSUME NEW c \in Counters, NEW n \in Nat
  PROVE  /\ LET d == [c EXCEPT !.flushed = @ + n] IN
              /\ d.buffered = c.buffered /\ d.flushed = c.flushed + n /\ d.sent = c.sent
              /\ d.failed = c.failed /\ d.dropped = c.dropped
         /\ LET d == [c EXCEPT !.sent = @ + n] IN
              /\ d.buffered = c.buffered /\ d.flushed = c.flushed /\ d.sent = c.sent + n
              /\ d.failed = c.failed /\ d.dropped = c.dropped
         /\ LET d == [c EXCEPT !.failed = @ + n] IN
              /\ d.buffered = c.buffered /\ d.flushed = c.flushed /\ d.sent = c.sent
              /\ d.failed = c.failed + n /\ d.dropped = c.dropped
         /\ LET d == [c EXCEPT !.dropped = @ + n] IN
              /\ d.buffered = c.buffered /\ d.flushed = c.flushed /\ d.sent = c.sent
              /\ d.failed = c.failed /\ d.dropped = c.dropped + n
         /\ LET d == [c EXCEPT !.buffered = @ + n] IN
              /\ d.buffered = c.buffered + n /\ d.flushed = c.flushed /\ d.sent = c.sent
              /\ d.failed = c.failed /\ d.dropped = c.dropped
BY DEF Counters

\* Lengths and counters are natural numbers.
LEMMA BookTypes ==
  ASSUME CoreInv, NEW k \in Kinds
  PROVE  /\ stats[k] \in Counters /\ queue[k] \in Seq(Entries) /\ Len(queue[k]) \in Nat
         /\ stats[k].buffered \in Nat /\ stats[k].flushed \in Nat /\ stats[k].sent \in Nat
         /\ stats[k].failed \in Nat /\ stats[k].dropped \in Nat /\ reloadEvicted[k] \in Nat
<1>1. stats[k] \in Counters /\ queue[k] \in Seq(Entries) /\ reloadEvicted[k] \in Nat
  BY DEF CoreInv, TypeOK, FieldTypeOK, HistoryTypeOK
<1> QED
  BY <1>1, LenProperties DEF Counters

LEMMA ShareTypes ==
  ASSUME CoreInv, NEW f \in Flushers
  PROVE  /\ batch[f] \in Seq(Entries) /\ Len(batch[f]) \in Nat /\ kind[f] \in Kinds
         /\ pc \in [Flushers -> Places] /\ kind \in [Flushers -> Kinds]
         /\ batch \in [Flushers -> Seq(Entries)]
         /\ stats \in [Kinds -> Counters] /\ queue \in [Kinds -> Seq(Entries)]
BY LenProperties DEF CoreInv, TypeOK, FlusherTypeOK, FieldTypeOK

\* flushEvents moves the queue into its batch and counts it as flushed.
LEMMA DrainLedger ==
  ASSUME CoreInv, NEW f \in Flushers, Drain(f)
  PROVE  OnlyOne(f) /\ \A k \in Kinds : Ledger(f, k)
<1> DEFINE c == kind[f]
           n == Len(queue[c])
<1>1. /\ pc[f] = "drain" /\ pc' = [pc EXCEPT ![f] = "send"] /\ kind' = kind
      /\ batch' = [batch EXCEPT ![f] = queue[c]] /\ queue' = [queue EXCEPT ![c] = <<>>]
      /\ stats' = [stats EXCEPT ![c].flushed = @ + n] /\ reloadEvicted' = reloadEvicted
  BY DEF Drain, Goto, histVars
<1>2. /\ pc'[f] = "send" /\ batch'[f] = queue[c] /\ OnlyOne(f) /\ kind'[f] = c /\ c \in Kinds
  BY <1>1, ShareTypes DEF OnlyOne
<1>3. /\ stats'[c] = [stats[c] EXCEPT !.flushed = @ + n] /\ queue'[c] = <<>>
      /\ \A k \in Kinds \ {c} : stats'[k] = stats[k] /\ queue'[k] = queue[k]
  BY <1>1, <1>2, ShareTypes
<1>4. \A S \in {Holding, CountingPlaces} : Before(f, c, S) = 0 /\ After(f, c, S) = n
  BY <1>1, <1>2 DEF Before, After, Share, Holding, CountingPlaces
<1>5. stats[c] \in Counters /\ n \in Nat
  BY <1>2, BookTypes
<1>6. ASSUME NEW k \in Kinds, k # c PROVE Ledger(f, k)
  BY <1>1, <1>2, <1>3, <1>6, OtherKinds
<1>7. Ledger(f, c)
  <2>1. /\ stats'[c].buffered = stats[c].buffered /\ stats'[c].flushed = stats[c].flushed + n
        /\ stats'[c].sent = stats[c].sent /\ stats'[c].failed = stats[c].failed
        /\ stats'[c].dropped = stats[c].dropped
    BY <1>3, <1>5, Counted
  <2>2. Len(queue'[c]) = 0
    BY <1>3
  <2> QED
    BY <1>1, <1>2, <1>4, <2>1, <2>2, BookTypes DEF Ledger
<1> QED
  BY <1>2, <1>6, <1>7

\* What a step adds to the counters of c.
Books(c, db, du, ds, dx, dd, dr) ==
  /\ stats'[c].buffered = stats[c].buffered + db /\ stats'[c].flushed = stats[c].flushed + du
  /\ stats'[c].sent = stats[c].sent + ds /\ stats'[c].failed = stats[c].failed + dx
  /\ stats'[c].dropped = stats[c].dropped + dd /\ reloadEvicted'[c] = reloadEvicted[c] + dr

LEMMA BookLedger ==
  ASSUME CoreInv, CoreInv', NEW f \in Flushers, NEW c \in Kinds,
         NEW db \in Nat, NEW du \in Nat, NEW ds \in Nat, NEW dx \in Nat, NEW dd \in Nat,
         NEW dr \in Nat, Books(c, db, du, ds, dx, dd, dr),
         db + Len(queue[c]) + Before(f, c, Holding)
           = Len(queue'[c]) + After(f, c, Holding) + ds + dd + dr,
         du + Before(f, c, CountingPlaces) = After(f, c, CountingPlaces) + ds + dx
  PROVE  Ledger(f, c)
<1>1. /\ Len(queue[c]) \in Nat /\ stats[c].buffered \in Nat /\ stats[c].flushed \in Nat
      /\ stats[c].sent \in Nat /\ stats[c].failed \in Nat /\ stats[c].dropped \in Nat
      /\ reloadEvicted[c] \in Nat
  BY BookTypes
<1>2. Len(queue'[c]) \in Nat /\ Len(batch'[f]) \in Nat
  <2>1. queue'[c] \in Seq(Entries) /\ batch'[f] \in Seq(Entries)
    BY DEF CoreInv, TypeOK, FieldTypeOK, FlusherTypeOK
  <2> QED
    BY <2>1, LenProperties
<1>3. ASSUME NEW S PROVE Before(f, c, S) \in Nat /\ After(f, c, S) \in Nat
  BY <1>2, ShareTypes DEF Before, After, Share
<1> DEFINE b == stats[c].buffered
           u == stats[c].flushed
           s == stats[c].sent
           x == stats[c].failed
           d == stats[c].dropped
           r == reloadEvicted[c]
           q == Len(queue[c])
           q2 == Len(queue'[c])
           g == Before(f, c, Holding)
           g2 == After(f, c, Holding)
           p == Before(f, c, CountingPlaces)
           p2 == After(f, c, CountingPlaces)
<1>4. /\ b \in Nat /\ u \in Nat /\ s \in Nat /\ x \in Nat /\ d \in Nat /\ r \in Nat
      /\ q \in Nat /\ q2 \in Nat /\ g \in Nat /\ g2 \in Nat /\ p \in Nat /\ p2 \in Nat
  BY <1>1, <1>2, <1>3
<1>5. db + q + g = q2 + g2 + ds + dd + dr /\ du + p = p2 + ds + dx
  OBVIOUS
<1>6. /\ stats'[c].buffered = b + db /\ stats'[c].flushed = u + du
      /\ stats'[c].sent = s + ds /\ stats'[c].failed = x + dx
      /\ stats'[c].dropped = d + dd /\ reloadEvicted'[c] = r + dr
  BY DEF Books
<1>7. /\ (b + db) + q + g + s + d + r = b + q2 + g2 + (s + ds) + (d + dd) + (r + dr)
      /\ (u + du) + p + s + x = u + p2 + (s + ds) + (x + dx)
  <2> HIDE DEF b, u, s, x, d, r, q, q2, g, g2, p, p2
  <2> QED
    BY <1>4, <1>5
<1> QED
  BY Zenon, <1>6, <1>7 DEF Ledger

\* settleEvents counts the batch it settled as sent.
LEMMA CountLedger ==
  ASSUME CoreInv, CoreInv', NEW f \in Flushers, SettleCount(f)
  PROVE  OnlyOne(f) /\ \A k \in Kinds : Ledger(f, k)
<1> DEFINE c == kind[f]
           n == Len(batch[f])
<1>1. /\ pc[f] = "count" /\ NextKind(f) /\ queue' = queue /\ reloadEvicted' = reloadEvicted
      /\ stats' = [stats EXCEPT ![c].sent = @ + n]
  BY DEF SettleCount, histVars
<1>2. OnlyOne(f) /\ pc'[f] \in {"drain", "close", "idle"} /\ c \in Kinds
  BY <1>1, ShareTypes DEF OnlyOne, NextKind, Goto, AfterKind
<1>3. /\ stats'[c] = [stats[c] EXCEPT !.sent = @ + n]
      /\ \A k \in Kinds \ {c} : stats'[k] = stats[k]
  BY <1>1, <1>2, ShareTypes
<1>4. \A S \in {Holding, CountingPlaces} : Before(f, c, S) = n /\ After(f, c, S) = 0
  BY <1>1, <1>2 DEF Before, After, Share, Holding, CountingPlaces
<1>5. stats[c] \in Counters /\ n \in Nat
  BY <1>2, BookTypes, ShareTypes
<1>6. ASSUME NEW k \in Kinds, k # c PROVE Ledger(f, k)
  BY <1>1, <1>2, <1>3, <1>6, OtherKinds DEF Holding
<1>7. Books(c, 0, 0, n, 0, 0, 0)
  <2>1. /\ stats'[c].buffered = stats[c].buffered /\ stats'[c].flushed = stats[c].flushed
        /\ stats'[c].sent = stats[c].sent + n /\ stats'[c].failed = stats[c].failed
        /\ stats'[c].dropped = stats[c].dropped
    BY <1>3, <1>5, Counted
  <2>2. reloadEvicted'[c] = reloadEvicted[c]
    BY <1>1
  <2> HIDE DEF n
  <2> QED
    BY <1>2, <2>1, <2>2, BookTypes DEF Books
<1>8. Ledger(f, c)
  <2> HIDE DEF n, c
  <2>1. Len(queue[c]) \in Nat /\ queue'[c] = queue[c]
    BY <1>1, <1>2, BookTypes
  <2> QED
    BY <1>2, <1>4, <1>5, <1>7, <2>1, BookLedger
<1> QED
  BY <1>2, <1>6, <1>8

\* settleEvents counts the batch it must give back as failed.
LEMMA FailLedger ==
  ASSUME CoreInv, CoreInv', NEW f \in Flushers, SettleFail(f)
  PROVE  OnlyOne(f) /\ \A k \in Kinds : Ledger(f, k)
<1> DEFINE c == kind[f]
           n == Len(batch[f])
<1>1. /\ pc[f] = "fail" /\ pc' = [pc EXCEPT ![f] = "requeue"] /\ kind' = kind /\ batch' = batch
      /\ stats' = [stats EXCEPT ![c].failed = @ + n]
      /\ queue' = queue /\ reloadEvicted' = reloadEvicted
  BY DEF SettleFail, Goto, histVars
<1>2. OnlyOne(f) /\ pc'[f] = "requeue" /\ c \in Kinds
  BY <1>1, ShareTypes DEF OnlyOne
<1>3. /\ stats'[c] = [stats[c] EXCEPT !.failed = @ + n]
      /\ \A k \in Kinds \ {c} : stats'[k] = stats[k]
  BY <1>1, <1>2, ShareTypes
<1>4. /\ Before(f, c, Holding) = n /\ After(f, c, Holding) = n
      /\ Before(f, c, CountingPlaces) = n /\ After(f, c, CountingPlaces) = 0
  BY <1>1, <1>2 DEF Before, After, Share, Holding, CountingPlaces
<1>5. stats[c] \in Counters /\ n \in Nat
  BY <1>2, BookTypes, ShareTypes
<1>6. ASSUME NEW k \in Kinds, k # c PROVE Ledger(f, k)
  BY <1>1, <1>3, <1>6, OtherKinds
<1>7. Books(c, 0, 0, 0, n, 0, 0)
  <2>1. /\ stats'[c].buffered = stats[c].buffered /\ stats'[c].flushed = stats[c].flushed
        /\ stats'[c].sent = stats[c].sent /\ stats'[c].failed = stats[c].failed + n
        /\ stats'[c].dropped = stats[c].dropped
    BY <1>3, <1>5, Counted
  <2>2. reloadEvicted'[c] = reloadEvicted[c]
    BY <1>1
  <2> HIDE DEF n
  <2> QED
    BY <1>2, <2>1, <2>2, BookTypes DEF Books
<1>8. Ledger(f, c)
  <2> HIDE DEF n, c
  <2>1. Len(queue[c]) \in Nat /\ queue'[c] = queue[c]
    BY <1>1, <1>2, BookTypes
  <2> QED
    BY <1>2, <1>4, <1>5, <1>7, <2>1, BookLedger
<1> QED
  BY <1>2, <1>6, <1>8

\* What a requeue keeps and evicts is as long as what it merged.
LEMMA CapLengths ==
  ASSUME NEW s \in Seq(Entries)
  PROVE  /\ Len(Kept(s)) \in Nat /\ Len(Evicted(s)) \in Nat
         /\ Len(Kept(s)) + Len(Evicted(s)) = Len(s)
<1>1. BufferSize \in Nat /\ Len(s) \in Nat
  BY AgentAssumption, LenProperties
<1>2. CASE Len(s) > BufferSize
  <2>1. Len(SubSeq(s, 1, BufferSize)) = BufferSize
    BY <1>1, <1>2, SubSeqProperties
  <2>2. Len(SubSeq(s, BufferSize + 1, Len(s))) = Len(s) - BufferSize
    BY <1>1, <1>2, SubSeqProperties
  <2>3. Kept(s) = SubSeq(s, 1, BufferSize) /\ Evicted(s) = SubSeq(s, BufferSize + 1, Len(s))
    BY <1>2 DEF Kept, Evicted
  <2>4. Len(Kept(s)) = BufferSize /\ Len(Evicted(s)) = Len(s) - BufferSize
    BY Zenon, <2>1, <2>2, <2>3
  <2> QED
    BY <1>1, <1>2, <2>4
<1>3. CASE ~(Len(s) > BufferSize)
  <2>1. Len(SubSeq(s, 1, Len(s))) = Len(s)
    BY <1>1, <1>3, SubSeqProperties
  <2>2. SubSeq(s, BufferSize + 1, Len(s)) = << >>
    BY <1>1, <1>3, SubSeqEmpty
  <2>3. Kept(s) = SubSeq(s, 1, Len(s)) /\ Evicted(s) = << >>
    BY <1>3, <2>2 DEF Kept, Evicted
  <2>4. Len(Kept(s)) = Len(s) /\ Len(Evicted(s)) = 0
    <3>1. Len(Kept(s)) = Len(s)
      BY Zenon, <2>1, <2>3
    <3> QED
      BY <2>3, <3>1
  <2> QED
    BY <1>1, <2>4
<1> QED
  BY <1>2, <1>3

\* requeueEvents puts the batch back and counts what that evicts as dropped.
LEMMA RequeueLedger ==
  ASSUME CoreInv, CoreInv', NEW f \in Flushers, Requeue(f)
  PROVE  OnlyOne(f) /\ \A k \in Kinds : Ledger(f, k)
<1> DEFINE c == kind[f]
           n == Len(batch[f])
           merged == batch[f] \o queue[c]
           t == Len(Evicted(merged))
<1>1. /\ pc[f] = "requeue" /\ pc' = [pc EXCEPT ![f] = "orphans"] /\ kind' = kind
      /\ batch' = [batch EXCEPT ![f] = Evicted(merged)]
      /\ queue' = [queue EXCEPT ![c] = Kept(merged)]
      /\ stats' = [stats EXCEPT ![c].dropped = @ + t] /\ reloadEvicted' = reloadEvicted
  BY DEF Requeue, Goto
<1>2. /\ batch[f] \in Seq(Entries) /\ queue[c] \in Seq(Entries) /\ c \in Kinds
      /\ n \in Nat /\ Len(queue[c]) \in Nat /\ stats[c] \in Counters
  BY ShareTypes, BookTypes
<1>3. merged \in Seq(Entries) /\ Len(merged) = n + Len(queue[c])
  BY <1>2, ConcatProperties
<1> HIDE DEF merged
<1>4. t \in Nat /\ Len(Kept(merged)) \in Nat /\ Len(Kept(merged)) + t = n + Len(queue[c])
  BY <1>3, CapLengths
<1> HIDE DEF t
<1>5. OnlyOne(f) /\ pc'[f] = "orphans"
  BY <1>1, ShareTypes DEF OnlyOne
<1>6. /\ stats'[c] = [stats[c] EXCEPT !.dropped = @ + t] /\ queue'[c] = Kept(merged)
      /\ \A k \in Kinds \ {c} : stats'[k] = stats[k] /\ queue'[k] = queue[k]
  BY <1>1, <1>2, ShareTypes
<1>7. /\ Before(f, c, Holding) = n /\ After(f, c, Holding) = 0
      /\ Before(f, c, CountingPlaces) = 0 /\ After(f, c, CountingPlaces) = 0
  BY <1>1, <1>5 DEF Before, After, Share, Holding, CountingPlaces
<1>8. ASSUME NEW k \in Kinds, k # c PROVE Ledger(f, k)
  BY <1>1, <1>6, <1>8, OtherKinds
<1>9. Books(c, 0, 0, 0, 0, t, 0)
  <2>1. /\ stats'[c].buffered = stats[c].buffered /\ stats'[c].flushed = stats[c].flushed
        /\ stats'[c].sent = stats[c].sent /\ stats'[c].failed = stats[c].failed
        /\ stats'[c].dropped = stats[c].dropped + t
    BY <1>2, <1>4, <1>6, Counted
  <2>2. reloadEvicted'[c] = reloadEvicted[c]
    BY <1>1
  <2> QED
    BY <1>2, <2>1, <2>2, BookTypes DEF Books
<1>10. Ledger(f, c)
  <2> HIDE DEF n, c
  <2>1. 0 + Len(queue[c]) + n = Len(queue'[c]) + 0 + 0 + t + 0
    BY <1>2, <1>4, <1>6
  <2>2. 0 + Len(queue[c]) + Before(f, c, Holding)
          = Len(queue'[c]) + After(f, c, Holding) + 0 + t + 0
    BY <1>7, <2>1
  <2>3. 0 + Before(f, c, CountingPlaces) = After(f, c, CountingPlaces) + 0 + 0
    BY <1>7
  <2> QED
    BY <1>2, <1>4, <1>9, <2>2, <2>3, BookLedger
<1> QED
  BY <1>5, <1>8, <1>10

\* A step that leaves the flushers alone changes no share.
LEMMA SameShare ==
  ASSUME UNCHANGED <<pc, kind, batch>>, NEW k
  PROVE  /\ OnlyOne(Stopper) /\ Stopper \in Flushers
         /\ \A S : After(Stopper, k, S) = Before(Stopper, k, S)
BY Zenon DEF OnlyOne, Before, After, Share, Flushers

\* appendLocked counts the new entry as buffered and the evicted one as dropped.
LEMMA AppendLedger ==
  ASSUME CoreInv, CoreInv', NEW p \in Producers, NEW n \in {0, 1}, AppendLocked(p, n),
         ppc[p] = "enqueue", n <= Len(queue[KindOf[pitem[p]]])
  PROVE  OnlyOne(Stopper) /\ \A k \in Kinds : Ledger(Stopper, k)
<1> DEFINE i == pitem[p]
           c == KindOf[i]
           rest == SubSeq(queue[c], n + 1, Len(queue[c]))
<1>1. i \in Items /\ c \in Kinds
  BY ItemsAssumption DEF CoreInv, HasItem
<1>2. PICK keyed \in BOOLEAN :
         /\ queue' = [queue EXCEPT ![c] = Append(rest, [item |-> i, keyed |-> keyed])]
         /\ stats' = [stats EXCEPT ![c].buffered = @ + 1, ![c].dropped = @ + n]
  BY DEF AppendLocked
<1>3. UNCHANGED <<pc, kind, batch, reloadEvicted>>
  BY DEF AppendLocked, flushVars
<1>4. /\ stats[c] \in Counters /\ queue[c] \in Seq(Entries)
      /\ Len(queue[c]) \in Nat /\ n \in 0..Len(queue[c])
      /\ stats \in [Kinds -> Counters] /\ queue \in [Kinds -> Seq(Entries)]
  BY <1>1, BookTypes DEF CoreInv, TypeOK, FieldTypeOK
<1>5. Len(queue'[c]) = Len(queue[c]) - n + 1
  <2>1. rest \in Seq(Entries) /\ Len(rest) = Len(queue[c]) - n
    BY <1>4, ItemsOfSplit
  <2>2. [item |-> i, keyed |-> keyed] \in Entries
    BY <1>1 DEF Entries
  <2>3. Len(Append(rest, [item |-> i, keyed |-> keyed])) = Len(rest) + 1
    BY <2>1, <2>2, ItemsOfAppend
  <2>4. queue'[c] = Append(rest, [item |-> i, keyed |-> keyed])
    <3> HIDE DEF rest, c
    <3> QED
      BY <1>1, <1>2, <1>4
  <2> QED
    BY <2>1, <2>3, <2>4
<1> HIDE DEF c
<1>6. \A k \in Kinds \ {c} : stats'[k] = stats[k] /\ queue'[k] = queue[k]
  BY <1>2, <1>4
<1>7. ASSUME NEW k \in Kinds, k # c PROVE Ledger(Stopper, k)
  <2>1. stats'[k] = stats[k] /\ queue'[k] = queue[k] /\ reloadEvicted'[k] = reloadEvicted[k]
    BY <1>3, <1>6, <1>7
  <2>2. \A S : After(Stopper, k, S) = Before(Stopper, k, S)
    BY <1>3, SameShare
  <2> QED
    BY Zenon, <2>1, <2>2 DEF Ledger
<1>8. Books(c, 1, 0, 0, 0, n, 0)
  <2>1. stats'[c] = [stats[c] EXCEPT !.buffered = @ + 1, !.dropped = @ + n]
    BY <1>1, <1>2, <1>4
  <2>2. /\ stats'[c].buffered = stats[c].buffered + 1 /\ stats'[c].flushed = stats[c].flushed
        /\ stats'[c].sent = stats[c].sent /\ stats'[c].failed = stats[c].failed
        /\ stats'[c].dropped = stats[c].dropped + n
    BY <1>4, <2>1 DEF Counters
  <2>3. reloadEvicted'[c] = reloadEvicted[c]
    BY <1>3
  <2> QED
    BY <1>1, <2>2, <2>3, BookTypes DEF Books
<1>9. /\ OnlyOne(Stopper) /\ Stopper \in Flushers
      /\ \A S : After(Stopper, c, S) = Before(Stopper, c, S) /\ Before(Stopper, c, S) \in Nat
  <2>1. Stopper \in Flushers /\ OnlyOne(Stopper) /\ \A S : After(Stopper, c, S) = Before(Stopper, c, S)
    BY <1>3, SameShare
  <2> QED
    BY <2>1, ShareTypes DEF Before, Share
<1>10. Ledger(Stopper, c)
  <2>1. 1 + Len(queue[c]) + Before(Stopper, c, Holding)
          = Len(queue'[c]) + After(Stopper, c, Holding) + 0 + n + 0
    BY <1>4, <1>5, <1>9
  <2>2. 0 + Before(Stopper, c, CountingPlaces) = After(Stopper, c, CountingPlaces) + 0 + 0
    BY <1>9
  <2> QED
    BY <1>1, <1>4, <1>8, <1>9, <2>1, <2>2, BookLedger
<1> QED
  BY <1>7, <1>9, <1>10

\* reloadFromRedisLocked counts what it loads as buffered; what does not fit has
\* no counter (reloadEvicted stands for it).
LEMMA ReloadLedger ==
  ASSUME CoreInv, CoreInv', NEW loaded \in [Kinds -> Seq(Items)], Reload(loaded),
         UNCHANGED <<pc, kind, batch>>, NEW k \in Kinds
  PROVE  Ledger(Stopper, k)
<1> DEFINE keyedOf(j) == [n \in 1..Len(loaded[j]) |-> [item |-> loaded[j][n], keyed |-> TRUE]]
           merged == [j \in Kinds |-> queue[j] \o keyedOf(j)]
           over == [j \in Kinds |-> IF Len(merged[j]) > BufferSize
                                    THEN Len(merged[j]) - BufferSize ELSE 0]
           l == Len(loaded[k])
           q == Len(queue[k])
           o == over[k]
<1>1. /\ BufferSize \in Nat /\ q \in Nat /\ l \in Nat /\ queue[k] \in Seq(Entries)
      /\ stats[k] \in Counters
  BY AgentAssumption, BookTypes, LenProperties
<1>2. keyedOf(k) \in Seq(Entries) /\ Len(keyedOf(k)) = l
  <2>1. \A n \in 1..Len(loaded[k]) : [item |-> loaded[k][n], keyed |-> TRUE] \in Entries
    BY ElementOfSeq DEF Entries
  <2> QED
    BY <1>1, <2>1
<1>3. /\ queue'[k] = SubSeq(merged[k], o + 1, Len(merged[k]))
      /\ stats'[k] = [stats[k] EXCEPT !.buffered = @ + l]
      /\ reloadEvicted'[k] = reloadEvicted[k] + o
  BY DEF Reload
<1>4. o = IF Len(merged[k]) > BufferSize THEN Len(merged[k]) - BufferSize ELSE 0
  OBVIOUS
<1>5. merged[k] \in Seq(Entries) /\ Len(merged[k]) = q + l
  <2>1. merged[k] = queue[k] \o keyedOf(k)
    OBVIOUS
  <2> HIDE DEF merged, keyedOf
  <2>2. /\ queue[k] \o keyedOf(k) \in Seq(Entries)
        /\ Len(queue[k] \o keyedOf(k)) = Len(queue[k]) + Len(keyedOf(k))
    BY <1>1, <1>2, ConcatProperties
  <2> QED
    BY <1>2, <2>1, <2>2
<1> HIDE DEF merged, over, keyedOf, o
<1>6. o \in 0..Len(merged[k])
  BY <1>1, <1>4, <1>5
<1>7. Len(queue'[k]) = (q + l) - o
  <2>1. Len(SubSeq(merged[k], o + 1, Len(merged[k]))) = Len(merged[k]) - o
    BY <1>5, <1>6, ItemsOfSplit
  <2>2. Len(queue'[k]) = Len(merged[k]) - o
    BY Zenon, <1>3, <2>1
  <2> QED
    BY Zenon, <1>5, <2>2
<1>8. Books(k, l, 0, 0, 0, 0, o)
  <2>1. /\ stats'[k].buffered = stats[k].buffered + l /\ stats'[k].flushed = stats[k].flushed
        /\ stats'[k].sent = stats[k].sent /\ stats'[k].failed = stats[k].failed
        /\ stats'[k].dropped = stats[k].dropped
    BY <1>1, <1>3, Counted
  <2> HIDE DEF l
  <2> QED
    BY <1>3, <2>1, BookTypes DEF Books
<1>9. /\ Stopper \in Flushers
      /\ \A S : After(Stopper, k, S) = Before(Stopper, k, S) /\ Before(Stopper, k, S) \in Nat
  <2>1. Stopper \in Flushers /\ \A S : After(Stopper, k, S) = Before(Stopper, k, S)
    BY SameShare
  <2> QED
    BY <2>1, ShareTypes DEF Before, Share
<1> HIDE DEF l
<1>10. l + Len(queue[k]) + Before(Stopper, k, Holding)
          = Len(queue'[k]) + After(Stopper, k, Holding) + 0 + 0 + o
  BY <1>1, <1>5, <1>6, <1>7, <1>9
<1>11. 0 + Before(Stopper, k, CountingPlaces) = After(Stopper, k, CountingPlaces) + 0 + 0
  BY <1>9
<1>12. o \in Nat
  BY <1>1, <1>5, <1>6
<1> QED
  BY <1>1, <1>8, <1>9, <1>10, <1>11, <1>12, BookLedger

-----------------------------------------------------------------------------
\* A batch is never longer than a queue may be.
LEMMA FitNext ==
  ASSUME CoreInv, FitBatch, [Next]_vars
  PROVE  FitBatch'
<1>1. /\ pc \in [Flushers -> Places] /\ batch \in [Flushers -> Seq(Entries)]
      /\ kind \in [Flushers -> Kinds] /\ \A k \in Kinds : Len(queue[k]) <= BufferSize
  BY DEF CoreInv, TypeOK, FlusherTypeOK, QueueBound
<1> USE DEF FitBatch
<1>2. ASSUME UNCHANGED <<pc, batch>> PROVE FitBatch'
  BY <1>2
<1>3. ASSUME NEW f \in Flushers, NEW a, NEW b, pc[f] = a, pc' = [pc EXCEPT ![f] = b],
             batch' = batch, b \in Holding => a \in Holding
      PROVE  FitBatch'
  BY <1>1, <1>3
<1>4. ASSUME NEW f \in Flushers, NextKind(f) PROVE FitBatch'
  BY <1>1, <1>4 DEF NextKind, Goto, AfterKind, Holding
<1>5. ASSUME NEW f \in Flushers, Drain(f) PROVE FitBatch'
  BY <1>1, <1>5 DEF Drain, Goto
<1>6. ASSUME NEW f \in Flushers, Requeue(f) PROVE FitBatch'
  BY <1>1, <1>6 DEF Requeue, Goto, Holding
<1>7. ASSUME NEW f \in Flushers, NEW a, NEW b, Move(f, a, b), b \notin Holding PROVE FitBatch'
  BY <1>3, <1>7 DEF Move, Goto
<1>8. ASSUME NEW f \in Flushers, FlushStep(f) PROVE FitBatch'
  <2>1. CASE FlushIfNeeded(f) \/ FlushGuard(f)
    BY <1>7, <2>1 DEF FlushIfNeeded, FlushGuard, Holding
  <2>2. CASE Skip(f) \/ SettleCount(f) \/ ConfirmOrphans(f)
    BY <1>4, <2>2 DEF Skip, SettleCount, ConfirmOrphans
  <2>3. ASSUME NEW o \in Outcomes, SendDefinitive(f, o) PROVE FitBatch'
    BY <1>3, <2>3 DEF SendDefinitive, Goto, Holding
  <2>4. CASE SendFails(f)
    BY <1>3, <2>4 DEF SendFails, Goto, Holding
  <2>5. CASE SettleConfirm(f)
    BY <1>3, <2>5 DEF SettleConfirm, Goto, Holding
  <2>6. CASE SettleFail(f)
    BY <1>3, <2>6 DEF SettleFail, Goto, Holding
  <2> QED
    BY <1>5, <1>6, <1>8, <2>1, <2>2, <2>3, <2>4, <2>5, <2>6 DEF FlushStep
<1>9. ASSUME NEW f \in Flushers, TakeWake(f) \/ HostFlush(f) \/ LoopExit(f) PROVE FitBatch'
  <2>1. CASE TakeWake(f)
    BY <1>3, <2>1 DEF TakeWake, Goto, Holding
  <2>2. CASE HostFlush(f) \/ LoopExit(f)
    BY <1>7, <2>2 DEF HostFlush, LoopExit, Holding
  <2> QED
    BY <1>9, <2>1, <2>2
<1>10. AutoLoop \in Flushers /\ Stopper \in Flushers
  BY DEF Flushers, Loops
<1>11. CASE Tick \/ StopStep
  BY <1>7, <1>10, <1>11 DEF Tick, StopStep, StopWait, StopClose, StopJoin, Holding
<1>12. CASE StopBegin
  BY <1>3, <1>10, <1>12 DEF StopBegin, Goto, Holding
<1>13. ASSUME NEW p \in Producers, ProducerStep(p) \/ CtxDone(p) \/ \E i \in Items : Send(p, i)
       PROVE  FitBatch'
  BY <1>2, <1>13 DEF ProducerStep, CtxDone, Send, EnqueueRoom, EnqueueDrop, EnqueueRaise,
     EnqueueBlock, Unblock, Finish, AppendLocked, flushVars
<1>14. CASE Start \/ ConfirmWorker \/ RedisStep \/ \E k \in Kinds : GateOpens(k)
  BY <1>2, <1>14 DEF Start, ConfirmWorker, RedisStep, GateOpens, flushVars
<1>15. CASE Crash
  BY <1>1, <1>15 DEF Crash, Holding
<1>16. CASE UNCHANGED vars
  BY <1>2, <1>16 DEF vars, flushVars
<1> QED
  BY <1>8, <1>9, <1>11, <1>12, <1>13, <1>14, <1>15, <1>16 DEF Next

-----------------------------------------------------------------------------
\* Every step but a crash has a flusher whose ledger it is.
LEMMA StepLedger ==
  ASSUME CoreInv, CoreInv', [Next]_vars
  PROVE  Crash \/ \E f \in Flushers : OnlyOne(f) /\ \A k \in Kinds : Ledger(f, k)
<1> DEFINE Booked(f) == OnlyOne(f) /\ \A k \in Kinds : Ledger(f, k)
<1>1. ASSUME NEW f \in Flushers, Quiet(f) PROVE Booked(f)
  BY <1>1, QuietLedger DEF Quiet
<1>2. ASSUME UNCHANGED <<queue, stats, reloadEvicted, pc, kind, batch>>
      PROVE  \E f \in Flushers : Booked(f)
  BY <1>1, <1>2, QuietElsewhere
<1>3. ASSUME NEW f \in Flushers, NEW a \in Places, NEW b \in Places, Move(f, a, b),
             a \notin Holding, b \notin Holding
      PROVE  Booked(f)
  <2>1. /\ pc[f] = a /\ pc' = [pc EXCEPT ![f] = b]
        /\ UNCHANGED <<queue, stats, reloadEvicted, kind, batch>>
    BY <1>3 DEF Move, Goto, fieldVars, histVars
  <2>2. a \notin CountingPlaces /\ b \notin CountingPlaces
    BY <1>3 DEF Holding, CountingPlaces
  <2> QED
    BY <1>1, <1>3, <2>1, <2>2, QuietMove
<1>4. ASSUME NEW f \in Flushers, FlushStep(f) PROVE Booked(f)
  <2>1. CASE FlushIfNeeded(f) \/ FlushGuard(f)
    BY <1>3, <2>1 DEF FlushIfNeeded, FlushGuard, Holding, Places
  <2>2. CASE Skip(f) \/ ConfirmOrphans(f)
    <3>1. /\ pc[f] \in {"drain", "orphans"} /\ NextKind(f)
          /\ UNCHANGED <<queue, stats, reloadEvicted>>
      BY <2>2 DEF Skip, ConfirmOrphans, fieldVars, histVars
    <3> QED
      BY <1>1, <3>1, QuietTurn
  <2>3. CASE \/ SendFails(f) \/ SettleConfirm(f)
             \/ \E o \in Outcomes : SendDefinitive(f, o)
    <3>1. PICK a \in {"send", "confirm"}, b \in {"confirm", "fail", "count"} :
             pc[f] = a /\ pc' = [pc EXCEPT ![f] = b]
      BY <2>3 DEF SendFails, SettleConfirm, SendDefinitive, Goto
    <3>2. UNCHANGED <<queue, stats, reloadEvicted, kind, batch>>
      BY <2>3 DEF SendFails, SettleConfirm, SendDefinitive, fieldVars, histVars
    <3>3. /\ a \in Holding /\ b \in Holding /\ a \in CountingPlaces /\ b \in CountingPlaces
      BY <3>1 DEF Holding, CountingPlaces
    <3> QED
      BY <1>1, <3>1, <3>2, <3>3, QuietMove
  <2> QED
    BY <1>4, <2>1, <2>2, <2>3, DrainLedger, CountLedger, FailLedger, RequeueLedger DEF FlushStep
<1>5. ASSUME NEW f \in Flushers, TakeWake(f) \/ HostFlush(f) \/ LoopExit(f) PROVE Booked(f)
  <2>1. CASE TakeWake(f)
    <3>1. /\ pc[f] = "idle" /\ pc' = [pc EXCEPT ![f] = "check"]
          /\ UNCHANGED <<queue, stats, reloadEvicted, kind, batch>>
      BY <2>1 DEF TakeWake, Goto, fieldVars, histVars
    <3> QED
      BY <1>1, <3>1, QuietMove DEF Holding, CountingPlaces
  <2>2. CASE HostFlush(f) \/ LoopExit(f)
    BY <1>3, <2>2 DEF HostFlush, LoopExit, Holding, Places
  <2> QED
    BY <1>5, <2>1, <2>2
<1>6. AutoLoop \in Flushers /\ Stopper \in Flushers
  BY DEF Flushers, Loops
<1>7. CASE Tick \/ StopStep
  BY <1>3, <1>6, <1>7 DEF Tick, StopStep, StopWait, StopClose, StopJoin, Holding, Places
<1>8. CASE StopBegin
  <2>1. /\ pc[Stopper] = "idle" /\ pc' = [pc EXCEPT ![Stopper] = "wait"]
        /\ UNCHANGED <<queue, stats, reloadEvicted, kind, batch>>
    BY <1>8 DEF StopBegin, Goto, fieldVars, histVars
  <2> QED
    BY <1>1, <1>6, <2>1, QuietMove DEF Holding, CountingPlaces
<1>9. ASSUME NEW p \in Producers, ProducerStep(p) \/ CtxDone(p) \/ \E i \in Items : Send(p, i)
      PROVE  \E f \in Flushers : Booked(f)
  <2>1. CASE EnqueueRoom(p) \/ EnqueueDrop(p)
    <3>1. \E n \in {0, 1} : /\ AppendLocked(p, n) /\ ppc[p] = "enqueue"
                            /\ n <= Len(queue[KindOf[pitem[p]]])
      <4>1. pitem[p] \in Items /\ KindOf[pitem[p]] \in Kinds
        BY <2>1, ItemsAssumption DEF CoreInv, HasItem, EnqueueRoom, EnqueueDrop
      <4>2. Len(queue[KindOf[pitem[p]]]) \in Nat /\ BufferSize \in Nat \ {0}
        BY <4>1, BookTypes, AgentAssumption
      <4> QED
        BY <2>1, <4>2 DEF EnqueueRoom, EnqueueDrop, Full
    <3> QED
      BY <1>6, <3>1, AppendLedger
  <2>2. CASE ~(EnqueueRoom(p) \/ EnqueueDrop(p))
    <3>1. UNCHANGED <<queue, stats, reloadEvicted, pc, kind, batch>>
      BY <1>9, <2>2 DEF ProducerStep, CtxDone, Send, EnqueueRaise, EnqueueBlock, Unblock, Finish,
         fieldVars, flushVars, histVars
    <3> QED
      BY <1>2, <3>1
  <2> QED
    BY <2>1, <2>2
<1>10. CASE Start
  <2>1. UNCHANGED <<pc, kind, batch>>
    BY <1>10 DEF Start, flushVars
  <2>2. CASE Durable
    <3>1. PICK le \in LoadKind("event"), lm \in LoadKind("metric") :
             Reload([k \in Kinds |-> IF k = "event" THEN le ELSE lm])
      BY <1>10, <2>2 DEF Start
    <3>2. le \in Seq(Items) /\ lm \in Seq(Items)
      BY LoadKindType DEF Kinds, CoreInv, TypeOK
    <3>3. [k \in Kinds |-> IF k = "event" THEN le ELSE lm] \in [Kinds -> Seq(Items)]
      BY <3>2
    <3>4. \A k \in Kinds : Ledger(Stopper, k)
      BY <2>1, <3>1, <3>3, ReloadLedger
    <3> QED
      BY <1>6, <2>1, <3>4, SameShare
  <2>3. CASE ~Durable
    BY <1>2, <1>10, <2>1, <2>3 DEF Start
  <2> QED
    BY <2>2, <2>3
<1>11. CASE ConfirmWorker \/ RedisStep \/ \E k \in Kinds : GateOpens(k)
  BY <1>2, <1>11 DEF ConfirmWorker, RedisStep, GateOpens, fieldVars, flushVars, histVars
<1>12. CASE UNCHANGED vars
  BY <1>2, <1>12 DEF vars, fieldVars, flushVars, histVars
<1> QED
  BY <1>4, <1>5, <1>6, <1>7, <1>8, <1>9, <1>10, <1>11, <1>12 DEF Next

\* An agent whose flushers are idle, with nothing queued and nothing counted.
LEMMA EmptyBooks ==
  ASSUME pc = [f \in Flushers |-> "idle"], queue = [k \in Kinds |-> <<>>],
         stats = [k \in Kinds |-> NoStats], reloadEvicted = [k \in Kinds |-> 0]
  PROVE  FitBatch /\ Accounting
<1>1. FitBatch
  BY DEF FitBatch, Holding
<1>2. \A k, S : S \in {Holding, CountingPlaces} => InFlight(k, S) = {}
  BY DEF InFlight, Holding, CountingPlaces
<1>3. \A k \in Kinds : Cardinality(InFlight(k, Holding)) = 0
                       /\ Cardinality(InFlight(k, CountingPlaces)) = 0
  BY <1>2, FS_EmptySet
<1> QED
  BY <1>1, <1>3 DEF Accounting, CountingPlaces, NoStats

\* Stats adds up at every moment: each buffered entry is queued, under way, sent,
\* dropped or was evicted by a reload, and each flushed one is sent, failed or
\* waiting to be counted, however many flushes overlap (flushEvents,
\* settleEvents, requeueEvents, appendLocked, reloadFromRedisLocked).
THEOREM BooksBalance == Spec => []Accounting
<1>1. Init => BooksInv
  BY CoreInit, EmptyBooks DEF Init, BooksInv
<1>2. BooksInv /\ [Next]_vars => BooksInv'
  <2> SUFFICES ASSUME BooksInv, [Next]_vars PROVE BooksInv'
    OBVIOUS
  <2>1. CoreInv /\ CoreInv' /\ FitBatch /\ FitBatch' /\ Accounting
    BY CoreNext, FitNext DEF BooksInv
  <2>2. ASSUME NEW f \in Flushers, OnlyOne(f), \A k \in Kinds : Ledger(f, k) PROVE Accounting'
    BY <2>1, <2>2, LedgerKeeps
  <2>3. ASSUME Crash PROVE Accounting'
    <3>1. \A k \in Kinds, S \in {Holding, CountingPlaces} : Cardinality(InFlight(k, S)') = 0
      BY <2>3, FS_EmptySet DEF Crash, InFlight, Holding, CountingPlaces
    <3> QED
      BY <2>3, <3>1 DEF Crash, Accounting, CountingPlaces, NoStats
  <2> QED
    BY <2>1, <2>2, <2>3, StepLedger DEF BooksInv
<1> QED
  BY <1>1, <1>2, PTL DEF Spec, BooksInv
=============================================================================
