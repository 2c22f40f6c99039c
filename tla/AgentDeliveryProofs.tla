------------------------- MODULE AgentDeliveryProofs -------------------------
(***************************************************************************)
(* TLAPS proofs of what the agent promises the host while its process      *)
(* lives: the agent without Redis implements Delivery, and the final flush *)
(* of Stop leaves nothing behind.                                          *)
(***************************************************************************)
EXTENDS AgentDurabilityProofs

-----------------------------------------------------------------------------
\* Without Redis an entry that is still to be sent has not been settled: only a
\* reload brings back an item that an earlier process has already dealt with.
Unjudged == \A i \in Items : ToSend(i) => i \notin confirmed \union shed

\* sendEvents is never called with an empty batch.
FullBatch == \A f \in Flushers : pc[f] = "send" => batch[f] # <<>>

DeliverInv == LossInv /\ CopyInv /\ Unjudged /\ FullBatch

\* No step but a reload judges what is still to be sent, or brings back what is
\* judged.
LEMMA UnjudgedNext ==
  ASSUME ~Durable, CopyInv, Unjudged, [Next]_vars
  PROVE  Unjudged'
<1>1. CoreInv /\ Shapes /\ OneCopy /\ FreshNowhere
  BY CoreShapes DEF CopyInv, DoomInv
<1> USE DEF calls, entries, verdicts, doomedKeys, store, life
<1> SUFFICES ASSUME NEW i \in Items, ToSend(i)' PROVE i \notin confirmed' \union shed'
  BY DEF Unjudged
<1> DEFINE Goal == i \notin confirmed' \union shed'
<1>2. ASSUME ToSend(i), UNCHANGED verdicts PROVE Goal
  BY <1>2 DEF Unjudged
<1>3. ASSUME NEW p \in Producers, NEW n \in {0, 1}, NEW keyed \in BOOLEAN,
             CallAppends(p, n, keyed)
      PROVE  Goal
  <2>1. PICK j, k, out : Appended(p, j, k, keyed, out)
    BY <1>3, AppendEffect
  <2>2. UNCHANGED <<batch, pc, confirmed>>
    BY <1>3 DEF CallAppends
  <2>3. /\ j \notin confirmed \union shed /\ j \notin ItemsOf(queue[k]) /\ k \in Kinds
        /\ shed' = shed \union out /\ out \subseteq ItemsOf(queue[k])
    BY <1>1, <2>1 DEF FreshNowhere, Appended
  <2>4. CASE i = j
    BY <2>2, <2>3, <2>4
  <2>5. CASE i # j
    <3>1. \A l \in Kinds : i \in ItemsOf(queue'[l]) => i \in ItemsOf(queue[l]) \ out
      BY <1>1, <2>1, <2>3, <2>5 DEF OneCopy, Appended
    <3>2. \A f \in Flushers : i \in ItemsOf(batch'[f]) => i \notin out
      BY <1>1, <2>2, <2>3 DEF OneCopy
    <3>3. ToSend(i) /\ i \notin out
      BY <2>2, <3>1, <3>2 DEF ToSend
    <3> QED
      BY <2>2, <2>3, <3>3 DEF Unjudged
  <2> QED
    BY <2>4, <2>5
<1>4. ASSUME NEW f \in Flushers, FlusherConfirms(f) \/ FlusherForgets(f) \/ FlusherClears(f)
      PROVE  Goal
  <2>1. /\ pc'[f] \notin Unsettled /\ UNCHANGED <<queue, verdicts>>
        /\ \A g \in Flushers \ {f} : pc'[g] = pc[g] /\ batch'[g] = batch[g]
    BY <1>1, <1>4 DEF FlusherConfirms, FlusherForgets, FlusherClears, Unsettled, Shapes
  <2> QED
    BY <1>2, <2>1 DEF ToSend
<1>5. ASSUME NEW f \in Flushers, FlusherMoves(f) PROVE Goal
  <2>1. /\ UNCHANGED <<queue, batch, verdicts>>
        /\ \A g \in Flushers : pc'[g] \in Unsettled => pc[g] \in Unsettled
    BY <1>1, <1>5 DEF FlusherMoves, Shapes, Clear, Unsettled, Holding
  <2> QED
    BY <1>2, <2>1 DEF ToSend
<1>6. ASSUME NEW f \in Flushers, FlusherDrains(f) PROVE Goal
  <2>1. PICK k \in Kinds :
          /\ batch'[f] = queue[k] /\ queue'[k] = <<>>
          /\ \A l \in Kinds \ {k} : queue'[l] = queue[l]
          /\ \A g \in Flushers \ {f} : pc'[g] = pc[g] /\ batch'[g] = batch[g]
    BY <1>1, <1>6, DrainEffect
  <2>2. UNCHANGED verdicts
    BY <1>6 DEF FlusherDrains
  <2>3. \A l \in Kinds : i \in ItemsOf(queue'[l]) => ToSend(i)
    BY <2>1, EmptyEntries DEF ToSend
  <2>4. \A g \in Flushers : pc'[g] \in Unsettled /\ i \in ItemsOf(batch'[g]) => ToSend(i)
    BY <2>1 DEF ToSend
  <2> QED
    BY <1>2, <2>2, <2>3, <2>4 DEF ToSend
<1>7. ASSUME NEW f \in Flushers, FlusherAnswered(f) PROVE Goal
  <2>1. /\ UNCHANGED <<queue, batch, shed>> /\ confirmed' = confirmed \union ItemsOf(batch[f])
        /\ pc'[f] \notin Unsettled /\ \A g \in Flushers \ {f} : pc'[g] = pc[g]
    BY <1>1, <1>7 DEF FlusherAnswered, Shapes, Unsettled
  <2>2. ToSend(i) /\ i \notin ItemsOf(batch[f])
    BY <1>1, <2>1 DEF ToSend, OneCopy
  <2> QED
    BY <2>1, <2>2 DEF Unjudged
<1>8. ASSUME NEW f \in Flushers, FlusherRequeues(f) PROVE Goal
  <2>1. PICK k, out : Requeued(f, k, out)
    BY <1>8, RequeueEffect
  <2>2. confirmed' = confirmed /\ shed' = shed \union out /\ k \in Kinds
    BY <1>8, <2>1 DEF FlusherRequeues, Requeued
  <2>3. ASSUME NEW l \in Kinds, i \in ItemsOf(queue'[l]) PROVE ToSend(i) /\ i \notin out
    <3>1. CASE l = k
      BY <2>1, <2>3, <3>1 DEF ToSend, Requeued, Unsettled
    <3>2. CASE l # k
      BY <1>1, <2>1, <2>2, <2>3, <3>2 DEF ToSend, Requeued, OneCopy
    <3> QED
      BY <3>1, <3>2
  <2>4. ASSUME NEW g \in Flushers, pc'[g] \in Unsettled, i \in ItemsOf(batch'[g])
        PROVE  ToSend(i) /\ i \notin out
    <3>1. g # f /\ pc[g] \in Unsettled /\ i \in ItemsOf(batch[g])
      BY <2>1, <2>4 DEF Requeued, Unsettled
    <3> QED
      BY <1>1, <2>1, <2>2, <3>1 DEF ToSend, Requeued, OneCopy
  <2> QED
    BY <2>2, <2>3, <2>4 DEF ToSend, Unjudged
<1>9. ASSUME ProcessDies PROVE FALSE
  <2>1. (\A k \in Kinds : queue'[k] = <<>>) /\ \A f \in Flushers : batch'[f] = <<>>
    BY <1>9 DEF ProcessDies
  <2> QED
    BY <2>1, EmptyEntries DEF ToSend
<1>10. ASSUME \/ \E p \in Producers : CallMoves(p) \/ CallReturns(p)
              \/ WorkerDeletes \/ RecordExpires \/ AgentStarts \/ Nothing
       PROVE  Goal
  <2>1. UNCHANGED verdicts /\ UNCHANGED entries
    BY <1>10 DEF CallMoves, CallReturns, WorkerDeletes, RecordExpires, AgentStarts, Nothing
  <2> QED
    BY <1>2, <2>1 DEF ToSend
<1> HIDE DEF Goal
<1>11. Goal
  BY <1>1, <1>3, <1>4, <1>5, <1>6, <1>7, <1>8, <1>9, <1>10, StepKinds
<1> QED
  BY <1>11 DEF Goal

LEMMA FullNext ==
  ASSUME CoreInv, FullBatch, [Next]_vars
  PROVE  FullBatch'
<1>1. Shapes
  BY CoreShapes
<1> USE DEF calls, entries, verdicts, doomedKeys, store, life
<1>2. ASSUME UNCHANGED batch, \A f \in Flushers : pc'[f] = "send" => pc[f] = "send"
      PROVE  FullBatch'
  BY <1>2 DEF FullBatch
<1>3. ASSUME NEW f \in Flushers, pc'[f] # "send" \/ batch'[f] # <<>>,
             \A g \in Flushers \ {f} : pc'[g] = pc[g] /\ batch'[g] = batch[g]
      PROVE  FullBatch'
  BY <1>3 DEF FullBatch
<1>4. ASSUME NEW f \in Flushers, FlusherClears(f) \/ FlusherForgets(f) PROVE FullBatch'
  BY <1>1, <1>3, <1>4, ClearEffect
<1>5. ASSUME NEW f \in Flushers, FlusherDrains(f) PROVE FullBatch'
  BY <1>1, <1>3, <1>5, DrainEffect
<1>6. ASSUME NEW f \in Flushers, FlusherAnswered(f) \/ FlusherConfirms(f) \/ FlusherRequeues(f)
      PROVE  FullBatch'
  <2>1. /\ pc'[f] # "send"
        /\ \A g \in Flushers \ {f} : pc'[g] = pc[g] /\ batch'[g] = batch[g]
    BY <1>1, <1>6 DEF FlusherAnswered, FlusherConfirms, FlusherRequeues, Shapes
  <2> QED
    BY <1>3, <2>1
<1>7. ASSUME NEW f \in Flushers, FlusherMoves(f) PROVE FullBatch'
  <2>1. UNCHANGED batch /\ \A g \in Flushers : pc'[g] = "send" => pc[g] = "send"
    BY <1>1, <1>7 DEF FlusherMoves, Shapes, Clear, Holding
  <2> QED
    BY <1>2, <2>1
<1>8. ASSUME ProcessDies PROVE FullBatch'
  BY <1>8 DEF ProcessDies, FullBatch
<1>9. ASSUME \/ \E p \in Producers : \/ CallMoves(p) \/ CallReturns(p)
                                     \/ \E n \in {0, 1}, keyed \in BOOLEAN : CallAppends(p, n, keyed)
             \/ WorkerDeletes \/ RecordExpires \/ AgentStarts \/ Nothing
      PROVE  UNCHANGED <<batch, pc>>
  BY <1>9 DEF CallMoves, CallReturns, CallAppends, WorkerDeletes, RecordExpires, AgentStarts,
              Nothing
<1> QED
  BY <1>2, <1>4, <1>5, <1>6, <1>7, <1>8, <1>9, StepKinds

LEMMA DeliverInit == Init => DeliverInv
<1> SUFFICES ASSUME Init PROVE DeliverInv
  OBVIOUS
<1>1. LossInv /\ CopyInv
  BY LossInit, CopyInit
<1>2. /\ \A k \in Kinds : queue[k] = <<>>
      /\ \A f \in Flushers : batch[f] = <<>> /\ pc[f] = "idle"
  BY DEF Init
<1>3. Unjudged /\ FullBatch
  BY <1>2, EmptyEntries DEF Unjudged, FullBatch, ToSend
<1> QED
  BY <1>1, <1>3 DEF DeliverInv

LEMMA DeliverNext ==
  ASSUME ~Durable
  PROVE  DeliverInv /\ [Next]_vars => DeliverInv'
<1> SUFFICES ASSUME DeliverInv, [Next]_vars PROVE DeliverInv'
  OBVIOUS
<1>1. LossInv' /\ CopyInv'
  BY LossNext, CopyNext DEF DeliverInv
<1>2. Unjudged' /\ FullBatch'
  BY UnjudgedNext, FullNext DEF DeliverInv, LossInv
<1> QED
  BY <1>1, <1>2 DEF DeliverInv
-----------------------------------------------------------------------------
\* The items an item-level view of the agent holds.
Held == {i \in Items : ToSend(i)}

AckedItems == {i \in Items : result[i] = "ok"}

\* What is in memory and not settled is exactly what is still to be sent.
HeldMatches == InMemory \ (confirmed \union shed) = Held

LEMMA HeldIsToSend == DeliverInv => HeldMatches
<1> SUFFICES ASSUME DeliverInv PROVE InMemory \ (confirmed \union shed) = Held
  BY DEF HeldMatches
<1>1. Shapes /\ Settled /\ Unjudged
  BY CoreShapes DEF DeliverInv, LossInv
<1>2. /\ \A k \in Kinds : ItemsOf(queue[k]) \subseteq Items
      /\ \A f \in Flushers : ItemsOf(batch[f]) \subseteq Items
  BY <1>1, ItemsOfType DEF Shapes
<1>3. ASSUME NEW i \in InMemory, i \notin confirmed PROVE i \in Held
  <2>1. CASE \E k \in Kinds : i \in ItemsOf(queue[k])
    BY <1>2, <2>1 DEF Held, ToSend
  <2>2. ASSUME NEW f \in Flushers, pc[f] \in Holding, i \in ItemsOf(batch[f])
        PROVE  i \in Held
    <3>1. pc[f] \in Unsettled
      BY <1>1, <1>3, <2>2 DEF Settled, Holding, Unsettled
    <3> QED
      BY <1>2, <2>2, <3>1 DEF Held, ToSend
  <2>3. \/ \E k \in Kinds : i \in ItemsOf(queue[k])
        \/ \E f \in Flushers : pc[f] \in Holding /\ i \in ItemsOf(batch[f])
    BY Zenon, <1>3 DEF InMemory
  <2> QED
    BY <2>1, <2>2, <2>3
<1>4. ASSUME NEW i \in Held PROVE i \in InMemory /\ i \notin confirmed \union shed
  <2>1. i \in Items /\ ToSend(i)
    BY DEF Held
  <2>2. ASSUME NEW k \in Kinds, i \in ItemsOf(queue[k]) PROVE i \in InMemory
    BY Zenon, <2>2 DEF InMemory
  <2>3. ASSUME NEW f \in Flushers, pc[f] \in Unsettled, i \in ItemsOf(batch[f])
        PROVE  i \in InMemory
    <3>1. pc[f] \in Holding
      BY <2>3 DEF Unsettled, Holding
    <3> QED
      BY Zenon, <2>3, <3>1 DEF InMemory
  <2> QED
    BY <1>1, <2>1, <2>2, <2>3 DEF ToSend, Unjudged
<1> QED
  BY <1>3, <1>4

\* What a step does to the items: one comes in and may push others out, one is
\* acknowledged, some are answered, some are shed, or nothing happens.
ItemComesIn ==
  \E i \in Items, out \in SUBSET Held :
    /\ i \notin Held \union confirmed \union shed
    /\ Held' = (Held \ out) \union {i} /\ shed' = shed \union out
    /\ UNCHANGED <<confirmed, AckedItems>>

ItemAcked ==
  \E i \in Items :
    /\ i \in (Held \union confirmed \union shed) \ AckedItems
    /\ AckedItems' = AckedItems \union {i}
    /\ UNCHANGED <<Held, confirmed, shed>>

ItemsAnswered ==
  \E S : /\ S # {} /\ S \subseteq Held
         /\ Held' = Held \ S /\ confirmed' = confirmed \union S
         /\ UNCHANGED <<shed, AckedItems>>

ItemsShed ==
  \E S : /\ S # {} /\ S \subseteq Held
         /\ Held' = Held \ S /\ shed' = shed \union S
         /\ UNCHANGED <<confirmed, AckedItems>>

ItemsStay == UNCHANGED <<Held, confirmed, shed, AckedItems>>

LEMMA AppendTakes ==
  ASSUME DeliverInv, NEW p \in Producers, NEW n \in {0, 1}, NEW keyed \in BOOLEAN,
         CallAppends(p, n, keyed)
  PROVE  ItemComesIn
<1>1. CopyInv /\ Shapes /\ OneCopy /\ FreshNowhere
  BY CoreShapes DEF DeliverInv, CopyInv, DoomInv
<1>2. PICK j, k, out : Appended(p, j, k, keyed, out)
  BY <1>1, AppendEffect
<1>3. UNCHANGED <<batch, pc, confirmed, result>>
  BY DEF CallAppends
<1>4. /\ j \in Items /\ k \in Kinds /\ out \subseteq ItemsOf(queue[k]) /\ shed' = shed \union out
      /\ ItemsOf(queue'[k]) = (ItemsOf(queue[k]) \ out) \union {j}
      /\ \A l \in Kinds \ {k} : queue'[l] = queue[l]
  BY <1>2 DEF Appended
<1>5. /\ j \notin confirmed \union shed
      /\ \A l \in Kinds : j \notin ItemsOf(queue[l])
      /\ \A f \in Flushers : j \notin ItemsOf(batch[f])
  BY <1>1, <1>2 DEF FreshNowhere, Appended
<1>6. j \notin Held
  BY <1>5 DEF Held, ToSend
<1>7. ItemsOf(queue[k]) \subseteq Items
  BY <1>1, <1>4, ItemsOfType DEF Shapes
<1>8. out \subseteq Held
  BY <1>4, <1>7 DEF Held, ToSend
<1>9. ASSUME NEW i \in Items PROVE ToSend(i)' <=> (ToSend(i) /\ i \notin out) \/ i = j
  <2>1. i \in ItemsOf(queue'[k]) <=> (i \in ItemsOf(queue[k]) /\ i \notin out) \/ i = j
    BY <1>4
  <2>2. \A l \in Kinds \ {k} : /\ i \in ItemsOf(queue'[l]) <=> i \in ItemsOf(queue[l])
                               /\ i \in ItemsOf(queue[l]) => i \notin out
    BY <1>1, <1>4 DEF OneCopy
  <2>3. \A f \in Flushers : i \in ItemsOf(batch[f]) => i \notin out
    BY <1>1, <1>4 DEF OneCopy
  <2>4. ASSUME ToSend(i)' PROVE (ToSend(i) /\ i \notin out) \/ i = j
    BY <1>3, <1>4, <2>1, <2>2, <2>3, <2>4 DEF ToSend
  <2>5. ASSUME ToSend(i), i \notin out PROVE ToSend(i)'
    BY <1>3, <1>4, <2>1, <2>2, <2>5 DEF ToSend
  <2>6. ASSUME i = j PROVE ToSend(i)'
    BY <1>4, <2>1, <2>6 DEF ToSend
  <2> QED
    BY <2>4, <2>5, <2>6
<1>10. Held' = (Held \ out) \union {j}
  BY <1>4, <1>9 DEF Held
<1> QED
  BY <1>3, <1>4, <1>5, <1>6, <1>8, <1>10 DEF ItemComesIn, AckedItems

LEMMA ReturnAcks ==
  ASSUME DeliverInv, crashes = 0, NEW p \in Producers, CallReturns(p)
  PROVE  ItemAcked
<1> USE DEF entries, verdicts
<1>1. Shapes /\ CallsApart /\ LossInv
  BY CoreShapes DEF DeliverInv, CopyInv, DoomInv
<1> DEFINE i == pitem[p]
<1>2. /\ ppc[p] = "finish" /\ UNCHANGED <<queue, batch, pc, confirmed, shed>>
      /\ result' = [result EXCEPT ![i] = "ok"]
  BY DEF CallReturns, Return
<1>3. i \in Items /\ result[i] = "pending"
  BY <1>1, <1>2 DEF Shapes, CallsApart
<1>4. i \in InMemory \union confirmed \union shed
  BY <1>1, <1>2, <1>3 DEF LossInv, Acked, Accounted
<1>5. i \in Held \union confirmed \union shed
  BY <1>4, HeldIsToSend DEF HeldMatches
<1>6. UNCHANGED Held
  BY <1>2 DEF Held, ToSend
<1>7. i \notin AckedItems /\ AckedItems' = AckedItems \union {i}
  BY <1>1, <1>2, <1>3 DEF AckedItems, Shapes
<1> QED
  BY <1>2, <1>3, <1>5, <1>6, <1>7 DEF ItemAcked

LEMMA AnswerAnswers ==
  ASSUME DeliverInv, NEW f \in Flushers, FlusherAnswered(f)
  PROVE  ItemsAnswered
<1> USE DEF calls
<1>1. Shapes /\ OneCopy /\ FullBatch
  BY CoreShapes DEF DeliverInv, CopyInv, DoomInv
<1>2. /\ pc[f] = "send" /\ pc' = [pc EXCEPT ![f] = "confirm"]
      /\ UNCHANGED <<queue, batch, shed, result>>
      /\ confirmed' = confirmed \union ItemsOf(batch[f])
  BY DEF FlusherAnswered
<1> DEFINE S == ItemsOf(batch[f])
<1>3. S # {}
  <2>1. batch[f] # <<>> /\ batch[f] \in Seq(Entries)
    BY <1>1, <1>2 DEF FullBatch, Shapes
  <2>2. 1 \in 1..Len(batch[f])
    BY <2>1, EmptySeq, LenProperties
  <2>3. batch[f][1].item \in S
    BY Zenon, <2>2 DEF ItemsOf
  <2> QED
    BY <2>3
<1>4. S \subseteq Items
  BY <1>1, ItemsOfType DEF Shapes
<1>5. S \subseteq Held
  BY <1>2, <1>4 DEF Held, ToSend, Unsettled
<1>6. /\ pc'[f] = "confirm" /\ \A g \in Flushers \ {f} : pc'[g] = pc[g]
  BY <1>1, <1>2 DEF Shapes
<1>7. ASSUME NEW i \in Items PROVE ToSend(i)' <=> ToSend(i) /\ i \notin S
  <2>1. ASSUME ToSend(i)' PROVE ToSend(i) /\ i \notin S
    <3>1. \/ \E k \in Kinds : i \in ItemsOf(queue[k])
          \/ \E g \in Flushers \ {f} : pc[g] \in Unsettled /\ i \in ItemsOf(batch[g])
      BY <1>2, <1>6, <2>1 DEF ToSend, Unsettled
    <3> QED
      BY <1>1, <3>1 DEF ToSend, OneCopy
  <2>2. ASSUME ToSend(i), i \notin S PROVE ToSend(i)'
    BY <1>2, <1>6, <2>2 DEF ToSend
  <2> QED
    BY <2>1, <2>2
<1>8. Held' = Held \ S
  BY <1>7 DEF Held
<1> QED
  BY <1>2, <1>3, <1>5, <1>8 DEF ItemsAnswered, AckedItems

LEMMA RequeueSheds ==
  ASSUME DeliverInv, NEW f \in Flushers, FlusherRequeues(f)
  PROVE  ItemsShed \/ ItemsStay
<1> USE DEF calls
<1>1. CopyInv /\ Shapes /\ OneCopy
  BY CoreShapes DEF DeliverInv, CopyInv, DoomInv
<1>2. PICK k, out : Requeued(f, k, out)
  BY <1>1, RequeueEffect
<1>3. UNCHANGED <<confirmed, result>>
  BY DEF FlusherRequeues
<1>4. /\ k \in Kinds /\ pc[f] = "requeue" /\ pc'[f] = "orphans" /\ shed' = shed \union out
      /\ \A l \in Kinds \ {k} : queue'[l] = queue[l]
      /\ \A g \in Flushers \ {f} : pc'[g] = pc[g] /\ batch'[g] = batch[g]
      /\ out \subseteq ItemsOf(batch[f]) \union ItemsOf(queue[k])
      /\ ItemsOf(queue'[k]) = (ItemsOf(batch[f]) \union ItemsOf(queue[k])) \ out
  BY <1>2 DEF Requeued
<1>5. ItemsOf(batch[f]) \union ItemsOf(queue[k]) \subseteq Items
  BY <1>1, <1>4, ItemsOfType DEF Shapes
<1>6. out \subseteq Held
  BY <1>4, <1>5 DEF Held, ToSend, Unsettled
<1>7. ASSUME NEW i \in Items PROVE ToSend(i)' <=> ToSend(i) /\ i \notin out
  <2>1. ASSUME NEW l \in Kinds, i \in ItemsOf(queue'[l]) PROVE ToSend(i) /\ i \notin out
    <3>1. CASE l = k
      BY <1>4, <2>1, <3>1 DEF ToSend, Unsettled
    <3>2. CASE l # k
      BY <1>1, <1>4, <2>1, <3>2 DEF ToSend, OneCopy
    <3> QED
      BY <3>1, <3>2
  <2>2. ASSUME NEW g \in Flushers, pc'[g] \in Unsettled, i \in ItemsOf(batch'[g])
        PROVE  ToSend(i) /\ i \notin out
    <3>1. g # f /\ pc[g] \in Unsettled /\ i \in ItemsOf(batch[g])
      BY <1>4, <2>2 DEF Unsettled
    <3> QED
      BY <1>1, <1>4, <3>1 DEF ToSend, OneCopy
  <2>3. ASSUME NEW l \in Kinds, i \in ItemsOf(queue[l]), i \notin out PROVE ToSend(i)'
    BY <1>4, <2>3 DEF ToSend
  <2>4. ASSUME NEW g \in Flushers, pc[g] \in Unsettled, i \in ItemsOf(batch[g]), i \notin out
        PROVE  ToSend(i)'
    <3>1. CASE g = f
      BY <1>4, <2>4, <3>1 DEF ToSend
    <3>2. CASE g # f
      BY <1>4, <2>4, <3>2 DEF ToSend
    <3> QED
      BY <3>1, <3>2
  <2> QED
    BY <2>1, <2>2, <2>3, <2>4 DEF ToSend
<1>8. Held' = Held \ out
  BY <1>7 DEF Held
<1> QED
  BY <1>3, <1>4, <1>6, <1>8 DEF ItemsShed, ItemsStay, AckedItems

LEMMA OthersStay ==
  ASSUME DeliverInv, ~Durable,
         \/ \E p \in Producers : CallMoves(p)
         \/ \E f \in Flushers : \/ FlusherMoves(f) \/ FlusherClears(f) \/ FlusherDrains(f)
                                \/ FlusherConfirms(f) \/ FlusherForgets(f)
         \/ WorkerDeletes \/ RecordExpires \/ AgentStarts \/ Nothing
  PROVE  ItemsStay
<1> USE DEF calls, entries, verdicts, doomedKeys, store, life
<1>1. Shapes /\ CallsApart
  BY CoreShapes DEF DeliverInv, LossInv, CopyInv
<1>2. ASSUME UNCHANGED <<confirmed, shed, result>>, \A i \in Items : ToSend(i)' <=> ToSend(i)
      PROVE  ItemsStay
  BY <1>2 DEF ItemsStay, Held, AckedItems
<1>3. ASSUME NEW p \in Producers, CallMoves(p) PROVE ItemsStay
  <2>1. \A i \in Items : result'[i] = result[i] \/ (result[i] # "ok" /\ result'[i] # "ok")
    BY <1>1, <1>3 DEF CallMoves, CallsApart, Return, Shapes
  <2>2. UNCHANGED Held
    BY <1>3 DEF CallMoves, Held, ToSend
  <2> QED
    BY <1>3, <2>1, <2>2 DEF CallMoves, ItemsStay, AckedItems
<1>4. ASSUME NEW f \in Flushers, FlusherMoves(f) PROVE ItemsStay
  <2>1. /\ UNCHANGED <<queue, batch, confirmed, shed, result>>
        /\ \A g \in Flushers : pc'[g] \in Unsettled <=> pc[g] \in Unsettled
    BY <1>1, <1>4 DEF FlusherMoves, Shapes, Clear, Unsettled, Holding
  <2> QED
    BY <1>2, <2>1 DEF ToSend
<1>5. ASSUME NEW f \in Flushers, FlusherClears(f) \/ FlusherConfirms(f) \/ FlusherForgets(f)
      PROVE  ItemsStay
  <2>1. /\ pc[f] \notin Unsettled /\ pc'[f] \notin Unsettled
        /\ UNCHANGED <<queue, confirmed, shed, result>>
        /\ \A g \in Flushers \ {f} : pc'[g] = pc[g] /\ batch'[g] = batch[g]
    BY <1>1, <1>5 DEF FlusherClears, FlusherConfirms, FlusherForgets, Shapes, Unsettled
  <2> QED
    BY <1>2, <2>1 DEF ToSend
<1>6. ASSUME NEW f \in Flushers, FlusherDrains(f) PROVE ItemsStay
  <2>1. PICK k \in Kinds :
          /\ batch'[f] = queue[k] /\ queue'[k] = <<>> /\ pc[f] = "drain" /\ pc'[f] = "send"
          /\ \A l \in Kinds \ {k} : queue'[l] = queue[l]
          /\ \A g \in Flushers \ {f} : pc'[g] = pc[g] /\ batch'[g] = batch[g]
    BY <1>1, <1>6, DrainEffect
  <2>2. UNCHANGED <<confirmed, shed, result>>
    BY <1>6 DEF FlusherDrains
  <2>3. ASSUME NEW i \in Items, ToSend(i)' PROVE ToSend(i)
    <3>1. \A l \in Kinds : i \in ItemsOf(queue'[l]) => ToSend(i)
      BY <2>1, EmptyEntries DEF ToSend
    <3>2. \A g \in Flushers : pc'[g] \in Unsettled /\ i \in ItemsOf(batch'[g]) => ToSend(i)
      BY <2>1 DEF ToSend
    <3> QED
      BY <2>3, <3>1, <3>2 DEF ToSend
  <2>4. ASSUME NEW i \in Items, ToSend(i) PROVE ToSend(i)'
    <3>1. \A l \in Kinds : i \in ItemsOf(queue[l]) => ToSend(i)'
      BY <2>1 DEF ToSend, Unsettled
    <3>2. \A g \in Flushers : pc[g] \in Unsettled /\ i \in ItemsOf(batch[g]) => ToSend(i)'
      BY <2>1 DEF ToSend, Unsettled
    <3> QED
      BY <2>4, <3>1, <3>2 DEF ToSend
  <2> QED
    BY <1>2, <2>2, <2>3, <2>4
<1>7. ASSUME WorkerDeletes \/ RecordExpires \/ AgentStarts \/ Nothing PROVE ItemsStay
  <2>1. UNCHANGED <<queue, batch, pc, confirmed, shed, result>>
    BY <1>7 DEF WorkerDeletes, RecordExpires, AgentStarts, Nothing
  <2> QED
    BY <1>2, <2>1 DEF ToSend
<1> QED
  BY <1>3, <1>4, <1>5, <1>6, <1>7

LEMMA NeverDies ==
  ASSUME MaxCrashes = 0
  PROVE  Spec => [](crashes = 0)
<1>1. Init => crashes = 0
  BY DEF Init
<1>2. CoreInv /\ crashes = 0 /\ [Next]_vars => (crashes = 0)'
  <2> SUFFICES ASSUME CoreInv, crashes = 0, [Next]_vars PROVE crashes' = 0
    OBVIOUS
  <2> USE DEF calls, entries, verdicts, doomedKeys, store, life
  <2>1. ~ProcessDies
    BY DEF ProcessDies
  <2> QED
    BY <2>1, StepKinds DEF CallMoves, CallReturns, CallAppends, FlusherMoves, FlusherClears,
       FlusherDrains, FlusherAnswered, FlusherConfirms, FlusherRequeues, FlusherForgets,
       WorkerDeletes, RecordExpires, AgentStarts, Nothing
<1> QED
  BY <1>1, <1>2, CoreInvariant, PTL DEF Spec

\* While its process lives, the agent without Redis implements Delivery: an item
\* that was taken stays with the agent until the server has answered for it or a
\* full buffer sheds it, once and for all, and a call that returned nil has been
\* taken (SendEvent, SendMetric, Flush, Stop).
THEOREM DeliversWhatItTakes ==
  ASSUME ~Durable, MaxCrashes = 0
  PROVE  Spec => Delivers
<1>1. Init => Promise!Init
  <2> SUFFICES ASSUME Init PROVE Promise!Init
    OBVIOUS
  <2>1. DeliverInv
    BY DeliverInit
  <2>2. Held = {} /\ AckedItems = {} /\ confirmed = {} /\ shed = {}
    BY EmptyEntries DEF Init, Held, ToSend, Unsettled, AckedItems
  <2> QED
    BY <2>1, <2>2, HeldIsToSend DEF HeldMatches, Promise!Init, AckedItems
<1>2. DeliverInv /\ HeldMatches /\ HeldMatches' /\ crashes = 0 /\ [Next]_vars
        => [Promise!Next]_(Promise!vars)
  <2> SUFFICES ASSUME DeliverInv, HeldMatches, HeldMatches', crashes = 0, [Next]_vars
               PROVE  [Promise!Next]_(Promise!vars)
    OBVIOUS
  <2>1. /\ InMemory \ (confirmed \union shed) = Held
        /\ (InMemory \ (confirmed \union shed))' = Held'
    BY DEF HeldMatches
  <2>2. ItemComesIn \/ ItemAcked \/ ItemsAnswered \/ ItemsShed \/ ItemsStay
    <3>1. CoreInv /\ ~ProcessDies
      BY DEF ProcessDies, DeliverInv, LossInv
    <3> QED
      BY <3>1, StepKinds, AppendTakes, ReturnAcks, AnswerAnswers, RequeueSheds, OthersStay
  <2>3. CASE ItemComesIn
    <3>1. \E i \in Items : \E out \in SUBSET Held :
            /\ i \notin Held \union confirmed \union shed /\ out \subseteq Held
            /\ Held' = (Held \ out) \union {i} /\ shed' = shed \union out
            /\ UNCHANGED <<confirmed, AckedItems>>
      BY <2>3 DEF ItemComesIn
    <3>2. \E i \in Items :
            \E out \in SUBSET (InMemory \ (confirmed \union shed)) : Promise!Take(i, out)
      BY <2>1, <3>1 DEF Promise!Take, Promise!Known, AckedItems
    <3> QED
      BY <3>2 DEF Promise!Next
  <2>4. CASE ItemAcked
    <3>1. \E i \in Items : Promise!Ack(i)
      BY <2>1, <2>4 DEF ItemAcked, Promise!Ack, Promise!Known, AckedItems
    <3> QED
      BY <3>1 DEF Promise!Next
  <2>5. CASE ItemsAnswered
    <3>1. \E S \in SUBSET Held :
            /\ S # {} /\ S \subseteq Held
            /\ Held' = Held \ S /\ confirmed' = confirmed \union S
            /\ UNCHANGED <<shed, AckedItems>>
      BY <2>5 DEF ItemsAnswered
    <3>2. \E S \in SUBSET (InMemory \ (confirmed \union shed)) : Promise!Answer(S)
      BY <2>1, <3>1 DEF Promise!Answer, AckedItems
    <3> QED
      BY <3>2 DEF Promise!Next
  <2>6. CASE ItemsShed
    <3>1. \E S \in SUBSET Held :
            /\ S # {} /\ S \subseteq Held
            /\ Held' = Held \ S /\ shed' = shed \union S
            /\ UNCHANGED <<confirmed, AckedItems>>
      BY <2>6 DEF ItemsShed
    <3>2. \E S \in SUBSET (InMemory \ (confirmed \union shed)) : Promise!Shed(S)
      BY <2>1, <3>1 DEF Promise!Shed, AckedItems
    <3> QED
      BY <3>2 DEF Promise!Next
  <2>7. CASE ItemsStay
    BY <2>1, <2>7 DEF ItemsStay, Promise!vars, AckedItems
  <2> QED
    BY <2>2, <2>3, <2>4, <2>5, <2>6, <2>7
<1> QED
  BY <1>1, <1>2, DeliverInit, DeliverNext, HeldIsToSend, NeverDies, PTL DEF Spec, Delivers, Promise!Spec
-----------------------------------------------------------------------------
\* Stop.  What its final flush relies on: kinds that are switched off are empty,
\* the loops are out of their flushes once Stop has waited for them, an item counts
\* as acknowledged only when its call has returned, and what the final flush has
\* emptied does not fill up with acknowledged items again.
EnabledOnly ==
  /\ \A k \in Kinds \ Enabled : ItemsOf(queue[k]) = {}
  /\ \A f \in Flushers : pc[f] \in Holding \union {"orphans"} => kind[f] \in Enabled
  /\ \A p \in Producers : ppc[p] # "idle" => KindOf[pitem[p]] \in Enabled
  /\ \A i \in records : KindOf[i] \in Enabled

StopperPlaces ==
  /\ pc[Stopper] \notin {"check", "guard", "exited"}
  /\ closed <=> pc[Stopper] # "idle"
  /\ ~started => \A f \in Loops : pc[f] \in {"idle", "exited"}
  /\ pc[Stopper] \in {"idle", "wait"} => kind[Stopper] = "event"
  /\ pc[Stopper] \notin {"idle", "wait"} /\ started => \A f \in Loops : pc[f] = "exited"

AckedReturned == \A i \in ackedAtStop : result[i] = "ok"

\* No item acknowledged before Stop is queued.
Clean(k) == ackedAtStop \intersect ItemsOf(queue[k]) = {}

FinalFlush ==
  ~stopFailed =>
    /\ pc[Stopper] \notin {"fail", "requeue", "orphans"}
    /\ pc[Stopper] \in {"send", "confirm", "count"} => Clean(kind[Stopper])
    /\ pc[Stopper] \in {"drain", "send", "confirm", "count"} /\ kind[Stopper] = "metric"
         => Clean("event")
    /\ pc[Stopper] \in {"close", "join", "stopped"} => \A k \in Kinds : Clean(k)

StopInv ==
  /\ LossInv /\ CallsApart
  /\ EnabledOnly /\ StopperPlaces /\ AckedReturned /\ FinalFlush

-----------------------------------------------------------------------------
\* What a step does to the places and kinds of the flushers, as far as Stop cares.

stopVars == <<ackedAtStop, stopFailed>>
flags == <<started, closed>>

Goes(f, from, to) ==
  /\ pc[f] = from
  /\ pc' = [pc EXCEPT ![f] = to]
  /\ UNCHANGED <<queue, kind>>

TurnsKind(f) == kind' = [kind EXCEPT ![f] = IF @ = "event" THEN "metric" ELSE "event"]

CallStep(p) ==
  /\ \/ CallMoves(p) \/ CallReturns(p)
     \/ \E n \in {0, 1}, keyed \in BOOLEAN : CallAppends(p, n, keyed)
  /\ UNCHANGED <<pc, kind, flags, stopVars>>

FlusherWakes(f) ==
  /\ f # Stopper /\ (f \in Loops => started)
  /\ Goes(f, "idle", "guard") \/ Goes(f, "idle", "check")
  /\ UNCHANGED stopFailed

FlusherWalks(f) ==
  /\ \E from \in {"check", "guard"}, to \in {"guard", "idle", "drain"} : Goes(f, from, to)
  /\ UNCHANGED stopFailed

FlusherExits(f) == f \in Loops /\ Goes(f, "idle", "exited") /\ UNCHANGED stopFailed

FlusherTakes(f) ==
  /\ pc[f] = "drain" /\ kind[f] \in Enabled
  /\ pc' = [pc EXCEPT ![f] = "send"]
  /\ queue' = [queue EXCEPT ![kind[f]] = <<>>]
  /\ UNCHANGED <<kind, stopFailed>>

FlusherSends(f) ==
  /\ Goes(f, "send", "confirm") \/ Goes(f, "confirm", "count") \/ Goes(f, "fail", "requeue")
  /\ UNCHANGED stopFailed

FlusherFails(f) == Goes(f, "send", "fail") /\ stopFailed' = (stopFailed \/ f = Stopper)

FlusherGivesBack(f) ==
  /\ pc[f] = "requeue"
  /\ pc' = [pc EXCEPT ![f] = "orphans"]
  /\ \E s : queue' = [queue EXCEPT ![kind[f]] = s]
  /\ UNCHANGED <<kind, stopFailed>>

FlusherTurns(f) ==
  /\ pc[f] \in {"drain", "count", "orphans"}
  /\ pc[f] = "drain" /\ f = Stopper => kind[f] \notin Enabled \/ queue[kind[f]] = <<>>
  /\ pc' = [pc EXCEPT ![f] = IF kind[f] = "event" THEN "drain"
                             ELSE IF f = Stopper THEN "close" ELSE "idle"]
  /\ TurnsKind(f)
  /\ UNCHANGED <<queue, stopFailed>>

StopperGoes(f) ==
  /\ f = Stopper
  /\ \/ Goes(f, "wait", "drain") /\ (started => \A g \in Loops : pc[g] = "exited")
     \/ Goes(f, "close", "join")
     \/ Goes(f, "join", "stopped")
  /\ UNCHANGED stopFailed

FlushingStep(f) ==
  /\ \/ FlusherWakes(f) \/ FlusherWalks(f) \/ FlusherExits(f) \/ FlusherTakes(f)
     \/ FlusherSends(f) \/ FlusherFails(f) \/ FlusherGivesBack(f) \/ FlusherTurns(f)
     \/ StopperGoes(f)
  /\ records' \subseteq records
  /\ UNCHANGED <<flags, ackedAtStop, calls>>

StopIsCalled ==
  /\ pc[Stopper] = "idle" /\ ~closed /\ closed' = TRUE
  /\ pc' = [pc EXCEPT ![Stopper] = "wait"]
  /\ ackedAtStop' = {i \in Items : result[i] = "ok"}
  /\ UNCHANGED <<queue, kind, started, stopFailed, calls, records>>

StartIsCalled == AgentStarts /\ ~closed /\ UNCHANGED <<kind, closed, stopVars>>

NewProcess ==
  /\ ProcessDies
  /\ closed' = FALSE /\ ackedAtStop' = {} /\ kind' = [f \in Flushers |-> "event"]

ElsewhereStep ==
  records' \subseteq records /\ UNCHANGED <<queue, pc, kind, flags, stopVars, calls>>

LEMMA ForgetsShrinks == \A keys : Forgets(keys) => records' \subseteq records
  BY DEF Forgets

\* Every step of a flusher is one of these.
LEMMA FlushingKinds ==
  ASSUME CoreInv, NEW f \in Flushers,
         \/ FlushStep(f) \/ TakeWake(f) \/ HostFlush(f) \/ LoopExit(f)
         \/ f = AutoLoop /\ Tick
         \/ f = Stopper /\ StopStep
  PROVE  FlushingStep(f)
<1> USE DEF calls, flags, stopVars, Goes, Goto
<1> USE DEF fieldVars, lifeVars, wakeVars, prodVars, flushVars, envVars, histVars, persistVars
<1>1. Shapes /\ Stopper \notin Loops /\ Stopper \notin HostFlushers
  BY CoreShapes, AgentAssumption
<1>2. ASSUME NEW a, NEW b, Move(f, a, b)
      PROVE  /\ Goes(f, a, b)
             /\ records' \subseteq records /\ UNCHANGED <<flags, stopVars, calls>>
  BY <1>2 DEF Move
<1>3. CASE TakeWake(f)
  <2>1. FlusherWakes(f) /\ UNCHANGED <<records, started, closed, ackedAtStop, ppc, pitem, result>>
    BY <1>1, <1>3 DEF TakeWake, FlusherWakes, Loops
  <2> QED
    BY <2>1 DEF FlushingStep
<1>4. CASE HostFlush(f) \/ (f = AutoLoop /\ Tick)
  <2>1. /\ Move(f, "idle", "guard") /\ f # Stopper /\ (f \in Loops => started)
    BY <1>1, <1>4, AgentAssumption DEF HostFlush, Tick, Loops
  <2>2. FlusherWakes(f)
    BY <1>2, <2>1 DEF FlusherWakes
  <2> QED
    BY <1>2, <2>1, <2>2 DEF FlushingStep
<1>5. CASE FlushIfNeeded(f) \/ FlushGuard(f)
  <2>1. \E from \in {"check", "guard"}, to \in {"guard", "idle", "drain"} : Move(f, from, to)
    BY <1>5 DEF FlushIfNeeded, FlushGuard
  <2>2. FlusherWalks(f)
    BY <1>2, <2>1 DEF FlusherWalks
  <2> QED
    BY <1>2, <2>1, <2>2 DEF FlushingStep
<1>6. CASE LoopExit(f)
  <2>1. f \in Loops /\ Move(f, "idle", "exited")
    BY <1>6 DEF LoopExit
  <2>2. FlusherExits(f)
    BY <1>2, <2>1 DEF FlusherExits
  <2> QED
    BY <1>2, <2>1, <2>2 DEF FlushingStep
<1>7. ASSUME NextKind(f)
      PROVE  /\ pc' = [pc EXCEPT ![f] = IF kind[f] = "event" THEN "drain"
                                        ELSE IF f = Stopper THEN "close" ELSE "idle"]
             /\ TurnsKind(f)
  BY <1>7 DEF NextKind, AfterKind, TurnsKind
<1>8. CASE Skip(f)
  <2>1. FlusherTurns(f) /\ UNCHANGED <<records, started, closed, ackedAtStop, ppc, pitem, result>>
    BY <1>7, <1>8 DEF Skip, FlusherTurns, GateHolds
  <2> QED
    BY <2>1 DEF FlushingStep
<1>9. CASE SettleCount(f)
  <2>1. FlusherTurns(f) /\ UNCHANGED <<records, started, closed, ackedAtStop, ppc, pitem, result>>
    BY <1>7, <1>9 DEF SettleCount, FlusherTurns
  <2> QED
    BY <2>1 DEF FlushingStep
<1>10. CASE ConfirmOrphans(f)
  <2>1. FlusherTurns(f) /\ UNCHANGED <<started, closed, ackedAtStop, ppc, pitem, result>>
    BY <1>7, <1>10 DEF ConfirmOrphans, FlusherTurns
  <2>2. records' \subseteq records
    BY <1>10, ForgetsKeys, ForgetsShrinks DEF ConfirmOrphans
  <2> QED
    BY <2>1, <2>2 DEF FlushingStep
<1>11. CASE Drain(f)
  <2>1. FlusherTakes(f) /\ UNCHANGED <<records, started, closed, ackedAtStop, ppc, pitem, result>>
    BY <1>11 DEF Drain, FlusherTakes
  <2> QED
    BY <2>1 DEF FlushingStep
<1>12. CASE \E o \in Outcomes : SendDefinitive(f, o)
  <2>1. FlusherSends(f) /\ UNCHANGED <<records, started, closed, ackedAtStop, ppc, pitem, result>>
    BY <1>12 DEF SendDefinitive, FlusherSends
  <2> QED
    BY <2>1 DEF FlushingStep
<1>13. CASE SendFails(f)
  <2>1. FlusherFails(f) /\ UNCHANGED <<records, started, closed, ackedAtStop, ppc, pitem, result>>
    BY <1>13 DEF SendFails, FlusherFails
  <2> QED
    BY <2>1 DEF FlushingStep
<1>14. CASE SettleConfirm(f)
  <2>1. FlusherSends(f) /\ UNCHANGED <<started, closed, ackedAtStop, ppc, pitem, result>>
    BY <1>14 DEF SettleConfirm, FlusherSends
  <2>2. records' \subseteq records
    BY <1>14, ForgetsKeys, ForgetsShrinks DEF SettleConfirm
  <2> QED
    BY <2>1, <2>2 DEF FlushingStep
<1>15. CASE SettleFail(f)
  <2>1. FlusherSends(f) /\ UNCHANGED <<records, started, closed, ackedAtStop, ppc, pitem, result>>
    BY <1>15 DEF SettleFail, FlusherSends
  <2> QED
    BY <2>1 DEF FlushingStep
<1>16. CASE Requeue(f)
  <2>1. FlusherGivesBack(f) /\ UNCHANGED <<records, started, closed, ackedAtStop, ppc, pitem, result>>
    BY <1>16 DEF Requeue, FlusherGivesBack
  <2> QED
    BY <2>1 DEF FlushingStep
<1>17. CASE f = Stopper /\ StopStep
  <2>1. \/ Move(f, "wait", "drain") /\ (started => \A g \in Loops : pc[g] = "exited")
        \/ Move(f, "close", "join")
        \/ Move(f, "join", "stopped")
    BY <1>17 DEF StopStep, StopWait, StopClose, StopJoin
  <2>2. StopperGoes(f) /\ records' \subseteq records /\ UNCHANGED <<flags, stopVars, calls>>
    BY <1>2, <1>17, <2>1 DEF StopperGoes
  <2> QED
    BY <2>2 DEF FlushingStep
<1> QED
  BY <1>3, <1>4, <1>5, <1>6, <1>8, <1>9, <1>10, <1>11, <1>12, <1>13, <1>14, <1>15, <1>16, <1>17
     DEF FlushStep

LEMMA StopKinds ==
  ASSUME CoreInv, [Next]_vars
  PROVE  \/ \E p \in Producers : CallStep(p)
         \/ \E f \in Flushers : FlushingStep(f)
         \/ StopIsCalled \/ StartIsCalled \/ NewProcess \/ ElsewhereStep
<1> USE DEF calls, flags, stopVars
<1> USE DEF fieldVars, lifeVars, wakeVars, prodVars, flushVars, envVars, histVars, persistVars
<1>1. ASSUME NEW p \in Producers,
             ProducerStep(p) \/ CtxDone(p) \/ \E i \in Items : Send(p, i)
      PROVE  CallStep(p)
  <2>1. UNCHANGED <<pc, kind, started, closed, ackedAtStop, stopFailed>>
    <3>1. CASE \E i \in Items : Send(p, i)
      BY <3>1 DEF Send
    <3>2. CASE EnqueueRoom(p) \/ EnqueueDrop(p)
      BY <3>2 DEF EnqueueRoom, EnqueueDrop, AppendLocked
    <3>3. CASE EnqueueRaise(p) \/ EnqueueBlock(p) \/ Unblock(p) \/ CtxDone(p) \/ Finish(p)
      BY <3>3 DEF EnqueueRaise, EnqueueBlock, Unblock, CtxDone, Finish
    <3> QED
      BY <1>1, <3>1, <3>2, <3>3 DEF ProducerStep
  <2> QED
    BY <1>1, <2>1, CallKinds DEF CallStep
<1>2. CASE Tick \/ StopStep
  <2>1. AutoLoop \in Flushers /\ Stopper \in Flushers
    BY DEF Flushers, Loops
  <2> QED
    BY <1>2, <2>1, FlushingKinds
<1>3. ASSUME NEW f \in Flushers, FlushStep(f) \/ TakeWake(f) \/ HostFlush(f) \/ LoopExit(f)
      PROVE  FlushingStep(f)
  BY <1>3, FlushingKinds
<1>4. CASE StopBegin
  <2>1. StopIsCalled
    BY <1>4 DEF StopBegin, StopIsCalled, Goto
  <2> QED
    BY <2>1
<1>5. CASE Start
  <2>1. AgentStarts
    <3>1. CASE Durable
      BY <1>5, <3>1 DEF Start, AgentStarts, entries, verdicts, doomedKeys, store, life
    <3>2. CASE ~Durable
      BY <1>5, <3>2 DEF Start, AgentStarts, entries, verdicts, doomedKeys, store, life
    <3> QED
      BY <3>1, <3>2
  <2>2. StartIsCalled
    BY <1>5, <2>1 DEF Start, StartIsCalled
  <2> QED
    BY <2>2
<1>6. CASE Crash
  <2>1. ProcessDies
    BY <1>6 DEF Crash, ProcessDies, entries, verdicts, doomedKeys, store, life
  <2>2. NewProcess
    BY <1>6, <2>1 DEF Crash, NewProcess
  <2> QED
    BY <2>2
<1>7. ASSUME (\E k \in Kinds : GateOpens(k)) \/ ConfirmWorker \/ RedisStep \/ UNCHANGED vars
      PROVE  ElsewhereStep
  <2>1. CASE \E k \in Kinds : GateOpens(k)
    BY <2>1 DEF GateOpens, ElsewhereStep
  <2>2. CASE ConfirmWorker
    BY <2>2 DEF ConfirmWorker, Del, ElsewhereStep
  <2>3. CASE RedisStep
    BY <2>3 DEF RedisStep, CooldownEnds, Expire, ElsewhereStep
  <2>4. CASE UNCHANGED vars
    BY <2>4 DEF vars, ElsewhereStep
  <2> QED
    BY <1>7, <2>1, <2>2, <2>3, <2>4
<1> QED
  BY Zenon, <1>1, <1>2, <1>3, <1>4, <1>5, <1>6, <1>7 DEF Next
\* What an append adds to the queues (appendLocked).
LEMMA AppendItems ==
  ASSUME CoreInv, NEW p \in Producers, NEW n \in {0, 1}, NEW keyed \in BOOLEAN,
         CallAppends(p, n, keyed)
  PROVE  /\ pitem[p] \in Items /\ ppc[p] = "enqueue"
         /\ \A l \in Kinds \ {KindOf[pitem[p]]} : queue'[l] = queue[l]
         /\ \A l \in Kinds : ItemsOf(queue'[l]) \subseteq ItemsOf(queue[l]) \union {pitem[p]}
<1> DEFINE i == pitem[p]
           k == KindOf[i]
           rest == SubSeq(queue[k], n + 1, Len(queue[k]))
           new == Append(rest, [item |-> i, keyed |-> keyed])
<1>1. /\ Shapes /\ ppc[p] = "enqueue" /\ n \in 0..Len(queue[k])
      /\ queue' = [queue EXCEPT ![k] = new]
  BY CoreShapes DEF CallAppends
<1>2. i \in Items /\ k \in Kinds /\ queue[k] \in Seq(Entries)
  BY <1>1, ItemsAssumption DEF Shapes
<1>3. rest \in Seq(Entries) /\ ItemsOf(rest) \subseteq ItemsOf(queue[k])
  BY <1>1, <1>2, ItemsOfSplit
<1>4. [item |-> i, keyed |-> keyed] \in Entries
  BY <1>2 DEF Entries
<1> HIDE DEF rest, i, k
<1>5. ItemsOf(new) = ItemsOf(rest) \union {i}
  BY <1>3, <1>4, ItemsOfAppend
<1> HIDE DEF new
<1>6. queue'[k] = new /\ \A l \in Kinds \ {k} : queue'[l] = queue[l]
  BY <1>1, <1>2 DEF Shapes
<1> QED
  BY <1>1, <1>2, <1>3, <1>5, <1>6 DEF i, k

\* What a reload adds to the queues (reloadKindLocked).
LEMMA ReloadItems ==
  ASSUME CoreInv, NEW le \in LoadKind("event"), NEW lm \in LoadKind("metric"),
         Reload([k \in Kinds |-> IF k = "event" THEN le ELSE lm])
  PROVE  /\ \A k \in Kinds : ItemsOf(queue'[k]) \subseteq
                               ItemsOf(queue[k]) \union {i \in records : KindOf[i] = k}
         /\ records' \subseteq records
<1> DEFINE loaded == [k \in Kinds |-> IF k = "event" THEN le ELSE lm]
           keyedOf(k) == [n \in 1..Len(loaded[k]) |-> [item |-> loaded[k][n], keyed |-> TRUE]]
           merged == [k \in Kinds |-> queue[k] \o keyedOf(k)]
           over == [k \in Kinds |-> IF Len(merged[k]) > BufferSize
                                    THEN Len(merged[k]) - BufferSize ELSE 0]
           rest == [k \in Kinds |-> SubSeq(merged[k], over[k] + 1, Len(merged[k]))]
<1>1. BufferSize \in Nat /\ Shapes
  BY AgentAssumption, CoreShapes
<1>2. ASSUME NEW k \in Kinds
      PROVE  /\ Len(loaded[k]) \in Nat
             /\ \A n \in 1..Len(loaded[k]) :
                  loaded[k][n] \in records \ Poison /\ KindOf[loaded[k][n]] = k
  BY LoadKindDistinct DEF CoreInv, TypeOK, Kinds
<1> HIDE DEF loaded
<1>3. ASSUME NEW k \in Kinds
      PROVE  /\ merged[k] \in Seq(Entries) /\ Len(merged[k]) \in Nat
             /\ ItemsOf(merged[k]) \subseteq
                  ItemsOf(queue[k]) \union {i \in records : KindOf[i] = k}
  <2>1. \A n \in 1..Len(loaded[k]) : [item |-> loaded[k][n], keyed |-> TRUE] \in Entries
    BY <1>2 DEF Entries, CoreInv, TypeOK, PersistTypeOK
  <2>2. keyedOf(k) \in Seq(Entries) /\ Len(keyedOf(k)) = Len(loaded[k])
    BY <1>2, <2>1
  <2>3. \A n \in 1..Len(keyedOf(k)) : keyedOf(k)[n].item = loaded[k][n]
    BY <2>2
  <2>4. merged[k] = queue[k] \o keyedOf(k) /\ queue[k] \in Seq(Entries)
    BY <1>1 DEF Shapes
  <2> HIDE DEF merged, keyedOf
  <2>5. ItemsOf(keyedOf(k)) \subseteq {i \in records : KindOf[i] = k}
    BY <1>2, <2>2, <2>3 DEF ItemsOf
  <2>6. /\ queue[k] \o keyedOf(k) \in Seq(Entries)
        /\ ItemsOf(queue[k] \o keyedOf(k)) = ItemsOf(queue[k]) \union ItemsOf(keyedOf(k))
    BY <2>2, <2>4, ItemsOfConcat, ConcatProperties
  <2> QED
    BY <2>4, <2>5, <2>6, LenProperties
<1>4. ASSUME NEW k \in Kinds PROVE over[k] \in 0..Len(merged[k])
  <2>1. over[k] = IF Len(merged[k]) > BufferSize THEN Len(merged[k]) - BufferSize ELSE 0
    OBVIOUS
  <2>2. Len(merged[k]) \in Nat
    BY <1>3
  <2> HIDE DEF merged, over
  <2> QED
    BY <1>1, <2>1, <2>2
<1>5. /\ queue' = rest
      /\ \E gone : Del(gone, TRUE)
  BY Zenon DEF Reload, loaded
<1> HIDE DEF merged, over
<1>6. ASSUME NEW k \in Kinds PROVE ItemsOf(rest[k]) \subseteq ItemsOf(merged[k])
  BY <1>3, <1>4, ItemsOfSplit
<1> HIDE DEF rest
<1>7. records' \subseteq records
  BY <1>5 DEF Del
<1>8. \A k \in Kinds : ItemsOf(queue'[k]) \subseteq
                         ItemsOf(queue[k]) \union {i \in records : KindOf[i] = k}
  BY <1>3, <1>5, <1>6
<1> QED
  BY <1>7, <1>8

\* Nothing of a kind that is switched off comes in.
LEMMA EnabledNext ==
  ASSUME CoreInv, EnabledOnly, [Next]_vars
  PROVE  EnabledOnly'
<1>1. Shapes
  BY CoreShapes
<1> USE DEF calls, flags, stopVars, EnabledOnly, Goes
<1>2. ASSUME NEW p \in Producers, CallStep(p) PROVE EnabledOnly'
  <2>1. CASE CallMoves(p)
    <3>1. UNCHANGED <<queue, pc, kind, records>>
      BY <1>2, <2>1 DEF CallStep, CallMoves, entries, store
    <3>2. \A q \in Producers : ppc'[q] # "idle" => KindOf[pitem'[q]] \in Enabled
      BY <1>1, <2>1 DEF CallMoves, Return, Shapes
    <3> QED
      BY <3>1, <3>2
  <2>2. CASE CallReturns(p)
    <3>1. UNCHANGED <<queue, pc, kind>> /\ records' \subseteq records
      BY <1>2, <2>2, ForgetsShrinks DEF CallStep, CallReturns, entries
    <3>2. \A q \in Producers : ppc'[q] # "idle" => KindOf[pitem'[q]] \in Enabled
      BY <1>1, <2>2 DEF CallReturns, Return, Shapes
    <3> QED
      BY <3>1, <3>2
  <2>3. ASSUME NEW n \in {0, 1}, NEW keyed \in BOOLEAN, CallAppends(p, n, keyed)
        PROVE  EnabledOnly'
    <3>1. UNCHANGED <<pc, kind, pitem>> /\ records' \subseteq records \union {pitem[p]}
      BY <1>2, <2>3 DEF CallStep, CallAppends
    <3>2. \A q \in Producers : ppc'[q] # "idle" => ppc[q] # "idle"
      BY <1>1, <2>3 DEF CallAppends, Shapes
    <3>3. KindOf[pitem[p]] \in Enabled
      BY <2>3 DEF CallAppends
    <3>4. \A k \in Kinds \ Enabled : queue'[k] = queue[k]
      BY <2>3, <3>3, AppendItems
    <3> QED
      BY <3>1, <3>2, <3>3, <3>4
  <2> QED
    BY <1>2, <2>1, <2>2, <2>3 DEF CallStep
<1>3. ASSUME NEW f \in Flushers, FlushingStep(f) PROVE EnabledOnly'
  <2>1. records' \subseteq records /\ UNCHANGED <<ppc, pitem>>
    BY <1>3 DEF FlushingStep
  <2>2. ASSUME UNCHANGED <<queue, kind>>,
               pc'[f] \in Holding \union {"orphans"} => pc[f] \in Holding \union {"orphans"},
               \A g \in Flushers \ {f} : pc'[g] = pc[g]
        PROVE  EnabledOnly'
    BY <2>1, <2>2
  <2>3. CASE FlusherWakes(f) \/ FlusherWalks(f) \/ FlusherExits(f) \/ StopperGoes(f)
    BY <1>1, <2>2, <2>3 DEF FlusherWakes, FlusherWalks, FlusherExits, StopperGoes, Shapes,
                            Holding
  <2>4. CASE FlusherSends(f) \/ FlusherFails(f)
    BY <1>1, <2>2, <2>4 DEF FlusherSends, FlusherFails, Shapes, Holding
  <2>5. CASE FlusherTakes(f)
    BY <1>1, <2>1, <2>5 DEF FlusherTakes, Shapes
  <2>6. CASE FlusherGivesBack(f)
    <3>1. kind[f] \in Enabled
      BY <2>6 DEF FlusherGivesBack, Holding
    <3>2. \A k \in Kinds \ Enabled : queue'[k] = queue[k]
      BY <1>1, <2>6, <3>1 DEF FlusherGivesBack, Shapes
    <3>3. UNCHANGED kind /\ pc' = [pc EXCEPT ![f] = "orphans"]
      BY <2>6 DEF FlusherGivesBack
    <3> QED
      BY <1>1, <2>1, <3>1, <3>2, <3>3 DEF Shapes
  <2>7. CASE FlusherTurns(f)
    <3>1. /\ queue' = queue /\ pc'[f] \in {"drain", "close", "idle"}
          /\ \A g \in Flushers \ {f} : pc'[g] = pc[g] /\ kind'[g] = kind[g]
      BY <1>1, <2>7 DEF FlusherTurns, TurnsKind, Shapes
    <3> QED
      BY <2>1, <3>1 DEF Holding
  <2> QED
    BY <1>3, <2>3, <2>4, <2>5, <2>6, <2>7 DEF FlushingStep
<1>4. CASE StopIsCalled
  BY <1>1, <1>4 DEF StopIsCalled, Shapes, Holding
<1>5. CASE StartIsCalled
  <2>1. UNCHANGED <<pc, kind, ppc, pitem>>
    BY <1>5 DEF StartIsCalled, AgentStarts
  <2>2. CASE Durable
    <3>1. PICK le \in LoadKind("event"), lm \in LoadKind("metric") :
            Reload([k \in Kinds |-> IF k = "event" THEN le ELSE lm])
      BY <1>5, <2>2 DEF StartIsCalled, AgentStarts
    <3>2. /\ records' \subseteq records
          /\ \A k \in Kinds : ItemsOf(queue'[k]) \subseteq
                                ItemsOf(queue[k]) \union {i \in records : KindOf[i] = k}
      BY <3>1, ReloadItems
    <3> QED
      BY <2>1, <3>2
  <2>3. CASE ~Durable
    BY <1>5, <2>1, <2>3 DEF StartIsCalled, AgentStarts
  <2> QED
    BY <2>2, <2>3
<1>6. CASE NewProcess
  BY <1>6, EmptyEntries DEF NewProcess, ProcessDies, store, Holding
<1>7. CASE ElsewhereStep
  BY <1>7 DEF ElsewhereStep
<1> QED
  BY <1>2, <1>3, <1>4, <1>5, <1>6, <1>7, StopKinds

\* Stop closes the agent, waits for the loops, and flushes each kind once.
LEMMA PlacesNext ==
  ASSUME CoreInv, StopperPlaces, [Next]_vars
  PROVE  StopperPlaces'
<1>1. /\ Shapes /\ Stopper \in Flushers /\ Loops \subseteq Flushers /\ Stopper \notin Loops
  BY CoreShapes, AgentAssumption DEF Flushers
<1> USE DEF calls, flags, stopVars, StopperPlaces, Goes
<1>2. ASSUME UNCHANGED <<pc, kind, started, closed>> PROVE StopperPlaces'
  BY <1>2
<1>3. ASSUME NEW p \in Producers, CallStep(p) PROVE StopperPlaces'
  BY <1>2, <1>3 DEF CallStep
<1>4. ASSUME NEW f \in Flushers, FlushingStep(f) PROVE StopperPlaces'
  <2>1. UNCHANGED <<started, closed>>
    BY <1>4 DEF FlushingStep
  <2>2. /\ \A g \in Flushers \ {f} : pc'[g] = pc[g] /\ kind'[g] = kind[g]
    BY <1>1, <1>4 DEF FlushingStep, FlusherWakes, FlusherWalks, FlusherExits, FlusherTakes,
       FlusherSends, FlusherFails, FlusherGivesBack, FlusherTurns, StopperGoes, TurnsKind, Shapes
  <2>3. CASE f = Stopper
    <3>1. /\ pc[f] # "idle" /\ pc'[f] \notin {"idle", "wait", "check", "guard", "exited"}
          /\ pc[f] = "wait" /\ started => \A g \in Loops : pc[g] = "exited"
      BY <1>1, <1>4, <2>3 DEF FlushingStep, FlusherWakes, FlusherWalks, FlusherExits,
         FlusherTakes, FlusherSends, FlusherFails, FlusherGivesBack, FlusherTurns, StopperGoes,
         Shapes
    <3> QED
      BY <1>1, <2>1, <2>2, <2>3, <3>1
  <2>4. CASE f # Stopper
    <3>1. pc'[Stopper] = pc[Stopper] /\ kind'[Stopper] = kind[Stopper]
      BY <1>1, <2>2, <2>4
    <3>2. CASE f \notin Loops
      BY <1>1, <2>1, <2>2, <3>1, <3>2
    <3>3. CASE f \in Loops
      <4>1. /\ pc[f] # "exited"
            /\ ~started => pc'[f] \in {"idle", "exited"}
        BY <1>1, <1>4, <2>4, <3>3 DEF FlushingStep, FlusherWakes, FlusherWalks, FlusherExits,
           FlusherTakes, FlusherSends, FlusherFails, FlusherGivesBack, FlusherTurns,
           StopperGoes, Shapes
      <4> QED
        BY <1>1, <2>1, <2>2, <3>1, <3>3, <4>1
    <3> QED
      BY <3>2, <3>3
  <2> QED
    BY <2>3, <2>4
<1>5. CASE StopIsCalled
  BY <1>1, <1>5 DEF StopIsCalled, Shapes
<1>6. CASE StartIsCalled
  <2>1. UNCHANGED <<pc, kind, closed>> /\ started' = TRUE /\ ~closed
    BY <1>6 DEF StartIsCalled, AgentStarts
  <2> QED
    BY <2>1
<1>7. CASE NewProcess
  BY <1>1, <1>7 DEF NewProcess, ProcessDies
<1>8. CASE ElsewhereStep
  BY <1>2, <1>8 DEF ElsewhereStep
<1> QED
  BY <1>3, <1>4, <1>5, <1>6, <1>7, <1>8, StopKinds

LEMMA ReturnedNext ==
  ASSUME CoreInv, CallsApart, AckedReturned, [Next]_vars, ackedAtStop \subseteq Items
  PROVE  AckedReturned'
<1>1. Shapes
  BY CoreShapes
<1> USE DEF calls, flags, stopVars, AckedReturned
<1>2. ASSUME NEW p \in Producers, CallStep(p) PROVE AckedReturned'
  <2>1. ackedAtStop' = ackedAtStop
    BY <1>2 DEF CallStep
  <2>2. ASSUME NEW i \in Items, result[i] = "ok" PROVE result'[i] = "ok"
    <3>1. CASE CallMoves(p)
      BY <1>1, <2>2, <3>1 DEF CallMoves, CallsApart, Return, Shapes
    <3>2. CASE CallReturns(p)
      BY <1>1, <2>2, <3>2 DEF CallReturns, Return, Shapes
    <3>3. CASE \E n \in {0, 1}, keyed \in BOOLEAN : CallAppends(p, n, keyed)
      BY <2>2, <3>3 DEF CallAppends
    <3> QED
      BY <1>2, <3>1, <3>2, <3>3 DEF CallStep
  <2> QED
    BY <2>1, <2>2
<1>3. ASSUME (\E f \in Flushers : FlushingStep(f)) \/ ElsewhereStep \/ StartIsCalled
      PROVE  UNCHANGED <<ackedAtStop, result>>
  BY <1>3 DEF FlushingStep, ElsewhereStep, StartIsCalled, AgentStarts
<1>4. CASE StopIsCalled \/ NewProcess
  BY <1>4 DEF StopIsCalled, NewProcess
<1> QED
  BY <1>2, <1>3, <1>4, StopKinds

\* What the final flush has emptied stays free of acknowledged items: nobody else
\* gives a batch back any more, and a call that still appends has not returned.
LEMMA FinalNext ==
  ASSUME HostFlushers = {}, CoreInv, CallsApart, EnabledOnly, StopperPlaces, AckedReturned,
         FinalFlush, [Next]_vars
  PROVE  FinalFlush'
<1>1. /\ Shapes /\ Stopper \in Flushers /\ Loops \subseteq Flushers /\ Stopper \notin Loops
      /\ \A f \in Flushers : f # Stopper => f \in Loops
  BY CoreShapes, AgentAssumption DEF Flushers
<1> USE DEF calls, flags, stopVars, FinalFlush, Goes
<1>2. ASSUME UNCHANGED <<kind, stopVars>>, pc'[Stopper] = pc[Stopper],
             kind'[Stopper] = kind[Stopper],
             \A k \in Kinds : Clean(k) => Clean(k)'
      PROVE  FinalFlush'
  BY <1>1, <1>2 DEF Shapes, Kinds
<1>3. ASSUME UNCHANGED <<queue, ackedAtStop>> PROVE \A k \in Kinds : Clean(k)' <=> Clean(k)
  BY <1>3 DEF Clean
<1>4. ASSUME NEW p \in Producers, CallStep(p) PROVE FinalFlush'
  <2>1. UNCHANGED <<pc, kind, stopVars>>
    BY <1>4 DEF CallStep
  <2>2. CASE CallMoves(p) \/ CallReturns(p)
    <3>1. queue' = queue
      BY <2>2 DEF CallMoves, CallReturns, entries
    <3> QED
      BY <1>2, <1>3, <2>1, <3>1
  <2>3. ASSUME NEW n \in {0, 1}, NEW keyed \in BOOLEAN, CallAppends(p, n, keyed)
        PROVE  FinalFlush'
    <3>1. pitem[p] \notin ackedAtStop
      BY <2>3, AppendItems DEF CallsApart, AckedReturned
    <3>2. \A k \in Kinds : ItemsOf(queue'[k]) \subseteq ItemsOf(queue[k]) \union {pitem[p]}
      BY <2>3, AppendItems
    <3>3. \A k \in Kinds : Clean(k) => Clean(k)'
      BY <2>1, <3>1, <3>2 DEF Clean
    <3> QED
      BY <1>2, <2>1, <3>3
  <2> QED
    BY <1>4, <2>2, <2>3 DEF CallStep
<1>5. ASSUME NEW f \in Flushers, FlushingStep(f) PROVE FinalFlush'
  <2>1. UNCHANGED ackedAtStop
    BY <1>5 DEF FlushingStep
  <2>2. CASE f # Stopper
    <3>1. /\ pc'[Stopper] = pc[Stopper] /\ kind'[Stopper] = kind[Stopper]
          /\ stopFailed' <=> stopFailed
      <4>1. CASE FlusherWakes(f) \/ FlusherWalks(f) \/ FlusherExits(f)
        BY <1>1, <2>2, <4>1 DEF FlusherWakes, FlusherWalks, FlusherExits, Shapes
      <4>2. CASE FlusherTakes(f) \/ FlusherSends(f) \/ FlusherGivesBack(f)
        BY <1>1, <2>2, <4>2 DEF FlusherTakes, FlusherSends, FlusherGivesBack, Shapes
      <4>5. CASE FlusherFails(f)
        <5>1. pc' = [pc EXCEPT ![f] = "fail"] /\ kind' = kind
          BY <4>5 DEF FlusherFails
        <5>2. stopFailed' <=> stopFailed
          BY <2>2, <4>5 DEF FlusherFails
        <5> QED
          BY <1>1, <2>2, <5>1, <5>2 DEF Shapes
      <4>3. CASE FlusherTurns(f)
        BY <1>1, <2>2, <4>3 DEF FlusherTurns, TurnsKind, Shapes
      <4>4. CASE StopperGoes(f)
        BY <2>2, <4>4 DEF StopperGoes
      <4> QED
        BY <1>5, <4>1, <4>2, <4>3, <4>4, <4>5 DEF FlushingStep
    <3>2. CASE pc[Stopper] \in {"idle", "wait"}
      BY <3>1, <3>2
    <3>3. CASE pc[Stopper] \notin {"idle", "wait"}
      <4>1. f \in Loops /\ pc[f] \in {"idle", "exited"}
        BY <1>1, <2>2, <3>3 DEF StopperPlaces
      <4>2. queue' = queue
        BY <1>1, <1>5, <2>2, <4>1 DEF FlushingStep, FlusherWakes, FlusherWalks, FlusherExits,
           FlusherTakes, FlusherSends, FlusherFails, FlusherGivesBack, FlusherTurns, StopperGoes
      <4> QED
        BY <1>1, <1>3, <2>1, <3>1, <4>2 DEF Shapes, Kinds
    <3> QED
      BY <3>2, <3>3
  <2>3. CASE f = Stopper
    <3>1. CASE FlusherWakes(f) \/ FlusherWalks(f) \/ FlusherExits(f)
      BY <1>1, <2>3, <3>1 DEF FlusherWakes, FlusherWalks, FlusherExits, StopperPlaces
    <3>2. CASE FlusherTakes(f)
      <4>1. /\ pc[f] = "drain" /\ pc'[f] = "send" /\ UNCHANGED <<kind, stopFailed>>
            /\ kind[f] \in Kinds /\ queue'[kind[f]] = <<>>
            /\ \A k \in Kinds \ {kind[f]} : queue'[k] = queue[k]
        BY <1>1, <3>2 DEF FlusherTakes, Shapes
      <4>2. Clean(kind[f])'
        BY <4>1, EmptyEntries DEF Clean
      <4>3. kind[f] = "metric" => (Clean("event") => Clean("event")')
        BY <2>1, <4>1 DEF Clean, Kinds
      <4> QED
        BY <2>3, <4>1, <4>2, <4>3 DEF Clean
    <3>3. CASE FlusherSends(f)
      BY <1>1, <1>3, <2>1, <2>3, <3>3 DEF FlusherSends, Shapes, Kinds, Clean
    <3>4. CASE FlusherFails(f)
      BY <2>3, <3>4 DEF FlusherFails
    <3>5. CASE FlusherGivesBack(f)
      BY <2>3, <3>5 DEF FlusherGivesBack
    <3>6. CASE FlusherTurns(f)
      <4> SUFFICES ASSUME ~stopFailed' PROVE FinalFlush'
        OBVIOUS
      <4>1. /\ pc[f] \in {"drain", "count", "orphans"} /\ ~stopFailed /\ queue' = queue
            /\ pc[f] = "drain" => kind[f] \notin Enabled \/ queue[kind[f]] = <<>>
            /\ pc'[f] = IF kind[f] = "event" THEN "drain" ELSE "close"
            /\ kind'[f] = IF kind[f] = "event" THEN "metric" ELSE "event"
            /\ kind[f] \in Kinds
        BY <1>1, <2>3, <3>6 DEF FlusherTurns, TurnsKind, Shapes
      <4>2. Clean(kind[f])
        BY <2>3, <4>1, EmptyEntries DEF Clean, EnabledOnly
      <4>3. kind[f] = "metric" => Clean("event")
        BY <2>3, <4>1
      <4>4. \A k \in Kinds : Clean(k)' <=> Clean(k)
        BY <1>3, <2>1, <4>1
      <4>5. CASE kind[f] = "event"
        BY <2>3, <4>1, <4>2, <4>4, <4>5 DEF Kinds
      <4>6. CASE kind[f] = "metric"
        BY <2>3, <4>1, <4>2, <4>3, <4>4, <4>6 DEF Kinds
      <4> QED
        BY <4>1, <4>5, <4>6 DEF Kinds
    <3>7. CASE StopperGoes(f)
      <4>1. /\ UNCHANGED <<queue, kind, stopFailed>>
            /\ \/ pc[f] = "wait" /\ pc'[f] = "drain"
               \/ pc[f] \in {"close", "join"} /\ pc'[f] \in {"join", "stopped"}
        BY <1>1, <3>7 DEF StopperGoes, Shapes
      <4>2. pc[f] = "wait" => kind[f] = "event"
        BY <2>3 DEF StopperPlaces
      <4>3. \A k \in Kinds : Clean(k)' <=> Clean(k)
        BY <1>3, <2>1, <4>1
      <4> QED
        BY <2>3, <4>1, <4>2, <4>3
    <3> QED
      BY <1>5, <3>1, <3>2, <3>3, <3>4, <3>5, <3>6, <3>7 DEF FlushingStep
  <2> QED
    BY <2>2, <2>3
<1>6. CASE StopIsCalled
  BY <1>1, <1>6 DEF StopIsCalled, Shapes
<1>7. CASE StartIsCalled
  <2>1. pc'[Stopper] = "idle"
    BY <1>7 DEF StartIsCalled, AgentStarts, StopperPlaces
  <2> QED
    BY <2>1
<1>8. CASE NewProcess
  BY <1>1, <1>8 DEF NewProcess, ProcessDies
<1>9. CASE ElsewhereStep
  BY <1>2, <1>3, <1>9 DEF ElsewhereStep
<1> QED
  BY <1>4, <1>5, <1>6, <1>7, <1>8, <1>9, StopKinds

\* Stop leaves nothing behind: when none of the sends of its final flush failed,
\* every item acknowledged before it was called has a definitive answer or was
\* evicted, whatever the loops and the calls in progress did meanwhile (Stop,
\* flushEvents, enqueueEvent).  The host must not call Flush itself: such a flush
\* may requeue its batch after the final one.
THEOREM StopLeavesNothing ==
  ASSUME HostFlushers = {}, MaxCrashes = 0
  PROVE  Spec => []StopDelivers
<1>1. Init => StopInv
  <2> SUFFICES ASSUME Init PROVE StopInv
    OBVIOUS
  <2>1. LossInv /\ Stopper \in Flushers /\ Loops \subseteq Flushers
    BY LossInit DEF Flushers
  <2>2. CallsApart /\ EnabledOnly /\ AckedReturned
    BY EmptyEntries DEF Init, PersistInit, CallsApart, EnabledOnly, AckedReturned, Holding
  <2>3. StopperPlaces /\ FinalFlush
    BY <2>1 DEF Init, StopperPlaces, FinalFlush
  <2> QED
    BY <2>1, <2>2, <2>3 DEF StopInv
<1>2. StopInv /\ [Next]_vars => StopInv'
  <2> SUFFICES ASSUME StopInv, [Next]_vars PROVE StopInv'
    OBVIOUS
  <2>1. CoreInv /\ ackedAtStop \subseteq Items
    BY DEF StopInv, LossInv, CoreInv, TypeOK, HistoryTypeOK
  <2>2. LossInv' /\ CallsApart'
    BY <2>1, LossNext, CallsNext DEF StopInv
  <2>3. EnabledOnly' /\ StopperPlaces' /\ AckedReturned' /\ FinalFlush'
    BY <2>1, EnabledNext, PlacesNext, ReturnedNext, FinalNext DEF StopInv
  <2> QED
    BY <2>2, <2>3 DEF StopInv
<1>3. StopInv /\ crashes = 0 => StopDelivers
  <2> SUFFICES ASSUME StopInv, crashes = 0, pc[Stopper] = "stopped", ~stopFailed,
                      NEW i \in ackedAtStop
               PROVE  i \in confirmed \union shed
    BY DEF StopDelivers
  <2>1. i \in Items /\ result[i] = "ok"
    BY DEF StopInv, AckedReturned, LossInv, CoreInv, TypeOK, HistoryTypeOK
  <2>2. i \in InMemory \union confirmed \union shed
    BY <2>1 DEF StopInv, LossInv, Acked, Accounted
  <2>3. \A k \in Kinds : i \notin ItemsOf(queue[k])
    BY DEF StopInv, FinalFlush, Clean
  <2>4. \A f \in Flushers : pc[f] \notin Holding
    <3>1. \A f \in Flushers : f = Stopper \/ f \in Loops
      BY DEF Flushers
    <3>2. \A f \in Loops : pc[f] \in {"idle", "exited"}
      BY DEF StopInv, StopperPlaces
    <3> QED
      BY <3>1, <3>2 DEF Holding
  <2>5. i \notin InMemory
    BY Zenon, <2>3, <2>4 DEF InMemory
  <2> QED
    BY <2>2, <2>5
<1> QED
  BY <1>1, <1>2, <1>3, NeverDies, PTL DEF Spec
=============================================================================
