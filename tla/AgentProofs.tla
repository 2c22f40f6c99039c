----------------------------- MODULE AgentProofs -----------------------------
(***************************************************************************)
(* TLAPS proofs about Agent, for every set of items, producers and         *)
(* flushers, every buffer size, watermark and overflow policy, with or     *)
(* without Redis.  CoreInv (types, the item of a call in progress, the     *)
(* cap) is inductive; LossInv adds what NothingLost needs: a batch being   *)
(* confirmed has its answer, and an item counts as acknowledged from the   *)
(* append on, before its call returns.                                     *)
(***************************************************************************)
EXTENDS Agent, SequenceTheorems, FiniteSetTheorems, TLAPS

\* The items of an entry sequence are items.
LEMMA ItemsOfType ==
  ASSUME NEW s \in Seq(Entries)
  PROVE  ItemsOf(s) \subseteq Items /\ KeysOf(s) \subseteq ItemsOf(s)
<1>1. \A n \in 1..Len(s) : s[n] \in Entries
  BY ElementOfSeq
<1>2. ItemsOf(s) \subseteq Items
  BY <1>1 DEF ItemsOf, Entries
<1>3. KeysOf(s) \subseteq ItemsOf(s)
  BY Zenon DEF ItemsOf, KeysOf
<1> QED
  BY <1>2, <1>3

\* A requeue's concatenation holds the items of both parts.
LEMMA ItemsOfConcat ==
  ASSUME NEW s \in Seq(Entries), NEW t \in Seq(Entries)
  PROVE  ItemsOf(s \o t) = ItemsOf(s) \union ItemsOf(t)
<1>1. /\ s \o t \in Seq(Entries)
      /\ Len(s \o t) = Len(s) + Len(t)
      /\ \A n \in 1..(Len(s) + Len(t)) :
            (s \o t)[n] = IF n <= Len(s) THEN s[n] ELSE t[n - Len(s)]
  BY ConcatProperties
<1>2. ASSUME NEW x \in ItemsOf(s) PROVE x \in ItemsOf(s \o t)
  BY <1>1, <1>2, LenProperties DEF ItemsOf
<1>3. ASSUME NEW x \in ItemsOf(t) PROVE x \in ItemsOf(s \o t)
  <2>1. PICK n \in 1..Len(t) : x = t[n].item
    BY <1>3 DEF ItemsOf
  <2>2. /\ n + Len(s) \in 1..(Len(s) + Len(t))
        /\ (s \o t)[n + Len(s)] = t[n]
    BY <1>1, LenProperties
  <2> QED
    BY <1>1, <2>1, <2>2 DEF ItemsOf
<1>4. ASSUME NEW x \in ItemsOf(s \o t) PROVE x \in ItemsOf(s) \union ItemsOf(t)
  <2>1. PICK n \in 1..(Len(s) + Len(t)) : x = (s \o t)[n].item
    BY <1>1, <1>4 DEF ItemsOf
  <2>2. CASE n <= Len(s)
    BY <1>1, <2>1, <2>2, LenProperties DEF ItemsOf
  <2>3. CASE ~(n <= Len(s))
    <3>1. n - Len(s) \in 1..Len(t) /\ (s \o t)[n] = t[n - Len(s)]
      BY <1>1, <2>3, LenProperties
    <3> QED
      BY <2>1, <3>1 DEF ItemsOf
  <2> QED
    BY <2>2, <2>3
<1> QED
  BY <1>2, <1>3, <1>4

\* Cutting a queue in two leaves every item on one side.
LEMMA ItemsOfSplit ==
  ASSUME NEW s \in Seq(Entries), NEW n \in 0..Len(s)
  PROVE  /\ SubSeq(s, 1, n) \in Seq(Entries)
         /\ SubSeq(s, n + 1, Len(s)) \in Seq(Entries)
         /\ Len(SubSeq(s, 1, n)) = n
         /\ Len(SubSeq(s, n + 1, Len(s))) = Len(s) - n
         /\ ItemsOf(s) = ItemsOf(SubSeq(s, 1, n)) \union ItemsOf(SubSeq(s, n + 1, Len(s)))
<1> DEFINE a == SubSeq(s, 1, n)
           b == SubSeq(s, n + 1, Len(s))
<1>1. Len(s) \in Nat
  BY LenProperties
<1>2. /\ a \in Seq(Entries) /\ Len(a) = n
      /\ \A m \in 1..n : a[m] = s[m]
  BY <1>1, SubSeqProperties
<1>3. /\ b \in Seq(Entries) /\ Len(b) = Len(s) - n
      /\ \A m \in 1..(Len(s) - n) : b[m] = s[n + m]
  BY <1>1, SubSeqProperties
<1> HIDE DEF a, b
<1>4. ASSUME NEW x \in ItemsOf(s) PROVE x \in ItemsOf(a) \union ItemsOf(b)
  <2>1. PICK m \in 1..Len(s) : x = s[m].item
    BY <1>4 DEF ItemsOf
  <2>2. CASE m <= n
    BY <1>1, <1>2, <2>1, <2>2 DEF ItemsOf
  <2>3. CASE ~(m <= n)
    <3>1. m - n \in 1..Len(b) /\ b[m - n] = s[m]
      BY <1>1, <1>3, <2>3
    <3> QED
      BY <2>1, <3>1 DEF ItemsOf
  <2> QED
    BY <2>2, <2>3
<1>5. ItemsOf(a) \subseteq ItemsOf(s)
  BY <1>1, <1>2 DEF ItemsOf
<1>6. ASSUME NEW x \in ItemsOf(b) PROVE x \in ItemsOf(s)
  <2>1. PICK m \in 1..Len(b) : x = b[m].item
    BY <1>6 DEF ItemsOf
  <2>2. n + m \in 1..Len(s) /\ b[m] = s[n + m]
    BY <1>1, <1>3
  <2> QED
    BY <2>1, <2>2 DEF ItemsOf
<1>7. ItemsOf(s) = ItemsOf(a) \union ItemsOf(b)
  BY <1>4, <1>5, <1>6
<1> QED
  BY <1>2, <1>3, <1>7 DEF a, b

\* Append adds one item at the end.
LEMMA ItemsOfAppend ==
  ASSUME NEW s \in Seq(Entries), NEW e \in Entries
  PROVE  /\ Append(s, e) \in Seq(Entries)
         /\ Len(Append(s, e)) = Len(s) + 1
         /\ ItemsOf(Append(s, e)) = ItemsOf(s) \union {e.item}
<1>1. /\ Append(s, e) \in Seq(Entries) /\ Len(Append(s, e)) = Len(s) + 1
      /\ \A m \in 1..Len(s) : Append(s, e)[m] = s[m]
      /\ Append(s, e)[Len(s) + 1] = e
  BY AppendProperties
<1>2. Len(s) \in Nat
  BY LenProperties
<1>3. 1..(Len(s) + 1) = (1..Len(s)) \union {Len(s) + 1}
  BY <1>2
<1> QED
  BY <1>1, <1>3 DEF ItemsOf

-----------------------------------------------------------------------------
\* A call in progress carries its item (enqueueEvent's ev).
HasItem == \A p \in Producers : ppc[p] # "idle" => pitem[p] \in Items

CoreInv == TypeOK /\ HasItem /\ QueueBound

\* A write of a record keeps the types of the persistence layer (store).
LEMMA StoreType ==
  ASSUME PersistTypeOK, NEW i \in Items, NEW ok, NEW open, Store(i, ok, open)
  PROVE  PersistTypeOK' /\ ok \in BOOLEAN
<1>1. NextStamp \in Nat
  <2> DEFINE S == {j \in Items : stamp[j] > 0}
  <2>1. IsFiniteSet(S)
    BY ItemsAssumption, FS_Subset
  <2> QED
    BY <2>1, FS_CardinalityType DEF NextStamp
<1>2. stamp' \in [Items -> Nat]
  BY <1>1 DEF PersistTypeOK, Store
<1>3. /\ records' \subseteq Items /\ stored' \subseteq Items /\ expired' \subseteq Items
      /\ ok \in BOOLEAN
  BY DEF PersistTypeOK, Store
<1>4. consecutiveFailures' \in 0..(MaxRedisFailures - 1)
  BY PersistenceAssumption DEF PersistTypeOK, Store
<1>5. cooldown' \in BOOLEAN
  BY DEF PersistTypeOK, Store
<1> QED
  BY <1>2, <1>3, <1>4, <1>5 DEF PersistTypeOK

\* So does a delete (del).
LEMMA DelType ==
  ASSUME PersistTypeOK, NEW keys, NEW open, Del(keys, open)
  PROVE  PersistTypeOK'
BY DEF PersistTypeOK, Del

\* confirmKeys hands over a set of keys or deletes them.
LEMMA ConfirmKeysType ==
  ASSUME PersistTypeOK, confirmCh \in Seq(SUBSET Items),
         NEW keys \in SUBSET Items, ConfirmKeys(keys)
  PROVE  PersistTypeOK' /\ confirmCh' \in Seq(SUBSET Items)
<1>1. CASE UNCHANGED <<confirmCh, persistVars>>
  BY <1>1 DEF PersistTypeOK, persistVars
<1>2. CASE confirmCh' = Append(confirmCh, keys) /\ UNCHANGED persistVars
  BY <1>2, AppendProperties DEF PersistTypeOK, persistVars
<1>3. CASE Del(keys, PersistOpen) /\ UNCHANGED confirmCh
  BY <1>3, DelType
<1> QED
  BY <1>1, <1>2, <1>3 DEF ConfirmKeys

\* New establishes the core invariant.
LEMMA CoreInit == Init => CoreInv
<1> SUFFICES ASSUME Init PROVE CoreInv
  OBVIOUS
<1>1. PersistTypeOK
  <2>1. cooldown \in BOOLEAN
    BY Zenon DEF Init, PersistInit
  <2> QED
    BY <2>1, PersistenceAssumption DEF Init, PersistInit, PersistTypeOK
<1>2. FieldTypeOK
  <2>1. /\ everFlushed \in BOOLEAN /\ started \in BOOLEAN /\ closed \in BOOLEAN
        /\ flushWake \in BOOLEAN /\ flushSignal \in BOOLEAN
    BY Zenon DEF Init
  <2>2. confirmCh \in Seq(SUBSET Items) /\ queue \in [Kinds -> Seq(Entries)]
    BY DEF Init
  <2>3. /\ stats \in [Kinds -> Counters] /\ streak \in [Kinds -> Nat]
        /\ gate \in [Kinds -> BOOLEAN]
    BY DEF Init, NoStats, Counters
  <2> QED
    BY <2>1, <2>2, <2>3 DEF FieldTypeOK
<1>3. ProducerTypeOK /\ HasItem
  BY DEF Init, ProducerTypeOK, HasItem
<1>4. FlusherTypeOK
  BY DEF Init, FlusherTypeOK, Kinds, Outcomes, Places
<1>5. HistoryTypeOK
  BY DEF Init, HistoryTypeOK, Results
<1>6. QueueBound
  BY AgentAssumption DEF Init, QueueBound
<1> QED
  BY <1>1, <1>2, <1>3, <1>4, <1>5, <1>6 DEF CoreInv, TypeOK

\* Counting keeps the counters' type: each update adds a length to one of them.
LEMMA CountersType ==
  ASSUME NEW c \in Counters, NEW n \in Nat, NEW m \in Nat
  PROVE  /\ [c EXCEPT !.buffered = @ + n] \in Counters
         /\ [c EXCEPT !.flushed = @ + n] \in Counters
         /\ [c EXCEPT !.sent = @ + n] \in Counters
         /\ [c EXCEPT !.failed = @ + n] \in Counters
         /\ [c EXCEPT !.dropped = @ + n] \in Counters
         /\ [c EXCEPT !.buffered = @ + n, !.dropped = @ + m] \in Counters
<1>1. /\ [c EXCEPT !.buffered = @ + n] \in Counters
      /\ [c EXCEPT !.flushed = @ + n] \in Counters
  BY DEF Counters
<1>2. /\ [c EXCEPT !.sent = @ + n] \in Counters
      /\ [c EXCEPT !.failed = @ + n] \in Counters
  BY DEF Counters
<1>3. [c EXCEPT !.dropped = @ + n] \in Counters
  BY DEF Counters
<1>4. [c EXCEPT !.buffered = @ + n, !.dropped = @ + m] \in Counters
  <2> DEFINE d == [c EXCEPT !.buffered = @ + n]
  <2>1. d \in Counters
    BY <1>1
  <2>2. [d EXCEPT !.dropped = @ + m] \in Counters
    <3> HIDE DEF d
    <3> QED
      BY <2>1 DEF Counters
  <2>3. [c EXCEPT !.buffered = @ + n, !.dropped = @ + m] = [d EXCEPT !.dropped = @ + m]
    BY DEF Counters
  <2> QED
    BY <2>2, <2>3
<1> QED
  BY <1>1, <1>2, <1>3, <1>4

\* What a requeue keeps and what it evicts make up the merged queue.
LEMMA CapProperties ==
  ASSUME NEW s \in Seq(Entries)
  PROVE  /\ Kept(s) \in Seq(Entries) /\ Evicted(s) \in Seq(Entries)
         /\ Len(Kept(s)) <= BufferSize
         /\ ItemsOf(s) = ItemsOf(Kept(s)) \union ItemsOf(Evicted(s))
<1> DEFINE n == IF Len(s) > BufferSize THEN BufferSize ELSE Len(s)
<1>1. BufferSize \in Nat /\ Len(s) \in Nat
  BY AgentAssumption, LenProperties
<1>2. n \in 0..Len(s) /\ n <= BufferSize
  BY <1>1
<1>3. Kept(s) = SubSeq(s, 1, n)
  BY DEF Kept
<1>4. Evicted(s) = SubSeq(s, n + 1, Len(s))
  <2>1. CASE Len(s) > BufferSize
    BY <2>1 DEF Evicted
  <2>2. CASE ~(Len(s) > BufferSize)
    <3>1. SubSeq(s, BufferSize + 1, Len(s)) = << >> /\ SubSeq(s, n + 1, Len(s)) = << >>
      BY <1>1, <2>2, SubSeqEmpty
    <3> QED
      BY <3>1 DEF Evicted
  <2> QED
    BY <2>1, <2>2
<1> QED
  BY <1>2, <1>3, <1>4, ItemsOfSplit

\* loadKind returns a sequence of items of which there are finitely many.
LEMMA LoadKindType ==
  ASSUME PersistTypeOK, NEW k \in Kinds, NEW s \in LoadKind(k)
  PROVE  s \in Seq(Items)
<1> DEFINE live == {i \in records \ Corrupt : KindOf[i] = k}
<1>1. IsFiniteSet(live) /\ live \subseteq Items
  BY ItemsAssumption, FS_Subset DEF PersistTypeOK
<1>2. Cardinality(live) \in Nat
  BY <1>1, FS_CardinalityType
<1>3. s \in [1..Cardinality(live) -> live] \/ s = << >>
  BY DEF LoadKind
<1> HIDE DEF live
<1>4. ASSUME s \in [1..Cardinality(live) -> live] PROVE s \in Seq(Items)
  <2>1. s \in [1..Cardinality(live) -> Items]
    BY <1>1, <1>4
  <2> QED
    BY <1>2, <2>1, SeqDef
<1>5. << >> \in Seq(Items)
  BY EmptySeq
<1> QED
  BY Zenon, <1>3, <1>4, <1>5

\* Reload appends keyed entries and cuts the surplus off the head.
LEMMA ReloadType ==
  ASSUME TypeOK, NEW loaded \in [Kinds -> Seq(Items)], Reload(loaded)
  PROVE  /\ PersistTypeOK' /\ QueueBound'
         /\ queue' \in [Kinds -> Seq(Entries)] /\ stats' \in [Kinds -> Counters]
         /\ shed' \subseteq Items /\ reloadEvicted' \in [Kinds -> Nat]
         /\ \A k \in Kinds : ItemsOf(queue[k]) \subseteq ItemsOf(queue'[k]) \union shed'
         /\ shed \subseteq shed'
<1> DEFINE keyedOf(k) == [n \in 1..Len(loaded[k]) |-> [item |-> loaded[k][n], keyed |-> TRUE]]
           merged == [k \in Kinds |-> queue[k] \o keyedOf(k)]
           over == [k \in Kinds |-> IF Len(merged[k]) > BufferSize
                                    THEN Len(merged[k]) - BufferSize ELSE 0]
           head == [k \in Kinds |-> SubSeq(merged[k], 1, over[k])]
           rest == [k \in Kinds |-> SubSeq(merged[k], over[k] + 1, Len(merged[k]))]
<1>1. BufferSize \in Nat
  BY AgentAssumption
<1>2. ASSUME NEW k \in Kinds
      PROVE  /\ keyedOf(k) \in Seq(Entries) /\ queue[k] \in Seq(Entries)
             /\ Len(loaded[k]) \in Nat
  <2>1. queue[k] \in Seq(Entries) /\ Len(loaded[k]) \in Nat
    BY LenProperties DEF TypeOK, FieldTypeOK
  <2>2. \A n \in 1..Len(loaded[k]) : [item |-> loaded[k][n], keyed |-> TRUE] \in Entries
    BY ElementOfSeq DEF Entries
  <2> QED
    BY <2>1, <2>2
<1>3. ASSUME NEW k \in Kinds
      PROVE  /\ merged[k] \in Seq(Entries) /\ Len(merged[k]) \in Nat
             /\ ItemsOf(queue[k]) \subseteq ItemsOf(merged[k])
  <2>1. merged[k] = queue[k] \o keyedOf(k)
    OBVIOUS
  <2> HIDE DEF merged, keyedOf
  <2>2. merged[k] \in Seq(Entries)
    BY <1>2, <2>1, ConcatProperties
  <2>3. Len(merged[k]) \in Nat
    BY <2>2, LenProperties
  <2>4. ItemsOf(queue[k]) \subseteq ItemsOf(merged[k])
    BY <1>2, <2>1, ItemsOfConcat
  <2> QED
    BY <2>2, <2>3, <2>4
<1>4. ASSUME NEW k \in Kinds
      PROVE  over[k] \in 0..Len(merged[k]) /\ Len(merged[k]) - over[k] <= BufferSize
  <2>1. over[k] = IF Len(merged[k]) > BufferSize THEN Len(merged[k]) - BufferSize ELSE 0
    OBVIOUS
  <2>2. Len(merged[k]) \in Nat
    BY <1>3
  <2> HIDE DEF merged, over
  <2> QED
    BY <1>1, <2>1, <2>2
<1>5. /\ queue' = rest
      /\ stats' = [k \in Kinds |-> [stats[k] EXCEPT !.buffered = @ + Len(loaded[k])]]
      /\ reloadEvicted' = [k \in Kinds |-> reloadEvicted[k] + over[k]]
      /\ shed' = shed \union UNION {ItemsOf(head[k]) : k \in Kinds}
      /\ \E gone : Del(gone, TRUE)
  BY DEF Reload
<1> HIDE DEF merged, over
<1>6. ASSUME NEW k \in Kinds
      PROVE  /\ head[k] \in Seq(Entries) /\ rest[k] \in Seq(Entries)
             /\ Len(rest[k]) <= BufferSize
             /\ ItemsOf(merged[k]) = ItemsOf(head[k]) \union ItemsOf(rest[k])
  BY <1>3, <1>4, ItemsOfSplit
<1> HIDE DEF head, rest
<1>7. PersistTypeOK'
  BY <1>5, DelType DEF TypeOK
<1>8. QueueBound' /\ queue' \in [Kinds -> Seq(Entries)]
  <2>1. rest = [k \in Kinds |-> rest[k]]
    BY DEF rest
  <2> QED
    BY <1>5, <1>6, <2>1 DEF QueueBound
<1>9. stats' \in [Kinds -> Counters]
  BY <1>2, <1>5, CountersType DEF TypeOK, FieldTypeOK
<1>10. reloadEvicted' \in [Kinds -> Nat]
  BY <1>3, <1>4, <1>5 DEF TypeOK, HistoryTypeOK
<1>11. shed' \subseteq Items
  BY <1>5, <1>6, ItemsOfType DEF TypeOK, HistoryTypeOK
<1>12. /\ \A k \in Kinds : ItemsOf(queue[k]) \subseteq ItemsOf(queue'[k]) \union shed'
       /\ shed \subseteq shed'
  <2>1. shed \subseteq shed'
    BY <1>5
  <2>2. ASSUME NEW k \in Kinds
        PROVE  ItemsOf(queue[k]) \subseteq ItemsOf(queue'[k]) \union shed'
    <3>1. queue'[k] = rest[k] /\ ItemsOf(head[k]) \subseteq shed'
      BY <1>5
    <3> QED
      BY <1>3, <1>6, <3>1
  <2> QED
    BY <2>1, <2>2
<1> QED
  BY <1>7, <1>8, <1>9, <1>10, <1>11, <1>12

\* Every step keeps the types, the caller's item and the cap.
LEMMA CoreNext == CoreInv /\ [Next]_vars => CoreInv'
<1> SUFFICES ASSUME CoreInv, [Next]_vars PROVE CoreInv'
  OBVIOUS
<1> USE DEF CoreInv, TypeOK, HasItem, QueueBound
<1> USE DEF PersistTypeOK, FieldTypeOK, ProducerTypeOK, FlusherTypeOK, HistoryTypeOK
<1> USE DEF fieldVars, lifeVars, wakeVars, prodVars, flushVars, envVars, histVars, persistVars
<1>1. ASSUME NEW p \in Producers, NEW i \in Items, Send(p, i) PROVE CoreInv'
  <2>1. ProducerTypeOK' /\ HasItem' /\ HistoryTypeOK'
    <3>1. CASE ~closed /\ KindOf[i] \in Enabled
      <4>1. /\ ppc' = [ppc EXCEPT ![p] = "enqueue"] /\ pitem' = [pitem EXCEPT ![p] = i]
            /\ result' = [result EXCEPT ![i] = "pending"]
            /\ UNCHANGED <<pevicted, pwake, envVars, histVars>>
        BY <1>1, <3>1 DEF Send
      <4> QED
        BY <4>1 DEF Results
    <3>2. CASE ~(~closed /\ KindOf[i] \in Enabled)
      BY <1>1, <3>2 DEF Send, Results
    <3> QED
      BY <3>1, <3>2
  <2> QED
    BY <1>1, <2>1 DEF Send
<1>2. ASSUME NEW p \in Producers, EnqueueRaise(p) PROVE CoreInv'
  BY <1>2 DEF EnqueueRaise, Return, Results
<1>3. ASSUME NEW p \in Producers, EnqueueBlock(p) PROVE CoreInv'
  BY <1>3 DEF EnqueueBlock
<1>4. ASSUME NEW p \in Producers, Unblock(p) PROVE CoreInv'
  BY <1>4 DEF Unblock
<1>5. ASSUME NEW p \in Producers, CtxDone(p) PROVE CoreInv'
  BY <1>5 DEF CtxDone, Return, Results
<1>6. ASSUME NEW p \in Producers, Finish(p) PROVE CoreInv'
  <2>1. PersistTypeOK' /\ confirmCh' \in Seq(SUBSET Items)
    BY <1>6, ConfirmKeysType DEF Finish
  <2> QED
    BY <1>6, <2>1 DEF Finish, Return, Results
<1>7. ASSUME NEW f \in Flushers, NEW a \in Places, NEW b \in Places, Move(f, a, b)
      PROVE  CoreInv'
  BY <1>7 DEF Move, Goto
<1>8. ASSUME NEW f \in Flushers, TakeWake(f) PROVE CoreInv'
  BY <1>8 DEF TakeWake, Goto, Places
<1>9. ASSUME NEW f \in Flushers, Skip(f) PROVE CoreInv'
  BY <1>9 DEF Skip, NextKind, AfterKind, Goto, Places, Outcomes, Kinds
<1>10. ASSUME NEW f \in Flushers, Drain(f) PROVE CoreInv'
  <2>1. stats' \in [Kinds -> Counters]
    BY <1>10, LenProperties, CountersType DEF Drain
  <2>2. QueueBound' /\ queue' \in [Kinds -> Seq(Entries)]
    BY <1>10, AgentAssumption DEF Drain
  <2>3. everFlushed' \in BOOLEAN /\ flushSignal' \in BOOLEAN
    BY Zenon, <1>10 DEF Drain
  <2>4. FlusherTypeOK'
    BY <1>10 DEF Drain, Goto, Places
  <2> QED
    BY <1>10, <2>1, <2>2, <2>3, <2>4 DEF Drain
<1>11. ASSUME NEW f \in Flushers, NEW o \in Outcomes, SendDefinitive(f, o) PROVE CoreInv'
  BY <1>11, ItemsOfType DEF SendDefinitive, Goto, Places
<1>12. ASSUME NEW f \in Flushers, SendFails(f) PROVE CoreInv'
  <2>1. FlusherTypeOK'
    BY <1>12 DEF SendFails, Goto, Places, Outcomes
  <2>2. failures' \in Nat
    BY <1>12, AgentAssumption DEF SendFails
  <2>3. stopFailed' \in BOOLEAN
    BY Zenon, <1>12 DEF SendFails
  <2> QED
    BY <1>12, <2>1, <2>2, <2>3 DEF SendFails
<1>13. ASSUME NEW f \in Flushers, SettleConfirm(f) PROVE CoreInv'
  <2>1. PersistTypeOK' /\ confirmCh' \in Seq(SUBSET Items)
    <3>1. KeysOf(batch[f]) \in SUBSET Items
      BY ItemsOfType
    <3> QED
      BY <1>13, <3>1, ConfirmKeysType DEF SettleConfirm
  <2>2. FlusherTypeOK'
    BY <1>13 DEF SettleConfirm, Goto, Places
  <2> QED
    BY <1>13, <2>1, <2>2 DEF SettleConfirm
<1>14. ASSUME NEW f \in Flushers, SettleCount(f) PROVE CoreInv'
  <2>1. stats' \in [Kinds -> Counters]
    BY <1>14, LenProperties, CountersType DEF SettleCount
  <2>2. streak' \in [Kinds -> Nat] /\ gate' \in [Kinds -> BOOLEAN]
    <3>1. CASE outcome[f] = "accepted"
      <4>1. /\ kind[f] \in Kinds
            /\ streak' = [streak EXCEPT ![kind[f]] = 0]
            /\ gate' = [gate EXCEPT ![kind[f]] = FALSE]
        BY <1>14, <3>1 DEF SettleCount
      <4> QED
        BY <4>1
    <3>2. CASE outcome[f] # "accepted"
      BY <1>14, <3>2 DEF SettleCount
    <3> QED
      BY <3>1, <3>2
  <2>3. FlusherTypeOK'
    BY <1>14 DEF SettleCount, NextKind, AfterKind, Goto, Places, Outcomes, Kinds
  <2> QED
    BY <1>14, <2>1, <2>2, <2>3 DEF SettleCount
<1>15. ASSUME NEW f \in Flushers, SettleFail(f) PROVE CoreInv'
  <2>1. stats' \in [Kinds -> Counters]
    BY <1>15, LenProperties, CountersType DEF SettleFail
  <2> QED
    BY <1>15, <2>1 DEF SettleFail, Goto, Places
<1>16. ASSUME NEW f \in Flushers, Requeue(f) PROVE CoreInv'
  <2> DEFINE merged == batch[f] \o queue[kind[f]]
  <2>1. merged \in Seq(Entries)
    BY ConcatProperties
  <2>2. /\ Kept(merged) \in Seq(Entries) /\ Evicted(merged) \in Seq(Entries)
        /\ Len(Kept(merged)) <= BufferSize
    BY <2>1, CapProperties
  <2>3. stats' \in [Kinds -> Counters]
    BY <1>16, <2>2, LenProperties, CountersType DEF Requeue
  <2>4. QueueBound' /\ queue' \in [Kinds -> Seq(Entries)]
    BY <1>16, <2>2 DEF Requeue
  <2>5. shed' \subseteq Items
    BY <1>16, <2>2, ItemsOfType DEF Requeue
  <2>6. flushSignal' \in BOOLEAN
    BY Zenon, <1>16 DEF Requeue
  <2>7. FlusherTypeOK'
    BY <1>16, <2>2 DEF Requeue, Goto, Places
  <2> QED
    BY <1>16, <2>3, <2>4, <2>5, <2>6, <2>7 DEF Requeue
<1>17. ASSUME NEW f \in Flushers, ConfirmOrphans(f) PROVE CoreInv'
  <2>1. PersistTypeOK' /\ confirmCh' \in Seq(SUBSET Items)
    <3>1. KeysOf(batch[f]) \in SUBSET Items
      BY ItemsOfType
    <3> QED
      BY <1>17, <3>1, ConfirmKeysType DEF ConfirmOrphans
  <2>2. pc' \in [Flushers -> Places] /\ kind' \in [Flushers -> Kinds]
    BY <1>17 DEF ConfirmOrphans, NextKind, AfterKind, Goto, Places, Kinds
  <2>3. batch' \in [Flushers -> Seq(Entries)] /\ outcome' \in [Flushers -> Outcomes]
    BY <1>17 DEF ConfirmOrphans, NextKind, Outcomes
  <2> QED
    BY <1>17, <2>1, <2>2, <2>3 DEF ConfirmOrphans
<1>18. ASSUME NEW k \in Kinds, GateOpens(k) PROVE CoreInv'
  BY <1>18 DEF GateOpens
<1>19. CASE StopBegin
  BY <1>19 DEF StopBegin, Goto, Places, Flushers
<1>20. CASE ConfirmWorker
  <2>1. confirmCh' \in Seq(SUBSET Items)
    BY <1>20, HeadTailProperties DEF ConfirmWorker
  <2>2. PersistTypeOK'
    BY <1>20, DelType DEF ConfirmWorker
  <2> QED
    BY <1>20, <2>1, <2>2 DEF ConfirmWorker
<1>21. CASE RedisStep
  BY <1>21 DEF RedisStep, CooldownEnds, Expire
<1>22. CASE Crash
  <2>1. PersistTypeOK'
    <3>1. cooldown' \in BOOLEAN
      BY Zenon, <1>22 DEF Crash
    <3> QED
      BY <1>22, <3>1, PersistenceAssumption DEF Crash
  <2>2. FieldTypeOK'
    <3>1. /\ everFlushed' \in BOOLEAN /\ started' \in BOOLEAN /\ closed' \in BOOLEAN
          /\ flushWake' \in BOOLEAN /\ flushSignal' \in BOOLEAN
      BY Zenon, <1>22 DEF Crash
    <3>2. confirmCh' \in Seq(SUBSET Items) /\ queue' \in [Kinds -> Seq(Entries)]
      BY <1>22 DEF Crash
    <3>3. /\ stats' \in [Kinds -> Counters] /\ streak' \in [Kinds -> Nat]
          /\ gate' \in [Kinds -> BOOLEAN]
      BY <1>22 DEF Crash, NoStats, Counters
    <3> QED
      BY <3>1, <3>2, <3>3
  <2>3. ProducerTypeOK' /\ HasItem'
    BY <1>22 DEF Crash
  <2>4. FlusherTypeOK'
    BY <1>22 DEF Crash, Kinds, Outcomes, Places
  <2>5. HistoryTypeOK'
    <3>1. stopFailed' \in BOOLEAN
      BY Zenon, <1>22 DEF Crash
    <3> QED
      BY <1>22, <3>1 DEF Crash, Results
  <2>6. QueueBound'
    BY <1>22, AgentAssumption DEF Crash
  <2> QED
    BY <2>1, <2>2, <2>3, <2>4, <2>5, <2>6
<1>23. CASE Start
  <2>1. started' \in BOOLEAN
    BY Zenon, <1>23 DEF Start
  <2>2. CASE ~Durable
    BY <1>23, <2>1, <2>2 DEF Start
  <2>3. CASE Durable
    <3>1. PICK le \in LoadKind("event"), lm \in LoadKind("metric") :
            Reload([k \in Kinds |-> IF k = "event" THEN le ELSE lm])
      BY <1>23, <2>3 DEF Start
    <3> DEFINE loaded == [k \in Kinds |-> IF k = "event" THEN le ELSE lm]
    <3>2. loaded \in [Kinds -> Seq(Items)]
      BY LoadKindType DEF Kinds
    <3>3. PersistTypeOK' /\ QueueBound' /\ queue' \in [Kinds -> Seq(Entries)]
          /\ stats' \in [Kinds -> Counters] /\ shed' \subseteq Items
          /\ reloadEvicted' \in [Kinds -> Nat]
      BY <3>1, <3>2, ReloadType
    <3> QED
      BY <1>23, <2>1, <3>3 DEF Start
  <2> QED
    BY <2>2, <2>3
<1>24. ASSUME NEW p \in Producers, NEW n \in {0, 1}, AppendLocked(p, n),
             ppc[p] = "enqueue", n <= Len(queue[KindOf[pitem[p]]]),
             Len(queue[KindOf[pitem[p]]]) - n < BufferSize
      PROVE  CoreInv'
  <2> DEFINE i == pitem[p]
             k == KindOf[i]
             head == SubSeq(queue[k], 1, n)
             rest == SubSeq(queue[k], n + 1, Len(queue[k]))
  <2>1. i \in Items /\ k \in Kinds /\ queue[k] \in Seq(Entries)
    BY <1>24, ItemsAssumption
  <2>2. Len(queue[k]) \in Nat /\ n \in 0..Len(queue[k])
    BY <1>24, <2>1, LenProperties
  <2>3. /\ head \in Seq(Entries) /\ rest \in Seq(Entries)
        /\ Len(rest) = Len(queue[k]) - n
    BY <2>1, <2>2, ItemsOfSplit
  <2>4. PICK keyed \in BOOLEAN :
          /\ ReserveKey(i, keyed)
          /\ queue' = [queue EXCEPT ![k] = Append(rest, [item |-> i, keyed |-> keyed])]
          /\ stats' = [stats EXCEPT ![k].buffered = @ + 1, ![k].dropped = @ + n]
          /\ shed' = shed \union ItemsOf(head)
          /\ pevicted' = [pevicted EXCEPT ![p] = KeysOf(head)]
    BY <1>24 DEF AppendLocked
  <2>5. [item |-> i, keyed |-> keyed] \in Entries
    BY <2>1 DEF Entries
  <2>6. PersistTypeOK'
    BY <2>1, <2>4, StoreType DEF ReserveKey
  <2>7. QueueBound' /\ queue' \in [Kinds -> Seq(Entries)]
    <3> DEFINE new == Append(rest, [item |-> i, keyed |-> keyed])
    <3>1. new \in Seq(Entries) /\ Len(new) = Len(queue[k]) - n + 1
      BY <2>3, <2>5, ItemsOfAppend
    <3>2. Len(new) <= BufferSize
      BY <1>24, <2>2, <3>1, AgentAssumption
    <3>3. queue' = [queue EXCEPT ![k] = new]
      BY <2>4
    <3> HIDE DEF new, k
    <3> QED
      BY <3>1, <3>2, <3>3
  <2>8. stats' \in [Kinds -> Counters]
    <3>1. stats[k] \in Counters
      BY <2>1
    <3>2. [stats[k] EXCEPT !.buffered = @ + 1, !.dropped = @ + n] \in Counters
      BY <3>1, CountersType
    <3> HIDE DEF k, head, rest
    <3> QED
      BY <2>4, <3>2
  <2>9. shed' \subseteq Items /\ pevicted' \in [Producers -> SUBSET Items]
    <3>1. ItemsOf(head) \subseteq Items /\ KeysOf(head) \subseteq Items
      BY <2>3, ItemsOfType
    <3> HIDE DEF head
    <3> QED
      BY <2>4, <3>1
  <2>10. pwake' \in [Producers -> BOOLEAN]
    BY <1>24 DEF AppendLocked
  <2>11. ppc' \in [Producers -> {"idle", "enqueue", "blocked", "finish"}] /\ HasItem'
    BY <1>24 DEF AppendLocked
  <2>12. UNCHANGED <<streak, gate, everFlushed, lifeVars, wakeVars, confirmCh, pitem, flushVars,
                     envVars, result, confirmed, reloadEvicted, ackedAtStop, stopFailed>>
    BY <1>24 DEF AppendLocked
  <2> HIDE DEF i, k, head, rest
  <2> QED
    BY <2>6, <2>7, <2>8, <2>9, <2>10, <2>11, <2>12
<1>25. CASE UNCHANGED vars
  BY <1>25 DEF vars
<1>26. ASSUME NEW p \in Producers, EnqueueRoom(p) \/ EnqueueDrop(p)
       PROVE  \E n \in {0, 1} : /\ AppendLocked(p, n) /\ ppc[p] = "enqueue"
                                /\ n <= Len(queue[KindOf[pitem[p]]])
                                /\ Len(queue[KindOf[pitem[p]]]) - n < BufferSize
  <2>1. /\ Len(queue[KindOf[pitem[p]]]) \in Nat /\ BufferSize \in Nat \ {0}
        /\ Len(queue[KindOf[pitem[p]]]) <= BufferSize
    BY <1>26, ItemsAssumption, AgentAssumption, LenProperties DEF EnqueueRoom, EnqueueDrop
  <2>2. CASE EnqueueRoom(p)
    BY <2>1, <2>2 DEF EnqueueRoom, Full
  <2>3. CASE EnqueueDrop(p)
    BY <2>1, <2>3 DEF EnqueueDrop, Full
  <2> QED
    BY <1>26, <2>2, <2>3
<1> HIDE DEF CoreInv, TypeOK, HasItem, QueueBound
<1>27. ASSUME NEW p \in Producers,
              ProducerStep(p) \/ CtxDone(p) \/ \E i \in Items : Send(p, i)
       PROVE  CoreInv'
  BY <1>1, <1>2, <1>3, <1>4, <1>5, <1>6, <1>24, <1>26, <1>27 DEF ProducerStep
<1>28. ASSUME NEW f \in Flushers, FlushStep(f) \/ TakeWake(f) \/ HostFlush(f) \/ LoopExit(f)
       PROVE  CoreInv'
  BY <1>7, <1>8, <1>9, <1>10, <1>11, <1>12, <1>13, <1>14, <1>15, <1>16, <1>17, <1>28
     DEF FlushStep, FlushIfNeeded, FlushGuard, HostFlush, LoopExit, Places
<1>29. CASE Tick \/ StopStep
  <2>1. AutoLoop \in Flushers /\ Stopper \in Flushers
    BY DEF Flushers, Loops
  <2> QED
    BY <1>7, <1>29, <2>1 DEF Tick, StopStep, StopWait, StopClose, StopJoin, Places
<1> QED
  BY <1>18, <1>19, <1>20, <1>21, <1>22, <1>23, <1>25, <1>27, <1>28, <1>29 DEF Next

\* The core invariant holds in every reachable state.
THEOREM CoreInvariant == Spec => []CoreInv
  BY CoreInit, CoreNext, PTL DEF Spec

-----------------------------------------------------------------------------
\* Where an item may be once its call has been acknowledged.
Accounted == InMemory \union confirmed \union shed

\* A batch that is being confirmed or counted has its definitive answer.
Settled ==
  \A f \in Flushers : pc[f] \in {"confirm", "count"} => ItemsOf(batch[f]) \subseteq confirmed

\* The call for i has returned nil, or has appended its item and is about to.
Acked(i) == result[i] = "ok" \/ \E p \in Producers : ppc[p] = "finish" /\ pitem[p] = i

LossInv ==
  /\ CoreInv
  /\ Settled
  /\ crashes = 0 => \A i \in Items : Acked(i) => i \in Accounted

\* A step of a flusher moves items between the queue, its batch, and the server's
\* or the buffer's verdict, and loses none.
LEMMA FlusherKeeps ==
  ASSUME CoreInv, Settled, NEW f \in Flushers,
         \/ FlushStep(f) \/ TakeWake(f)
         \/ \E a, b \in Places \ Holding : Move(f, a, b)
  PROVE  Accounted \subseteq Accounted' /\ Settled'
<1> USE DEF CoreInv, TypeOK, FieldTypeOK, FlusherTypeOK, Settled
<1> USE DEF fieldVars, lifeVars, wakeVars, prodVars, flushVars, envVars, histVars
<1> USE DEF Goto, Holding
<1>a. ASSUME confirmed \subseteq confirmed', shed \subseteq shed',
             \A k \in Kinds : ItemsOf(queue[k]) \subseteq Accounted',
             \A g \in Flushers : pc[g] \in Holding => ItemsOf(batch[g]) \subseteq Accounted'
      PROVE  Accounted \subseteq Accounted'
  <2> SUFFICES ASSUME NEW x, x \in InMemory PROVE x \in Accounted'
    BY <1>a DEF Accounted
  <2>1. \/ \E k \in Kinds : x \in ItemsOf(queue[k])
        \/ \E g \in Flushers : pc[g] \in Holding /\ x \in ItemsOf(batch[g])
    BY Zenon DEF InMemory
  <2> QED
    BY Zenon, <1>a, <2>1
<1>b. /\ \A k \in Kinds : ItemsOf(queue'[k]) \subseteq Accounted'
      /\ \A g \in Flushers : pc'[g] \in Holding => ItemsOf(batch'[g]) \subseteq Accounted'
      /\ confirmed' \subseteq Accounted' /\ shed' \subseteq Accounted'
  <2>1. \A k \in Kinds : ItemsOf(queue'[k]) \subseteq InMemory'
    BY Zenon DEF InMemory
  <2>2. \A g \in Flushers : pc'[g] \in Holding => ItemsOf(batch'[g]) \subseteq InMemory'
    BY Zenon DEF InMemory
  <2> QED
    BY Zenon, <2>1, <2>2 DEF Accounted
<1>c. ASSUME NextKind(f)
      PROVE  /\ \A g \in Flushers \ {f} : pc'[g] = pc[g] /\ batch'[g] = batch[g]
             /\ pc'[f] \in {"drain", "close", "idle"}
  BY <1>c DEF NextKind, AfterKind
<1>1. ASSUME NEW a \in Places \ Holding, NEW b \in Places \ Holding, Move(f, a, b)
      PROVE  Accounted \subseteq Accounted' /\ Settled'
  BY <1>1 DEF Move, Accounted, InMemory, Places
<1>2. ASSUME TakeWake(f) PROVE Accounted \subseteq Accounted' /\ Settled'
  BY <1>2 DEF TakeWake, Accounted, InMemory
<1>3. ASSUME Skip(f) PROVE Accounted \subseteq Accounted' /\ Settled'
  BY <1>3, <1>a, <1>b, <1>c DEF Skip
<1>4. ASSUME Drain(f) PROVE Accounted \subseteq Accounted' /\ Settled'
  <2>1. /\ pc' = [pc EXCEPT ![f] = "send"] /\ batch' = [batch EXCEPT ![f] = queue[kind[f]]]
        /\ queue' = [queue EXCEPT ![kind[f]] = <<>>] /\ pc[f] = "drain"
        /\ confirmed' = confirmed /\ shed' = shed
    BY <1>4 DEF Drain
  <2>2. ItemsOf(queue[kind[f]]) \subseteq Accounted'
    <3>1. pc'[f] = "send" /\ batch'[f] = queue[kind[f]]
      BY <2>1
    <3> QED
      BY <1>b, <3>1
  <2>3. ASSUME NEW k \in Kinds PROVE ItemsOf(queue[k]) \subseteq Accounted'
    <3>1. k = kind[f] \/ queue'[k] = queue[k]
      BY <2>1
    <3> QED
      BY <1>b, <2>2, <3>1
  <2>4. ASSUME NEW g \in Flushers, pc[g] \in Holding
        PROVE  ItemsOf(batch[g]) \subseteq Accounted'
    <3>1. pc'[g] = pc[g] /\ batch'[g] = batch[g]
      BY <2>1, <2>4
    <3> QED
      BY <1>b, <2>4, <3>1
  <2> QED
    BY <1>a, <2>1, <2>3, <2>4
<1>5. ASSUME NEW o \in Outcomes, SendDefinitive(f, o)
      PROVE  Accounted \subseteq Accounted' /\ Settled'
  BY <1>5 DEF SendDefinitive, Accounted, InMemory
<1>6. ASSUME SendFails(f) PROVE Accounted \subseteq Accounted' /\ Settled'
  BY <1>6 DEF SendFails, Accounted, InMemory
<1>7. ASSUME SettleConfirm(f) PROVE Accounted \subseteq Accounted' /\ Settled'
  BY <1>7 DEF SettleConfirm, Accounted, InMemory
<1>8. ASSUME SettleCount(f) PROVE Accounted \subseteq Accounted' /\ Settled'
  BY <1>8, <1>a, <1>b, <1>c DEF SettleCount
<1>9. ASSUME SettleFail(f) PROVE Accounted \subseteq Accounted' /\ Settled'
  BY <1>9 DEF SettleFail, Accounted, InMemory
<1>10. ASSUME Requeue(f) PROVE Accounted \subseteq Accounted' /\ Settled'
  <2> DEFINE merged == batch[f] \o queue[kind[f]]
  <2>1. merged \in Seq(Entries)
        /\ ItemsOf(merged) = ItemsOf(batch[f]) \union ItemsOf(queue[kind[f]])
    BY ConcatProperties, ItemsOfConcat
  <2>2. ItemsOf(merged) = ItemsOf(Kept(merged)) \union ItemsOf(Evicted(merged))
    BY <2>1, CapProperties
  <2> QED
    <3>1. /\ pc' = [pc EXCEPT ![f] = "orphans"] /\ pc[f] = "requeue"
          /\ batch' = [batch EXCEPT ![f] = Evicted(merged)]
          /\ queue' = [queue EXCEPT ![kind[f]] = Kept(merged)]
          /\ confirmed' = confirmed /\ shed' = shed \union ItemsOf(Evicted(merged))
      BY <1>10 DEF Requeue
    <3> HIDE DEF merged
    <3>2. ItemsOf(merged) \subseteq Accounted'
      <4>1. kind[f] \in Kinds /\ queue'[kind[f]] = Kept(merged)
        BY <3>1
      <4>2. ItemsOf(Kept(merged)) \subseteq Accounted'
        BY <1>b, <4>1
      <4>3. ItemsOf(Evicted(merged)) \subseteq Accounted'
        BY <1>b, <3>1
      <4> QED
        BY <2>2, <4>2, <4>3
    <3>3. ASSUME NEW k \in Kinds PROVE ItemsOf(queue[k]) \subseteq Accounted'
      <4>1. k = kind[f] \/ queue'[k] = queue[k]
        BY <3>1
      <4> QED
        BY <1>b, <2>1, <3>2, <4>1
    <3>4. ASSUME NEW g \in Flushers, pc[g] \in Holding
          PROVE  ItemsOf(batch[g]) \subseteq Accounted'
      <4>1. CASE g = f
        BY <2>1, <3>2, <4>1
      <4>2. CASE g # f
        <5>1. pc'[g] = pc[g] /\ batch'[g] = batch[g]
          BY <3>1, <4>2
        <5> QED
          BY <1>b, <3>4, <5>1
      <4> QED
        BY <4>1, <4>2
    <3> QED
      BY <1>a, <3>1, <3>3, <3>4
<1>11. ASSUME ConfirmOrphans(f) PROVE Accounted \subseteq Accounted' /\ Settled'
  BY <1>11, <1>a, <1>b, <1>c DEF ConfirmOrphans
<1> QED
  BY <1>1, <1>2, <1>3, <1>4, <1>5, <1>6, <1>7, <1>8, <1>9, <1>10, <1>11
     DEF FlushStep, FlushIfNeeded, FlushGuard, Places, Holding

\* Appending an item accounts for it; the entry it pushes out is counted as shed.
LEMMA AppendKeeps ==
  ASSUME CoreInv, Settled, NEW p \in Producers, EnqueueRoom(p) \/ EnqueueDrop(p)
  PROVE  /\ Accounted \subseteq Accounted' /\ Settled'
         /\ pitem[p] \in Accounted'
         /\ ppc' = [ppc EXCEPT ![p] = "finish"] /\ pitem' = pitem /\ result' = result
<1> DEFINE i == pitem[p]
           k == KindOf[i]
<1>1. /\ i \in Items /\ k \in Kinds /\ queue[k] \in Seq(Entries)
      /\ Len(queue[k]) \in Nat /\ BufferSize \in Nat \ {0}
  BY ItemsAssumption, AgentAssumption, LenProperties
     DEF CoreInv, TypeOK, FieldTypeOK, HasItem, EnqueueRoom, EnqueueDrop
<1>2. PICK n \in {0, 1} : AppendLocked(p, n) /\ n \in 0..Len(queue[k])
  <2>1. CASE EnqueueRoom(p)
    BY <1>1, <2>1 DEF EnqueueRoom
  <2>2. CASE EnqueueDrop(p)
    BY <1>1, <2>2 DEF EnqueueDrop, Full
  <2> QED
    BY <2>1, <2>2
<1> DEFINE head == SubSeq(queue[k], 1, n)
           rest == SubSeq(queue[k], n + 1, Len(queue[k]))
<1>3. /\ rest \in Seq(Entries)
      /\ ItemsOf(queue[k]) = ItemsOf(head) \union ItemsOf(rest)
  BY <1>1, <1>2, ItemsOfSplit
<1>4. PICK keyed \in BOOLEAN :
        /\ queue' = [queue EXCEPT ![k] = Append(rest, [item |-> i, keyed |-> keyed])]
        /\ shed' = shed \union ItemsOf(head)
        /\ pc' = pc /\ batch' = batch /\ confirmed' = confirmed
  BY <1>2 DEF AppendLocked, flushVars
<1> DEFINE new == Append(rest, [item |-> i, keyed |-> keyed])
<1>5. ItemsOf(new) = ItemsOf(rest) \union {i}
  <2>1. [item |-> i, keyed |-> keyed] \in Entries
    BY <1>1 DEF Entries
  <2> QED
    BY <1>3, <2>1, ItemsOfAppend
<1>6. queue' = [queue EXCEPT ![k] = new]
  BY <1>4
<1>7. queue'[k] = new /\ \A l \in Kinds \ {k} : queue'[l] = queue[l]
  BY <1>1, <1>6 DEF CoreInv, TypeOK, FieldTypeOK
<1> HIDE DEF new, head, rest, k, i
<1>8. \A l \in Kinds : ItemsOf(queue[l]) \subseteq ItemsOf(queue'[l]) \union shed'
  BY <1>3, <1>4, <1>5, <1>7
<1>9. Accounted \subseteq Accounted'
  BY <1>4, <1>8 DEF Accounted, InMemory
<1>10. i \in Accounted'
  BY <1>1, <1>5, <1>7 DEF Accounted, InMemory
<1>11. Settled'
  BY <1>4 DEF Settled
<1> QED
  BY <1>2, <1>9, <1>10, <1>11 DEF AppendLocked, i

\* A flusher leaves the calls and their results alone.
LEMMA FlusherFrame ==
  ASSUME NEW f \in Flushers,
         \/ FlushStep(f) \/ TakeWake(f)
         \/ \E a, b \in Places \ Holding : Move(f, a, b)
  PROVE  UNCHANGED <<ppc, pitem, result, crashes>>
<1> USE DEF prodVars, envVars
<1>1. CASE FlushIfNeeded(f) \/ FlushGuard(f) \/ TakeWake(f)
           \/ \E a, b \in Places \ Holding : Move(f, a, b)
  BY <1>1 DEF FlushIfNeeded, FlushGuard, TakeWake, Move
<1>2. CASE Skip(f) \/ Drain(f) \/ SendFails(f) \/ \E o \in Outcomes : SendDefinitive(f, o)
  BY <1>2 DEF Skip, Drain, SendFails, SendDefinitive
<1>3. CASE SettleConfirm(f) \/ SettleCount(f) \/ SettleFail(f)
  BY <1>3 DEF SettleConfirm, SettleCount, SettleFail
<1>4. CASE Requeue(f) \/ ConfirmOrphans(f)
  BY <1>4 DEF Requeue, ConfirmOrphans
<1> QED
  BY <1>1, <1>2, <1>3, <1>4 DEF FlushStep

\* No step but a crash forgets an acknowledged item.
LEMMA LossNext == LossInv /\ [Next]_vars => LossInv'
<1> SUFFICES ASSUME LossInv, [Next]_vars PROVE LossInv'
  OBVIOUS
<1>1. CoreInv /\ Settled /\ CoreInv'
  BY CoreNext DEF LossInv
<1> USE DEF fieldVars, lifeVars, wakeVars, prodVars, flushVars, envVars, histVars, persistVars
<1>2. ASSUME Accounted \subseteq Accounted', Settled', crashes' = crashes,
             \A i \in Items : Acked(i)' => Acked(i) \/ i \in Accounted'
      PROVE  LossInv'
  BY <1>1, <1>2 DEF LossInv
<1>3. ASSUME UNCHANGED <<queue, batch, pc, confirmed, shed>>
      PROVE  Accounted' = Accounted /\ Settled'
  BY <1>1, <1>3 DEF Accounted, InMemory, Settled
<1>4. ASSUME UNCHANGED <<ppc, pitem, result>>
      PROVE  \A i \in Items : Acked(i)' => Acked(i)
  BY <1>4 DEF Acked
<1>5. ASSUME NEW f \in Flushers,
             \/ FlushStep(f) \/ TakeWake(f)
             \/ \E a, b \in Places \ Holding : Move(f, a, b)
      PROVE  LossInv'
  <2>1. Accounted \subseteq Accounted' /\ Settled'
    BY <1>1, <1>5, FlusherKeeps
  <2>2. UNCHANGED <<ppc, pitem, result, crashes>>
    BY <1>5, FlusherFrame
  <2> QED
    BY <1>2, <1>4, <2>1, <2>2
<1>6. ASSUME NEW f \in Flushers, HostFlush(f) \/ LoopExit(f) PROVE LossInv'
  BY <1>5, <1>6 DEF HostFlush, LoopExit, Places, Holding
<1>7. CASE Tick \/ StopStep
  <2>1. AutoLoop \in Flushers /\ Stopper \in Flushers
    BY DEF Flushers, Loops
  <2> QED
    BY <1>5, <1>7, <2>1 DEF Tick, StopStep, StopWait, StopClose, StopJoin, Places, Holding
<1>8. ASSUME NEW p \in Producers, EnqueueRoom(p) \/ EnqueueDrop(p) PROVE LossInv'
  <2>1. /\ Accounted \subseteq Accounted' /\ Settled' /\ pitem[p] \in Accounted'
        /\ ppc' = [ppc EXCEPT ![p] = "finish"] /\ pitem' = pitem /\ result' = result
    BY <1>1, <1>8, AppendKeeps
  <2>2. crashes' = crashes
    BY <1>8 DEF EnqueueRoom, EnqueueDrop, AppendLocked
  <2>3. ASSUME NEW i \in Items, Acked(i)' PROVE Acked(i) \/ i \in Accounted'
    <3>1. CASE result'[i] = "ok"
      BY <2>1, <3>1 DEF Acked
    <3>2. ASSUME NEW q \in Producers, ppc'[q] = "finish", pitem'[q] = i
          PROVE  Acked(i) \/ i \in Accounted'
      <4>1. CASE q = p
        BY <2>1, <3>2, <4>1
      <4>2. CASE q # p
        BY <1>1, <2>1, <3>2, <4>2 DEF Acked, CoreInv, TypeOK, ProducerTypeOK
      <4> QED
        BY <4>1, <4>2
    <3> QED
      BY <2>3, <3>1, <3>2 DEF Acked
  <2> QED
    BY <1>2, <2>1, <2>2, <2>3
<1>9. ASSUME NEW p \in Producers,
             \/ EnqueueRaise(p) \/ EnqueueBlock(p) \/ Unblock(p) \/ CtxDone(p)
             \/ \E i \in Items : Send(p, i)
      PROVE  LossInv'
  <2> USE <1>1 DEF CoreInv, TypeOK, ProducerTypeOK, HistoryTypeOK, HasItem
  <2>1. UNCHANGED <<queue, batch, pc, confirmed, shed, crashes>>
    BY <1>9 DEF EnqueueRaise, EnqueueBlock, Unblock, CtxDone, Send
  <2>2. CASE EnqueueRaise(p) \/ CtxDone(p)
    <3>1. \A i \in Items : Acked(i)' => Acked(i)
      BY <2>2 DEF EnqueueRaise, CtxDone, Return, Acked
    <3> QED
      BY <1>2, <1>3, <2>1, <3>1
  <2>3. CASE EnqueueBlock(p) \/ Unblock(p)
    <3>1. \A i \in Items : Acked(i)' => Acked(i)
      BY <2>3 DEF EnqueueBlock, Unblock, Acked
    <3> QED
      BY <1>2, <1>3, <2>1, <3>1
  <2>4. ASSUME NEW i \in Items, Send(p, i) PROVE LossInv'
    <3>1. \A j \in Items : Acked(j)' => Acked(j)
      BY <2>4 DEF Send, Acked
    <3> QED
      BY <1>2, <1>3, <2>1, <3>1
  <2> QED
    BY <1>9, <2>2, <2>3, <2>4
<1>10. ASSUME NEW p \in Producers, Finish(p) PROVE LossInv'
  <2>1. UNCHANGED <<queue, batch, pc, confirmed, shed, crashes>>
    BY <1>10 DEF Finish
  <2>2. \A i \in Items : Acked(i)' => Acked(i)
    BY <1>1, <1>10 DEF Finish, Return, Acked, CoreInv, TypeOK, ProducerTypeOK, HistoryTypeOK,
                       HasItem
  <2> QED
    BY <1>2, <1>3, <2>1, <2>2
<1>11. CASE (\E k \in Kinds : GateOpens(k)) \/ ConfirmWorker \/ RedisStep
  <2>1. UNCHANGED <<queue, batch, pc, confirmed, shed, crashes, ppc, pitem, result>>
    BY <1>11 DEF GateOpens, ConfirmWorker, RedisStep
  <2> QED
    BY <1>2, <1>3, <1>4, <2>1
<1>12. CASE StopBegin
  <2>1. UNCHANGED <<queue, batch, confirmed, shed, crashes, ppc, pitem, result>>
    BY <1>12 DEF StopBegin
  <2>2. pc' = [pc EXCEPT ![Stopper] = "wait"] /\ pc[Stopper] = "idle"
    BY <1>12 DEF StopBegin, Goto
  <2>3. Accounted \subseteq Accounted' /\ Settled'
    BY <1>1, <2>1, <2>2
       DEF Accounted, InMemory, Settled, Holding, CoreInv, TypeOK, FlusherTypeOK
  <2> QED
    BY <1>2, <1>4, <2>1, <2>3
<1>13. CASE Start
  <2>1. UNCHANGED <<batch, pc, confirmed, crashes, ppc, pitem, result>>
    BY <1>13 DEF Start
  <2>2. Accounted \subseteq Accounted'
    <3>1. CASE ~Durable
      BY <1>3, <1>13, <2>1, <3>1 DEF Start
    <3>2. CASE Durable
      <4>1. PICK le \in LoadKind("event"), lm \in LoadKind("metric") :
              Reload([k \in Kinds |-> IF k = "event" THEN le ELSE lm])
        BY <1>13, <3>2 DEF Start
      <4>2. [k \in Kinds |-> IF k = "event" THEN le ELSE lm] \in [Kinds -> Seq(Items)]
        BY <1>1, LoadKindType DEF Kinds, CoreInv, TypeOK
      <4>3. /\ \A k \in Kinds : ItemsOf(queue[k]) \subseteq ItemsOf(queue'[k]) \union shed'
            /\ shed \subseteq shed'
        BY <1>1, <4>1, <4>2, ReloadType DEF CoreInv
      <4> QED
        BY <2>1, <4>3 DEF Accounted, InMemory
    <3> QED
      BY <3>1, <3>2
  <2>3. Settled'
    BY <1>1, <2>1 DEF Settled
  <2> QED
    BY <1>2, <1>4, <2>1, <2>2, <2>3
<1>14. CASE Crash
  <2>1. crashes' # 0
    BY <1>1, <1>14 DEF Crash, CoreInv, TypeOK, HistoryTypeOK
  <2>2. Settled'
    BY <1>14 DEF Crash, Settled
  <2> QED
    BY <1>1, <2>1, <2>2 DEF LossInv
<1>15. CASE UNCHANGED vars
  BY <1>2, <1>3, <1>4, <1>15 DEF vars
<1> QED
  BY <1>5, <1>6, <1>7, <1>8, <1>9, <1>10, <1>11, <1>12, <1>13, <1>14, <1>15
     DEF Next, ProducerStep

\* New establishes the no-loss invariant: nothing is acknowledged yet.
LEMMA LossInit == Init => LossInv
  BY CoreInit DEF Init, LossInv, Settled, Acked

-----------------------------------------------------------------------------
\* Types of the agent's fields, its goroutines and the persistence layer (New,
\* SendEvent, Flush, Stop); among them the Redis failure count, which stays below
\* redisMaxConsecutiveFailures.
THEOREM TypeCorrect == Spec => []TypeOK
  BY CoreInvariant, PTL DEF CoreInv

\* The per-kind cap holds for every buffer size, policy and set of goroutines
\* (enqueueEvent, requeueEvents, reloadFromRedisLocked).
THEOREM CapHolds == Spec => []QueueBound
  BY CoreInvariant, PTL DEF CoreInv

\* An item whose SendEvent or SendMetric returned nil is never lost while the
\* process lives (flushEvents, settleEvents, requeueEvents, Stop).
THEOREM NothingIsLost == Spec => []NothingLost
<1>1. LossInv => NothingLost
  BY DEF LossInv, NothingLost, Acked, Accounted
<1> QED
  BY LossInit, LossNext, <1>1, PTL DEF Spec

\* Whatever the breaker says: a full kind alone degrades the status, and every
\* threshold of Healthy is above the one of Status (stateLocked, Healthy).
THEOREM HealthIsHonest == Spec => []HealthAgrees
<1>1. CoreInv => HealthAgrees
  <2> SUFFICES ASSUME CoreInv, NEW open \in BOOLEAN
               PROVE  /\ (\E k \in Kinds : Len(queue[k]) = BufferSize)
                           => StateLocked(open) # "healthy"
                      /\ started /\ StateLocked(open) = "healthy" => Healthy(open)
    BY DEF HealthAgrees
  <2> DEFINE s == stats["event"]
  <2>1. /\ closed \in BOOLEAN /\ s.sent \in Nat /\ s.failed \in Nat
    BY DEF CoreInv, TypeOK, FieldTypeOK, Counters, Kinds
  <2>2. StateLocked(open) = "healthy"
          => ~closed /\ ~open /\ ~AtLeast(90) /\ ~FailureRateOver(10)
    BY <2>1 DEF StateLocked
  <2> DEFINE n(k) == Len(queue[k])
             both == n("event") + n("metric")
  <2>3. /\ AtLeast(90) <=> 100 * both >= 90 * BufferSize
        /\ AtLeast(95) <=> 100 * both >= 95 * BufferSize
    BY Zenon DEF AtLeast, Combined
  <2>4. /\ BufferSize \in Nat
        /\ \A k \in Kinds : n(k) \in Nat
    BY AgentAssumption, LenProperties DEF CoreInv, TypeOK, FieldTypeOK
  <2> HIDE DEF n
  <2>5. both \in Nat
    BY <2>4 DEF Kinds
  <2>6. (\E k \in Kinds : n(k) = BufferSize) => both >= BufferSize
    BY <2>4 DEF Kinds
  <2> HIDE DEF both
  <2>7. /\ both >= BufferSize => 100 * both >= 90 * BufferSize
        /\ 100 * both >= 95 * BufferSize => 100 * both >= 90 * BufferSize
    BY <2>4, <2>5
  <2>8. /\ (\E k \in Kinds : Len(queue[k]) = BufferSize) => AtLeast(90)
        /\ AtLeast(95) => AtLeast(90)
    BY <2>3, <2>6, <2>7 DEF n
  <2>9. FailureRateOver(50) => FailureRateOver(10)
    <3> HIDE DEF s
    <3>1. 100 * s.failed > 50 * (s.sent + s.failed) => 100 * s.failed > 10 * (s.sent + s.failed)
      BY <2>1
    <3> QED
      BY <3>1 DEF FailureRateOver, s
  <2> QED
    BY <2>2, <2>8, <2>9 DEF Healthy
<1> QED
  BY CoreInvariant, <1>1, PTL
=============================================================================
