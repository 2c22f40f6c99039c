------------------------ MODULE AgentDurabilityProofs ------------------------
(***************************************************************************)
(* TLAPS proofs about the records behind the buffer, on top of             *)
(* AgentProofs: a durable record is deleted only once its item is settled  *)
(* (DoomInv), an item is in one place at a time (CopyInv), and so a crash  *)
(* finds the record of whatever is still to be sent.                       *)
(***************************************************************************)
EXTENDS AgentProofs

-----------------------------------------------------------------------------
\* What a step does to the entries and the records.  StepKinds reduces the
\* actions of Agent to these, without the counters, gates and signals.

calls == <<ppc, pitem, result>>
entries == <<queue, batch, pc>>
verdicts == <<confirmed, shed>>
doomedKeys == <<pevicted, confirmCh>>
store == <<records, stored, expired>>
life == <<started, crashes>>

\* Places where a flusher has no batch.
Clear == Places \ (Holding \union {"orphans"})

\* confirmKeys: the records of keys are left, handed to the worker or deleted.
Forgets(keys) ==
    /\ UNCHANGED <<stored, expired>>
    /\ \/ UNCHANGED <<confirmCh, records>>
       \/ confirmCh' = Append(confirmCh, keys) /\ UNCHANGED records
       \/ records' = records \ keys /\ UNCHANGED confirmCh

\* A call begins, waits, or ends without having appended.
CallMoves(p) ==
    /\ UNCHANGED <<entries, verdicts, doomedKeys, store, life>>
    /\ \/ \E i \in Items :
            /\ ppc[p] = "idle" /\ result[i] = "unsent" /\ (started \/ SendBeforeStart)
            /\ KindOf[i] \in Enabled
            /\ ppc' = [ppc EXCEPT ![p] = "enqueue"]
            /\ pitem' = [pitem EXCEPT ![p] = i]
            /\ result' = [result EXCEPT ![i] = "pending"]
       \/ \E i \in Items, r \in {"closed", "disabled"} :
            /\ result[i] = "unsent"
            /\ result' = [result EXCEPT ![i] = r]
            /\ UNCHANGED <<ppc, pitem>>
       \/ \E w \in {"enqueue", "blocked"} :
            /\ ppc[p] \in {"enqueue", "blocked"}
            /\ ppc' = [ppc EXCEPT ![p] = w]
            /\ UNCHANGED <<pitem, result>>
       \/ \E r \in {"full", "ctx"} : ppc[p] \in {"enqueue", "blocked"} /\ Return(p, r)

\* A call appends its item; n entries leave the head of the queue.
CallAppends(p, n, keyed) ==
    LET i == pitem[p]
        k == KindOf[i]
        head == SubSeq(queue[k], 1, n)
        rest == SubSeq(queue[k], n + 1, Len(queue[k]))
    IN  /\ ppc[p] = "enqueue" /\ n \in 0..Len(queue[k]) /\ keyed \in BOOLEAN
        /\ ppc' = [ppc EXCEPT ![p] = "finish"]
        /\ queue' = [queue EXCEPT ![k] = Append(rest, [item |-> i, keyed |-> keyed])]
        /\ shed' = shed \union ItemsOf(head)
        /\ pevicted' = [pevicted EXCEPT ![p] = KeysOf(head)]
        /\ \/ /\ Durable /\ keyed = TRUE /\ ~(i \in Poison /\ KindOf[i] = "event")
              /\ records' = records \union {i} /\ stored' = stored \union {i}
           \/ /\ keyed = FALSE /\ stored' = stored
              /\ records' = records \/ (Durable /\ records' = records \union {i})
        /\ UNCHANGED <<batch, pc, confirmed, confirmCh, pitem, result, expired, life>>

CallReturns(p) ==
    /\ ppc[p] = "finish"
    /\ Return(p, "ok")
    /\ Forgets(pevicted[p])
    /\ pevicted' = [pevicted EXCEPT ![p] = {}]
    /\ UNCHANGED <<entries, verdicts, life>>

\* A flusher without a batch moves, or one whose send has failed.
FlusherMoves(f) ==
    /\ \E place \in Places :
         /\ pc' = [pc EXCEPT ![f] = place]
         /\ \/ pc[f] \in Clear /\ place \in Clear
            \/ pc[f] \in Unsettled /\ place \in {"fail", "requeue"}
    /\ UNCHANGED <<queue, batch, calls, verdicts, doomedKeys, store, life>>

\* A flusher skips a kind or is done with it.
FlusherClears(f) ==
    /\ pc[f] \in {"drain", "count"}
    /\ \E place \in {"drain", "close", "idle"} : pc' = [pc EXCEPT ![f] = place]
    /\ batch' = [batch EXCEPT ![f] = <<>>]
    /\ UNCHANGED <<queue, calls, verdicts, doomedKeys, store, life>>

FlusherDrains(f) ==
    /\ pc[f] = "drain" /\ queue[kind[f]] # <<>>
    /\ pc' = [pc EXCEPT ![f] = "send"]
    /\ batch' = [batch EXCEPT ![f] = queue[kind[f]]]
    /\ queue' = [queue EXCEPT ![kind[f]] = <<>>]
    /\ UNCHANGED <<calls, verdicts, doomedKeys, store, life>>

FlusherAnswered(f) ==
    /\ pc[f] = "send"
    /\ pc' = [pc EXCEPT ![f] = "confirm"]
    /\ confirmed' = confirmed \union ItemsOf(batch[f])
    /\ UNCHANGED <<queue, batch, shed, calls, doomedKeys, store, life>>

FlusherConfirms(f) ==
    /\ pc[f] = "confirm"
    /\ pc' = [pc EXCEPT ![f] = "count"]
    /\ Forgets(KeysOf(batch[f]))
    /\ UNCHANGED <<queue, batch, calls, verdicts, pevicted, life>>

FlusherRequeues(f) ==
    LET merged == batch[f] \o queue[kind[f]] IN
    /\ pc[f] = "requeue"
    /\ pc' = [pc EXCEPT ![f] = "orphans"]
    /\ queue' = [queue EXCEPT ![kind[f]] = Kept(merged)]
    /\ batch' = [batch EXCEPT ![f] = Evicted(merged)]
    /\ shed' = shed \union ItemsOf(Evicted(merged))
    /\ UNCHANGED <<confirmed, calls, doomedKeys, store, life>>

FlusherForgets(f) ==
    /\ pc[f] = "orphans"
    /\ \E place \in {"drain", "close", "idle"} : pc' = [pc EXCEPT ![f] = place]
    /\ batch' = [batch EXCEPT ![f] = <<>>]
    /\ Forgets(KeysOf(batch[f]))
    /\ UNCHANGED <<queue, calls, verdicts, pevicted, life>>

WorkerDeletes ==
    /\ confirmCh # <<>>
    /\ confirmCh' = Tail(confirmCh)
    /\ records' = records \/ records' = records \ Head(confirmCh)
    /\ UNCHANGED <<entries, calls, verdicts, pevicted, stored, expired, life>>

RecordExpires ==
    /\ \E i \in Items : records' = records \ {i} /\ expired' = expired \union {i}
    /\ UNCHANGED <<entries, calls, verdicts, doomedKeys, stored, life>>

AgentStarts ==
    /\ ~started /\ started' = TRUE
    /\ \/ ~Durable /\ UNCHANGED <<queue, shed, records, stored, expired>>
       \/ /\ Durable
          /\ \E le \in LoadKind("event"), lm \in LoadKind("metric") :
               Reload([k \in Kinds |-> IF k = "event" THEN le ELSE lm])
    /\ UNCHANGED <<batch, pc, calls, confirmed, doomedKeys, crashes>>

ProcessDies ==
    /\ crashes < MaxCrashes /\ crashes' = crashes + 1
    /\ queue' = [k \in Kinds |-> <<>>]
    /\ batch' = [f \in Flushers |-> <<>>] /\ pc' = [f \in Flushers |-> "idle"]
    /\ ppc' = [p \in Producers |-> "idle"] /\ pevicted' = [p \in Producers |-> {}]
    /\ confirmCh' = <<>>
    /\ result' = [i \in Items |-> IF result[i] = "pending" THEN "crashed" ELSE result[i]]
    /\ started' = FALSE
    /\ UNCHANGED <<verdicts, store>>

Nothing == UNCHANGED <<entries, calls, verdicts, doomedKeys, store, life>>

\* confirmKeys does to the records and the channel what Forgets says.
LEMMA ForgetsKeys ==
  ASSUME NEW keys, ConfirmKeys(keys)
  PROVE  Forgets(keys)
BY DEF ConfirmKeys, Forgets, Del, persistVars

\* The steps of a call.
LEMMA CallKinds ==
  ASSUME CoreInv, NEW p \in Producers,
         ProducerStep(p) \/ CtxDone(p) \/ \E i \in Items : Send(p, i)
  PROVE  \/ CallMoves(p) \/ CallReturns(p)
         \/ \E n \in {0, 1}, keyed \in BOOLEAN : CallAppends(p, n, keyed)
<1> USE DEF calls, entries, verdicts, doomedKeys, store, life
<1> USE DEF fieldVars, lifeVars, wakeVars, prodVars, flushVars, envVars, histVars, persistVars
<1>1. ASSUME NEW i \in Items, Send(p, i) PROVE CallMoves(p)
  <2>1. CASE ~closed /\ KindOf[i] \in Enabled
    BY <1>1, <2>1 DEF Send, CallMoves
  <2>2. CASE ~(~closed /\ KindOf[i] \in Enabled)
    BY <1>1, <2>2 DEF Send, CallMoves
  <2> QED
    BY <2>1, <2>2
<1>2. ASSUME EnqueueRaise(p) \/ EnqueueBlock(p) \/ Unblock(p) \/ CtxDone(p)
      PROVE  CallMoves(p)
  <2>1. CASE EnqueueRaise(p)
    BY <2>1 DEF EnqueueRaise, CallMoves
  <2>2. CASE EnqueueBlock(p)
    BY <2>2 DEF EnqueueBlock, CallMoves
  <2>3. CASE Unblock(p)
    BY <2>3 DEF Unblock, CallMoves
  <2>4. CASE CtxDone(p)
    BY <2>4 DEF CtxDone, CallMoves
  <2> QED
    BY <1>2, <2>1, <2>2, <2>3, <2>4
<1>3. ASSUME EnqueueRoom(p) \/ EnqueueDrop(p)
      PROVE  \E n \in {0, 1}, keyed \in BOOLEAN : CallAppends(p, n, keyed)
  <2> DEFINE i == pitem[p]
             k == KindOf[i]
  <2>1. /\ i \in Items /\ k \in Kinds /\ queue[k] \in Seq(Entries)
        /\ Len(queue[k]) \in Nat /\ BufferSize \in Nat \ {0}
    BY <1>3, ItemsAssumption, AgentAssumption, LenProperties
       DEF CoreInv, TypeOK, FieldTypeOK, HasItem, EnqueueRoom, EnqueueDrop
  <2>2. PICK n \in {0, 1} : AppendLocked(p, n) /\ n \in 0..Len(queue[k]) /\ ppc[p] = "enqueue"
    <3>1. CASE EnqueueRoom(p)
      BY <2>1, <3>1 DEF EnqueueRoom
    <3>2. CASE EnqueueDrop(p)
      BY <2>1, <3>2 DEF EnqueueDrop, Full
    <3> QED
      BY <1>3, <3>1, <3>2
  <2> DEFINE head == SubSeq(queue[k], 1, n)
             rest == SubSeq(queue[k], n + 1, Len(queue[k]))
  <2>3. PICK keyed \in BOOLEAN :
          /\ ReserveKey(i, keyed)
          /\ queue' = [queue EXCEPT ![k] = Append(rest, [item |-> i, keyed |-> keyed])]
          /\ shed' = shed \union ItemsOf(head)
          /\ pevicted' = [pevicted EXCEPT ![p] = KeysOf(head)]
    BY <2>2 DEF AppendLocked
  <2>4. /\ ppc' = [ppc EXCEPT ![p] = "finish"]
        /\ UNCHANGED <<batch, pc, confirmed, confirmCh, pitem, result, started, crashes>>
    BY <2>2 DEF AppendLocked
  <2>5. /\ \/ /\ Durable /\ keyed = TRUE /\ ~(i \in Poison /\ KindOf[i] = "event")
              /\ records' = records \union {i} /\ stored' = stored \union {i}
           \/ /\ keyed = FALSE /\ stored' = stored
              /\ records' = records \/ (Durable /\ records' = records \union {i})
        /\ expired' = expired
    <3>1. CASE Durable /\ ~(i \in Poison /\ KindOf[i] = "event")
      <4>1. Store(i, keyed, PersistOpen)
        BY <2>3, <3>1 DEF ReserveKey
      <4> QED
        BY <3>1, <4>1 DEF Store
    <3>2. CASE ~(Durable /\ ~(i \in Poison /\ KindOf[i] = "event"))
      BY <2>3, <3>2 DEF ReserveKey
    <3> QED
      BY <3>1, <3>2
  <2>6. CallAppends(p, n, keyed)
    BY <2>2, <2>3, <2>4, <2>5, Zenon DEF CallAppends
  <2> QED
    BY <2>6
<1>4. ASSUME Finish(p) PROVE CallReturns(p)
  BY <1>4, ForgetsKeys DEF Finish, CallReturns
<1> QED
  BY <1>1, <1>2, <1>3, <1>4 DEF ProducerStep

\* Every step is one of these.
LEMMA StepKinds ==
  ASSUME CoreInv, [Next]_vars
  PROVE  \/ \E p \in Producers : \/ CallMoves(p) \/ CallReturns(p)
                                 \/ \E n \in {0, 1}, keyed \in BOOLEAN : CallAppends(p, n, keyed)
         \/ \E f \in Flushers : \/ FlusherMoves(f) \/ FlusherClears(f) \/ FlusherDrains(f)
                                \/ FlusherAnswered(f) \/ FlusherConfirms(f)
                                \/ FlusherRequeues(f) \/ FlusherForgets(f)
         \/ WorkerDeletes \/ RecordExpires \/ AgentStarts \/ ProcessDies \/ Nothing
<1> USE DEF calls, entries, verdicts, doomedKeys, store, life
<1> USE DEF fieldVars, lifeVars, wakeVars, prodVars, flushVars, envVars, histVars, persistVars
<1>5. ASSUME NEW f \in Flushers,
             NEW a \in Clear, NEW b \in Clear, Move(f, a, b)
      PROVE  FlusherMoves(f)
  BY <1>5 DEF Move, Goto, FlusherMoves, Clear
<1>6. ASSUME NEW f \in Flushers, TakeWake(f) PROVE FlusherMoves(f)
  BY <1>6 DEF TakeWake, Goto, FlusherMoves, Clear, Places, Holding
<1>7. ASSUME NEW f \in Flushers,
             FlushIfNeeded(f) \/ FlushGuard(f) \/ HostFlush(f) \/ LoopExit(f)
      PROVE  FlusherMoves(f)
  BY <1>5, <1>7 DEF FlushIfNeeded, FlushGuard, HostFlush, LoopExit, Clear, Places, Holding
<1>8. CASE Tick \/ StopStep
  <2>1. AutoLoop \in Flushers /\ Stopper \in Flushers
    BY DEF Flushers, Loops
  <2>2. FlusherMoves(AutoLoop) \/ FlusherMoves(Stopper)
    BY <1>5, <1>8, <2>1
       DEF Tick, StopStep, StopWait, StopClose, StopJoin, Clear, Places, Holding
  <2> QED
    BY <2>1, <2>2
<1>9. CASE StopBegin
  <2>1. Stopper \in Flushers
    BY DEF Flushers
  <2>2. FlusherMoves(Stopper)
    BY <1>9 DEF StopBegin, Goto, FlusherMoves, Clear, Places, Holding
  <2> QED
    BY <2>1, <2>2
<1>10. ASSUME NEW f \in Flushers, SendFails(f) \/ SettleFail(f) PROVE FlusherMoves(f)
  <2>1. CASE SendFails(f)
    BY <2>1 DEF SendFails, Goto, FlusherMoves, Places, Unsettled
  <2>2. CASE SettleFail(f)
    BY <2>2 DEF SettleFail, Goto, FlusherMoves, Places, Unsettled
  <2> QED
    BY <1>10, <2>1, <2>2
<1>11. ASSUME NEW f \in Flushers PROVE AfterKind(f) \in {"drain", "close", "idle"}
  BY DEF AfterKind
<1>12. ASSUME NEW f \in Flushers, Skip(f) \/ SettleCount(f) PROVE FlusherClears(f)
  <2>1. CASE Skip(f)
    BY <1>11, <2>1 DEF Skip, NextKind, Goto, FlusherClears
  <2>2. CASE SettleCount(f)
    BY <1>11, <2>2 DEF SettleCount, NextKind, Goto, FlusherClears
  <2> QED
    BY <1>12, <2>1, <2>2
<1>13. ASSUME NEW f \in Flushers, Drain(f) PROVE FlusherDrains(f)
  BY <1>13 DEF Drain, Goto, FlusherDrains
<1>14. ASSUME NEW f \in Flushers, NEW o \in Outcomes, SendDefinitive(f, o)
       PROVE  FlusherAnswered(f)
  BY <1>14 DEF SendDefinitive, Goto, FlusherAnswered
<1>15. ASSUME NEW f \in Flushers, SettleConfirm(f) PROVE FlusherConfirms(f)
  BY <1>15, ForgetsKeys DEF SettleConfirm, Goto, FlusherConfirms
<1>16. ASSUME NEW f \in Flushers, Requeue(f) PROVE FlusherRequeues(f)
  BY <1>16 DEF Requeue, Goto, FlusherRequeues
<1>17. ASSUME NEW f \in Flushers, ConfirmOrphans(f) PROVE FlusherForgets(f)
  BY <1>11, <1>17, ForgetsKeys DEF ConfirmOrphans, NextKind, Goto, FlusherForgets
<1>18. ASSUME NEW k \in Kinds, GateOpens(k) PROVE Nothing
  BY <1>18 DEF GateOpens, Nothing
<1>19. CASE ConfirmWorker
  <2>1. WorkerDeletes
    BY <1>19 DEF ConfirmWorker, Del, WorkerDeletes
  <2> QED
    BY <2>1
<1>20. CASE RedisStep
  <2>1. RecordExpires \/ Nothing
    BY <1>20 DEF RedisStep, CooldownEnds, Expire, RecordExpires, Nothing
  <2> QED
    BY <2>1
<1>21. CASE Start
  <2>1. AgentStarts
    <3>1. CASE Durable
      BY <1>21, <3>1 DEF Start, AgentStarts
    <3>2. CASE ~Durable
      BY <1>21, <3>2 DEF Start, AgentStarts
    <3> QED
      BY <3>1, <3>2
  <2> QED
    BY <2>1
<1>22. CASE Crash
  <2>1. ProcessDies
    BY <1>22 DEF Crash, ProcessDies
  <2> QED
    BY <2>1
<1>23. CASE UNCHANGED vars
  <2>1. Nothing
    BY <1>23 DEF vars, Nothing
  <2> QED
    BY <2>1
<1>24. ASSUME NEW p \in Producers,
              ProducerStep(p) \/ CtxDone(p) \/ \E i \in Items : Send(p, i)
       PROVE  \/ CallMoves(p) \/ CallReturns(p)
              \/ \E n \in {0, 1}, keyed \in BOOLEAN : CallAppends(p, n, keyed)
  BY <1>24, CallKinds
<1>25. ASSUME NEW f \in Flushers, FlushStep(f) \/ TakeWake(f) \/ HostFlush(f) \/ LoopExit(f)
       PROVE  \/ FlusherMoves(f) \/ FlusherClears(f) \/ FlusherDrains(f)
              \/ FlusherAnswered(f) \/ FlusherConfirms(f)
              \/ FlusherRequeues(f) \/ FlusherForgets(f)
  BY <1>6, <1>7, <1>10, <1>12, <1>13, <1>14, <1>15, <1>16, <1>17, <1>25 DEF FlushStep
<1> QED
  BY Zenon, <1>8, <1>9, <1>18, <1>19, <1>20, <1>21, <1>22, <1>23, <1>24, <1>25 DEF Next

-----------------------------------------------------------------------------
\* Whatever waits for its record's deletion is settled: an entry a full buffer
\* pushed out, a batch that came back too long, keys on their way to the worker.
Doomed ==
  /\ \A p \in Producers : pevicted[p] \subseteq shed
  /\ \A f \in Flushers : pc[f] = "orphans" => ItemsOf(batch[f]) \subseteq shed
  /\ \A n \in 1..Len(confirmCh) : confirmCh[n] \subseteq confirmed \union shed

DoomInv ==
  /\ CoreInv
  /\ Settled
  /\ Doomed
  /\ stored \ Poison \subseteq records \union confirmed \union shed \union expired
  /\ \A i \in stored : ~(i \in Poison /\ KindOf[i] = "event")

\* Keys that are handed over or deleted are settled, so the invariant's parts
\* about the channel and the records survive.
LEMMA ForgetsSettled ==
  ASSUME CoreInv, Doomed, NEW keys \in SUBSET Items, Forgets(keys),
         keys \subseteq confirmed \union shed,
         stored \ Poison \subseteq records \union confirmed \union shed \union expired,
         UNCHANGED verdicts
  PROVE  /\ \A n \in 1..Len(confirmCh') : confirmCh'[n] \subseteq confirmed' \union shed'
         /\ (stored \ Poison \subseteq records \union confirmed \union shed \union expired)'
<1> USE DEF verdicts
<1>1. CASE UNCHANGED <<confirmCh, records>>
  BY <1>1 DEF Forgets, Doomed
<1>2. CASE confirmCh' = Append(confirmCh, keys) /\ UNCHANGED records
  <2>1. confirmCh \in Seq(SUBSET Items)
    BY DEF CoreInv, TypeOK, FieldTypeOK
  <2>2. /\ Len(confirmCh') = Len(confirmCh) + 1 /\ Len(confirmCh) \in Nat
        /\ \A n \in 1..Len(confirmCh) : confirmCh'[n] = confirmCh[n]
        /\ confirmCh'[Len(confirmCh) + 1] = keys
    BY <1>2, <2>1, AppendProperties, LenProperties
  <2>3. ASSUME NEW n \in 1..Len(confirmCh')
        PROVE  confirmCh'[n] \subseteq confirmed' \union shed'
    <3>1. CASE n \in 1..Len(confirmCh)
      BY <2>2, <3>1 DEF Doomed
    <3>2. CASE n = Len(confirmCh) + 1
      BY <2>2, <3>2
    <3> QED
      BY <2>2, <2>3, <3>1, <3>2
  <2> QED
    BY <1>2, <2>3 DEF Forgets
<1>3. CASE records' = records \ keys /\ UNCHANGED confirmCh
  BY <1>3 DEF Forgets, Doomed
<1> QED
  BY <1>1, <1>2, <1>3 DEF Forgets

\* A reload deletes records that cannot be decoded and those of the entries it
\* evicts, and the evicted entries are counted as shed (reloadFromRedisLocked).
LEMMA ReloadDeletes ==
  ASSUME NEW loaded, Reload(loaded)
  PROVE  /\ shed \subseteq shed' /\ UNCHANGED <<stored, expired>>
         /\ \/ UNCHANGED records
            \/ \E gone : records' = records \ gone /\ gone \subseteq Poison \union shed'
<1> DEFINE merged == [k \in Kinds |-> queue[k] \o
                       [n \in 1..Len(loaded[k]) |-> [item |-> loaded[k][n], keyed |-> TRUE]]]
           over == [k \in Kinds |-> IF Len(merged[k]) > BufferSize
                                    THEN Len(merged[k]) - BufferSize ELSE 0]
           head == [k \in Kinds |-> SubSeq(merged[k], 1, over[k])]
<1>1. PICK gone \in SUBSET (Corrupt \union UNION {KeysOf(head[k]) : k \in Kinds}) :
         Del(gone, TRUE)
  BY DEF Reload
<1>2. shed' = shed \union UNION {ItemsOf(head[k]) : k \in Kinds}
  BY DEF Reload
<1> HIDE DEF head
<1>3. \A k \in Kinds : KeysOf(head[k]) \subseteq ItemsOf(head[k])
  BY Zenon DEF KeysOf, ItemsOf
<1>4. gone \subseteq Poison \union shed'
  BY <1>1, <1>2, <1>3 DEF Corrupt
<1>5. UNCHANGED <<stored, expired>> /\ (records' = records \/ records' = records \ gone)
  BY <1>1 DEF Del
<1> QED
  BY <1>2, <1>4, <1>5

LEMMA DoomNext == DoomInv /\ [Next]_vars => DoomInv'
<1> SUFFICES ASSUME DoomInv, [Next]_vars PROVE DoomInv'
  OBVIOUS
<1>1. CoreInv /\ Settled /\ Doomed /\ CoreInv'
  BY CoreNext DEF DoomInv
<1>2. /\ stored \ Poison \subseteq records \union confirmed \union shed \union expired
      /\ \A i \in stored : ~(i \in Poison /\ KindOf[i] = "event")
  BY DEF DoomInv
<1>3. /\ pc \in [Flushers -> Places] /\ batch \in [Flushers -> Seq(Entries)]
      /\ pevicted \in [Producers -> SUBSET Items] /\ confirmCh \in Seq(SUBSET Items)
      /\ queue \in [Kinds -> Seq(Entries)] /\ kind \in [Flushers -> Kinds]
      /\ ppc \in [Producers -> {"idle", "enqueue", "blocked", "finish"}]
  BY <1>1 DEF CoreInv, TypeOK, FieldTypeOK, FlusherTypeOK, ProducerTypeOK
<1> DEFINE Durably == stored \ Poison \subseteq records \union confirmed \union shed \union expired
           NoEvent == \A i \in stored : ~(i \in Poison /\ KindOf[i] = "event")
<1> USE DEF calls, entries, verdicts, doomedKeys, store, life
<1>4. ASSUME Settled', Doomed', Durably', NoEvent' PROVE DoomInv'
  BY <1>1, <1>4 DEF DoomInv
<1>5. ASSUME NEW p \in Producers, CallMoves(p) PROVE DoomInv'
  <2>1. UNCHANGED <<entries, verdicts, doomedKeys, store, life>>
    BY <1>5 DEF CallMoves
  <2> QED
    BY <1>1, <1>2, <1>4, <2>1 DEF Settled, Doomed
<1>6. ASSUME NEW p \in Producers, CallReturns(p) PROVE DoomInv'
  <2>1. /\ UNCHANGED <<entries, verdicts, life>> /\ Forgets(pevicted[p])
        /\ pevicted' = [pevicted EXCEPT ![p] = {}]
    BY <1>6 DEF CallReturns
  <2>2. pevicted[p] \in SUBSET Items /\ pevicted[p] \subseteq confirmed \union shed
    BY <1>1, <1>3 DEF Doomed
  <2>3. /\ \A n \in 1..Len(confirmCh') : confirmCh'[n] \subseteq confirmed' \union shed'
        /\ Durably'
    BY <1>1, <1>2, <2>1, <2>2, ForgetsSettled
  <2>4. Settled' /\ Doomed'
    BY <1>1, <1>3, <2>1, <2>3 DEF Settled, Doomed
  <2> QED
    BY <1>2, <1>4, <2>1, <2>3, <2>4 DEF Forgets
<1>7. ASSUME NEW p \in Producers, NEW n \in {0, 1}, NEW keyed \in BOOLEAN,
             CallAppends(p, n, keyed)
      PROVE  DoomInv'
  <2> DEFINE i == pitem[p]
             head == SubSeq(queue[KindOf[i]], 1, n)
  <2>1. /\ shed' = shed \union ItemsOf(head)
        /\ pevicted' = [pevicted EXCEPT ![p] = KeysOf(head)]
        /\ UNCHANGED <<batch, pc, confirmed, confirmCh, expired>>
        /\ \/ /\ ~(i \in Poison /\ KindOf[i] = "event")
              /\ records' = records \union {i} /\ stored' = stored \union {i}
           \/ stored' = stored /\ records \subseteq records'
    BY <1>7 DEF CallAppends
  <2> HIDE DEF head, i
  <2>2. KeysOf(head) \subseteq ItemsOf(head)
    BY Zenon DEF KeysOf, ItemsOf
  <2>3. Settled'
    BY <1>1, <2>1 DEF Settled
  <2>4. Doomed'
    BY <1>1, <1>3, <2>1, <2>2 DEF Doomed
  <2>5. Durably' /\ NoEvent'
    BY <1>2, <2>1
  <2> QED
    BY <1>4, <2>3, <2>4, <2>5
<1>8. ASSUME NEW f \in Flushers, FlusherMoves(f) \/ FlusherClears(f) \/ FlusherDrains(f)
      PROVE  DoomInv'
  <2>1. /\ UNCHANGED <<verdicts, doomedKeys, store>>
        /\ pc'[f] \notin {"confirm", "count", "orphans"}
        /\ \A g \in Flushers \ {f} : pc'[g] = pc[g] /\ batch'[g] = batch[g]
    <3>1. CASE FlusherMoves(f)
      BY <1>3, <3>1 DEF FlusherMoves, Clear, Holding
    <3>2. CASE FlusherClears(f) \/ FlusherDrains(f)
      BY <1>3, <3>2 DEF FlusherClears, FlusherDrains
    <3> QED
      BY <1>8, <3>1, <3>2
  <2>2. Settled' /\ Doomed'
    BY <1>1, <2>1 DEF Settled, Doomed
  <2> QED
    BY <1>2, <1>4, <2>1, <2>2
<1>9. ASSUME NEW f \in Flushers, FlusherAnswered(f) PROVE DoomInv'
  <2>1. Settled' /\ Doomed'
    BY <1>1, <1>3, <1>9 DEF FlusherAnswered, Settled, Doomed
  <2>2. Durably' /\ NoEvent'
    BY <1>2, <1>9 DEF FlusherAnswered
  <2> QED
    BY <1>4, <2>1, <2>2
<1>10. ASSUME NEW f \in Flushers, FlusherConfirms(f) \/ FlusherForgets(f) PROVE DoomInv'
  <2>1. /\ UNCHANGED <<verdicts, pevicted>> /\ Forgets(KeysOf(batch[f]))
        /\ pc'[f] # "orphans"
        /\ \A g \in Flushers \ {f} : pc'[g] = pc[g] /\ batch'[g] = batch[g]
        /\ \/ pc[f] = "confirm" /\ batch'[f] = batch[f]
           \/ pc[f] = "orphans" /\ pc'[f] \notin {"confirm", "count"}
    BY <1>3, <1>10 DEF FlusherConfirms, FlusherForgets
  <2>2. KeysOf(batch[f]) \in SUBSET Items /\ KeysOf(batch[f]) \subseteq ItemsOf(batch[f])
    BY <1>3, ItemsOfType
  <2>3. KeysOf(batch[f]) \subseteq confirmed \union shed
    BY <1>1, <2>1, <2>2 DEF Settled, Doomed
  <2>4. /\ \A n \in 1..Len(confirmCh') : confirmCh'[n] \subseteq confirmed' \union shed'
        /\ Durably'
    BY <1>1, <1>2, <2>1, <2>2, <2>3, ForgetsSettled
  <2>5. Settled' /\ Doomed'
    BY <1>1, <2>1, <2>4 DEF Settled, Doomed
  <2> QED
    BY <1>2, <1>4, <2>1, <2>4, <2>5 DEF Forgets
<1>11. ASSUME NEW f \in Flushers, FlusherRequeues(f) PROVE DoomInv'
  <2> DEFINE tail == Evicted(batch[f] \o queue[kind[f]])
  <2>1. /\ pc'[f] = "orphans" /\ batch'[f] = tail /\ shed' = shed \union ItemsOf(tail)
        /\ \A g \in Flushers \ {f} : pc'[g] = pc[g] /\ batch'[g] = batch[g]
        /\ UNCHANGED <<confirmed, doomedKeys, store>>
    BY <1>3, <1>11 DEF FlusherRequeues
  <2> HIDE DEF tail
  <2>2. Settled'
    BY <1>1, <2>1 DEF Settled
  <2>3. Doomed'
    BY <1>1, <2>1 DEF Doomed
  <2> QED
    BY <1>2, <1>4, <2>1, <2>2, <2>3
<1>12. CASE WorkerDeletes
  <2>1. /\ UNCHANGED <<entries, verdicts, pevicted, stored, expired>>
        /\ confirmCh # <<>> /\ confirmCh' = Tail(confirmCh)
        /\ records' = records \/ records' = records \ Head(confirmCh)
    BY <1>12 DEF WorkerDeletes
  <2>2. /\ Head(confirmCh) = confirmCh[1] /\ Len(confirmCh) \in Nat \ {0}
        /\ Len(confirmCh') = Len(confirmCh) - 1
        /\ \A n \in 1..Len(confirmCh') : confirmCh'[n] = confirmCh[n + 1]
    BY <1>3, <2>1, HeadTailProperties, LenProperties, EmptySeq
  <2>3. Head(confirmCh) \subseteq confirmed \union shed
    BY <1>1, <2>2 DEF Doomed
  <2>4. ASSUME NEW n \in 1..Len(confirmCh') PROVE confirmCh'[n] \subseteq confirmed \union shed
    <3>1. n + 1 \in 1..Len(confirmCh) /\ confirmCh'[n] = confirmCh[n + 1]
      BY <2>2, <2>4
    <3> QED
      BY <1>1, <3>1 DEF Doomed
  <2>5. Settled' /\ Doomed'
    BY <1>1, <2>1, <2>4 DEF Settled, Doomed
  <2>6. Durably'
    BY <1>2, <2>1, <2>3
  <2> QED
    BY <1>2, <1>4, <2>1, <2>5, <2>6
<1>13. CASE RecordExpires
  BY <1>1, <1>2, <1>4, <1>13 DEF RecordExpires, Settled, Doomed
<1>14. CASE AgentStarts
  <2>1. UNCHANGED <<batch, pc, confirmed, doomedKeys>>
    BY <1>14 DEF AgentStarts
  <2>2. /\ shed \subseteq shed' /\ UNCHANGED <<stored, expired>>
        /\ \/ UNCHANGED records
           \/ \E gone : records' = records \ gone /\ gone \subseteq Poison \union shed'
    BY <1>14, ReloadDeletes DEF AgentStarts
  <2>3. Settled' /\ Doomed'
    BY <1>1, <2>1, <2>2 DEF Settled, Doomed
  <2> QED
    BY <1>2, <1>4, <2>1, <2>2, <2>3
<1>15. CASE ProcessDies
  <2>1. Settled' /\ Doomed'
    BY <1>15 DEF ProcessDies, Settled, Doomed
  <2> QED
    BY <1>2, <1>4, <1>15, <2>1 DEF ProcessDies
<1>16. CASE Nothing
  BY <1>1, <1>2, <1>4, <1>16 DEF Nothing, Settled, Doomed
<1> QED
  BY <1>1, <1>5, <1>6, <1>7, <1>8, <1>9, <1>10, <1>11, <1>12, <1>13, <1>14, <1>15, <1>16,
     StepKinds

LEMMA DoomInit == Init => DoomInv
  BY CoreInit DEF Init, PersistInit, DoomInv, Settled, Doomed

\* A record reported durable is deleted only after a definitive answer, an
\* eviction or its expiry, whatever crashes in between (settleEvents,
\* requeueEvents, confirmKeys, confirmWorker, reloadFromRedisLocked).  The host
\* must not send metrics that cannot be marshalled: their records are empty, and
\* a reload deletes them.
THEOREM DeletedOnlyWhenSettled ==
  ASSUME \A i \in Poison : KindOf[i] = "event"
  PROVE  Spec => []AtLeastOnce
<1>1. DoomInv => AtLeastOnce
  BY DEF DoomInv, AtLeastOnce
<1> QED
  BY DoomInit, DoomNext, <1>1, PTL DEF Spec

-----------------------------------------------------------------------------
\* No item is in a sequence of entries twice.
Distinct(s) == \A m, n \in 1..Len(s) : s[m].item = s[n].item => m = n

\* Cutting a queue of distinct entries separates their items.
LEMMA DistinctSplit ==
  ASSUME NEW s \in Seq(Entries), Distinct(s), NEW n \in 0..Len(s)
  PROVE  /\ Distinct(SubSeq(s, 1, n)) /\ Distinct(SubSeq(s, n + 1, Len(s)))
         /\ ItemsOf(SubSeq(s, 1, n)) \intersect ItemsOf(SubSeq(s, n + 1, Len(s))) = {}
         /\ KeysOf(SubSeq(s, 1, n)) \subseteq KeysOf(s)
         /\ KeysOf(SubSeq(s, n + 1, Len(s))) \subseteq KeysOf(s)
<1> DEFINE a == SubSeq(s, 1, n)
           b == SubSeq(s, n + 1, Len(s))
<1>1. Len(s) \in Nat
  BY LenProperties
<1>2. /\ a \in Seq(Entries) /\ Len(a) = n
      /\ \A m \in 1..n : a[m] = s[m]
  BY <1>1, SubSeqProperties
<1>3. /\ b \in Seq(Entries) /\ Len(b) = Len(s) - n
      /\ \A m \in 1..(Len(s) - n) : b[m] = s[n + m]
  BY <1>1, SubSeqProperties
<1> HIDE DEF a, b
<1>4. \A m \in 1..Len(a) : m \in 1..Len(s) /\ a[m] = s[m]
  BY <1>1, <1>2
<1>5. \A m \in 1..Len(b) : n + m \in 1..Len(s) /\ b[m] = s[n + m]
  BY <1>1, <1>3
<1>6. Distinct(a)
  BY <1>4 DEF Distinct
<1>7. ASSUME NEW l \in 1..Len(b), NEW m \in 1..Len(b), b[l].item = b[m].item PROVE l = m
  <2>1. n + l = n + m
    BY <1>5, <1>7 DEF Distinct
  <2> QED
    BY <2>1, <1>1, <1>3
<1>8. Distinct(b)
  BY Zenon, <1>7 DEF Distinct
<1>9. ASSUME NEW l \in 1..Len(a), NEW m \in 1..Len(b), a[l].item = b[m].item PROVE FALSE
  <2>1. /\ l \in 1..Len(s) /\ n + m \in 1..Len(s)
        /\ s[l].item = s[n + m].item
    BY <1>4, <1>5, <1>9
  <2>2. l = n + m
    BY Zenon, <2>1 DEF Distinct
  <2> QED
    BY <2>2, <1>1, <1>2, <1>3
<1>10. ItemsOf(a) \intersect ItemsOf(b) = {}
  BY <1>9 DEF ItemsOf
<1>11. KeysOf(a) \subseteq KeysOf(s)
  BY <1>4 DEF KeysOf
<1>12. ASSUME NEW x \in KeysOf(b) PROVE x \in KeysOf(s)
  <2>1. PICK m \in 1..Len(b) : b[m].keyed /\ x = b[m].item
    BY <1>12 DEF KeysOf
  <2>2. n + m \in 1..Len(s) /\ s[n + m].keyed /\ x = s[n + m].item
    BY <1>5, <2>1
  <2> QED
    BY <2>2 DEF KeysOf
<1> QED
  BY <1>6, <1>8, <1>10, <1>11, <1>12 DEF a, b

\* A batch put before a queue with other items.
LEMMA DistinctConcat ==
  ASSUME NEW s \in Seq(Entries), NEW t \in Seq(Entries), Distinct(s), Distinct(t),
         ItemsOf(s) \intersect ItemsOf(t) = {}
  PROVE  Distinct(s \o t) /\ KeysOf(s \o t) \subseteq KeysOf(s) \union KeysOf(t)
<1>1. /\ Len(s \o t) = Len(s) + Len(t) /\ Len(s) \in Nat /\ Len(t) \in Nat
      /\ \A n \in 1..(Len(s) + Len(t)) :
            (s \o t)[n] = IF n <= Len(s) THEN s[n] ELSE t[n - Len(s)]
  BY ConcatProperties, LenProperties
<1>2. ASSUME NEW n \in 1..Len(s \o t)
      PROVE  \/ n \in 1..Len(s) /\ (s \o t)[n] = s[n]
             \/ n - Len(s) \in 1..Len(t) /\ (s \o t)[n] = t[n - Len(s)]
  BY <1>1
<1>3. ASSUME NEW l \in 1..Len(s), NEW m \in 1..Len(t), s[l].item = t[m].item PROVE FALSE
  BY <1>3 DEF ItemsOf
<1>4. ASSUME NEW m \in 1..Len(s \o t), NEW n \in 1..Len(s \o t),
             (s \o t)[m].item = (s \o t)[n].item
      PROVE  m = n
  <2>1. CASE m \in 1..Len(s) /\ n \in 1..Len(s) /\ (s \o t)[m] = s[m] /\ (s \o t)[n] = s[n]
    BY <1>4, <2>1 DEF Distinct
  <2>2. CASE /\ m - Len(s) \in 1..Len(t) /\ n - Len(s) \in 1..Len(t)
             /\ (s \o t)[m] = t[m - Len(s)] /\ (s \o t)[n] = t[n - Len(s)]
    <3>1. m - Len(s) = n - Len(s)
      BY <1>4, <2>2 DEF Distinct
    <3> QED
      BY <1>1, <3>1
  <2> QED
    BY <1>2, <1>3, <1>4, <2>1, <2>2
<1>5. ASSUME NEW x \in KeysOf(s \o t) PROVE x \in KeysOf(s) \union KeysOf(t)
  <2>1. PICK n \in 1..Len(s \o t) : (s \o t)[n].keyed /\ x = (s \o t)[n].item
    BY <1>5 DEF KeysOf
  <2> QED
    BY <1>2, <2>1 DEF KeysOf
<1> QED
  BY <1>4, <1>5 DEF Distinct

\* An entry with a new item at the end.
LEMMA DistinctAppend ==
  ASSUME NEW s \in Seq(Entries), NEW e \in Entries, Distinct(s), e.item \notin ItemsOf(s)
  PROVE  /\ Distinct(Append(s, e))
         /\ KeysOf(Append(s, e)) \subseteq KeysOf(s) \union {e.item}
         /\ e.keyed = FALSE => KeysOf(Append(s, e)) \subseteq KeysOf(s)
<1>1. /\ Len(Append(s, e)) = Len(s) + 1 /\ Len(s) \in Nat
      /\ \A m \in 1..Len(s) : Append(s, e)[m] = s[m]
      /\ Append(s, e)[Len(s) + 1] = e
  BY AppendProperties, LenProperties
<1>2. \A m \in 1..Len(s) : s[m].item # e.item
  BY DEF ItemsOf
<1> DEFINE t == Append(s, e)
<1> HIDE DEF t
<1>3. \A m \in 1..Len(t) : \/ m \in 1..Len(s) /\ t[m] = s[m]
                           \/ m = Len(s) + 1 /\ t[m] = e
  BY <1>1 DEF t
<1>4. Distinct(t)
  BY <1>2, <1>3 DEF Distinct
<1>5. KeysOf(t) \subseteq KeysOf(s) \union {e.item}
  BY <1>3 DEF KeysOf
<1>6. ASSUME e.keyed = FALSE PROVE KeysOf(t) \subseteq KeysOf(s)
  BY <1>3, <1>6 DEF KeysOf
<1> QED
  BY <1>4, <1>5, <1>6 DEF t

\* What a requeue keeps and what it evicts share no item.
LEMMA DistinctCap ==
  ASSUME NEW s \in Seq(Entries), Distinct(s)
  PROVE  /\ Distinct(Kept(s)) /\ Distinct(Evicted(s))
         /\ ItemsOf(Kept(s)) \intersect ItemsOf(Evicted(s)) = {}
         /\ KeysOf(Kept(s)) \subseteq KeysOf(s)
<1> DEFINE n == IF Len(s) > BufferSize THEN BufferSize ELSE Len(s)
<1>1. BufferSize \in Nat /\ Len(s) \in Nat
  BY AgentAssumption, LenProperties
<1>2. n \in 0..Len(s)
  BY <1>1
<1>3. Kept(s) = SubSeq(s, 1, n)
  BY DEF Kept
<1>4. Evicted(s) = SubSeq(s, n + 1, Len(s))
  <2>1. CASE Len(s) > BufferSize
    BY <2>1 DEF Evicted
  <2>2. CASE ~(Len(s) > BufferSize)
    <3>1. SubSeq(s, BufferSize + 1, Len(s)) = << >> /\ SubSeq(s, n + 1, Len(s)) = << >>
      BY <1>1, <2>2, SubSeqEmpty
    <3> QED
      BY <3>1 DEF Evicted
  <2> QED
    BY <2>1, <2>2
<1> HIDE DEF n
<1> QED
  BY <1>2, <1>3, <1>4, DistinctSplit

LEMMA EmptyEntries ==
  Distinct(<<>>) /\ ItemsOf(<<>>) = {} /\ KeysOf(<<>>) = {} /\ <<>> \in Seq(Entries)
BY DEF Distinct, ItemsOf, KeysOf

-----------------------------------------------------------------------------
\* The queues and the batches of the flushers hold an item once between them.
OneCopy ==
  /\ \A k \in Kinds : Distinct(queue[k])
  /\ \A f \in Flushers : Distinct(batch[f])
  /\ \A k, l \in Kinds : k # l => ItemsOf(queue[k]) \intersect ItemsOf(queue[l]) = {}
  /\ \A k \in Kinds, f \in Flushers : ItemsOf(queue[k]) \intersect ItemsOf(batch[f]) = {}
  /\ \A f, g \in Flushers : f # g => ItemsOf(batch[f]) \intersect ItemsOf(batch[g]) = {}

\* Two calls never carry the same item.
CallsApart ==
  /\ \A p \in Producers : ppc[p] # "idle" => result[pitem[p]] = "pending"
  /\ \A p, q \in Producers :
       ppc[p] # "idle" /\ ppc[q] # "idle" /\ pitem[p] = pitem[q] => p = q

\* The item has not been appended, nor settled, nor queued.
Fresh(i) ==
  \/ result[i] = "unsent"
  \/ \E p \in Producers : ppc[p] \in {"enqueue", "blocked"} /\ pitem[p] = i

FreshNowhere ==
  \A i \in Items : Fresh(i) =>
    /\ i \notin confirmed \union shed
    /\ \A k \in Kinds : i \notin ItemsOf(queue[k])
    /\ \A f \in Flushers : i \notin ItemsOf(batch[f])

\* The key of i is on its way to deletion.
Scheduled(i) ==
  \/ \E p \in Producers : i \in pevicted[p]
  \/ \E n \in 1..Len(confirmCh) : i \in confirmCh[n]

\* An entry of i is queued, being sent or on its way back.
ToSend(i) ==
  \/ \E k \in Kinds : i \in ItemsOf(queue[k])
  \/ \E f \in Flushers : pc[f] \in Unsettled /\ i \in ItemsOf(batch[f])

\* A key on its way to deletion is not that of an entry still to be sent.
Spared == \A i \in Items : Scheduled(i) => ~ToSend(i)

\* A durable agent that is not started holds nothing a reload could duplicate.
BeforeStart ==
  Durable /\ ~started =>
    /\ \A k \in Kinds : queue[k] = <<>>
    /\ \A f \in Flushers : batch[f] = <<>> /\ pc[f] \in Clear
    /\ \A p \in Producers : ppc[p] = "idle" /\ pevicted[p] = {}
    /\ confirmCh = <<>>

\* A record is that of an item some call has carried.
Recorded == \A i \in records : result[i] # "unsent"

CopyInv ==
  /\ DoomInv
  /\ OneCopy
  /\ CallsApart
  /\ FreshNowhere
  /\ Spared
  /\ BeforeStart
  /\ Recorded

\* The functions behind the fields of the agent and of its goroutines.
Shapes ==
  /\ queue \in [Kinds -> Seq(Entries)] /\ batch \in [Flushers -> Seq(Entries)]
  /\ pc \in [Flushers -> Places] /\ kind \in [Flushers -> Kinds]
  /\ ppc \in [Producers -> {"idle", "enqueue", "blocked", "finish"}]
  /\ pitem \in [Producers -> Items \union {NoItem}]
  /\ pevicted \in [Producers -> SUBSET Items] /\ confirmCh \in Seq(SUBSET Items)
  /\ result \in [Items -> Results] /\ records \subseteq Items
  /\ \A p \in Producers : ppc[p] # "idle" => pitem[p] \in Items

LEMMA CoreShapes == CoreInv => Shapes
  BY DEF CoreInv, TypeOK, PersistTypeOK, FieldTypeOK, ProducerTypeOK, FlusherTypeOK,
         HistoryTypeOK, HasItem, Shapes

\* The records a reload decodes are of different items, all of the kind's own.
LEMMA LoadKindDistinct ==
  ASSUME PersistTypeOK, NEW k \in Kinds, NEW s \in LoadKind(k)
  PROVE  /\ Len(s) \in Nat
         /\ \A n \in 1..Len(s) : s[n] \in records \ Poison /\ KindOf[s[n]] = k
         /\ \A m, n \in 1..Len(s) : s[m] = s[n] => m = n
<1> DEFINE live == {i \in records \ Corrupt : KindOf[i] = k}
<1>1. IsFiniteSet(live) /\ live \subseteq Items
  BY ItemsAssumption, FS_Subset DEF PersistTypeOK
<1>2. Cardinality(live) \in Nat
  BY <1>1, FS_CardinalityType
<1>3. \/ /\ s \in [1..Cardinality(live) -> live]
         /\ \A x, y \in 1..Cardinality(live) : x < y => stamp[s[x]] < stamp[s[y]]
      \/ s = << >>
  BY DEF LoadKind
<1>4. \A i \in live : i \in records \ Poison /\ KindOf[i] = k
  BY DEF Corrupt
<1>5. \A i \in live : stamp[i] \in Nat
  BY <1>1 DEF PersistTypeOK
<1> HIDE DEF live
<1>6. CASE /\ s \in [1..Cardinality(live) -> live]
           /\ \A x, y \in 1..Cardinality(live) : x < y => stamp[s[x]] < stamp[s[y]]
  <2>1. s \in Seq(live) /\ Len(s) = Cardinality(live)
    BY <1>2, <1>6, SeqDef, LenProperties
  <2>2. ASSUME NEW m \in 1..Len(s), NEW n \in 1..Len(s), s[m] = s[n] PROVE m = n
    <3>1. ~(m < n) /\ ~(n < m)
      BY <1>2, <1>5, <1>6, <2>1, <2>2
    <3> QED
      BY <3>1, <1>2, <2>1
  <2> QED
    BY <1>2, <1>4, <1>6, <2>1, <2>2
<1>7. CASE s = << >>
  BY <1>7
<1> QED
  BY <1>3, <1>6, <1>7

\* A reload into empty queues brings every item once, and deletes no record of an
\* entry it keeps.
LEMMA ReloadCopies ==
  ASSUME CoreInv, \A k \in Kinds : queue[k] = <<>>,
         NEW le \in LoadKind("event"), NEW lm \in LoadKind("metric"),
         Reload([k \in Kinds |-> IF k = "event" THEN le ELSE lm])
  PROVE  /\ \A k \in Kinds :
              /\ Distinct(queue'[k])
              /\ ItemsOf(queue'[k]) \subseteq {i \in records : KindOf[i] = k}
              /\ KeysOf(queue'[k]) \subseteq records'
         /\ shed' \subseteq shed \union records
         /\ records' \subseteq records
<1> DEFINE loaded == [k \in Kinds |-> IF k = "event" THEN le ELSE lm]
           keyedOf(k) == [n \in 1..Len(loaded[k]) |-> [item |-> loaded[k][n], keyed |-> TRUE]]
           merged == [k \in Kinds |-> queue[k] \o keyedOf(k)]
           over == [k \in Kinds |-> IF Len(merged[k]) > BufferSize
                                    THEN Len(merged[k]) - BufferSize ELSE 0]
           head == [k \in Kinds |-> SubSeq(merged[k], 1, over[k])]
           rest == [k \in Kinds |-> SubSeq(merged[k], over[k] + 1, Len(merged[k]))]
<1>1. BufferSize \in Nat
  BY AgentAssumption
<1>2. ASSUME NEW k \in Kinds
      PROVE  /\ Len(loaded[k]) \in Nat
             /\ \A n \in 1..Len(loaded[k]) :
                  loaded[k][n] \in records \ Poison /\ KindOf[loaded[k][n]] = k
             /\ \A m, n \in 1..Len(loaded[k]) : loaded[k][m] = loaded[k][n] => m = n
  BY LoadKindDistinct DEF CoreInv, TypeOK, Kinds
<1> HIDE DEF loaded
<1>3. ASSUME NEW k \in Kinds
      PROVE  /\ merged[k] \in Seq(Entries) /\ Len(merged[k]) \in Nat
             /\ Distinct(merged[k])
             /\ ItemsOf(merged[k]) \subseteq {i \in records \ Poison : KindOf[i] = k}
  <2>1. \A n \in 1..Len(loaded[k]) : [item |-> loaded[k][n], keyed |-> TRUE] \in Entries
    BY <1>2 DEF Entries, CoreInv, TypeOK, PersistTypeOK
  <2>2. keyedOf(k) \in Seq(Entries) /\ Len(keyedOf(k)) = Len(loaded[k])
    BY <1>2, <2>1
  <2>3. \A n \in 1..Len(keyedOf(k)) : keyedOf(k)[n].item = loaded[k][n]
    BY <2>2
  <2>4. merged[k] = keyedOf(k)
    <3>1. merged[k] = <<>> \o keyedOf(k)
      OBVIOUS
    <3> HIDE DEF merged, keyedOf
    <3> QED
      BY <2>2, <3>1, ConcatEmptySeq
  <2> HIDE DEF merged, keyedOf
  <2>5. Distinct(merged[k])
    BY <1>2, <2>2, <2>3, <2>4 DEF Distinct
  <2>6. ItemsOf(merged[k]) \subseteq {i \in records \ Poison : KindOf[i] = k}
    BY <1>2, <2>2, <2>3, <2>4 DEF ItemsOf
  <2> QED
    BY <1>2, <2>2, <2>4, <2>5, <2>6
<1>4. ASSUME NEW k \in Kinds PROVE over[k] \in 0..Len(merged[k])
  <2>1. over[k] = IF Len(merged[k]) > BufferSize THEN Len(merged[k]) - BufferSize ELSE 0
    OBVIOUS
  <2>2. Len(merged[k]) \in Nat
    BY <1>3
  <2> HIDE DEF merged, over
  <2> QED
    BY <1>1, <2>1, <2>2
<1>5. /\ queue' = rest
      /\ shed' = shed \union UNION {ItemsOf(head[k]) : k \in Kinds}
      /\ \E gone \in SUBSET (Corrupt \union UNION {KeysOf(head[k]) : k \in Kinds}) :
           Del(gone, TRUE)
  BY DEF Reload, loaded
<1> HIDE DEF merged, over
<1>6. ASSUME NEW k \in Kinds
      PROVE  /\ head[k] \in Seq(Entries) /\ rest[k] \in Seq(Entries)
             /\ Distinct(rest[k])
             /\ ItemsOf(head[k]) \intersect ItemsOf(rest[k]) = {}
             /\ ItemsOf(head[k]) \union ItemsOf(rest[k]) \subseteq
                  {i \in records \ Poison : KindOf[i] = k}
  BY <1>3, <1>4, DistinctSplit, ItemsOfSplit
<1> HIDE DEF head, rest
<1>7. PICK gone : /\ gone \subseteq Corrupt \union UNION {KeysOf(head[k]) : k \in Kinds}
                  /\ records' = records \/ records' = records \ gone
  BY <1>5 DEF Del
<1>8. ASSUME NEW k \in Kinds, NEW l \in Kinds PROVE KeysOf(head[l]) \intersect ItemsOf(rest[k]) = {}
  <2>1. KeysOf(head[l]) \subseteq ItemsOf(head[l])
    BY <1>6, ItemsOfType
  <2>2. CASE l = k
    BY <1>6, <2>1, <2>2
  <2>3. CASE l # k
    <3>1. \A x \in ItemsOf(head[l]) : KindOf[x] = l
      BY <1>6
    <3>2. \A x \in ItemsOf(rest[k]) : KindOf[x] = k
      BY <1>6
    <3> QED
      BY <2>1, <2>3, <3>1, <3>2
  <2> QED
    BY <2>2, <2>3
<1>9. ASSUME NEW k \in Kinds, NEW x \in KeysOf(rest[k]) PROVE x \in records'
  <2>1. x \in ItemsOf(rest[k])
    BY <1>6, ItemsOfType
  <2>2. x \in records /\ x \notin Poison
    BY <1>6, <2>1
  <2>3. x \notin UNION {KeysOf(head[l]) : l \in Kinds}
    BY <1>8, <2>1
  <2>4. x \notin gone
    BY <1>7, <2>2, <2>3 DEF Corrupt
  <2> QED
    BY <1>7, <2>2, <2>4
<1>10. ASSUME NEW k \in Kinds
       PROVE  /\ Distinct(queue'[k])
              /\ ItemsOf(queue'[k]) \subseteq {i \in records : KindOf[i] = k}
              /\ KeysOf(queue'[k]) \subseteq records'
  <2>1. queue'[k] = rest[k]
    BY <1>5
  <2>2. KeysOf(rest[k]) \subseteq records'
    BY <1>9
  <2> QED
    BY <1>6, <2>1, <2>2
<1>11. shed' \subseteq shed \union records
  <2>1. \A k \in Kinds : ItemsOf(head[k]) \subseteq records
    BY <1>6
  <2> QED
    BY <1>5, <2>1
<1>12. records' \subseteq records
  BY <1>7
<1> QED
  BY <1>10, <1>11, <1>12

\* A call that begins takes an item no other call carries.
LEMMA CallsNext ==
  ASSUME CoreInv, CallsApart, [Next]_vars
  PROVE  CallsApart'
<1>1. CoreInv /\ CallsApart /\ Shapes
  BY CoreShapes
<1> USE DEF calls, entries, verdicts, doomedKeys, store, life
<1>2. ASSUME UNCHANGED calls PROVE CallsApart'
  BY <1>1, <1>2 DEF CallsApart
<1>3. ASSUME NEW p \in Producers, CallMoves(p) PROVE CallsApart'
  <2>1. ASSUME NEW i \in Items, ppc[p] = "idle", result[i] = "unsent",
               ppc' = [ppc EXCEPT ![p] = "enqueue"],
               pitem' = [pitem EXCEPT ![p] = i],
               result' = [result EXCEPT ![i] = "pending"]
        PROVE  CallsApart'
    BY <1>1, <2>1 DEF CallsApart, Shapes
  <2>2. ASSUME NEW i \in Items, NEW r, result[i] = "unsent",
               result' = [result EXCEPT ![i] = r], UNCHANGED <<ppc, pitem>>
        PROVE  CallsApart'
    BY <1>1, <2>2 DEF CallsApart, Shapes
  <2>3. ASSUME NEW w \in {"enqueue", "blocked"}, ppc[p] \in {"enqueue", "blocked"},
               ppc' = [ppc EXCEPT ![p] = w], UNCHANGED <<pitem, result>>
        PROVE  CallsApart'
    BY <1>1, <2>3 DEF CallsApart, Shapes
  <2>4. ASSUME NEW r, ppc[p] \in {"enqueue", "blocked"}, Return(p, r) PROVE CallsApart'
    BY <1>1, <2>4 DEF CallsApart, Shapes, Return
  <2> QED
    BY <1>3, <2>1, <2>2, <2>3, <2>4 DEF CallMoves
<1>4. ASSUME NEW p \in Producers, CallReturns(p) PROVE CallsApart'
  BY <1>1, <1>4 DEF CallReturns, CallsApart, Shapes, Return
<1>5. ASSUME NEW p \in Producers, NEW n \in {0, 1}, NEW keyed \in BOOLEAN,
             CallAppends(p, n, keyed)
      PROVE  CallsApart'
  <2>1. /\ ppc[p] = "enqueue" /\ ppc' = [ppc EXCEPT ![p] = "finish"]
        /\ UNCHANGED <<pitem, result>>
    BY <1>5 DEF CallAppends
  <2> QED
    BY <1>1, <2>1 DEF CallsApart, Shapes
<1>6. ASSUME NEW f \in Flushers,
             \/ FlusherMoves(f) \/ FlusherClears(f) \/ FlusherDrains(f) \/ FlusherAnswered(f)
             \/ FlusherConfirms(f) \/ FlusherRequeues(f) \/ FlusherForgets(f)
      PROVE  UNCHANGED calls
  BY <1>6 DEF FlusherMoves, FlusherClears, FlusherDrains, FlusherAnswered, FlusherConfirms,
              FlusherRequeues, FlusherForgets
<1>7. ASSUME WorkerDeletes \/ RecordExpires \/ AgentStarts \/ Nothing PROVE UNCHANGED calls
  BY <1>7 DEF WorkerDeletes, RecordExpires, AgentStarts, Nothing
<1>8. CASE ProcessDies
  BY <1>8 DEF ProcessDies, CallsApart
<1> QED
  BY <1>1, <1>2, <1>3, <1>4, <1>5, <1>6, <1>7, <1>8, StepKinds

\* A record is written for an item whose call is in progress (reserveKeyLocked).
LEMMA RecordedNext ==
  ASSUME CopyInv, [Next]_vars
  PROVE  Recorded'
<1>1. CoreInv /\ CallsApart /\ Shapes /\ Recorded
  BY CoreShapes DEF CopyInv, DoomInv
<1> USE DEF calls, entries, verdicts, doomedKeys, store, life
<1>2. ASSUME records' \subseteq records,
             \A i \in Items : result'[i] = "unsent" => result[i] = "unsent"
      PROVE  Recorded'
  BY <1>1, <1>2 DEF Recorded, Shapes
<1>3. ASSUME NEW p \in Producers, CallMoves(p) PROVE Recorded'
  <2>1. records' = records
    BY <1>3 DEF CallMoves
  <2>2. \A i \in Items : result'[i] = "unsent" => result[i] = "unsent"
    BY <1>1, <1>3 DEF CallMoves, Return, Shapes
  <2> QED
    BY <1>2, <2>1, <2>2
<1>4. ASSUME NEW p \in Producers, CallReturns(p) PROVE Recorded'
  <2>1. records' \subseteq records
    BY <1>4 DEF CallReturns, Forgets
  <2>2. \A i \in Items : result'[i] = "unsent" => result[i] = "unsent"
    BY <1>1, <1>4 DEF CallReturns, Return, Shapes
  <2> QED
    BY <1>2, <2>1, <2>2
<1>5. ASSUME NEW p \in Producers, NEW n \in {0, 1}, NEW keyed \in BOOLEAN,
             CallAppends(p, n, keyed)
      PROVE  Recorded'
  <2>1. /\ ppc[p] = "enqueue" /\ UNCHANGED <<pitem, result>>
        /\ records' \subseteq records \union {pitem[p]}
    BY <1>5 DEF CallAppends
  <2>2. result[pitem[p]] = "pending"
    BY <1>1, <2>1 DEF CallsApart
  <2> QED
    BY <1>1, <2>1, <2>2 DEF Recorded
<1>6. ASSUME NEW f \in Flushers,
             \/ FlusherMoves(f) \/ FlusherClears(f) \/ FlusherDrains(f) \/ FlusherAnswered(f)
             \/ FlusherConfirms(f) \/ FlusherRequeues(f) \/ FlusherForgets(f)
      PROVE  records' \subseteq records /\ result' = result
  BY <1>6 DEF FlusherMoves, FlusherClears, FlusherDrains, FlusherAnswered, FlusherConfirms,
              FlusherRequeues, FlusherForgets, Forgets
<1>7. ASSUME WorkerDeletes \/ RecordExpires \/ Nothing
      PROVE  records' \subseteq records /\ result' = result
  BY <1>7 DEF WorkerDeletes, RecordExpires, Nothing
<1>8. ASSUME AgentStarts PROVE records' \subseteq records /\ result' = result
  <2>1. ASSUME NEW loaded, Reload(loaded) PROVE records' \subseteq records
    BY <2>1, ReloadDeletes
  <2> QED
    BY <1>8, <2>1 DEF AgentStarts
<1>9. CASE ProcessDies
  BY <1>1, <1>2, <1>9 DEF ProcessDies, Shapes
<1> QED
  BY <1>1, <1>2, <1>3, <1>4, <1>5, <1>6, <1>7, <1>8, <1>9, StepKinds

\* Nothing enters a durable agent before it is started: the host does not send,
\* and a flush finds the queues empty.
LEMMA BeforeNext ==
  ASSUME Durable => ~SendBeforeStart, CopyInv, [Next]_vars
  PROVE  BeforeStart'
<1> SUFFICES ASSUME Durable, ~started' PROVE BeforeStart'
  BY DEF BeforeStart
<1>1. CoreInv /\ BeforeStart /\ Shapes
  BY CoreShapes DEF CopyInv, DoomInv
<1> USE DEF calls, entries, verdicts, doomedKeys, store, life
<1>2. CASE ProcessDies
  BY <1>2 DEF ProcessDies, BeforeStart, Clear, Places, Holding
<1>3. ASSUME ~started
      PROVE  /\ \A k \in Kinds : queue[k] = <<>>
             /\ \A f \in Flushers : batch[f] = <<>> /\ pc[f] \in Clear
             /\ \A p \in Producers : ppc[p] = "idle" /\ pevicted[p] = {}
             /\ confirmCh = <<>>
  BY <1>1, <1>3 DEF BeforeStart
<1>4. ASSUME NEW p \in Producers, CallMoves(p) PROVE BeforeStart'
  BY <1>3, <1>4 DEF CallMoves, BeforeStart
<1>5. ASSUME NEW p \in Producers,
             CallReturns(p) \/ \E n \in {0, 1}, keyed \in BOOLEAN : CallAppends(p, n, keyed)
      PROVE  FALSE
  BY <1>3, <1>5 DEF CallReturns, CallAppends
<1>6. ASSUME NEW f \in Flushers, FlusherMoves(f) PROVE BeforeStart'
  BY <1>1, <1>3, <1>6 DEF FlusherMoves, BeforeStart, Shapes, Clear, Places, Holding, Unsettled
<1>7. ASSUME NEW f \in Flushers, FlusherClears(f) PROVE BeforeStart'
  BY <1>1, <1>3, <1>7 DEF FlusherClears, BeforeStart, Shapes, Clear, Places, Holding
<1>8. ASSUME NEW f \in Flushers,
             \/ FlusherDrains(f) \/ FlusherAnswered(f)
             \/ FlusherConfirms(f) \/ FlusherRequeues(f) \/ FlusherForgets(f)
      PROVE  FALSE
  BY <1>1, <1>3, <1>8 DEF FlusherDrains, FlusherAnswered, FlusherConfirms,
              FlusherRequeues, FlusherForgets, Shapes, Clear, Holding
<1>9. CASE RecordExpires \/ Nothing
  BY <1>3, <1>9 DEF RecordExpires, Nothing, BeforeStart
<1>10. CASE WorkerDeletes \/ AgentStarts
  BY <1>3, <1>10 DEF WorkerDeletes, AgentStarts
<1> QED
  BY <1>1, <1>2, <1>4, <1>5, <1>6, <1>7, <1>8, <1>9, <1>10, StepKinds

\* What an append does: `out` leaves the head of the queue, and the item i of the
\* call, which was nowhere before, comes in at the end (appendLocked).
Appended(p, i, k, keyed, out) ==
  /\ i = pitem[p] /\ i \in Items /\ k = KindOf[i] /\ k \in Kinds /\ Fresh(i)
  /\ \A l \in Kinds \ {k} : queue'[l] = queue[l]
  /\ \A q \in Producers \ {p} : pevicted'[q] = pevicted[q]
  /\ out \subseteq ItemsOf(queue[k])
  /\ Distinct(queue'[k])
  /\ ItemsOf(queue'[k]) = (ItemsOf(queue[k]) \ out) \union {i}
  /\ KeysOf(queue'[k]) \subseteq KeysOf(queue[k]) \union {i}
  /\ keyed = FALSE => KeysOf(queue'[k]) \subseteq KeysOf(queue[k])
  /\ shed' = shed \union out
  /\ pevicted'[p] \subseteq out

LEMMA AppendEffect ==
  ASSUME CopyInv, NEW p \in Producers, NEW n \in {0, 1}, NEW keyed \in BOOLEAN,
         CallAppends(p, n, keyed)
  PROVE  \E i, k, out : Appended(p, i, k, keyed, out)
<1> DEFINE i == pitem[p]
           k == KindOf[i]
           head == SubSeq(queue[k], 1, n)
           rest == SubSeq(queue[k], n + 1, Len(queue[k]))
<1>1. Shapes /\ OneCopy /\ FreshNowhere
  BY CoreShapes DEF CopyInv, DoomInv
<1>2. /\ ppc[p] = "enqueue" /\ n \in 0..Len(queue[k])
      /\ queue' = [queue EXCEPT ![k] = Append(rest, [item |-> i, keyed |-> keyed])]
      /\ shed' = shed \union ItemsOf(head)
      /\ pevicted' = [pevicted EXCEPT ![p] = KeysOf(head)]
  BY DEF CallAppends
<1>3. i \in Items /\ k \in Kinds /\ queue[k] \in Seq(Entries)
  BY <1>1, <1>2, ItemsAssumption DEF Shapes
<1>4. /\ Fresh(i) /\ i \notin ItemsOf(queue[k])
      /\ Distinct(queue[k])
  <2>1. Fresh(i)
    BY <1>2 DEF Fresh
  <2> QED
    BY <1>1, <1>3, <2>1 DEF FreshNowhere, OneCopy
<1> DEFINE new == Append(rest, [item |-> i, keyed |-> keyed])
<1>5. /\ head \in Seq(Entries) /\ rest \in Seq(Entries)
      /\ ItemsOf(queue[k]) = ItemsOf(head) \union ItemsOf(rest)
  BY <1>2, <1>3, ItemsOfSplit
<1>6. /\ Distinct(rest) /\ ItemsOf(head) \intersect ItemsOf(rest) = {}
      /\ KeysOf(rest) \subseteq KeysOf(queue[k])
  BY <1>2, <1>3, <1>4, DistinctSplit
<1>7. /\ queue'[k] = new /\ \A l \in Kinds \ {k} : queue'[l] = queue[l]
      /\ pevicted'[p] = KeysOf(head)
      /\ \A q \in Producers \ {p} : pevicted'[q] = pevicted[q]
  BY <1>1, <1>2, <1>3 DEF Shapes
<1>8. [item |-> i, keyed |-> keyed] \in Entries
  BY <1>3 DEF Entries
<1> HIDE DEF head, rest, i, k
<1>9. /\ ItemsOf(new) = ItemsOf(rest) \union {i} /\ Distinct(new)
      /\ KeysOf(new) \subseteq KeysOf(rest) \union {i}
      /\ keyed = FALSE => KeysOf(new) \subseteq KeysOf(rest)
  <2> DEFINE e == [item |-> i, keyed |-> keyed]
  <2>1. e.item = i /\ e.keyed = keyed /\ e \in Entries /\ new = Append(rest, e)
    BY <1>8
  <2> HIDE DEF e, new
  <2>2. i \notin ItemsOf(rest)
    BY <1>4, <1>5
  <2> QED
    BY <1>5, <1>6, <2>1, <2>2, ItemsOfAppend, DistinctAppend
<1> HIDE DEF new
<1>10. KeysOf(head) \subseteq ItemsOf(head)
  BY <1>5, ItemsOfType
<1>11. /\ ItemsOf(queue'[k]) = (ItemsOf(queue[k]) \ ItemsOf(head)) \union {i}
       /\ ItemsOf(head) \in SUBSET ItemsOf(queue[k])
  BY <1>5, <1>6, <1>7, <1>9
<1>12. /\ Distinct(queue'[k])
       /\ KeysOf(queue'[k]) \subseteq KeysOf(queue[k]) \union {i}
       /\ keyed = FALSE => KeysOf(queue'[k]) \subseteq KeysOf(queue[k])
       /\ shed' = shed \union ItemsOf(head)
       /\ pevicted'[p] \subseteq ItemsOf(head)
  BY <1>2, <1>6, <1>7, <1>9, <1>10
<1> DEFINE out == ItemsOf(head)
<1>13. Appended(p, i, k, keyed, out)
  <2>1. i = pitem[p] /\ k = KindOf[i]
    BY DEF i, k
  <2> QED
    BY <1>3, <1>4, <1>7, <1>11, <1>12, <2>1 DEF Appended
<1> QED
  BY <1>13

\* What a requeue does: the batch goes back, and `out`, which the merged queue has
\* no room for, is shed (requeueEvents).
Requeued(f, k, out) ==
  /\ k = kind[f] /\ k \in Kinds /\ pc[f] = "requeue" /\ pc'[f] = "orphans"
  /\ \A l \in Kinds \ {k} : queue'[l] = queue[l]
  /\ \A g \in Flushers \ {f} : pc'[g] = pc[g] /\ batch'[g] = batch[g]
  /\ out \subseteq ItemsOf(batch[f]) \union ItemsOf(queue[k])
  /\ Distinct(queue'[k]) /\ Distinct(batch'[f])
  /\ ItemsOf(queue'[k]) = (ItemsOf(batch[f]) \union ItemsOf(queue[k])) \ out
  /\ ItemsOf(batch'[f]) = out
  /\ KeysOf(queue'[k]) \subseteq KeysOf(batch[f]) \union KeysOf(queue[k])
  /\ shed' = shed \union out

LEMMA RequeueEffect ==
  ASSUME CopyInv, NEW f \in Flushers, FlusherRequeues(f)
  PROVE  \E k, out : Requeued(f, k, out)
<1> DEFINE merged == batch[f] \o queue[kind[f]]
<1>1. Shapes /\ OneCopy
  BY CoreShapes DEF CopyInv, DoomInv
<1>2. /\ kind[f] \in Kinds /\ batch[f] \in Seq(Entries) /\ queue[kind[f]] \in Seq(Entries)
      /\ Distinct(batch[f]) /\ Distinct(queue[kind[f]])
      /\ ItemsOf(batch[f]) \intersect ItemsOf(queue[kind[f]]) = {}
  BY <1>1 DEF Shapes, OneCopy
<1>3. /\ merged \in Seq(Entries) /\ Distinct(merged)
      /\ ItemsOf(merged) = ItemsOf(batch[f]) \union ItemsOf(queue[kind[f]])
      /\ KeysOf(merged) \subseteq KeysOf(batch[f]) \union KeysOf(queue[kind[f]])
  BY <1>2, ConcatProperties, ItemsOfConcat, DistinctConcat
<1>4. /\ pc[f] = "requeue" /\ pc' = [pc EXCEPT ![f] = "orphans"]
      /\ queue' = [queue EXCEPT ![kind[f]] = Kept(merged)]
      /\ batch' = [batch EXCEPT ![f] = Evicted(merged)]
      /\ shed' = shed \union ItemsOf(Evicted(merged))
  BY DEF FlusherRequeues
<1> HIDE DEF merged
<1>5. /\ Distinct(Kept(merged)) /\ Distinct(Evicted(merged))
      /\ ItemsOf(Kept(merged)) \intersect ItemsOf(Evicted(merged)) = {}
      /\ ItemsOf(merged) = ItemsOf(Kept(merged)) \union ItemsOf(Evicted(merged))
      /\ KeysOf(Kept(merged)) \subseteq KeysOf(merged)
  BY <1>3, CapProperties, DistinctCap
<1>6. /\ queue'[kind[f]] = Kept(merged) /\ batch'[f] = Evicted(merged) /\ pc'[f] = "orphans"
      /\ \A l \in Kinds \ {kind[f]} : queue'[l] = queue[l]
      /\ \A g \in Flushers \ {f} : pc'[g] = pc[g] /\ batch'[g] = batch[g]
  BY <1>1, <1>2, <1>4 DEF Shapes
<1> DEFINE out == ItemsOf(Evicted(merged))
<1>7. /\ out \subseteq ItemsOf(batch[f]) \union ItemsOf(queue[kind[f]])
      /\ ItemsOf(queue'[kind[f]]) = (ItemsOf(batch[f]) \union ItemsOf(queue[kind[f]])) \ out
  BY <1>3, <1>5, <1>6
<1>8. Requeued(f, kind[f], out)
  BY <1>2, <1>3, <1>4, <1>5, <1>6, <1>7 DEF Requeued
<1> QED
  BY <1>8

\* What a drain does: the queue of a kind becomes the batch.
LEMMA DrainEffect ==
  ASSUME Shapes, NEW f \in Flushers, FlusherDrains(f)
  PROVE  /\ kind[f] \in Kinds /\ pc[f] = "drain" /\ pc'[f] = "send"
         /\ batch'[f] = queue[kind[f]] /\ queue'[kind[f]] = <<>> /\ queue[kind[f]] # <<>>
         /\ \A l \in Kinds \ {kind[f]} : queue'[l] = queue[l]
         /\ \A g \in Flushers \ {f} : pc'[g] = pc[g] /\ batch'[g] = batch[g]
BY DEF Shapes, FlusherDrains

\* The end of a flush, or a skipped kind: the batch is let go.
LEMMA ClearEffect ==
  ASSUME Shapes, NEW f \in Flushers, FlusherClears(f) \/ FlusherForgets(f)
  PROVE  /\ batch'[f] = <<>> /\ pc'[f] \in {"drain", "close", "idle"}
         /\ UNCHANGED queue
         /\ \A g \in Flushers \ {f} : pc'[g] = pc[g] /\ batch'[g] = batch[g]
<1> USE DEF calls, entries, verdicts, doomedKeys, store, life
<1>1. CASE FlusherClears(f)
  BY <1>1 DEF Shapes, FlusherClears
<1>2. CASE FlusherForgets(f)
  BY <1>2 DEF Shapes, FlusherForgets
<1> QED
  BY <1>1, <1>2

\* The steps that leave the queues and the batches alone.
LEMMA EntriesFrame ==
  ASSUME \/ \E p \in Producers : CallMoves(p) \/ CallReturns(p)
         \/ \E f \in Flushers : FlusherMoves(f) \/ FlusherAnswered(f) \/ FlusherConfirms(f)
         \/ WorkerDeletes \/ RecordExpires \/ Nothing
         \/ AgentStarts /\ ~Durable
  PROVE  UNCHANGED <<queue, batch>>
BY DEF CallMoves, CallReturns, FlusherMoves, FlusherAnswered, FlusherConfirms, WorkerDeletes,
       RecordExpires, Nothing, AgentStarts, entries

\* No step puts an item in two places.
LEMMA CopiesNext ==
  ASSUME Durable => ~SendBeforeStart, CopyInv, [Next]_vars
  PROVE  OneCopy'
<1>1. CoreInv /\ Shapes /\ OneCopy /\ FreshNowhere /\ BeforeStart
  BY CoreShapes DEF CopyInv, DoomInv
<1> USE DEF calls, entries, verdicts, doomedKeys, store, life
<1>2. ASSUME UNCHANGED <<queue, batch>> PROVE OneCopy'
  BY <1>1, <1>2 DEF OneCopy
<1>3. ASSUME NEW p \in Producers, NEW n \in {0, 1}, NEW keyed \in BOOLEAN,
             CallAppends(p, n, keyed)
      PROVE  OneCopy'
  <2>0. PICK i, k, out : Appended(p, i, k, keyed, out)
    BY <1>1, <1>3, AppendEffect
  <2>1. /\ i \in Items /\ k \in Kinds /\ Fresh(i)
        /\ \A l \in Kinds \ {k} : queue'[l] = queue[l]
        /\ Distinct(queue'[k])
        /\ ItemsOf(queue'[k]) = (ItemsOf(queue[k]) \ out) \union {i}
    BY <2>0 DEF Appended
  <2>2. batch' = batch
    BY <1>3 DEF CallAppends
  <2>3. /\ \A l \in Kinds : i \notin ItemsOf(queue[l])
        /\ \A f \in Flushers : i \notin ItemsOf(batch[f])
    BY <1>1, <2>1 DEF FreshNowhere
  <2>4. \A l \in Kinds : ItemsOf(queue'[l]) \subseteq ItemsOf(queue[l]) \union {i}
    BY <2>1
  <2>5. \A l \in Kinds : l # k => ItemsOf(queue'[l]) = ItemsOf(queue[l])
    BY <2>1
  <2>6. \A l \in Kinds : Distinct(queue'[l])
    BY <1>1, <2>1 DEF OneCopy
  <2>7. ASSUME NEW l \in Kinds, NEW m \in Kinds, l # m
        PROVE  ItemsOf(queue'[l]) \intersect ItemsOf(queue'[m]) = {}
    <3>1. ItemsOf(queue[l]) \intersect ItemsOf(queue[m]) = {}
      BY <1>1, <2>7 DEF OneCopy
    <3> QED
      BY <2>3, <2>4, <2>5, <2>7, <3>1
  <2>8. ASSUME NEW l \in Kinds, NEW f \in Flushers
        PROVE  ItemsOf(queue'[l]) \intersect ItemsOf(batch'[f]) = {}
    <3>1. ItemsOf(queue[l]) \intersect ItemsOf(batch[f]) = {}
      BY <1>1 DEF OneCopy
    <3> QED
      BY <2>2, <2>3, <2>4, <3>1
  <2> QED
    BY <1>1, <2>2, <2>6, <2>7, <2>8 DEF OneCopy
<1>4. ASSUME NEW f \in Flushers, FlusherClears(f) \/ FlusherForgets(f) PROVE OneCopy'
  <2>1. /\ batch'[f] = <<>> /\ queue' = queue
        /\ \A g \in Flushers \ {f} : batch'[g] = batch[g]
    BY <1>1, <1>4, ClearEffect
  <2> QED
    BY <1>1, <2>1, EmptyEntries DEF OneCopy
<1>5. ASSUME NEW f \in Flushers, FlusherDrains(f) PROVE OneCopy'
  <2>1. PICK k \in Kinds :
          /\ batch'[f] = queue[k] /\ queue'[k] = <<>>
          /\ \A l \in Kinds \ {k} : queue'[l] = queue[l]
          /\ \A g \in Flushers \ {f} : batch'[g] = batch[g]
    BY <1>1, <1>5, DrainEffect
  <2>2. (\A l \in Kinds : Distinct(queue'[l])) /\ \A g \in Flushers : Distinct(batch'[g])
    BY <1>1, <2>1, EmptyEntries DEF OneCopy
  <2>3. \A l, m \in Kinds : l # m => ItemsOf(queue'[l]) \intersect ItemsOf(queue'[m]) = {}
    BY <1>1, <2>1, EmptyEntries DEF OneCopy
  <2>4. ASSUME NEW l \in Kinds, NEW g \in Flushers
        PROVE  ItemsOf(queue'[l]) \intersect ItemsOf(batch'[g]) = {}
    <3>1. CASE l = k
      BY <2>1, <3>1, EmptyEntries
    <3>2. CASE l # k /\ g = f
      BY <1>1, <2>1, <3>2 DEF OneCopy
    <3>3. CASE l # k /\ g # f
      BY <1>1, <2>1, <3>3 DEF OneCopy
    <3> QED
      BY <3>1, <3>2, <3>3
  <2>5. ASSUME NEW g \in Flushers, NEW h \in Flushers, g # h
        PROVE  ItemsOf(batch'[g]) \intersect ItemsOf(batch'[h]) = {}
    <3>1. CASE g # f /\ h # f
      BY <1>1, <2>1, <2>5, <3>1 DEF OneCopy
    <3>2. CASE g = f
      BY <1>1, <2>1, <2>5, <3>2 DEF OneCopy
    <3>3. CASE h = f
      BY <1>1, <2>1, <2>5, <3>3 DEF OneCopy
    <3> QED
      BY <3>1, <3>2, <3>3
  <2> QED
    BY <2>2, <2>3, <2>4, <2>5 DEF OneCopy
<1>6. ASSUME NEW f \in Flushers, FlusherRequeues(f) PROVE OneCopy'
  <2>0. PICK k, out : Requeued(f, k, out)
    BY <1>6, RequeueEffect
  <2>1. /\ k \in Kinds
        /\ \A l \in Kinds \ {k} : queue'[l] = queue[l]
        /\ \A g \in Flushers \ {f} : batch'[g] = batch[g]
        /\ out \subseteq ItemsOf(batch[f]) \union ItemsOf(queue[k])
        /\ Distinct(queue'[k]) /\ Distinct(batch'[f])
        /\ ItemsOf(queue'[k]) = (ItemsOf(batch[f]) \union ItemsOf(queue[k])) \ out
        /\ ItemsOf(batch'[f]) = out
    BY <2>0 DEF Requeued
  <2>2. (\A l \in Kinds : Distinct(queue'[l])) /\ \A g \in Flushers : Distinct(batch'[g])
    BY <1>1, <2>1 DEF OneCopy
  <2>3. ASSUME NEW l \in Kinds, l # k
        PROVE  /\ ItemsOf(queue'[l]) \intersect ItemsOf(queue'[k]) = {}
               /\ ItemsOf(queue'[l]) \intersect ItemsOf(batch'[f]) = {}
    <3>1. /\ ItemsOf(queue[l]) \intersect ItemsOf(queue[k]) = {}
          /\ ItemsOf(queue[l]) \intersect ItemsOf(batch[f]) = {}
      BY <1>1, <2>1, <2>3 DEF OneCopy
    <3> QED
      BY <2>1, <2>3, <3>1
  <2>4. ASSUME NEW g \in Flushers, g # f
        PROVE  /\ ItemsOf(queue'[k]) \intersect ItemsOf(batch'[g]) = {}
               /\ ItemsOf(batch'[f]) \intersect ItemsOf(batch'[g]) = {}
    <3>1. /\ ItemsOf(queue[k]) \intersect ItemsOf(batch[g]) = {}
          /\ ItemsOf(batch[f]) \intersect ItemsOf(batch[g]) = {}
      BY <1>1, <2>1, <2>4 DEF OneCopy
    <3> QED
      BY <2>1, <2>4, <3>1
  <2>5. ASSUME NEW l \in Kinds, NEW g \in Flushers, l # k, g # f
        PROVE  ItemsOf(queue'[l]) \intersect ItemsOf(batch'[g]) = {}
    BY <1>1, <2>1, <2>5 DEF OneCopy
  <2>6. ItemsOf(queue'[k]) \intersect ItemsOf(batch'[f]) = {}
    BY <2>1
  <2>7. \A l, m \in Kinds : l # m => ItemsOf(queue'[l]) \intersect ItemsOf(queue'[m]) = {}
    <3>1. ASSUME NEW l \in Kinds, NEW m \in Kinds, l # m
          PROVE  ItemsOf(queue'[l]) \intersect ItemsOf(queue'[m]) = {}
      <4>1. CASE l # k /\ m # k
        BY <1>1, <2>1, <3>1, <4>1 DEF OneCopy
      <4>2. CASE l = k
        BY <2>3, <3>1, <4>2
      <4>3. CASE m = k
        BY <2>3, <3>1, <4>3
      <4> QED
        BY <4>1, <4>2, <4>3
    <3> QED
      BY <3>1
  <2>8. ASSUME NEW g \in Flushers, NEW h \in Flushers, g # h
        PROVE  ItemsOf(batch'[g]) \intersect ItemsOf(batch'[h]) = {}
    <3>1. CASE g # f /\ h # f
      BY <1>1, <2>1, <2>8, <3>1 DEF OneCopy
    <3>2. CASE g = f
      BY <2>4, <2>8, <3>2
    <3>3. CASE h = f
      BY <2>4, <2>8, <3>3
    <3> QED
      BY <3>1, <3>2, <3>3
  <2>9. \A l \in Kinds, g \in Flushers : ItemsOf(queue'[l]) \intersect ItemsOf(batch'[g]) = {}
    BY <2>3, <2>4, <2>5, <2>6
  <2> QED
    BY <2>2, <2>7, <2>8, <2>9 DEF OneCopy
<1>7. CASE AgentStarts /\ Durable
  <2>1. (\A k \in Kinds : queue[k] = <<>>) /\ \A f \in Flushers : batch[f] = <<>>
    BY <1>1, <1>7 DEF AgentStarts, BeforeStart
  <2>2. batch' = batch
    BY <1>7 DEF AgentStarts
  <2>3. \A k \in Kinds : /\ Distinct(queue'[k])
                         /\ ItemsOf(queue'[k]) \subseteq {i \in records : KindOf[i] = k}
    BY <1>1, <1>7, <2>1, ReloadCopies DEF AgentStarts
  <2>4. \A f \in Flushers : batch'[f] = <<>>
    BY <2>1, <2>2
  <2>5. \A k, l \in Kinds : k # l => ItemsOf(queue'[k]) \intersect ItemsOf(queue'[l]) = {}
    BY <2>3
  <2> QED
    BY <2>3, <2>4, <2>5, EmptyEntries DEF OneCopy
<1>8. CASE ProcessDies
  <2>1. (\A k \in Kinds : queue'[k] = <<>>) /\ \A f \in Flushers : batch'[f] = <<>>
    BY <1>8 DEF ProcessDies
  <2> QED
    BY <2>1, EmptyEntries DEF OneCopy
<1> QED
  <2>1. CASE \/ \E p \in Producers : CallMoves(p) \/ CallReturns(p)
             \/ \E f \in Flushers : FlusherMoves(f) \/ FlusherAnswered(f) \/ FlusherConfirms(f)
             \/ WorkerDeletes \/ RecordExpires \/ Nothing
             \/ AgentStarts /\ ~Durable
    BY <1>2, <2>1, EntriesFrame
  <2> QED
    BY <1>1, <1>3, <1>4, <1>5, <1>6, <1>7, <1>8, <2>1, StepKinds

\* No step makes an item fresh again.
LEMMA FreshStep ==
  ASSUME CopyInv, [Next]_vars
  PROVE  \A i \in Items : Fresh(i)' => Fresh(i)
<1>1. Shapes /\ CallsApart
  BY CoreShapes DEF CopyInv, DoomInv
<1> USE DEF calls, entries, verdicts, doomedKeys, store, life
<1>2. ASSUME UNCHANGED calls PROVE \A i \in Items : Fresh(i)' => Fresh(i)
  BY <1>2 DEF Fresh
<1>3. ASSUME NEW p \in Producers, CallMoves(p), NEW i \in Items, Fresh(i)' PROVE Fresh(i)
  <2>1. ASSUME NEW j \in Items, ppc[p] = "idle", result[j] = "unsent",
               ppc' = [ppc EXCEPT ![p] = "enqueue"],
               pitem' = [pitem EXCEPT ![p] = j],
               result' = [result EXCEPT ![j] = "pending"]
        PROVE  Fresh(i)
    BY <1>1, <1>3, <2>1 DEF Fresh, Shapes
  <2>2. ASSUME NEW j \in Items, NEW r, result[j] = "unsent", r # "unsent",
               result' = [result EXCEPT ![j] = r], UNCHANGED <<ppc, pitem>>
        PROVE  Fresh(i)
    BY <1>1, <1>3, <2>2 DEF Fresh, Shapes
  <2>3. ASSUME NEW w \in {"enqueue", "blocked"}, ppc[p] \in {"enqueue", "blocked"},
               ppc' = [ppc EXCEPT ![p] = w], UNCHANGED <<pitem, result>>
        PROVE  Fresh(i)
    BY <1>1, <1>3, <2>3 DEF Fresh, Shapes
  <2>4. ASSUME NEW r, r # "unsent", ppc[p] \in {"enqueue", "blocked"}, Return(p, r)
        PROVE  Fresh(i)
    BY <1>1, <1>3, <2>4 DEF Fresh, Shapes, Return
  <2> QED
    BY <1>3, <2>1, <2>2, <2>3, <2>4 DEF CallMoves
<1>4. ASSUME NEW p \in Producers, CallReturns(p), NEW i \in Items, Fresh(i)' PROVE Fresh(i)
  BY <1>1, <1>4 DEF CallReturns, Fresh, Shapes, Return
<1>5. ASSUME NEW p \in Producers, NEW n \in {0, 1}, NEW keyed \in BOOLEAN,
             CallAppends(p, n, keyed), NEW i \in Items, Fresh(i)'
      PROVE  Fresh(i)
  <2>1. ppc[p] = "enqueue" /\ ppc' = [ppc EXCEPT ![p] = "finish"] /\ UNCHANGED <<pitem, result>>
    BY <1>5 DEF CallAppends
  <2> QED
    BY <1>1, <1>5, <2>1 DEF Fresh, Shapes
<1>6. ASSUME NEW f \in Flushers,
             \/ FlusherMoves(f) \/ FlusherClears(f) \/ FlusherDrains(f) \/ FlusherAnswered(f)
             \/ FlusherConfirms(f) \/ FlusherRequeues(f) \/ FlusherForgets(f)
      PROVE  UNCHANGED calls
  BY <1>6 DEF FlusherMoves, FlusherClears, FlusherDrains, FlusherAnswered, FlusherConfirms,
              FlusherRequeues, FlusherForgets
<1>7. ASSUME WorkerDeletes \/ RecordExpires \/ AgentStarts \/ Nothing PROVE UNCHANGED calls
  BY <1>7 DEF WorkerDeletes, RecordExpires, AgentStarts, Nothing
<1>8. ASSUME ProcessDies, NEW i \in Items, Fresh(i)' PROVE Fresh(i)
  BY <1>1, <1>8 DEF ProcessDies, Fresh, Shapes
<1> QED
  BY <1>2, <1>3, <1>4, <1>5, <1>6, <1>7, <1>8, StepKinds DEF CopyInv, DoomInv

\* The item an append puts in the queue is no longer fresh.
LEMMA AppendedStale ==
  ASSUME CopyInv, NEW p \in Producers, NEW n \in {0, 1}, NEW keyed \in BOOLEAN,
         CallAppends(p, n, keyed), NEW i \in Items, Fresh(i)'
  PROVE  i # pitem[p]
<1>1. Shapes /\ CallsApart
  BY CoreShapes DEF CopyInv, DoomInv
<1>2. ppc[p] = "enqueue" /\ ppc' = [ppc EXCEPT ![p] = "finish"] /\ UNCHANGED <<pitem, result>>
  BY DEF CallAppends
<1> SUFFICES ASSUME i = pitem[p] PROVE FALSE
  OBVIOUS
<1>3. result'[i] = "pending"
  BY <1>1, <1>2 DEF CallsApart
<1>4. ASSUME NEW q \in Producers, ppc'[q] \in {"enqueue", "blocked"}, pitem'[q] = i
      PROVE  FALSE
  BY <1>1, <1>2, <1>4 DEF CallsApart, Shapes
<1> QED
  BY <1>3, <1>4 DEF Fresh

\* A fresh item is nowhere yet: steps only move items that are somewhere.
LEMMA FreshNext ==
  ASSUME Durable => ~SendBeforeStart, CopyInv, [Next]_vars
  PROVE  FreshNowhere'
<1>1. CoreInv /\ Shapes /\ FreshNowhere /\ BeforeStart /\ Recorded
  BY CoreShapes DEF CopyInv, DoomInv
<1> USE DEF calls, entries, verdicts, doomedKeys, store, life
<1> SUFFICES ASSUME NEW i \in Items, Fresh(i)'
             PROVE  /\ i \notin confirmed' \union shed'
                    /\ \A k \in Kinds : i \notin ItemsOf(queue'[k])
                    /\ \A f \in Flushers : i \notin ItemsOf(batch'[f])
  BY DEF FreshNowhere
<1> DEFINE Goal == /\ i \notin confirmed' \union shed'
                   /\ \A k \in Kinds : i \notin ItemsOf(queue'[k])
                   /\ \A f \in Flushers : i \notin ItemsOf(batch'[f])
<1>2. /\ Fresh(i)
      /\ i \notin confirmed /\ i \notin shed
      /\ \A k \in Kinds : i \notin ItemsOf(queue[k])
      /\ \A f \in Flushers : i \notin ItemsOf(batch[f])
  <2>1. Fresh(i)
    BY FreshStep
  <2> QED
    BY <1>1, <2>1 DEF FreshNowhere
<1>3. ASSUME UNCHANGED <<queue, batch>>, UNCHANGED verdicts PROVE Goal
  BY <1>2, <1>3
<1>4. ASSUME NEW p \in Producers, NEW n \in {0, 1}, NEW keyed \in BOOLEAN,
             CallAppends(p, n, keyed)
      PROVE  Goal
  <2>1. PICK j, k, out : Appended(p, j, k, keyed, out)
    BY <1>4, AppendEffect
  <2>2. i # j
    BY <1>4, <2>1, AppendedStale DEF Appended
  <2>3. UNCHANGED <<batch, confirmed>>
    BY <1>4 DEF CallAppends
  <2>4. i \notin shed' /\ \A l \in Kinds : i \notin ItemsOf(queue'[l])
    BY <1>2, <2>1, <2>2 DEF Appended
  <2> QED
    BY <1>2, <2>3, <2>4
<1>5. ASSUME NEW f \in Flushers, FlusherClears(f) \/ FlusherForgets(f) PROVE Goal
  <2>1. /\ batch'[f] = <<>> /\ queue' = queue
        /\ \A g \in Flushers \ {f} : batch'[g] = batch[g]
    BY <1>1, <1>5, ClearEffect
  <2>2. UNCHANGED verdicts
    BY <1>5 DEF FlusherClears, FlusherForgets
  <2> QED
    BY <1>2, <2>1, <2>2, EmptyEntries
<1>6. ASSUME NEW f \in Flushers, FlusherDrains(f) PROVE Goal
  <2>1. PICK k \in Kinds :
          /\ batch'[f] = queue[k] /\ queue'[k] = <<>>
          /\ \A l \in Kinds \ {k} : queue'[l] = queue[l]
          /\ \A g \in Flushers \ {f} : batch'[g] = batch[g]
    BY <1>1, <1>6, DrainEffect
  <2>2. UNCHANGED verdicts
    BY <1>6 DEF FlusherDrains
  <2>3. \A l \in Kinds : i \notin ItemsOf(queue'[l])
    BY <1>2, <2>1, EmptyEntries
  <2>4. \A g \in Flushers : i \notin ItemsOf(batch'[g])
    BY <1>2, <2>1
  <2> QED
    BY <1>2, <2>2, <2>3, <2>4
<1>7. ASSUME NEW f \in Flushers, FlusherAnswered(f) PROVE Goal
  BY <1>2, <1>7 DEF FlusherAnswered
<1>8. ASSUME NEW f \in Flushers, FlusherRequeues(f) PROVE Goal
  <2>1. PICK k, out : Requeued(f, k, out)
    BY <1>8, RequeueEffect
  <2>2. confirmed' = confirmed
    BY <1>8 DEF FlusherRequeues
  <2>3. i \notin out /\ k \in Kinds
    BY <1>2, <2>1 DEF Requeued
  <2>4. i \notin shed' /\ \A l \in Kinds : i \notin ItemsOf(queue'[l])
    BY <1>2, <2>1, <2>3 DEF Requeued
  <2>5. \A g \in Flushers : i \notin ItemsOf(batch'[g])
    BY <1>2, <2>1, <2>3 DEF Requeued
  <2> QED
    BY <1>2, <2>2, <2>4, <2>5
<1>9. ASSUME AgentStarts, Durable PROVE Goal
  <2>1. (\A k \in Kinds : queue[k] = <<>>) /\ \A p \in Producers : ppc[p] = "idle"
    BY <1>1, <1>9 DEF AgentStarts, BeforeStart
  <2>2. i \notin records
    BY <1>1, <1>2, <2>1 DEF Fresh, Recorded
  <2>3. /\ \A k \in Kinds : ItemsOf(queue'[k]) \subseteq {j \in records : KindOf[j] = k}
        /\ shed' \subseteq shed \union records
    BY <1>1, <1>9, <2>1, ReloadCopies DEF AgentStarts
  <2>4. UNCHANGED <<batch, confirmed>>
    BY <1>9 DEF AgentStarts
  <2> QED
    BY <1>2, <2>2, <2>3, <2>4
<1>10. ASSUME ProcessDies PROVE Goal
  <2>1. (\A k \in Kinds : queue'[k] = <<>>) /\ \A f \in Flushers : batch'[f] = <<>>
    BY <1>10 DEF ProcessDies
  <2>2. UNCHANGED verdicts
    BY <1>10 DEF ProcessDies
  <2> QED
    BY <1>2, <2>1, <2>2, EmptyEntries
<1>11. ASSUME \/ \E p \in Producers : CallMoves(p) \/ CallReturns(p)
              \/ \E f \in Flushers : FlusherMoves(f) \/ FlusherConfirms(f)
              \/ WorkerDeletes \/ RecordExpires \/ Nothing
              \/ AgentStarts /\ ~Durable
       PROVE  Goal
  <2>1. UNCHANGED <<queue, batch>>
    BY <1>11, EntriesFrame
  <2>2. UNCHANGED verdicts
    BY <1>11 DEF CallMoves, CallReturns, FlusherMoves, FlusherConfirms, WorkerDeletes,
                 RecordExpires, Nothing, AgentStarts
  <2> QED
    BY <1>3, <2>1, <2>2
<1> HIDE DEF Goal
<1>12. Goal
  BY <1>1, <1>4, <1>5, <1>6, <1>7, <1>8, <1>9, <1>10, <1>11, StepKinds
<1> QED
  BY <1>12 DEF Goal
\* What Forgets adds to the keys on their way to deletion.
LEMMA ForgetsScheduled ==
  ASSUME Shapes, NEW keys \in SUBSET Items, Forgets(keys),
         \A p \in Producers : pevicted'[p] \subseteq pevicted[p],
         NEW i \in Items, Scheduled(i)'
  PROVE  Scheduled(i) \/ i \in keys
<1>1. CASE \E p \in Producers : i \in pevicted'[p]
  BY <1>1 DEF Scheduled
<1>2. ASSUME NEW n \in 1..Len(confirmCh'), i \in confirmCh'[n] PROVE Scheduled(i) \/ i \in keys
  <2>1. CASE confirmCh' = confirmCh
    BY <1>2, <2>1 DEF Scheduled
  <2>2. CASE confirmCh' = Append(confirmCh, keys)
    <3>1. /\ Len(confirmCh') = Len(confirmCh) + 1 /\ Len(confirmCh) \in Nat
          /\ confirmCh'[Len(confirmCh) + 1] = keys
          /\ \A m \in 1..Len(confirmCh) : confirmCh'[m] = confirmCh[m]
      BY <2>2, AppendProperties, LenProperties DEF Shapes
    <3>2. CASE n = Len(confirmCh) + 1
      BY <1>2, <3>1, <3>2
    <3>3. CASE n # Len(confirmCh) + 1
      <4>1. n \in 1..Len(confirmCh)
        BY <1>2, <3>1, <3>3
      <4> QED
        BY <1>2, <3>1, <4>1 DEF Scheduled
    <3> QED
      BY <3>2, <3>3
  <2> QED
    BY <2>1, <2>2 DEF Forgets
<1> QED
  BY <1>1, <1>2 DEF Scheduled

\* A scheduled key is that of a settled item (Doomed), so never that of a fresh one.
LEMMA ScheduledSettled ==
  ASSUME DoomInv, NEW i \in Items, Scheduled(i)
  PROVE  i \in confirmed \union shed
BY DEF DoomInv, Doomed, Scheduled

\* No step schedules the key of an entry that is still to be sent, or brings back
\* an entry whose key is scheduled.
LEMMA SparedNext ==
  ASSUME Durable => ~SendBeforeStart, CopyInv, [Next]_vars
  PROVE  Spared'
<1>1. CoreInv /\ DoomInv /\ Shapes /\ OneCopy /\ FreshNowhere /\ Spared /\ BeforeStart
  BY CoreShapes DEF CopyInv, DoomInv
<1> USE DEF calls, entries, verdicts, doomedKeys, store, life
<1> SUFFICES ASSUME NEW i \in Items, Scheduled(i)' PROVE ~ToSend(i)'
  BY DEF Spared
<1> DEFINE Goal == ~ToSend(i)'
<1>2. Scheduled(i) => ~ToSend(i)
  BY <1>1 DEF Spared
<1>3. ASSUME UNCHANGED doomedKeys, ToSend(i)' => ToSend(i) PROVE Goal
  <2>1. Scheduled(i)
    BY <1>3 DEF Scheduled
  <2> QED
    BY <1>2, <1>3, <2>1
<1>4. ASSUME NEW p \in Producers, NEW n \in {0, 1}, NEW keyed \in BOOLEAN,
             CallAppends(p, n, keyed)
      PROVE  Goal
  <2>1. PICK j, k, out : Appended(p, j, k, keyed, out)
    BY <1>4, AppendEffect
  <2>2. UNCHANGED <<batch, pc, confirmCh>>
    BY <1>4 DEF CallAppends
  <2>3. Scheduled(i) \/ i \in out
    BY <2>1, <2>2 DEF Scheduled, Appended
  <2>4. i # j
    <3>1. j \notin confirmed \union shed /\ j \notin ItemsOf(queue[k]) /\ j \in Items
      BY <1>1, <2>1 DEF FreshNowhere, Appended
    <3>2. ~Scheduled(j) /\ j \notin out
      BY <1>1, <2>1, <3>1, ScheduledSettled DEF Appended
    <3> QED
      BY <2>3, <3>2
  <2>5. /\ \A l \in Kinds : ItemsOf(queue'[l]) \subseteq ItemsOf(queue[l]) \union {j}
        /\ i \in out => i \notin ItemsOf(queue'[k])
    BY <2>1, <2>4 DEF Appended
  <2>6. CASE Scheduled(i)
    BY <1>2, <2>2, <2>4, <2>5, <2>6 DEF ToSend
  <2>7. CASE i \in out
    <3>1. i \in ItemsOf(queue[k]) /\ k \in Kinds
      BY <2>1, <2>7 DEF Appended
    <3>2. \A l \in Kinds : i \notin ItemsOf(queue'[l])
      BY <1>1, <2>4, <2>5, <2>7, <3>1 DEF OneCopy
    <3>3. \A f \in Flushers : i \notin ItemsOf(batch'[f])
      BY <1>1, <2>2, <3>1 DEF OneCopy
    <3> QED
      BY <3>2, <3>3 DEF ToSend
  <2> QED
    BY <2>3, <2>6, <2>7
<1>5. ASSUME NEW p \in Producers, CallReturns(p) PROVE Goal
  <2>1. Forgets(pevicted[p]) /\ pevicted' = [pevicted EXCEPT ![p] = {}] /\ UNCHANGED entries
    BY <1>5 DEF CallReturns
  <2>2. (\A q \in Producers : pevicted'[q] \subseteq pevicted[q]) /\ pevicted[p] \in SUBSET Items
    BY <1>1, <2>1 DEF Shapes
  <2>3. Scheduled(i) \/ i \in pevicted[p]
    BY <1>1, <2>1, <2>2, ForgetsScheduled
  <2>4. Scheduled(i)
    BY <2>3 DEF Scheduled
  <2> QED
    BY <1>2, <2>1, <2>4 DEF ToSend
<1>6. ASSUME NEW f \in Flushers, FlusherConfirms(f) \/ FlusherForgets(f) PROVE Goal
  <2>1. /\ pc[f] \in {"confirm", "orphans"} /\ pc'[f] \notin Unsettled
        /\ Forgets(KeysOf(batch[f])) /\ UNCHANGED <<queue, pevicted>>
        /\ \A g \in Flushers \ {f} : pc'[g] = pc[g] /\ batch'[g] = batch[g]
    BY <1>1, <1>6 DEF FlusherConfirms, FlusherForgets, Unsettled, Shapes
  <2>2. KeysOf(batch[f]) \subseteq ItemsOf(batch[f]) /\ KeysOf(batch[f]) \in SUBSET Items
    BY <1>1, ItemsOfType DEF Shapes
  <2>3. Scheduled(i) \/ i \in KeysOf(batch[f])
    BY <1>1, <2>1, <2>2, ForgetsScheduled
  <2>4. CASE Scheduled(i)
    BY <1>2, <2>1, <2>4 DEF ToSend
  <2>5. CASE i \in ItemsOf(batch[f])
    <3>1. /\ \A l \in Kinds : i \notin ItemsOf(queue'[l])
          /\ \A g \in Flushers \ {f} : i \notin ItemsOf(batch'[g])
      BY <1>1, <2>1, <2>5 DEF OneCopy
    <3> QED
      BY <2>1, <3>1 DEF ToSend
  <2> QED
    BY <2>2, <2>3, <2>4, <2>5
<1>7. ASSUME NEW f \in Flushers, FlusherMoves(f) PROVE Goal
  <2>1. /\ UNCHANGED <<queue, batch, pevicted, confirmCh>>
        /\ \A g \in Flushers : pc'[g] \in Unsettled => pc[g] \in Unsettled
    BY <1>1, <1>7 DEF FlusherMoves, Shapes, Clear, Unsettled, Holding
  <2> QED
    BY <1>3, <2>1 DEF ToSend
<1>8. ASSUME NEW f \in Flushers, FlusherClears(f) PROVE Goal
  <2>1. /\ batch'[f] = <<>> /\ UNCHANGED queue /\ pc'[f] \notin Unsettled
        /\ \A g \in Flushers \ {f} : pc'[g] = pc[g] /\ batch'[g] = batch[g]
    BY <1>1, <1>8, ClearEffect DEF Unsettled
  <2>2. UNCHANGED doomedKeys
    BY <1>8 DEF FlusherClears
  <2> QED
    BY <1>3, <2>1, <2>2 DEF ToSend
<1>9. ASSUME NEW f \in Flushers, FlusherDrains(f) PROVE Goal
  <2>1. PICK k \in Kinds :
          /\ batch'[f] = queue[k] /\ queue'[k] = <<>>
          /\ \A l \in Kinds \ {k} : queue'[l] = queue[l]
          /\ \A g \in Flushers \ {f} : pc'[g] = pc[g] /\ batch'[g] = batch[g]
    BY <1>1, <1>9, DrainEffect
  <2>2. UNCHANGED doomedKeys
    BY <1>9 DEF FlusherDrains
  <2>3. \A l \in Kinds : i \in ItemsOf(queue'[l]) => ToSend(i)
    BY <2>1, EmptyEntries DEF ToSend
  <2>4. \A g \in Flushers : pc'[g] \in Unsettled /\ i \in ItemsOf(batch'[g]) => ToSend(i)
    BY <2>1 DEF ToSend
  <2> QED
    BY <1>3, <2>2, <2>3, <2>4 DEF ToSend
<1>10. ASSUME NEW f \in Flushers, FlusherAnswered(f) PROVE Goal
  <2>1. /\ UNCHANGED <<queue, batch, pevicted, confirmCh>>
        /\ \A g \in Flushers : pc'[g] \in Unsettled => pc[g] \in Unsettled
    BY <1>1, <1>10 DEF FlusherAnswered, Shapes, Unsettled
  <2> QED
    BY <1>3, <2>1 DEF ToSend
<1>11. ASSUME NEW f \in Flushers, FlusherRequeues(f) PROVE Goal
  <2>1. PICK k, out : Requeued(f, k, out)
    BY <1>11, RequeueEffect
  <2>2. UNCHANGED doomedKeys
    BY <1>11 DEF FlusherRequeues
  <2>3. \A l \in Kinds : i \in ItemsOf(queue'[l]) => ToSend(i)
    BY <2>1 DEF ToSend, Requeued, Unsettled
  <2>4. \A g \in Flushers : pc'[g] \in Unsettled /\ i \in ItemsOf(batch'[g]) => ToSend(i)
    BY <2>1 DEF ToSend, Requeued, Unsettled
  <2> QED
    BY <1>3, <2>2, <2>3, <2>4 DEF ToSend
<1>12. ASSUME WorkerDeletes PROVE Goal
  <2>1. /\ confirmCh # <<>> /\ confirmCh' = Tail(confirmCh) /\ UNCHANGED <<entries, pevicted>>
    BY <1>12 DEF WorkerDeletes
  <2>2. ASSUME NEW n \in 1..Len(confirmCh'), i \in confirmCh'[n] PROVE Scheduled(i)
    <3>1. /\ Len(confirmCh) \in Nat /\ n + 1 \in 1..Len(confirmCh)
          /\ confirmCh'[n] = confirmCh[n + 1]
      BY <1>1, <2>1, <2>2, HeadTailProperties, LenProperties DEF Shapes
    <3> QED
      BY <2>2, <3>1 DEF Scheduled
  <2>3. Scheduled(i)
    BY <2>1, <2>2 DEF Scheduled
  <2> QED
    BY <1>2, <2>1, <2>3 DEF ToSend
<1>13. ASSUME AgentStarts, Durable PROVE Goal
  <2>1. (\A p \in Producers : pevicted'[p] = {}) /\ confirmCh' = <<>>
    BY <1>1, <1>13 DEF AgentStarts, BeforeStart
  <2> QED
    BY <2>1 DEF Scheduled
<1>14. ASSUME ProcessDies PROVE Goal
  <2>1. (\A p \in Producers : pevicted'[p] = {}) /\ confirmCh' = <<>>
    BY <1>14 DEF ProcessDies
  <2> QED
    BY <2>1 DEF Scheduled
<1>15. ASSUME \/ \E p \in Producers : CallMoves(p)
              \/ RecordExpires \/ Nothing
              \/ AgentStarts /\ ~Durable
       PROVE  Goal
  <2>1. UNCHANGED doomedKeys /\ UNCHANGED entries
    BY <1>15 DEF CallMoves, RecordExpires, Nothing, AgentStarts
  <2> QED
    BY <1>3, <2>1 DEF ToSend
<1> HIDE DEF Goal
<1>16. Goal
  BY <1>1, <1>4, <1>5, <1>6, <1>7, <1>8, <1>9, <1>10, <1>11, <1>12, <1>13, <1>14, <1>15,
     StepKinds
<1> QED
  BY <1>16 DEF Goal
LEMMA CopyInit == Init => CopyInv
<1> SUFFICES ASSUME Init PROVE CopyInv
  OBVIOUS
<1>1. DoomInv
  BY DoomInit
<1>2. /\ \A k \in Kinds : queue[k] = <<>>
      /\ \A f \in Flushers : batch[f] = <<>> /\ pc[f] = "idle"
      /\ \A p \in Producers : ppc[p] = "idle" /\ pevicted[p] = {}
      /\ confirmCh = <<>> /\ records = {} /\ confirmed = {} /\ shed = {}
  BY DEF Init, PersistInit
<1>3. OneCopy /\ FreshNowhere
  BY <1>2, EmptyEntries DEF OneCopy, FreshNowhere
<1>4. Spared
  BY <1>2 DEF Spared, Scheduled
<1>5. CallsApart /\ BeforeStart /\ Recorded
  BY <1>2 DEF CallsApart, BeforeStart, Recorded, Clear, Places, Holding
<1> QED
  BY <1>1, <1>3, <1>4, <1>5 DEF CopyInv

LEMMA CopyNext ==
  ASSUME Durable => ~SendBeforeStart
  PROVE  CopyInv /\ [Next]_vars => CopyInv'
<1> SUFFICES ASSUME CopyInv, [Next]_vars PROVE CopyInv'
  OBVIOUS
<1>1. DoomInv'
  BY DoomNext DEF CopyInv
<1>2. OneCopy' /\ CallsApart' /\ FreshNowhere'
  BY CopiesNext, CallsNext, FreshNext DEF CopyInv, DoomInv
<1>3. Spared' /\ BeforeStart' /\ Recorded'
  BY SparedNext, BeforeNext, RecordedNext
<1> QED
  BY <1>1, <1>2, <1>3 DEF CopyInv

\* Two places of one item are one place.
LEMMA CopyIsSingle == CopyInv => SingleCopy
<1> SUFFICES ASSUME CopyInv, NEW i \in Items
             PROVE  Cardinality({x \in Kinds \X (1..BufferSize) :
                        x[2] <= Len(queue[x[1]]) /\ queue[x[1]][x[2]].item = i}
            \union {x \in Flushers \X (1..BufferSize) :
                        /\ pc[x[1]] \in Holding
                        /\ x[2] <= Len(batch[x[1]]) /\ batch[x[1]][x[2]].item = i}) <= 1
  BY DEF SingleCopy
<1> DEFINE Queued == {x \in Kinds \X (1..BufferSize) :
                        x[2] <= Len(queue[x[1]]) /\ queue[x[1]][x[2]].item = i}
           Held == {x \in Flushers \X (1..BufferSize) :
                        /\ pc[x[1]] \in Holding
                        /\ x[2] <= Len(batch[x[1]]) /\ batch[x[1]][x[2]].item = i}
<1>1. /\ OneCopy /\ BufferSize \in Nat
      /\ \A k \in Kinds : Len(queue[k]) \in Nat
      /\ \A f \in Flushers : Len(batch[f]) \in Nat
  BY CoreShapes, AgentAssumption, LenProperties DEF CopyInv, DoomInv, Shapes
<1>2. ASSUME NEW x \in Queued
      PROVE  /\ x[1] \in Kinds /\ x[2] \in 1..Len(queue[x[1]])
             /\ x = <<x[1], x[2]>> /\ queue[x[1]][x[2]].item = i
             /\ i \in ItemsOf(queue[x[1]])
  <2>1. /\ x[1] \in Kinds /\ x[2] \in 1..BufferSize /\ x = <<x[1], x[2]>>
        /\ x[2] <= Len(queue[x[1]]) /\ queue[x[1]][x[2]].item = i
    OBVIOUS
  <2>2. x[2] \in 1..Len(queue[x[1]])
    BY <1>1, <2>1
  <2> QED
    BY <2>1, <2>2 DEF ItemsOf
<1>3. ASSUME NEW x \in Held
      PROVE  /\ x[1] \in Flushers /\ x[2] \in 1..Len(batch[x[1]])
             /\ x = <<x[1], x[2]>> /\ batch[x[1]][x[2]].item = i
             /\ i \in ItemsOf(batch[x[1]])
  <2>1. /\ x[1] \in Flushers /\ x[2] \in 1..BufferSize /\ x = <<x[1], x[2]>>
        /\ x[2] <= Len(batch[x[1]]) /\ batch[x[1]][x[2]].item = i
    OBVIOUS
  <2>2. x[2] \in 1..Len(batch[x[1]])
    BY <1>1, <2>1
  <2> QED
    BY <2>1, <2>2 DEF ItemsOf
<1> HIDE DEF Queued, Held
<1>4. ASSUME NEW x \in Queued, NEW y \in Queued PROVE x = y
  <2>1. x[1] = y[1]
    BY <1>1, <1>2 DEF OneCopy
  <2>2. Distinct(queue[x[1]])
    BY <1>1, <1>2 DEF OneCopy
  <2>3. x[2] = y[2]
    BY <1>2, <2>1, <2>2 DEF Distinct
  <2> QED
    BY <1>2, <2>1, <2>3
<1>5. ASSUME NEW x \in Held, NEW y \in Held PROVE x = y
  <2>1. x[1] = y[1]
    BY <1>1, <1>3 DEF OneCopy
  <2>2. Distinct(batch[x[1]])
    BY <1>1, <1>3 DEF OneCopy
  <2>3. x[2] = y[2]
    BY <1>3, <2>1, <2>2 DEF Distinct
  <2> QED
    BY <1>3, <2>1, <2>3
<1>6. Queued = {} \/ Held = {}
  BY <1>1, <1>2, <1>3 DEF OneCopy
<1> DEFINE P == Queued \union Held
<1>7. \A x, y \in P : x = y
  BY <1>4, <1>5, <1>6
<1> HIDE DEF P
<1>8. Cardinality(P) <= 1
  <2>1. CASE P = {}
    BY <2>1, FS_EmptySet
  <2>2. CASE P # {}
    <3>1. PICK x : P = {x}
      BY <1>7, <2>2
    <3>2. Cardinality({x}) = 1
      BY FS_Singleton
    <3> QED
      BY <3>1, <3>2
  <2> QED
    BY <2>1, <2>2
<1> QED
  BY <1>8 DEF P, Queued, Held

\* No interleaving of appends, drains, requeues, confirms, reloads and crashes
\* puts an item in two places of one process, so none is sent or counted twice by
\* two flushers (flushEvents, requeueEvents, reloadFromRedisLocked).  A durable
\* agent must be started before the host sends: a reload into a buffer that
\* already holds an item would bring its record back as a second copy.
THEOREM OneCopyOnly ==
  ASSUME Durable => ~SendBeforeStart
  PROVE  Spec => []SingleCopy
BY CopyInit, CopyNext, CopyIsSingle, PTL DEF Spec

-----------------------------------------------------------------------------
\* A keyed entry of i is queued, being sent or on its way back.
KeyedToSend(i) ==
  \/ \E k \in Kinds : i \in KeysOf(queue[k])
  \/ \E f \in Flushers : pc[f] \in Unsettled /\ i \in KeysOf(batch[f])

RecordKept == \A i \in Items : KeyedToSend(i) => i \in records \union expired

RecordInv == CopyInv /\ RecordKept

LEMMA KeyedIsToSend ==
  ASSUME Shapes, NEW i \in Items, KeyedToSend(i)
  PROVE  ToSend(i)
<1>1. /\ \A k \in Kinds : KeysOf(queue[k]) \subseteq ItemsOf(queue[k])
      /\ \A f \in Flushers : KeysOf(batch[f]) \subseteq ItemsOf(batch[f])
  BY ItemsOfType DEF Shapes
<1> QED
  BY <1>1 DEF KeyedToSend, ToSend

\* No step deletes the record of a keyed entry that is still to be sent.
LEMMA RecordNext ==
  ASSUME Durable => ~SendBeforeStart, RecordInv, [Next]_vars
  PROVE  RecordKept'
<1>1. CopyInv /\ CoreInv /\ Shapes /\ OneCopy /\ Spared /\ BeforeStart /\ RecordKept
  BY CoreShapes DEF RecordInv, CopyInv, DoomInv
<1> USE DEF calls, entries, verdicts, doomedKeys, store, life
<1> SUFFICES ASSUME NEW i \in Items, KeyedToSend(i)' PROVE i \in records' \union expired'
  BY DEF RecordKept
<1> DEFINE Goal == i \in records' \union expired'
<1>3. ASSUME UNCHANGED store, KeyedToSend(i)' => KeyedToSend(i) PROVE Goal
  BY <1>1, <1>3 DEF RecordKept
<1>4. ASSUME NEW keys, Forgets(keys), KeyedToSend(i)' => KeyedToSend(i), i \notin keys
      PROVE  Goal
  BY <1>1, <1>4 DEF RecordKept, Forgets
<1>5. ASSUME NEW p \in Producers, NEW n \in {0, 1}, NEW keyed \in BOOLEAN,
             CallAppends(p, n, keyed)
      PROVE  Goal
  <2>1. PICK j, k, out : Appended(p, j, k, keyed, out)
    BY <1>1, <1>5, AppendEffect
  <2>2. /\ UNCHANGED <<batch, pc, expired>> /\ records \subseteq records'
        /\ keyed = TRUE => j \in records'
        /\ keyed \in BOOLEAN
    BY <1>5, <2>1 DEF CallAppends, Appended
  <2>3. KeyedToSend(i) \/ (i = j /\ keyed = TRUE)
    BY <2>1, <2>2 DEF Appended, KeyedToSend
  <2> QED
    BY <1>1, <2>2, <2>3 DEF RecordKept
<1>6. ASSUME NEW p \in Producers, CallReturns(p) PROVE Goal
  <2>1. Forgets(pevicted[p]) /\ UNCHANGED entries
    BY <1>6 DEF CallReturns
  <2>2. KeyedToSend(i)
    BY <2>1 DEF KeyedToSend
  <2>3. i \notin pevicted[p]
    BY <1>1, <2>2, KeyedIsToSend DEF Spared, Scheduled
  <2> QED
    BY <1>4, <2>1, <2>2, <2>3
<1>7. ASSUME NEW f \in Flushers, FlusherConfirms(f) \/ FlusherForgets(f) PROVE Goal
  <2>1. /\ pc'[f] \notin Unsettled
        /\ Forgets(KeysOf(batch[f])) /\ UNCHANGED queue
        /\ \A g \in Flushers \ {f} : pc'[g] = pc[g] /\ batch'[g] = batch[g]
    BY <1>1, <1>7 DEF FlusherConfirms, FlusherForgets, Unsettled, Shapes
  <2>2. \/ \E k \in Kinds : i \in KeysOf(queue[k])
        \/ \E g \in Flushers \ {f} : pc[g] \in Unsettled /\ i \in KeysOf(batch[g])
    BY <2>1 DEF KeyedToSend
  <2>3. /\ KeysOf(batch[f]) \subseteq ItemsOf(batch[f])
        /\ \A k \in Kinds : KeysOf(queue[k]) \subseteq ItemsOf(queue[k])
        /\ \A g \in Flushers : KeysOf(batch[g]) \subseteq ItemsOf(batch[g])
    BY <1>1, ItemsOfType DEF Shapes
  <2>4. i \notin KeysOf(batch[f])
    BY <1>1, <2>2, <2>3 DEF OneCopy
  <2>5. KeyedToSend(i)
    BY <2>2 DEF KeyedToSend
  <2> QED
    BY <1>4, <2>1, <2>4, <2>5
<1>8. ASSUME NEW f \in Flushers, FlusherMoves(f) PROVE Goal
  <2>1. /\ UNCHANGED <<queue, batch>> /\ UNCHANGED store
        /\ \A g \in Flushers : pc'[g] \in Unsettled => pc[g] \in Unsettled
    BY <1>1, <1>8 DEF FlusherMoves, Shapes, Clear, Unsettled, Holding
  <2> QED
    BY <1>3, <2>1 DEF KeyedToSend
<1>9. ASSUME NEW f \in Flushers, FlusherClears(f) PROVE Goal
  <2>1. /\ batch'[f] = <<>> /\ UNCHANGED queue /\ pc'[f] \notin Unsettled
        /\ \A g \in Flushers \ {f} : pc'[g] = pc[g] /\ batch'[g] = batch[g]
    BY <1>1, <1>9, ClearEffect DEF Unsettled
  <2>2. UNCHANGED store
    BY <1>9 DEF FlusherClears
  <2> QED
    BY <1>3, <2>1, <2>2 DEF KeyedToSend
<1>10. ASSUME NEW f \in Flushers, FlusherDrains(f) PROVE Goal
  <2>1. PICK k \in Kinds :
          /\ batch'[f] = queue[k] /\ queue'[k] = <<>>
          /\ \A l \in Kinds \ {k} : queue'[l] = queue[l]
          /\ \A g \in Flushers \ {f} : pc'[g] = pc[g] /\ batch'[g] = batch[g]
    BY <1>1, <1>10, DrainEffect
  <2>2. UNCHANGED store
    BY <1>10 DEF FlusherDrains
  <2>3. \A l \in Kinds : i \in KeysOf(queue'[l]) => KeyedToSend(i)
    BY <2>1, EmptyEntries DEF KeyedToSend
  <2>4. \A g \in Flushers : pc'[g] \in Unsettled /\ i \in KeysOf(batch'[g]) => KeyedToSend(i)
    BY <2>1 DEF KeyedToSend
  <2> QED
    BY <1>3, <2>2, <2>3, <2>4 DEF KeyedToSend
<1>11. ASSUME NEW f \in Flushers, FlusherAnswered(f) PROVE Goal
  <2>1. /\ UNCHANGED <<queue, batch>> /\ UNCHANGED store
        /\ \A g \in Flushers : pc'[g] \in Unsettled => pc[g] \in Unsettled
    BY <1>1, <1>11 DEF FlusherAnswered, Shapes, Unsettled
  <2> QED
    BY <1>3, <2>1 DEF KeyedToSend
<1>12. ASSUME NEW f \in Flushers, FlusherRequeues(f) PROVE Goal
  <2>1. PICK k, out : Requeued(f, k, out)
    BY <1>1, <1>12, RequeueEffect
  <2>2. UNCHANGED store
    BY <1>12 DEF FlusherRequeues
  <2>3. \A l \in Kinds : i \in KeysOf(queue'[l]) => KeyedToSend(i)
    BY <2>1 DEF KeyedToSend, Requeued, Unsettled
  <2>4. \A g \in Flushers : pc'[g] \in Unsettled /\ i \in KeysOf(batch'[g]) => KeyedToSend(i)
    BY <2>1 DEF KeyedToSend, Requeued, Unsettled
  <2> QED
    BY <1>3, <2>2, <2>3, <2>4 DEF KeyedToSend
<1>13. ASSUME WorkerDeletes PROVE Goal
  <2>1. /\ confirmCh # <<>> /\ UNCHANGED <<entries, expired>>
        /\ records' = records \/ records' = records \ Head(confirmCh)
    BY <1>13 DEF WorkerDeletes
  <2>2. KeyedToSend(i)
    BY <2>1 DEF KeyedToSend
  <2>3. Head(confirmCh) = confirmCh[1] /\ 1 \in 1..Len(confirmCh)
    BY <1>1, <2>1, HeadTailProperties, EmptySeq, LenProperties DEF Shapes
  <2>4. i \notin Head(confirmCh)
    BY <1>1, <2>2, <2>3, KeyedIsToSend DEF Spared, Scheduled
  <2> QED
    BY <1>1, <2>1, <2>2, <2>4 DEF RecordKept
<1>14. ASSUME RecordExpires PROVE Goal
  <2>1. UNCHANGED entries /\ \E j \in Items : records' = records \ {j} /\ expired' = expired \union {j}
    BY <1>14 DEF RecordExpires
  <2>2. KeyedToSend(i)
    BY <2>1 DEF KeyedToSend
  <2> QED
    BY <1>1, <2>1, <2>2 DEF RecordKept
<1>15. ASSUME AgentStarts, Durable PROVE Goal
  <2>1. (\A k \in Kinds : queue[k] = <<>>) /\ \A f \in Flushers : batch[f] = <<>>
    BY <1>1, <1>15 DEF AgentStarts, BeforeStart
  <2>2. \A k \in Kinds : KeysOf(queue'[k]) \subseteq records'
    BY <1>1, <1>15, <2>1, ReloadCopies DEF AgentStarts
  <2>3. \A f \in Flushers : batch'[f] = <<>>
    BY <1>15, <2>1 DEF AgentStarts
  <2> QED
    BY <2>2, <2>3, EmptyEntries DEF KeyedToSend
<1>16. ASSUME ProcessDies PROVE Goal
  <2>1. (\A k \in Kinds : queue'[k] = <<>>) /\ \A f \in Flushers : batch'[f] = <<>>
    BY <1>16 DEF ProcessDies
  <2> QED
    BY <2>1, EmptyEntries DEF KeyedToSend
<1>17. ASSUME \/ \E p \in Producers : CallMoves(p)
              \/ Nothing
              \/ AgentStarts /\ ~Durable
       PROVE  Goal
  <2>1. UNCHANGED store /\ UNCHANGED entries
    BY <1>17 DEF CallMoves, Nothing, AgentStarts
  <2> QED
    BY <1>3, <2>1 DEF KeyedToSend
<1> HIDE DEF Goal
<1>18. Goal
  BY <1>1, <1>5, <1>6, <1>7, <1>8, <1>9, <1>10, <1>11, <1>12, <1>13, <1>14, <1>15, <1>16,
     <1>17, StepKinds
<1> QED
  BY <1>18 DEF Goal

\* A crash finds the record of every keyed entry that is queued, being sent or on
\* its way back, unless it has expired: no confirm, eviction or reload deletes it
\* (confirmKeys, confirmWorker, appendLocked, reloadFromRedisLocked).  A durable
\* agent must be started before the host sends.
THEOREM CrashFindsRecords ==
  ASSUME Durable => ~SendBeforeStart
  PROVE  Spec => []SurvivesCrash
<1>1. Init => RecordInv
  <2>1. Init => \A i \in Items : ~KeyedToSend(i)
    BY EmptyEntries DEF Init, KeyedToSend, Unsettled
  <2> QED
    BY <2>1, CopyInit DEF RecordInv, RecordKept
<1>2. RecordInv /\ [Next]_vars => RecordInv'
  BY CopyNext, RecordNext DEF RecordInv
<1>3. RecordInv => SurvivesCrash
  <2> SUFFICES ASSUME RecordInv PROVE SurvivesCrash
    OBVIOUS
  <2>1. Shapes /\ RecordKept
    BY CoreShapes DEF RecordInv, CopyInv, DoomInv
  <2>2. /\ \A k \in Kinds : KeysOf(queue[k]) \subseteq Items
        /\ \A f \in Flushers : KeysOf(batch[f]) \subseteq Items
    BY <2>1, ItemsOfType DEF Shapes
  <2>3. \A k \in Kinds : KeysOf(queue[k]) \subseteq records \union expired
    BY <2>1, <2>2 DEF RecordKept, KeyedToSend
  <2>4. \A f \in Flushers : pc[f] \in Unsettled => KeysOf(batch[f]) \subseteq records \union expired
    BY <2>1, <2>2 DEF RecordKept, KeyedToSend
  <2> QED
    BY <2>3, <2>4 DEF SurvivesCrash
<1> QED
  BY <1>1, <1>2, <1>3, PTL DEF Spec
=============================================================================
