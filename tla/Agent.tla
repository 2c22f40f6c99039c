-------------------------------- MODULE Agent --------------------------------
(***************************************************************************)
(* The buffering core of agent.go: SendEvent and SendMetric, the flush     *)
(* loops, Flush, Start, Stop and the confirm worker, all sharing the       *)
(* queues under a.mu.  One action is one critical section (or one channel  *)
(* operation); between two of them any other goroutine may run.  The two   *)
(* kinds have the same code, so it is modelled once with the kind as a     *)
(* parameter.  The transport is reduced to the outcome of a send.          *)
(***************************************************************************)
EXTENDS Persistence

CONSTANTS
    NoItem,         \* not an item
    Enabled,        \* kinds with EnableEvents / EnableMetrics
    Producers,      \* host goroutines that call SendEvent and SendMetric
    AutoLoop,       \* the autoFlushLoop goroutine
    WakeLoops,      \* the MaxConcurrentFlushes wakeFlushLoop goroutines
    HostFlushers,   \* host goroutines that call Flush
    Stopper,        \* the host goroutine that calls Stop
    BufferSize,     \* cfg.BufferSize
    Watermark,      \* least combined occupancy >= BufferSize * HighWatermarkRatio
    Overflow,       \* cfg.Overflow
    ConfirmCap,     \* capacity of confirmCh
    SendBeforeStart,\* the host may send before Start has returned
    MayStop,        \* the host may call Stop
    MaxFailures,    \* bound: sends that fail before the server recovers for good
    MaxCrashes      \* bound: crashes of the host process

Loops == {AutoLoop} \union WakeLoops
Flushers == Loops \union HostFlushers \union {Stopper}

ASSUME AgentAssumption ==
    /\ NoItem \notin Items
    /\ Enabled \subseteq Kinds
    /\ AutoLoop \notin WakeLoops
    /\ Loops \intersect HostFlushers = {}
    /\ Stopper \notin Loops \union HostFlushers
    /\ BufferSize \in Nat \ {0}
    /\ Watermark \in Nat \ {0}
    /\ Overflow \in {"drop", "block", "raise"}
    /\ ConfirmCap \in Nat
    /\ SendBeforeStart \in BOOLEAN /\ MayStop \in BOOLEAN
    /\ MaxFailures \in Nat /\ MaxCrashes \in Nat

\* MaxConcurrentFlushes wake loops, and finitely many goroutines of the host.
ASSUME FlushersAssumption == IsFiniteSet(WakeLoops) /\ IsFiniteSet(HostFlushers)

VARIABLES
    \* Agent fields
    queue,          \* a.events, a.metrics: sequences of [item, keyed]
    stats,          \* the five counters of each kind
    streak,         \* eventStreak, metricStreak
    gate,           \* now is before eventGate, metricGate
    everFlushed,    \* a.lastFlush is set
    started, closed,
    flushWake,      \* a token is in flushWake
    flushSignal,    \* a token is in flushSignal
    confirmCh,      \* sets of keys queued for the confirm worker
    \* goroutines in SendEvent / SendMetric
    ppc, pitem,     \* where the call is, and its item
    pevicted,       \* key of the item it evicted, as a set
    pwake,          \* needFlush
    \* goroutines in a flush
    pc, kind,       \* where the goroutine is, and the kind it flushes
    batch,          \* drained entries; later the entries a requeue evicted
    outcome,        \* sendOutcome
    \* environment and history
    failures, crashes,
    result,         \* what the call for an item returned
    confirmed,      \* items with a definitive answer: accepted, or rejected for good
    shed,           \* items evicted by a full buffer
    reloadEvicted,  \* how many entries reload evicted, per kind
    ackedAtStop,    \* items acknowledged when Stop was called
    stopFailed      \* a send of Stop's final flush failed

fieldVars == <<queue, stats, streak, gate, everFlushed>>
lifeVars == <<started, closed>>
wakeVars == <<flushWake, flushSignal>>
prodVars == <<ppc, pitem, pevicted, pwake>>
flushVars == <<pc, kind, batch, outcome>>
envVars == <<failures, crashes>>
histVars == <<confirmed, shed, reloadEvicted, ackedAtStop, stopFailed>>
vars == <<fieldVars, lifeVars, wakeVars, confirmCh, prodVars, flushVars, envVars,
          result, histVars, persistVars>>

Entries == [item : Items, keyed : BOOLEAN]
Outcomes == {"accepted", "permanent", "failed"}
Places == {"idle", "check", "guard", "drain", "send", "confirm", "count", "fail", "requeue",
           "orphans", "exited", "wait", "close", "join", "stopped"}
Results == {"unsent", "pending", "ok", "disabled", "closed", "full", "ctx", "crashed"}
Counters == [buffered : Nat, flushed : Nat, sent : Nat, failed : Nat, dropped : Nat]

\* The fields of Agent.
FieldTypeOK ==
    /\ queue \in [Kinds -> Seq(Entries)]
    /\ stats \in [Kinds -> Counters]
    /\ streak \in [Kinds -> Nat]
    /\ gate \in [Kinds -> BOOLEAN]
    /\ everFlushed \in BOOLEAN /\ started \in BOOLEAN /\ closed \in BOOLEAN
    /\ flushWake \in BOOLEAN /\ flushSignal \in BOOLEAN
    /\ confirmCh \in Seq(SUBSET Items)

ProducerTypeOK ==
    /\ ppc \in [Producers -> {"idle", "enqueue", "blocked", "finish"}]
    /\ pitem \in [Producers -> Items \union {NoItem}]
    /\ pevicted \in [Producers -> SUBSET Items]
    /\ pwake \in [Producers -> BOOLEAN]

FlusherTypeOK ==
    /\ pc \in [Flushers -> Places]
    /\ kind \in [Flushers -> Kinds]
    /\ batch \in [Flushers -> Seq(Entries)]
    /\ outcome \in [Flushers -> Outcomes]

HistoryTypeOK ==
    /\ failures \in Nat /\ crashes \in Nat
    /\ result \in [Items -> Results]
    /\ confirmed \subseteq Items /\ shed \subseteq Items
    /\ reloadEvicted \in [Kinds -> Nat]
    /\ ackedAtStop \subseteq Items
    /\ stopFailed \in BOOLEAN

TypeOK == PersistTypeOK /\ FieldTypeOK /\ ProducerTypeOK /\ FlusherTypeOK /\ HistoryTypeOK

NoStats == [buffered |-> 0, flushed |-> 0, sent |-> 0, failed |-> 0, dropped |-> 0]

\* New: an agent with empty queues, not started.
Init ==
    /\ PersistInit
    /\ queue = [k \in Kinds |-> <<>>] /\ stats = [k \in Kinds |-> NoStats]
    /\ streak = [k \in Kinds |-> 0] /\ gate = [k \in Kinds |-> FALSE]
    /\ everFlushed = FALSE /\ started = FALSE /\ closed = FALSE
    /\ flushWake = FALSE /\ flushSignal = FALSE /\ confirmCh = <<>>
    /\ ppc = [p \in Producers |-> "idle"] /\ pitem = [p \in Producers |-> NoItem]
    /\ pevicted = [p \in Producers |-> {}] /\ pwake = [p \in Producers |-> FALSE]
    /\ pc = [f \in Flushers |-> "idle"] /\ kind = [f \in Flushers |-> "event"]
    /\ batch = [f \in Flushers |-> <<>>] /\ outcome = [f \in Flushers |-> "failed"]
    /\ failures = 0 /\ crashes = 0 /\ result = [i \in Items |-> "unsent"]
    /\ confirmed = {} /\ shed = {} /\ ackedAtStop = {}
    /\ reloadEvicted = [k \in Kinds |-> 0] /\ stopFailed = FALSE

-----------------------------------------------------------------------------
\* Helpers.

ItemsOf(s) == {s[n].item : n \in 1..Len(s)}
KeysOf(s) == {s[n].item : n \in {m \in 1..Len(s) : s[m].keyed}}

Combined(q) == Len(q["event"]) + Len(q["metric"])

\* The persistence client is closed at the end of Stop.
PersistOpen == pc[Stopper] # "stopped"
ConfirmClosed == pc[Stopper] \in {"join", "stopped"}

\* confirmKeys: nothing to do, a closed channel (the recovered panic leaves the
\* records to their TTL), the channel, or a direct delete when it is full.
ConfirmKeys(keys) ==
    IF ~Durable \/ keys = {} \/ ConfirmClosed
    THEN UNCHANGED <<confirmCh, persistVars>>
    ELSE IF Len(confirmCh) < ConfirmCap
    THEN confirmCh' = Append(confirmCh, keys) /\ UNCHANGED persistVars
    ELSE Del(keys, PersistOpen) /\ UNCHANGED confirmCh

-----------------------------------------------------------------------------
\* SendEvent, SendMetric.

\* guardClosed, then the disabled-kind early return.
Send(p, i) ==
    /\ ppc[p] = "idle" /\ result[i] = "unsent"
    /\ started \/ SendBeforeStart
    /\ IF ~closed /\ KindOf[i] \in Enabled
       THEN /\ ppc' = [ppc EXCEPT ![p] = "enqueue"]
            /\ pitem' = [pitem EXCEPT ![p] = i]
            /\ result' = [result EXCEPT ![i] = "pending"]
       ELSE /\ result' = [result EXCEPT ![i] = IF closed THEN "closed" ELSE "disabled"]
            /\ UNCHANGED <<ppc, pitem>>
    /\ UNCHANGED <<fieldVars, lifeVars, wakeVars, confirmCh, pevicted, pwake, flushVars,
                   envVars, histVars, persistVars>>

\* The call of p is over and returned r.
Return(p, r) ==
    /\ ppc' = [ppc EXCEPT ![p] = "idle"]
    /\ pitem' = [pitem EXCEPT ![p] = NoItem]
    /\ result' = [result EXCEPT ![pitem[p]] = r]

\* reserveKeyLocked: the item's record is written while a.mu is held.  An event
\* that cannot be marshalled gets none; of a metric the error is ignored.
ReserveKey(i, keyed) ==
    IF Durable /\ ~(i \in Poison /\ KindOf[i] = "event")
    THEN Store(i, keyed, PersistOpen)
    ELSE keyed = FALSE /\ UNCHANGED persistVars

\* appendLocked after `evicted` entries left the head of the queue: persist,
\* append, count, and look at the watermark.
AppendLocked(p, evicted) ==
    LET i == pitem[p]
        k == KindOf[i]
        head == SubSeq(queue[k], 1, evicted)
        rest == SubSeq(queue[k], evicted + 1, Len(queue[k]))
    IN  \E keyed \in BOOLEAN :
          /\ ReserveKey(i, keyed)
          /\ queue' = [queue EXCEPT ![k] = Append(rest, [item |-> i, keyed |-> keyed])]
          /\ stats' = [stats EXCEPT ![k].buffered = @ + 1, ![k].dropped = @ + evicted]
          /\ shed' = shed \union ItemsOf(head)
          /\ pevicted' = [pevicted EXCEPT ![p] = KeysOf(head)]
          /\ pwake' = [pwake EXCEPT ![p] = Combined(queue') >= Watermark]
          /\ ppc' = [ppc EXCEPT ![p] = "finish"]
          /\ UNCHANGED <<streak, gate, everFlushed, lifeVars, wakeVars, confirmCh, pitem,
                         flushVars, envVars, result, confirmed, reloadEvicted, ackedAtStop, stopFailed>>

Full(p) == Len(queue[KindOf[pitem[p]]]) >= BufferSize

EnqueueRoom(p) ==
    /\ ppc[p] = "enqueue" /\ ~Full(p)
    /\ AppendLocked(p, 0)

EnqueueDrop(p) ==
    /\ ppc[p] = "enqueue" /\ Full(p) /\ Overflow = "drop"
    /\ AppendLocked(p, 1)

EnqueueRaise(p) ==
    /\ ppc[p] = "enqueue" /\ Full(p) /\ Overflow = "raise"
    /\ Return(p, "full")
    /\ UNCHANGED <<fieldVars, lifeVars, wakeVars, confirmCh, pevicted, pwake, flushVars,
                   envVars, histVars, persistVars>>

EnqueueBlock(p) ==
    /\ ppc[p] = "enqueue" /\ Full(p) /\ Overflow = "block"
    /\ ppc' = [ppc EXCEPT ![p] = "blocked"]
    /\ UNCHANGED <<fieldVars, lifeVars, wakeVars, confirmCh, pitem, pevicted, pwake,
                   flushVars, envVars, result, histVars, persistVars>>

\* Mutant of Unblock: waits on the wrong channel, and does not poll.
UnblockWrongChannel(p) ==
    /\ ppc[p] = "blocked" /\ flushWake
    /\ ppc' = [ppc EXCEPT ![p] = "enqueue"]
    /\ flushWake' = FALSE
    /\ UNCHANGED <<fieldVars, lifeVars, flushSignal, confirmCh, pitem, pevicted, pwake,
                   flushVars, envVars, result, histVars, persistVars>>

\* A blocked call looks again after a token from flushSignal or a poll.
Unblock(p) ==
    /\ ppc[p] = "blocked"
    /\ ppc' = [ppc EXCEPT ![p] = "enqueue"]
    /\ flushSignal' \in {flushSignal, FALSE}
    /\ UNCHANGED <<fieldVars, lifeVars, flushWake, confirmCh, pitem, pevicted, pwake,
                   flushVars, envVars, result, histVars, persistVars>>

\* The context of a blocked call ends.
CtxDone(p) ==
    /\ ppc[p] = "blocked"
    /\ Return(p, "ctx")
    /\ UNCHANGED <<fieldVars, lifeVars, wakeVars, confirmCh, pevicted, pwake, flushVars,
                   envVars, histVars, persistVars>>

\* After the unlock: confirm the evicted record, triggerFlush, return nil.  The
\* two channel sends are one step; no goroutine waits for both channels.
Finish(p) ==
    /\ ppc[p] = "finish"
    /\ ConfirmKeys(pevicted[p])
    /\ flushWake' = (flushWake \/ pwake[p])
    /\ Return(p, "ok")
    /\ pevicted' = [pevicted EXCEPT ![p] = {}]
    /\ pwake' = [pwake EXCEPT ![p] = FALSE]
    /\ UNCHANGED <<fieldVars, lifeVars, flushSignal, flushVars, envVars, histVars>>

-----------------------------------------------------------------------------
\* The flush loops and Flush.

Goto(f, place) == pc' = [pc EXCEPT ![f] = place]

\* A step of f that only moves its program counter.
Move(f, from, to) ==
    /\ pc[f] = from
    /\ Goto(f, to)
    /\ UNCHANGED <<fieldVars, lifeVars, wakeVars, confirmCh, prodVars, kind, batch, outcome,
                   envVars, result, histVars, persistVars>>

\* The ticker of autoFlushLoop fires (flushTick).
Tick == started /\ Move(AutoLoop, "idle", "guard")

\* The host calls Flush.
HostFlush(f) == f \in HostFlushers /\ Move(f, "idle", "guard")

\* wakeFlushLoop takes the token.
TakeWake(f) ==
    /\ f \in WakeLoops /\ started
    /\ pc[f] = "idle" /\ flushWake
    /\ Goto(f, "check")
    /\ flushWake' = FALSE
    /\ UNCHANGED <<fieldVars, lifeVars, flushSignal, confirmCh, prodVars, kind, batch,
                   outcome, envVars, result, histVars, persistVars>>

\* flushIfNeeded; whether FlushInterval has passed since lastFlush is open.
FlushIfNeeded(f) ==
    \/ /\ Combined(queue) > 0
       /\ Move(f, "check", "guard")
    \/ /\ Combined(queue) = 0 \/ (Combined(queue) < Watermark /\ everFlushed)
       /\ Move(f, "check", "idle")

\* Flush's guardClosed.
FlushGuard(f) == Move(f, "guard", IF closed THEN "idle" ELSE "drain")

\* f is done with its kind: events come before metrics.
AfterKind(f) == IF kind[f] = "event" THEN "drain"
                ELSE IF f = Stopper THEN "close" ELSE "idle"

NextKind(f) ==
    /\ Goto(f, AfterKind(f))
    /\ kind' = [kind EXCEPT ![f] = IF @ = "event" THEN "metric" ELSE "event"]
    /\ batch' = [batch EXCEPT ![f] = <<>>]
    /\ outcome' = [outcome EXCEPT ![f] = "failed"]

\* Mutants of GateHolds: Stop's flush is held too; a kind that failed is held
\* until it succeeds.
GateHoldsStop(f) == gate[kind[f]]
GateHoldsStreak(f) == streak[kind[f]] > 0

\* The backoff gate holds a flush unless it is forced, as Stop's is.
GateHolds(f) == f # Stopper /\ gate[kind[f]]

\* flushEvents / flushMetrics: disabled, gated, or nothing to do.
Skip(f) ==
    /\ pc[f] = "drain"
    /\ \/ kind[f] \notin Enabled
       \/ GateHolds(f)
       \/ queue[kind[f]] = <<>>
    /\ NextKind(f)
    /\ UNCHANGED <<fieldVars, lifeVars, wakeVars, confirmCh, prodVars, envVars, result,
                   histVars, persistVars>>

\* Mutant of Drain: the queue is not emptied.
DrainKeepsQueue(f) ==
    LET k == kind[f] IN
    /\ pc[f] = "drain" /\ k \in Enabled /\ ~GateHolds(f) /\ queue[k] # <<>>
    /\ batch' = [batch EXCEPT ![f] = queue[k]]
    /\ stats' = [stats EXCEPT ![k].flushed = @ + Len(queue[k])]
    /\ everFlushed' = TRUE /\ flushSignal' = TRUE
    /\ Goto(f, "send")
    /\ UNCHANGED <<queue, streak, gate, lifeVars, flushWake, confirmCh, prodVars, kind, outcome,
                   envVars, result, histVars, persistVars>>

\* flushEvents / flushMetrics take the whole queue.
Drain(f) ==
    LET k == kind[f] IN
    /\ pc[f] = "drain"
    /\ k \in Enabled
    /\ ~GateHolds(f)
    /\ queue[k] # <<>>
    /\ batch' = [batch EXCEPT ![f] = queue[k]]
    /\ queue' = [queue EXCEPT ![k] = <<>>]
    /\ stats' = [stats EXCEPT ![k].flushed = @ + Len(queue[k])]
    /\ everFlushed' = TRUE
    /\ flushSignal' = TRUE
    /\ Goto(f, "send")
    /\ UNCHANGED <<streak, gate, lifeVars, flushWake, confirmCh, prodVars, kind, outcome,
                   envVars, result, histVars, persistVars>>

\* sendEvents / sendMetrics end well: every item was accepted or rejected for
\* good (400, 404, 422, or too large on its own).  A batch with an item that
\* cannot be marshalled is never sent.
SendDefinitive(f, o) ==
    /\ pc[f] = "send" /\ o \in {"accepted", "permanent"}
    /\ ItemsOf(batch[f]) \intersect Poison = {}
    /\ outcome' = [outcome EXCEPT ![f] = o]
    /\ confirmed' = confirmed \union ItemsOf(batch[f])
    /\ Goto(f, "confirm")
    /\ UNCHANGED <<fieldVars, lifeVars, wakeVars, confirmCh, prodVars, kind, batch, envVars,
                   result, shed, reloadEvicted, ackedAtStop, stopFailed, persistVars>>

\* Mutant of SendFails: a failed batch is confirmed.
SendFailsConfirms(f) ==
    /\ pc[f] = "send" /\ failures < MaxFailures
    /\ failures' = failures + 1
    /\ Goto(f, "confirm")
    /\ UNCHANGED <<fieldVars, lifeVars, wakeVars, confirmCh, prodVars, kind, batch, outcome,
                   crashes, result, histVars, persistVars>>

\* The send fails, in part or as a whole, or panics; or marshalBatch fails.
SendFails(f) ==
    /\ pc[f] = "send"
    /\ \/ failures < MaxFailures /\ failures' = failures + 1
       \/ ItemsOf(batch[f]) \intersect Poison # {} /\ UNCHANGED failures
    /\ stopFailed' = (stopFailed \/ f = Stopper)
    /\ outcome' = [outcome EXCEPT ![f] = "failed"]
    /\ Goto(f, "fail")
    /\ UNCHANGED <<fieldVars, lifeVars, wakeVars, confirmCh, prodVars, kind, batch, crashes,
                   result, confirmed, shed, reloadEvicted, ackedAtStop, persistVars>>

\* settle, accepted or permanent: confirm the records first.
SettleConfirm(f) ==
    /\ pc[f] = "confirm"
    /\ ConfirmKeys(KeysOf(batch[f]))
    /\ Goto(f, "count")
    /\ UNCHANGED <<fieldVars, lifeVars, wakeVars, prodVars, kind, batch, outcome, envVars,
                   result, histVars>>

\* Then count; only an accepted batch ends the streak and opens the gate.
SettleCount(f) ==
    LET k == kind[f] IN
    /\ pc[f] = "count"
    /\ stats' = [stats EXCEPT ![k].sent = @ + Len(batch[f])]
    /\ IF outcome[f] = "accepted"
       THEN /\ streak' = [streak EXCEPT ![k] = 0]
            /\ gate' = [gate EXCEPT ![k] = FALSE]
       ELSE UNCHANGED <<streak, gate>>
    /\ NextKind(f)
    /\ UNCHANGED <<queue, everFlushed, lifeVars, wakeVars, confirmCh, prodVars, envVars,
                   result, histVars, persistVars>>

\* settle, partial or failed: count and arm the gate.
SettleFail(f) ==
    LET k == kind[f] IN
    /\ pc[f] = "fail"
    /\ stats' = [stats EXCEPT ![k].failed = @ + Len(batch[f])]
    /\ streak' = [streak EXCEPT ![k] = @ + 1]
    /\ gate' = [gate EXCEPT ![k] = TRUE]
    /\ Goto(f, "requeue")
    /\ UNCHANGED <<queue, everFlushed, lifeVars, wakeVars, confirmCh, prodVars, kind, batch,
                   outcome, envVars, result, histVars, persistVars>>

\* Mutants of Kept and Evicted: no cap; the wrong end is confirmed.
KeptAll(merged) == merged
EvictedFront(merged) ==
    SubSeq(merged, 1, IF Len(merged) > BufferSize THEN Len(merged) - BufferSize ELSE 0)

\* What stays of the merged queue, and the newest entries, which do not.
Kept(merged) == SubSeq(merged, 1, IF Len(merged) > BufferSize THEN BufferSize ELSE Len(merged))
Evicted(merged) == SubSeq(merged, BufferSize + 1, Len(merged))

\* requeueEvents / requeueMetrics: the batch goes back to the front, the newest
\* entries beyond BufferSize are evicted and counted.
Requeue(f) ==
    LET k == kind[f]
        merged == batch[f] \o queue[k]
        tail == Evicted(merged)
    IN
    /\ pc[f] = "requeue"
    /\ queue' = [queue EXCEPT ![k] = Kept(merged)]
    /\ stats' = [stats EXCEPT ![k].dropped = @ + Len(tail)]
    /\ shed' = shed \union ItemsOf(tail)
    /\ batch' = [batch EXCEPT ![f] = tail]
    /\ flushSignal' = TRUE
    /\ Goto(f, "orphans")
    /\ UNCHANGED <<streak, gate, everFlushed, lifeVars, flushWake, confirmCh, prodVars, kind,
                   outcome, envVars, result, confirmed, reloadEvicted, ackedAtStop,
                   stopFailed, persistVars>>

\* After the unlock: confirm the records of the evicted entries.
ConfirmOrphans(f) ==
    /\ pc[f] = "orphans"
    /\ ConfirmKeys(KeysOf(batch[f]))
    /\ NextKind(f)
    /\ UNCHANGED <<fieldVars, lifeVars, wakeVars, prodVars, envVars, result, histVars>>

\* A loop sees that a.ctx is cancelled.
LoopExit(f) == f \in Loops /\ closed /\ Move(f, "idle", "exited")

\* The backoff of a kind runs out.
GateOpens(k) ==
    /\ gate[k]
    /\ gate' = [gate EXCEPT ![k] = FALSE]
    /\ UNCHANGED <<queue, stats, streak, everFlushed, lifeVars, wakeVars, confirmCh, prodVars,
                   flushVars, envVars, result, histVars, persistVars>>

-----------------------------------------------------------------------------
\* Status and Healthy, open being breaker.Open().

\* Mutant of AtLeast: the ratio of what both kinds can hold together.
AtLeastOfBoth(percent) == 100 * Combined(queue) >= percent * 2 * BufferSize

\* Combined occupancy against percent of BufferSize, which bounds each kind.
AtLeast(percent) == 100 * Combined(queue) >= percent * BufferSize

\* More than percent of the event sends since the start have failed; an event
\* counts once for every send.
FailureRateOver(percent) ==
    LET s == stats["event"] IN 100 * s.failed > percent * (s.sent + s.failed)

StateLocked(open) ==
    CASE closed -> "failed"
      [] ~closed /\ (open \/ AtLeast(90) \/ FailureRateOver(10)) -> "degraded"
      [] OTHER -> "healthy"

Healthy(open) == started /\ ~closed /\ ~open /\ ~AtLeast(95) /\ ~FailureRateOver(50)

-----------------------------------------------------------------------------
\* Start, Stop, the confirm worker, and what happens to the process.

\* Mutant of Reload: reloaded entries are not counted, nor is the buffer capped.
ReloadUncounted(loaded) ==
    /\ queue' = [k \in Kinds |-> queue[k] \o
                   [n \in 1..Len(loaded[k]) |-> [item |-> loaded[k][n], keyed |-> TRUE]]]
    /\ UNCHANGED <<stats, reloadEvicted, shed, persistVars>>

\* reloadKindLocked applied to the loaded records of every kind: append with
\* their keys, evict the head beyond BufferSize and delete its record and the
\* corrupt ones, one DEL for each.
Reload(loaded) ==
    LET merged == [k \in Kinds |-> queue[k] \o
                     [n \in 1..Len(loaded[k]) |-> [item |-> loaded[k][n], keyed |-> TRUE]]]
        over == [k \in Kinds |-> IF Len(merged[k]) > BufferSize
                                 THEN Len(merged[k]) - BufferSize ELSE 0]
        head == [k \in Kinds |-> SubSeq(merged[k], 1, over[k])]
        keys == Corrupt \union UNION {KeysOf(head[k]) : k \in Kinds}
    IN  /\ queue' = [k \in Kinds |-> SubSeq(merged[k], over[k] + 1, Len(merged[k]))]
        /\ stats' = [k \in Kinds |-> [stats[k] EXCEPT !.buffered = @ + Len(loaded[k])]]
        /\ reloadEvicted' = [k \in Kinds |-> reloadEvicted[k] + over[k]]
        /\ shed' = shed \union UNION {ItemsOf(head[k]) : k \in Kinds}
        /\ \E gone \in SUBSET keys : (RedisFaulty \/ gone = keys) /\ Del(gone, TRUE)

Start ==
    /\ ~started /\ ~closed
    /\ started' = TRUE
    /\ IF Durable
       THEN \E le \in LoadKind("event"), lm \in LoadKind("metric") :
              Reload([k \in Kinds |-> IF k = "event" THEN le ELSE lm])
       ELSE UNCHANGED <<queue, stats, reloadEvicted, shed, persistVars>>
    /\ UNCHANGED <<streak, gate, everFlushed, closed, wakeVars, confirmCh, prodVars,
                   flushVars, envVars, result, confirmed, ackedAtStop, stopFailed>>

\* Mutant of StopBegin: Stop waits for loops it has not told to end.
StopBeginNoCancel ==
    /\ MayStop /\ pc[Stopper] = "idle" /\ ~closed
    /\ Goto(Stopper, "wait")
    /\ UNCHANGED <<fieldVars, lifeVars, wakeVars, confirmCh, prodVars, kind, batch, outcome,
                   envVars, result, histVars, persistVars>>

StopBegin ==
    /\ MayStop /\ pc[Stopper] = "idle" /\ ~closed
    /\ closed' = TRUE
    /\ Goto(Stopper, "wait")
    /\ ackedAtStop' = {i \in Items : result[i] = "ok"}
    /\ UNCHANGED <<fieldVars, started, wakeVars, confirmCh, prodVars, kind, batch, outcome,
                   envVars, result, confirmed, shed, reloadEvicted, stopFailed,
                   persistVars>>

\* wg.Wait returns; the forced flush begins.
StopWait ==
    /\ started => \A f \in Loops : pc[f] = "exited"
    /\ Move(Stopper, "wait", "drain")

\* close(confirmCh)
StopClose == Move(Stopper, "close", "join")

\* The worker has emptied the channel and ended; the Redis client is closed.
StopJoin == confirmCh = <<>> /\ Move(Stopper, "join", "stopped")

ConfirmWorker ==
    /\ confirmCh # <<>>
    /\ Del(Head(confirmCh), TRUE)
    /\ confirmCh' = Tail(confirmCh)
    /\ UNCHANGED <<fieldVars, lifeVars, wakeVars, prodVars, flushVars, envVars, result, histVars>>

\* The process dies and a new one makes a new agent.
Crash ==
    /\ crashes < MaxCrashes
    /\ crashes' = crashes + 1
    /\ queue' = [k \in Kinds |-> <<>>] /\ stats' = [k \in Kinds |-> NoStats]
    /\ streak' = [k \in Kinds |-> 0] /\ gate' = [k \in Kinds |-> FALSE]
    /\ everFlushed' = FALSE /\ started' = FALSE /\ closed' = FALSE
    /\ flushWake' = FALSE /\ flushSignal' = FALSE /\ confirmCh' = <<>>
    /\ ppc' = [p \in Producers |-> "idle"] /\ pitem' = [p \in Producers |-> NoItem]
    /\ pevicted' = [p \in Producers |-> {}] /\ pwake' = [p \in Producers |-> FALSE]
    /\ pc' = [f \in Flushers |-> "idle"] /\ kind' = [f \in Flushers |-> "event"]
    /\ batch' = [f \in Flushers |-> <<>>] /\ outcome' = [f \in Flushers |-> "failed"]
    /\ consecutiveFailures' = 0 /\ cooldown' = FALSE
    /\ result' = [i \in Items |-> IF result[i] = "pending" THEN "crashed" ELSE result[i]]
    /\ ackedAtStop' = {}
    /\ reloadEvicted' = [k \in Kinds |-> 0] /\ stopFailed' = FALSE
    /\ UNCHANGED <<failures, confirmed, shed, records, stamp, stored, expired>>

RedisStep ==
    /\ Durable
    /\ CooldownEnds \/ \E i \in Items : Expire(i)
    /\ UNCHANGED <<fieldVars, lifeVars, wakeVars, confirmCh, prodVars, flushVars, envVars,
                   result, histVars>>

ProducerStep(p) ==
    \/ EnqueueRoom(p) \/ EnqueueDrop(p) \/ EnqueueRaise(p) \/ EnqueueBlock(p)
    \/ Unblock(p) \/ Finish(p)

FlushStep(f) ==
    \/ FlushIfNeeded(f) \/ FlushGuard(f) \/ Skip(f) \/ Drain(f)
    \/ \E o \in Outcomes : SendDefinitive(f, o)
    \/ SendFails(f) \/ SettleConfirm(f) \/ SettleCount(f) \/ SettleFail(f)
    \/ Requeue(f) \/ ConfirmOrphans(f)

StopStep == StopWait \/ StopClose \/ StopJoin

Next ==
    \/ \E p \in Producers : ProducerStep(p) \/ CtxDone(p) \/ \E i \in Items : Send(p, i)
    \/ \E f \in Flushers : FlushStep(f) \/ TakeWake(f) \/ HostFlush(f) \/ LoopExit(f)
    \/ Tick
    \/ \E k \in Kinds : GateOpens(k)
    \/ Start \/ StopBegin \/ StopStep
    \/ ConfirmWorker
    \/ RedisStep
    \/ Crash

Spec == Init /\ [][Next]_vars

\* Goroutines are scheduled, requests end (HTTPTimeout), the tickers fire, the
\* backoff runs out.  A loop whose context is cancelled keeps finding ctx.Done
\* ready in its select and so leaves it, even if the ticker fires now and then.
Fairness ==
    /\ \A p \in Producers : WF_vars(ProducerStep(p))
    /\ \A f \in Flushers : WF_vars(FlushStep(f)) /\ WF_vars(TakeWake(f)) /\ SF_vars(LoopExit(f))
    /\ WF_vars(Tick)
    /\ \A k \in Kinds : WF_vars(GateOpens(k))
    /\ WF_vars(StopStep)
    /\ WF_vars(ConfirmWorker)

FairSpec == Spec /\ Fairness

-----------------------------------------------------------------------------
\* Properties.

\* Where a flusher holds a batch nobody else has, and where that batch still
\* waits for its outcome to be counted or is on its way back.
Holding == {"send", "confirm", "count", "fail", "requeue"}
Unsettled == {"send", "fail", "requeue"}

InMemory ==
    (UNION {ItemsOf(queue[k]) : k \in Kinds})
      \union (UNION {ItemsOf(batch[f]) : f \in {g \in Flushers : pc[g] \in Holding}})

\* The per-kind cap holds through appends, requeues and reloads (enqueueEvent,
\* requeueEvents, reloadFromRedisLocked).
QueueBound == \A k \in Kinds : Len(queue[k]) <= BufferSize

\* "Nothing acknowledged is lost" (Flush): an item whose call returned nil is in
\* the queue or in a batch under way, until the server has answered definitively
\* or a full buffer evicted it, whatever the flushers and Stop do meanwhile.
NothingLost ==
    crashes = 0 => \A i \in Items :
        result[i] = "ok" => i \in InMemory \union confirmed \union shed

\* An item is in one place only: no interleaving of drains, requeues and reloads
\* sends or counts it twice within one process.
SingleCopy ==
    \A i \in Items :
        Cardinality({x \in Kinds \X (1..BufferSize) :
                        x[2] <= Len(queue[x[1]]) /\ queue[x[1]][x[2]].item = i}
            \union {x \in Flushers \X (1..BufferSize) :
                        /\ pc[x[1]] \in Holding
                        /\ x[2] <= Len(batch[x[1]]) /\ batch[x[1]][x[2]].item = i}) <= 1

\* The entries of kind k in batches of flushers whose program counter is in S.
InFlight(k, S) == {x \in Flushers \X (1..BufferSize) :
                      pc[x[1]] \in S /\ kind[x[1]] = k /\ x[2] <= Len(batch[x[1]])}

\* Stats adds up at every moment: each buffered entry is queued, under way, sent,
\* dropped, or was evicted by a reload, and each flushed entry is sent, failed or
\* waiting for its outcome to be counted.
Accounting ==
    \A k \in Kinds :
        /\ stats[k].buffered = Len(queue[k]) + Cardinality(InFlight(k, Holding))
                                 + stats[k].sent + stats[k].dropped + reloadEvicted[k]
        /\ stats[k].flushed = Cardinality(InFlight(k, {"send", "confirm", "count", "fail"}))
                                 + stats[k].sent + stats[k].failed

\* "Buffered items survive crashes": the record of a keyed entry stays in Redis,
\* unless it expires, while the entry is queued, being sent or on its way back.
SurvivesCrash ==
    \A s \in {queue[k] : k \in Kinds} \union {batch[f] : f \in {g \in Flushers : pc[g] \in Unsettled}} :
        KeysOf(s) \subseteq records \union expired

\* A record store reported durable is deleted only after a definitive answer of
\* the server, an eviction or its expiry: no crash between drain, send, confirm
\* and requeue loses it.
AtLeastOnce == stored \subseteq records \union confirmed \union shed \union expired

\* Stop's final flush leaves nothing behind: when none of its sends failed, every
\* item acknowledged before Stop was called has a definitive answer or was
\* evicted, even if a loop's flush failed and armed the gate while Stop waited.
StopDelivers ==
    pc[Stopper] = "stopped" /\ ~stopFailed => ackedAtStop \subseteq confirmed \union shed

\* reserveMetricKeyLocked: a metric "is JSON-serializable by construction [...] its
\* serialization cannot fail", so with a server that takes everything Stop settles
\* all that can be serialised, even if the host was allowed to send a NaN.
PoisonStaysAlone ==
    pc[Stopper] = "stopped" /\ failures = 0 => ackedAtStop \ Poison \subseteq confirmed \union shed

\* What the host is told of the agent's health fits the buffers: while one kind is
\* full, so that the next send blocks, raises or sheds, Status never says healthy,
\* and whenever it does of a started agent Healthy says so too.
HealthAgrees ==
    \A open \in BOOLEAN :
        /\ (\E k \in Kinds : Len(queue[k]) = BufferSize) => StateLocked(open) # "healthy"
        /\ started /\ StateLocked(open) = "healthy" => Healthy(open)

\* The agent without Redis implements the contract of Delivery: an item is held
\* while it is in a queue or a batch and nothing has settled it.
Promise == INSTANCE Delivery WITH
    held <- InMemory \ (confirmed \union shed),
    answered <- confirmed,
    acked <- {i \in Items : result[i] = "ok"}

Delivers == Promise!Spec

\* An acknowledged item does not stay in the buffer for ever once the server has
\* recovered: ticks, wakes and gates get it out.
EventuallySettled ==
    \A i \in Items : result[i] = "ok" ~> i \in confirmed \union shed

\* A blocked SendEvent gets its turn once the server has recovered.
BlockedReturns ==
    \A p \in Producers : ppc[p] = "blocked" ~> ppc[p] = "idle"

\* Stop returns: the loops leave their flushes, the final flush ends and the
\* confirm worker empties its channel.
StopReturns == pc[Stopper] = "wait" ~> pc[Stopper] = "stopped"

\* errors.go: "ErrClosed is returned by SendEvent, SendMetric, and Flush after
\* Stop": once Stop has returned, a call that waits under OverflowBlock ends too.
StopUnblocks ==
    \A p \in Producers : pc[Stopper] = "stopped" /\ ppc[p] = "blocked" ~> ppc[p] = "idle"
=============================================================================
