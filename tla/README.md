# A TLA+ verification of guard-agent-go

guard-agent-go is a telemetry agent that lives inside a host process. It buffers
security events and metrics in memory, optionally mirrors them into Redis, and
delivers them in batches to an ingestion API with at-least-once semantics. This
directory models its core in TLA+, model-checks small instances with TLC and
proves the main safety properties with TLAPS for every instance.

Contents: [inventory](#inventory) · [modules](#modules-and-how-they-correspond-to-the-code)
· [runs](#runs) · [fairness](#fairness) · [proofs](#proofs) ·
[where code and documentation differ](#where-code-and-documentation-differ) ·
[limits](#what-is-not-modelled-and-why) · [plan](#plan)

## Inventory

| Component | State | Operations | Interacts with | Hard behaviour | What makes it correct |
|---|---|---|---|---|---|
| Agent core (`agent.go`) | two queues, five counters per kind, failure streak and backoff gate per kind, `lastFlush`, `started`, `closed`, the channels `flushWake`, `flushSignal`, `confirmCh` | `SendEvent`, `SendMetric`, `Flush`, `Start`, `Stop`, the ticker loop, the wake loops, the confirm worker, settle / requeue / confirm | persistence (under `a.mu`), transport (without any lock), host goroutines | every flusher drops the lock between drain, send, confirm, count and requeue; overflow policies; Stop races with everything; crash between any two steps | nothing acknowledged is lost, nothing is sent twice by one process, the cap holds, counters add up, Stop delivers and returns, blocked calls return |
| Persistence (`persistence.go`) | records in Redis, consecutive failures, cooldown | `store`, `del`, `loadKind`, TTL expiry | called by the agent core | SET applied but reported as failed, DEL lost, cooldown, reload over capacity | a durable record is deleted only after a definitive answer or an eviction |
| Circuit breaker (`circuit_breaker.go`) | state, failure count, `openedAt` | `Admit`, `Success`, `Failure` | telemetry flushes, status reports and the rules poller share one instance | verdicts of concurrent calls arrive in any order and any state | state agrees with the count; quarantine; recovery |
| Rate limiter (`rate_limiter.go`, `limiterGate` in `transport.go`) | timestamps of the window | `Acquire`, `RetryAfter`, wait and retry | every request attempt | `RetryAfter` is read in a second critical section | cap in every window, wait long enough, nobody stuck |
| Transport (`transport.go`) | breaker, limiter, `requestsSent`, `requestsFailed`; per call the attempt and the recursion of the split | `sendEvents`, `sendMetrics`, `sendStatus`, `sendBatch` with retries, 413 split, response evaluation | agent core, breaker, limiter | one half of a split batch accepted, the other failing; cancellation by Stop counting as breaker failures | outcome "accepted" or "permanent" only if every item has its answer |
| Status and health (`agent.go`) | `statusStreak`, counters | `Status`, `Healthy`, `reportStatus`, `statusLoop` | agent core, transport | two computations of health, one per call and one per report, from the same buffers | the two verdicts fit each other and the buffers |
| Dynamic rules (`dynamic_rules.go`) | cached document, `rulesLastUpdate` | `GetDynamicRules`, `fetchDynamicRules`, `rulesLoop` | transport, breaker, limiter, host goroutines | concurrent fetches overwrite each other; Stop during a fetch | a document served within its TTL is fresh; the cache converges; the loop ends |
| Construction (`New` in `agent.go`) | the agent's identity, encryptor, persistence | `New` | everything below; Redis and the identity file shared with other processes | any of its steps fails, the host crashes and starts again | an agent that is up can run, and fails closed |
| Configuration (`config.go`) | none | `normalize`, `normalizeEndpoint`, `normalizeSensitiveHeaders` | `New` | zero, negative, boundary and NaN values | what is accepted is usable |
| Install identity (`install_id.go`) | identity file | `resolveInstallID` | file system, other processes | two processes create the file at once; torn or unreadable file | one identity per path, stable over restarts |
| Redaction (`redact.go`) | none | `sanitizeValue` and the functions around it | capture, `marshalBatch` | applied again at every post; nested JSON documents; depth and scan limits | no listed value is stored or posted; posts of an item differ only where the lists do |
| Encryption and signing (`encryption.go`, `transport.go`) | encryptor | key set-up, `sendEncryptedBatch`, HMAC headers | construction, transport | start-up round trip may fail | with a key, no item leaves in plaintext (status reports and the rules request always do) |
| Wire models, errors, error hook | none | types, a callback | | | |

`PROJECT.json` lists the components with their status and, under `hazards`, the
places where this code is hard to test, each with the properties aimed at it.

## Modules and how they correspond to the code

**`CircuitBreaker`** models `Admit`, `Success` and `Failure` together with the
callers: a caller is admitted (`Send`), runs without a lock and reports a verdict
later (`Reply`). A verdict is a success, a failure (network error, 429, 401, 403,
5xx) or permanent (400, 404, 413, 422); `CountsAsFailure` says which ones
`sendBatch` and `fetchDynamicRules` report. Time is the age of `openedAt`, which
the code only compares with `recoveryTimeout`.

**`RateLimiter`** models the window as a sequence of ages, `Acquire` as `Grant` and
`Deny`, and `limiterGate` as deny, read `RetryAfter` (a critical section of its
own), sleep, and either burn an attempt or give up. A caller may enter with any attempt,
since `sendBatch` passes the limiter again before every retry.

**`Transport`** follows one call of `sendEvents`, `sendMetrics` or `sendStatus`:
`Marshal` and `MarshalFails`, then `sendBatch`'s loop (`GateOpen`, `GateBurns`,
`GateFails` for `limiterGate`; `Refused` and `Do` for `Admit` and `client.Do`; one
action per class of answer; `Wake` and `SleepCancelled` for `sleepCtx`) and the
recursion of `splitOrDropEvents` as a stack (`Split`, `LeftDone`, `BothDone`). The
breaker is the one of `CircuitBreaker`, instantiated and private to the call: that other
calls report to it at the same time is what `Quarantine` of `CircuitBreaker` covers. The limiter grants or denies
freely and pauses have no length, which allows every order the code allows. Two
things are assumed of the server: its payload limit does not change during a call,
and it never accepts what is over the limit. An encrypted batch and a status report
cannot be split, so a 413 drops them whole. `Confirms(outcome)` is what
`SendDefinitive` of `Agent` stands for, its negation `SendFails`.

`late` counts the requests that leave after Stop cancelled the call's context.

**`Settlement`** is the abstract send: items of a batch get answers, never two, and
the call returns "settled" exactly when all have one. `Transport` implements it with
the refinement mapping `Implements`: an item is answered when it was accepted,
rejected for good or dropped because it alone is too large.

**`DynamicRules`** extends `CircuitBreaker` with the rules document: `Lookup` (the cache
read under `a.mu`), `Denied`, `Refused`, `Fetch`, `Fetched`, `FetchFails`, `Cancelled`
(one attempt of `fetchDynamicRules`), `Store` (the second critical section), `GiveUp`
inside them, `LoopExit`, and the server's `Publish`. The context of the loop's calls ends
with Stop; the host's own may end at any moment of its call (`CtxMayEnd`), until the
server has recovered: from then on hosts wait for their answers, since one that cancelled
every request would keep the breaker open by itself. A document is its version; `doc`
is the version current when the request left and then the one in the answer, which
may be any that was current in between. `age` is the age of the cache, `outdated` a
history of how long ago each version was replaced. The telemetry callers of
`CircuitBreaker` run beside it and share the breaker.

**`Persistence`** models Redis as the set of items that have a record. A key is made
of the enqueue time and names one item, so the item stands for the key and `stamp`
for its place in the order `loadKind` sorts by. A SET may fail although it was
applied, a DEL may be lost, records may expire, and after
`redisMaxConsecutiveFailures` failures writes pause. The constant `RedisFaulty`
switches these failures off for runs that are not about them. Items in `Poison` are
metrics that `json.Marshal` refuses (a `Value` that is NaN or infinite): `store`
writes an empty record for them and reports it as durable, and a reload deletes it
as corrupt (`Corrupt`).

**`Agent`** extends `Persistence` and is the core. One action is one critical section
of `a.mu` or one channel operation; between two of them any goroutine may run. The
code for events and metrics is the same, so the kind is a parameter.

| Actions | Code |
|---|---|
| `Send`, `EnqueueRoom`, `EnqueueDrop`, `EnqueueRaise`, `EnqueueBlock`, `Unblock`, `CtxDone`, `Finish` | `SendEvent`, `SendMetric`, `enqueueEvent`, `enqueueMetric`, with `appendEventLocked` and the write of the record inside the critical section |
| `Tick`, `TakeWake`, `FlushIfNeeded`, `HostFlush`, `FlushGuard`, `LoopExit` | `autoFlushLoop`, `wakeFlushLoop`, `flushIfNeeded`, `Flush` |
| `Skip`, `Drain` | `flushEvents`, `flushMetrics` up to the unlock |
| `SendDefinitive`, `SendFails` | the outcome of `sendEventsSafely`: accepted and permanent are definitive, everything else (partial, failed, a panic) fails |
| `SettleConfirm`, `SettleCount`, `SettleFail`, `Requeue`, `ConfirmOrphans` | `settleEvents`, `requeueEvents`, `confirmKeys` |
| `Start`, `StopBegin`, `StopWait`, `StopClose`, `StopJoin`, `ConfirmWorker` | `Start` with `reloadFromRedisLocked`, `Stop`, `confirmWorker` |
| `GateOpens`, `Crash`, `RedisStep` | time passing the backoff gate, the host process dying and coming back, Redis |

A flusher's program counter `pc` walks through `idle`, `check`, `guard`, `drain`,
`send`, `confirm` and `count` or `fail`, `requeue` and `orphans`; Stop's through
`wait`, the same flush, `close`, `join`, `stopped`. `confirmed`, `shed`, `stored`,
`expired`, `reloadEvicted`, `ackedAtStop` and `stopFailed` are history variables:
no guard reads them. A batch with a poison item cannot be sent (`SendFails` is then the
only outcome). `StateLocked` and `Healthy` translate `stateLocked` and `Healthy` as
operators on this state.

**`Delivery`** is the abstract agent: an item that was taken is held until the server
answers for it or a full buffer sheds it, once and for all, and only an item that was
taken is acknowledged. `Agent` without Redis implements it (`Delivers`): an item is
held while it is in a queue or a batch under way and nothing has settled it, so the
copy in a batch that is already confirmed but not yet counted does not count.

**`Config`**, **`InstallID`**, **`Redaction`** and **`Construction`** belong together.
`Config` holds `normalize` as operators: `Problems(raw)` is the set of what it rejects,
`Normalized(raw)` what it makes of the rest; numbers keep their values, other fields
are reduced to the classes the code tells apart, and an endpoint is its host and the
segments of its path. `InstallID` has one action per file operation of
`resolveInstallID`; `os.WriteFile` is an open that truncates and a write, and each may
fail. `Redaction` describes `sanitizeValue` along the path to one value, since siblings
are treated independently: a step is a map entry, a slice element, a JSON document in
a string, or something of an unknown kind, and `Cuts` are the places at which the walk
puts the marker. A document is encoded again by every pass over it, and its size then
depends on the values that passes so far replaced inside it; its field `over` is the set
of those sets of header names (`hidden`) with which it is too long to be scanned by the
next pass. Nothing is assumed of `over`: hiding a value may lengthen a document or shorten
it. `Construction` composes them as `New` does: `New`, `Resolving`,
`KeyFails`, `RedisFails`, `Up` for a start, `Capture` and `Reload` for an item on its way
into the buffer and through Redis, `Post` and `Split` for its way onto the wire, `Crash`
for the end of a process. `held` is the captured form throughout: `flushEvents` copies the
items of a batch before they are marshalled and puts the originals back. A retry posts the
same bytes and is no step. `Split` marshals what the post before has already redacted, as
the parts of a batch are slices of one array.

**`MC*`** give the constants their values for TLC, **`*Proofs`** hold the theorems.
Definitions whose comment begins with "Mutant" are deliberately wrong variants: with
one in place of the definition it varies, TLC must find a property violated.

## Runs

| Run | Instance | Shows |
|---|---|---|
| `breaker` | a telemetry caller, the rules loop and a host's `GetDynamicRules`, threshold 2, recovery timeout 1 tick, at most 3 failures in a row, TTL 2 ticks, request timeout 1 tick, one retry, two versions of the document | `ClosedBelowThreshold`, `Quarantine`, `FreshEnough` and, with fairness, `Recovers`, `RulesConverge`, `LoopEnds` |
| `limiter` | three callers, two calls per window of two ticks, one retry | `WindowBound`, `WaitIsEnough`, `GateEnds` |
| `transport` | a send of one to three items, any of them too large, two items per request, one retry, threshold 3, timeout 2 ticks, any breaker state at the start | `SendContract`, `NoResend`, `OnlyBigDropped`, `RequestBound`, `CancelBound`, `CountedOnce`, `RetriesRespectBreaker`, `Ends`; implements `Settlement` (`Implements`) |
| `agent_drop` | three events and a metric, buffer 2, one producer, ticker, one wake loop, one host Flush, one failing send, sending before Start allowed | `QueueBound`, `NothingLost`, `SingleCopy`, `Accounting`, `HealthAgrees`; implements `Delivery` (`Delivers`) |
| `agent_stop` | two events, buffer 1, policy raise, Redis without faults, two failing sends | `StopDelivers`, `StopReturns` |
| `agent_crash` | two events, buffer 1, policy drop, faulty Redis, confirm channel of one, one failing send, one crash anywhere | `Accounting`, `SurvivesCrash`, `AtLeastOnce` |
| `agent_settles` | two producers, buffer 1, policy block, two failing sends | `EventuallySettled`, `BlockedReturns` |
| `construct` | two processes on one identity file and one Redis, depth limit 2, one restart, four identities; three families of configurations, below | `UpIsUsable`, `IdentitySettles`, `SecretsStayHome`, `ResendsAlike`, `NoPlaintextFallback` |
| `breaker_permanent`, `agent_stop_unblocks`, `agent_early_send`, `agent_poison` | | counterexamples, see below |

Why the bounds are enough. The interesting cases need a full buffer, a second batch
drained while the first is under way, and a requeue into a refilled buffer: with
a buffer of one or two, two to four items and the two flush loops all of them occur
(the mutants of `Kept`, `Evicted` and `Drain` are caught). One failing send already
gives a requeue racing with another flusher; two let both loops fail while Stop
waits. In `transport` three items give a split inside a split with halves of
different length, and one retry for each of up to five parts is enough to cross the
breaker's threshold within one call. In `breaker` a request that lasts one tick beside
a TTL of two lets a slow answer be stored over a newer document, and a threshold of
two lets a retry open the breaker. `construct` takes its configurations from three
families: *identity* (both processes resolve one, one of them possibly without a path
or with a Redis URL `New` refuses), *configuration* (one process departs from the
defaults in one field: every numeric field at -1, 0, 1, around its least value, above
its greatest, and NaN; every class of the others, Redis with keys in all
combinations), *redaction* (every path of up to three steps, two processes with any
two of three lists of headers, two of which do not contain each other, with and without a
key; documents that stay short, are too long, become so at the first encoding, or only
once an entry of one list is hidden in them). Three steps pass the depth limit of
two and nest a document in a document. One restart, a crash or a second `New` after a
failure, is enough for a process to find what an earlier life left behind.
`MaxFailures` makes the server recover for good, which the liveness
properties assume. `MaxRedisFailures` is 2 instead of 3 so that the cooldown is
reached with two writes; `ConfirmCap` is 1 instead of 64 so that the direct delete
of a full channel happens. `agent_drop` uses symmetry over items and producers, which is
sound for what it checks: invariants and `Delivers`, a refinement without fairness.
`agent_stop` has events only; `StopLeavesNothing` is proved for both kinds. Deadlock is checked except where
the system may stop: after Stop, in `construct`, where the host may give up on a `New`
that fails, and in `agent_early_send` and `agent_poison`, whose loops have nothing to do
with their question.

What the properties say, in short: `SurvivesCrash` ties the records in Redis to the
entries in memory at every moment, so a crash at any of them finds the record;
`AtLeastOnce` follows a record from the moment `store` called it durable across
crashes and reloads; `StopDelivers` covers the failure of a loop's flush (cancelled
by Stop) that arms the gate just before the forced flush; `Accounting` relates the
counters to the queue and all batches in flight; `SendContract` is the promise of the
transport on which `NothingLost` and `AtLeastOnce` rest: an outcome that lets the
agent forget a batch means that every item of it has its answer. `CancelBound` says
that after Stop cancelled a call no part of the batch is tried more than once, nested
splits included, so a cancelled flush costs the breaker at most one failure per item.
`FreshEnough` bounds the damage of an older document stored over a newer one by one
request. `SecretsStayHome` covers a record captured under one list of headers and sent
by a process with another. `ResendsAlike` says how far posts of one item may differ. A
batch that is put back is posted from its captured form, its parts after a 413 from the
form of the post before, so a part has been through one pass more; a pass may lengthen a
document past the limit of the next. As long as the sender's list has no name that the
capturer's lacks that changes nothing, since the pass at the capture has settled every
length. With a longer list a part may have the marker where the whole batch had the
document, and differ in nothing else. `NoPlaintextFallback` is about items: status reports
(`transport.go:295-309`) and the rules request carry none and are never sealed.

## Fairness

Weak fairness on the steps of a producer's call, of a flush and of Stop: goroutines
are scheduled, and a request ends because of `HTTPTimeout`. Weak fairness on `Tick`
and `GateOpens`: tickers fire and a deadline passes. `TakeWake` is weakly fair for
each wake loop. `LoopExit` is strongly fair: once the context is cancelled
`ctx.Done()` is ready at every turn of the loop's `select`, which picks among ready
cases at random, so a loop cannot take the ticker for ever. No fairness is assumed
of the host (`Send`, `HostFlush`, `StopBegin`, `CtxDone`), of `Start`, of Redis or
of crashes. In `CircuitBreaker` callers keep calling because the flush, status and
rules loops are driven by tickers. In `Transport` the steps of the goroutine are
weakly fair, answers included (`HTTPTimeout`); cancellation is not. In `DynamicRules`
the loop's ticker and every request are weakly fair. `Fetch` is strongly fair for the
loop only: the limiter may deny it any number of times but not for ever, since its
window slides and the other loops pause between their calls (`GateEnds` checks the
limiter itself without this assumption). `LoopExit` is strongly fair for the reason
given above. The host's `GetDynamicRules`, `Publish` and `Stop` have no fairness.

## Proofs

TLAPS proves, for every value of the constants that satisfies the named ASSUMEs:

- `DynamicRulesProofs`, of the breaker: `ClosedBelow` and `QuarantineHolds`. The invariant adds to
  the types that a half-open breaker has waited out its timeout
  (`HalfOpenAfterWindow`), since it lets every caller through, and that from the
  threshold on `openedAt` is the time of the last failure reported
  (`OpenedAtLastFailure`), which is what the quarantine is measured from.
  Of the fetching of rules: `SharedClosedBelow` and `SharedQuarantine`, the same two
  properties with the rules callers and the telemetry callers sharing the breaker, and
  `RulesTypeCorrect`. `SharedBreaker` shows that every step of `DynamicRules` is, for
  the breaker, a step of one of its callers or none, so the breaker's own invariant is
  reused and not proved twice.
  `CacheIsFresh`: `FreshInv` adds to `FreshEnough` that a version
  is outdated only if a newer one is (`Replaced`) and that the document of a request
  under way was current when the request left, so that it is outdated by no more than
  the request is old (`OnItsWay`). This holds because no tick passes a request that has
  reached its timeout, which is where `HTTPTimeout` enters the bound.
- `RateLimiterProofs`: `LimiterTypeCorrect`, `WindowHolds` and `PauseIsEnough`.
  `WindowBound` counts the grants themselves, so the invariant has to say that the list
  still knows them: it is the grants of the last window, oldest first, after expired ones
  that the next `Acquire` prunes (`Listed`). `Recent` is what the loop of `pruneLocked`
  keeps, in its order, defined by counting instead of by recursion (TLC finds it equal to
  `SelectSeq`); of an ordered sequence it is the end (`KeepsSuffix`, `RecentIsSuffix`), so
  pruning loses no grant of the window (`PrunedIsGranted`). `WaitInv` says for how long a
  sleeper whom nobody overtook still sleeps: at least until the oldest grant expires.
- `AgentProofs`: `TypeCorrect`, `CapHolds`, `HealthIsHonest` and `NothingIsLost`. `CoreInv` is the
  types, "a call in progress carries its item" (`HasItem`, needed to type the append)
  and the cap. `LossInv` strengthens `NothingLost` in two ways. First, an item counts
  as acknowledged from the append on, since between the append and the return other
  goroutines may already drain it. Second, a batch that is being confirmed or counted
  has its definitive answer (`Settled`), since that batch disappears at the end of
  the count. The argument is that no step but a crash shrinks
  `Accounted == InMemory \cup confirmed \cup shed`: `FlusherKeeps` for the flushers,
  `AppendKeeps` for the producers, `ReloadType` for Start. They rest on lemmas about
  the items of concatenated, cut and appended queues (`ItemsOfConcat`,
  `ItemsOfSplit`, `ItemsOfAppend`, `CapProperties`).
- `AgentAccountingProofs`: `BooksBalance` (`Accounting`), for any number of flush loops
  and host flushes. `Accounting` counts the entries of all batches under way; the proof
  splits that count into the share of one flusher and the rest (`FlightSplit`), so that
  a step changes it by the difference of its own share (`FlightNext`). `Ledger` says of
  one step that what it adds to one side of the two equations it adds to the other, and
  there is one lemma for each kind of entry the books know (`DrainLedger`,
  `CountLedger`, `FailLedger`, `RequeueLedger`, `AppendLedger`, `ReloadLedger`).
  `FitBatch`, a batch is never longer than a queue may be, is what keeps all of a batch
  within the positions `Accounting` counts.
- `AgentDurabilityProofs`: three invariants, each on top of the one before.
  `StepKinds` first reduces the actions to what they do to entries and records.
  `DeletedOnlyWhenSettled` (`AtLeastOnce`) rests on `DoomInv`: keys that wait for their
  deletion, as a call's evictions, a batch that came back too long or in the worker's
  channel, are those of settled items (`Doomed`), and a batch is confirmed only with its
  answer (`Settled`). `OneCopyOnly` (`SingleCopy`) rests on `CopyInv`: queues and batches
  share no item (`OneCopy`), which an append keeps only because an item whose call has
  not appended is nowhere yet (`FreshNowhere`, `CallsApart`), and a reload only because
  a durable agent that is not started holds nothing (`BeforeStart`).
  `CrashFindsRecords` (`SurvivesCrash`) adds that the record of an entry still to be
  sent is there or has expired; that needs `Spared`, that no key on its way to deletion is
  that of such an entry, which in turn is why an item must have only one copy.
- `AgentDeliveryProofs`: `DeliversWhatItTakes`, the refinement of `Delivery`, and
  `StopLeavesNothing` (`StopDelivers`). The refinement adds to `CopyInv` that an entry
  still to be sent has not been settled (`Unjudged`) and that no empty batch is sent
  (`FullBatch`, since an answer for nothing would be no step of `Delivery`). `HeldIsToSend`
  shows that what the mapping calls held is exactly what is queued or under way, and the
  steps fall into five kinds of `Delivery` (`ItemComesIn`, `ItemAcked`, `ItemsAnswered`,
  `ItemsShed`, `ItemsStay`). `StopInv` follows Stop: no loop flushes any more once it has
  waited for them (`StopperPlaces`), and as long as none of its own sends failed, a queue
  it has emptied holds nothing acknowledged before (`FinalFlush`), for which an append that
  comes later must be that of a call that has not returned (`AckedReturned`, `CallsApart`),
  and a kind that is switched off must be empty, since Stop skips it (`EnabledOnly`).
- `TransportProofs`: `SendIsHonest`, `NeverResent` and the refinement `SendSettles`, from
  one invariant. `Nested` says that the splits on the stack are nested intervals, the
  slice in work inside the half under way of each; a frame records only its right
  half, so the intervals are existentially quantified. `Answers` says what has its answer:
  a left half that is back as its outcome says, nothing to the right of the slice in
  work, and of that slice nothing, or what the outcome says once it is back. `StepKinds`
  reduces the actions to seven kinds of step, each with its lemma; the same kinds
  give the step simulation of `Settlement`. `NeighboursSurvive`, `NoneCountedTwice` and
  `BreakerHoldsRetries` follow with small invariants of their own: a request under way
  is one no counter has seen (`CountInv`); from the threshold on the breaker's clock
  runs since the last failing answer (`BreakerInv`).
  `CancelledOnce`: after the context ended every request is for an item to the left
  of what is still to be sent (`LateInv`, with `RightFollows`: the right half begins where
  the left half ended). `RequestsBounded`: the parts begun so far are at most two for each
  item left behind, less one for each split whose right half waits (`TryInv`); a split
  adds a part but also a waiting half, and there is room for that since the waiting halves
  lie behind the slice in work, each with an item of its own (`WaitingFits`).
  `SendTypeCorrect` adds to `SendInv` the types of the counters and of the breaker.
- `ConstructionProofs`: `NeverPlaintext`, `NothingSensitiveLeaves`, `IdentityIsStable`,
  `ConfigsAreUsable`, `PostsAreAlike`.
  `KeyInv`: an agent that is up has an encryptor exactly if a key is configured, and
  only an agent that is up holds an item. `SecretInv` says of record, buffers and wire
  that they are clean for the list of the process that captured the item; it rests on
  two lemmas about `Redact`, that its result is clean for the list it was given
  (`RedactCleans`) and that it stays clean for any other (`RedactKeeps`), for every
  payload, list and depth limit. `IdentityInv`: once an identity is settled the file
  holds it and nobody is about to write, and whoever began to resolve since has it or
  none yet; `GotoKeeps` is the common part of all steps. `ConfigsAreUsable` is mostly about
  the operators: past normalize there are only configurations without problems
  (`ConfigInv`), and what `Normalized` makes of one is usable (`NormalizedIsUsable`), field
  by field for the numbers (`InRange`), and for the endpoint because trimming twice is
  trimming once (`TrimRightTwice`) and cutting off the suffix leaves a host
  (`EndpointIsHost`). `PostsAreAlike`: a pass settles a form, its documents
  have the size that the names hidden so far give them (`Settled`, `RedactSettles`). A pass
  over a settled form with no new name keeps it, or puts the marker in place of a document
  that is too long, and then there is nothing left to do for the next (`RedactAgain`).
  So a process has two forms at most in which to post what it holds (`Posts`): one pass
  over the captured form, which may bring new names, and a second one. They are the same
  if the first brings none, since the captured form is settled too (`Captured`,
  `PostsOfItem`).

The assumptions on the constants: `Items` is finite, buffer size, watermark and
limits are positive, the goroutines are distinct, and there are finitely many of them
(`Agent`; the code starts `MaxConcurrentFlushes` wake loops, and a host has finitely many
goroutines); `RulesLoop` is one of the rules callers and TTL, timeout and bounds are
natural numbers, the TTL positive (`RulesAssumption`); the rate limiter's cap and window are
positive (`LimiterAssumption`); limits of `Transport` are positive
(`TransportAssumption`, of which its proofs use the capacity, the threshold and the
timeout); hosts pass configurations and payloads of the types the Go declarations allow
(`ScenariosAssumption`); lower-casing and trimming a header name twice is doing it once, and
NaN is no integer (`ConfigAssumption`); the set of processes is finite.

Six theorems have a hypothesis of their own, where the property is false without it or
is about less than the whole model:

| Theorem | Hypothesis | Why |
|---|---|---|
| `DeletedOnlyWhenSettled` | poison items are events | a metric that cannot be marshalled gets an empty record, which a reload deletes as corrupt (`Corrupt`) |
| `OneCopyOnly`, `CrashFindsRecords` | with Redis, the host sends only after Start | otherwise a reload duplicates what is in memory: run `agent_early_send` is the counterexample to both |
| `DeliversWhatItTakes` | no Redis, one process | a reload takes an item a second time and a crash forgets it, neither of which `Delivery` allows; `AtLeastOnce` and `SurvivesCrash` are what holds instead |
| `StopLeavesNothing` | no host `Flush`, no crash | a host flush may give its batch back after the final flush (hazard at `agent.go:335`); a call acknowledged by a process that died is not in the memory of the one that stops |
| `ConfigsAreUsable` | an endpoint names a host and has the version suffix at most once | a host called `api` loses its name and a doubled suffix is cut once, see below |

These are the conditions under which the runs check the properties, or weaker ones.

Only model-checked, and why:

- The liveness properties (`Recovers`, `RulesConverge`, `LoopEnds`, `GateEnds`, `Ends`,
  `StopReturns`, `EventuallySettled`, `BlockedReturns`): what follows from fairness is
  outside the prover's reach, with `ENABLED` in it. Every other property of a passing run
  has its theorem.
- That the mutants break the properties, and the four counterexamples: those are runs.

## Where code and documentation differ

Shown by a run:

- `breaker_permanent`: `fetchDynamicRules` reports permanent rejections to the shared
  breaker, against the comment of `Failure`.
- `agent_stop_unblocks`: a call that waits under `OverflowBlock` never looks at
  `closed`; if Stop's final flush fails and puts a full buffer back, it polls for ever.
- `agent_early_send`: an item sent before Start is reloaded by Start as a second copy
  of itself; at capacity the eviction of the first copy deletes the record the second
  relies on. `agent_crash` therefore sends only after Start.
- `agent_poison`: a metric that cannot be marshalled keeps every metric batched with it
  from being delivered, by Stop as well, although the comment says that marshalling
  cannot fail.

Noticed while modelling, without a run of their own:

- An endpoint whose host is called `api` loses its name: `https://api/v1` becomes
  `https:`, since the suffix `/api/v1` is cut off the text of the URL. A doubled suffix
  is cut once and the rest stays. `UpIsUsable` therefore asks for no more than an endpoint
  that had the suffix once; the paths of `construct` leave these two cases out.
- A NaN `HighWatermarkRatio` or `BackoffFactor` passes `normalize`, since every comparison
  with NaN is false. With the first no buffer is ever past the watermark, so only the
  ticker flushes; the second pauses for a second before every attempt.
- `rulesLoop` counts consecutive failures, but once a document is cached a failed fetch
  returns it without an error, so the count never rises.
- A 200 whose body does not parse counts as sent and as failed.
- `normalize` fills defaults through the pointer `*RedisConfig`, so the host's copy of
  the configuration changes under it.
- `config.go:142-144` says items are redacted twice; an encrypted batch skips the second
  pass, so a record captured under another list is posted sealed but with that list's
  gaps. `SecretsStayHome` says so explicitly.
- A record reloaded by a process with a longer list can lose more than the values the list
  names: hiding them may lengthen a document past `maxJSONScanLen` in the first post, and
  if that post is answered with 413 its parts carry the marker in place of the whole
  document (`redact.go:147`, `transport.go:322-324`). Nothing is disclosed by it;
  `ResendsAlike` states it.
- Processes that start together on an empty identity path keep different identities
  until they restart, and a read error other than "not found" overwrites the file.
  `IdentitySettles` begins when nobody is left who found no identity.
- Processes that share a Redis prefix reload each other's live records.
- The failure rate behind `Healthy` is over the agent's lifetime, and each retry counts.
- `README.md` says a recovering breaker admits one probe; `Admit` lets every caller
  through while half-open.
- `RetryAfter` is documented to be zero when a slot is free; it looks only at the
  oldest call. `limiterGate` asks only after a denial, so nothing depends on it.
- `MaxConcurrentFlushes` is documented as a bound on flush cycles; the ticker loop
  and host calls of `Flush` come on top.
- `OverflowBlock` is documented to let a requeued batch keep its slots; the requeue
  of another batch may evict it.
- `ErrClosed` is documented for calls after Stop; a `SendEvent` that passed
  `guardClosed` before Stop may append after the final flush and return nil.

## What is not modelled, and why

- Validation and defaults of an item's fields and its idempotency key: in `Agent` an
  item is an opaque value. Its redaction is in `Construction`, where buffers and flushes
  are left out: the two share no state but the item.
- Log lines, `lastErrors`, `redisPersistFailures` and the error hook: no property
  and no guard depends on them.
- Duplicate keys returned by SCAN during a reload: Redis returns a key twice only while
  it resizes its table.
- `statusLoop`, `reportStatus` and the snapshots `Stats` and `AgentStats`: they copy
  counters under the lock; `sendStatus` is a mode of `Transport`.
- A rules document with a TTL of zero or less: it would be fetched at every call.
- An HTTP client that the host passes without a timeout: `FreshEnough` measures by
  `HTTPTimeout`, and the fairness of requests rests on it.
- Endpoints with a query or a fragment: an endpoint is a host and the segments of a path.
- Producers that send without end: each item is sent once, so `BlockedReturns` is about
  the competition of the calls there are, not about an endless stream of new ones.
- Byte-level work (AES-GCM, canonical JSON, HMAC, gzip) and wire models: no state to
  explore.
- The length of the backoff: only that a gate closes after a failure and reopens.
- The confirm worker takes a set of keys and deletes them in one step; a crash in
  between is the same as a lost DEL, which is modelled.
- A call that passed `guardClosed` before Stop and appends or flushes after the final
  flush (hazards at `agent.go:292` and `:335`): the model has the behaviour; no document
  promises more than Stop's contract, which `StopDelivers` states for items acknowledged
  before Stop.

## Plan

1. Done: the modules above, their runs and proofs.
2. Done: a theorem for every safety and action property of the passing runs.
3. `statusLoop` with the streak behind `lastErrors`, composed with `Agent` and the breaker.
