----------------------------- MODULE Construction -----------------------------
(***************************************************************************)
(* New in agent.go, and what the configuration it settles on does to an     *)
(* item: processes of one host check their configuration, resolve their    *)
(* identity, set up encryption and Redis, and then capture an item, reload  *)
(* another process's, and send what they hold.  Buffers and flushes are     *)
(* Agent's; here an item is a payload and the form it takes on its way.     *)
(***************************************************************************)
EXTENDS InstallID, Redaction

CONSTANTS
    Scenarios,      \* what the hosts pass: [raw |-> a Config per process, payload |-> ...]
    MaxRestarts,    \* bound: crashes, and calls of New after one that failed
    None            \* no item

ASSUME ScenariosAssumption ==
    \A s \in Scenarios : /\ s.raw \in [Processes -> RawConfigs]
                         /\ s.payload.steps \in Seq(Steps)

VARIABLES
    raw,            \* per process: the Config passed to New
    payload,        \* the value inside the metadata of the item the hosts send
    encryptor,      \* per process: transport.encryptor is set
    held,           \* per process: the item it buffers
    record,         \* the item's record in the Redis they share
    wire,           \* per process: the form in which it last posted the item it holds
    restarts

itemVars == <<encryptor, held, record, wire>>
vars == <<identityVars, itemVars, raw, payload, restarts>>

Item(form, by) == [form |-> form, by |-> by]
Cfg(p) == Normalized(raw[p])

Init ==
    /\ IdentityInit
    /\ \E s \in Scenarios : raw = s.raw /\ payload = s.payload
    /\ encryptor = [p \in Processes |-> FALSE]
    /\ held = [p \in Processes |-> None]
    /\ wire = [p \in Processes |-> None]
    /\ record = None
    /\ restarts = 0

-----------------------------------------------------------------------------
\* New: a configuration with problems goes no further than normalize.

Restart == restarts < MaxRestarts /\ restarts' = restarts + 1

New(p) ==
    /\ \/ place[p] = "down" /\ UNCHANGED restarts
       \/ place[p] = "failed" /\ Restart
    /\ IF Problems(raw[p]) = {}
       THEN Resolve(p, Cfg(p).override, Cfg(p).hasPath)
       ELSE Goto(p, "failed", file) /\ UNCHANGED <<installID, fresh>>
    /\ UNCHANGED <<itemVars, raw, payload>>

Resolving(p) == ResolveStep(p) /\ UNCHANGED <<itemVars, raw, payload, restarts>>

\* New ends: the agent is up, or there is none and the identity file stays as it is.
Ends(p, next) ==
    /\ place[p] = "resolved"
    /\ Goto(p, next, file)
    /\ installID' = [installID EXCEPT ![p] = IF next = "up" THEN @ ELSE 0]
    /\ UNCHANGED <<fresh, held, record, wire, raw, payload, restarts>>

\* newPersistence parses the URL that normalize only parsed as a URL.
RedisOpens(p) == Cfg(p).redis # "wrong scheme"

\* Mutant of KeyFails: an unusable key leaves the agent without an encryptor.
KeyIgnored(p) ==
    Cfg(p).key # "none" /\ Ends(p, "up") /\ UNCHANGED encryptor

\* A key that does not decode, or whose round trip fails, as it may at any time.
KeyFails(p) ==
    Cfg(p).key # "none" /\ Ends(p, "failed") /\ UNCHANGED encryptor

RedisFails(p) ==
    /\ Cfg(p).key # "bad" /\ ~RedisOpens(p)
    /\ Ends(p, "failed") /\ UNCHANGED encryptor

Up(p) ==
    /\ Cfg(p).key # "bad" /\ RedisOpens(p)
    /\ Ends(p, "up")
    /\ encryptor' = [encryptor EXCEPT ![p] = Cfg(p).key = "good"]

-----------------------------------------------------------------------------
\* The item.

Keep(p, item) ==
    /\ held' = [held EXCEPT ![p] = item]
    /\ wire' = [wire EXCEPT ![p] = None]
    /\ UNCHANGED <<identityVars, encryptor, raw, payload, restarts>>

\* Mutant of Capture: the record is written before the item is redacted.
CaptureAfterStore(p) ==
    /\ place[p] = "up" /\ held[p] = None
    /\ Keep(p, Item(Redact(payload, Cfg(p).headers), p))
    /\ record' = IF Cfg(p).redis = "on" THEN Item(payload, p) ELSE record

\* SendEvent, SendMetric: the item is redacted, then stored and buffered.
Capture(p) ==
    /\ place[p] = "up" /\ held[p] = None
    /\ Keep(p, Item(Redact(payload, Cfg(p).headers), p))
    /\ record' = IF Cfg(p).redis = "on" THEN held'[p] ELSE record

\* Start takes the records it finds, whoever wrote them, as they are.
Reload(p) ==
    /\ place[p] = "up" /\ held[p] = None
    /\ Cfg(p).redis = "on" /\ record # None
    /\ Keep(p, record)
    /\ UNCHANGED record

\* marshalBatch redacts the items it is given, in place; canonicalItemsJSON does not.
Marshalled(p, item) ==
    IF encryptor[p] THEN item ELSE [item EXCEPT !.form = Redact(@, Cfg(p).headers)]

Sends(p, item) ==
    /\ wire' = [wire EXCEPT ![p] = [sealed |-> encryptor[p], item |-> Marshalled(p, item)]]
    /\ UNCHANGED <<identityVars, encryptor, held, record, raw, payload, restarts>>

\* A flush posts the batch it drained.  Should the batch be put back, the buffer has the
\* captured form again: what marshalBatch redacts is a copy of the batch's events.
Post(p) == held[p] # None /\ Sends(p, held[p])

\* A plaintext batch that was too large is posted again in parts: slices of the copy
\* that the post before redacted.
Split(p) == wire[p] # None /\ ~encryptor[p] /\ Sends(p, wire[p].item)

Crash(p) ==
    /\ Restart
    /\ place[p] # "down"
    /\ Goto(p, "down", file)
    /\ installID' = [installID EXCEPT ![p] = 0]
    /\ encryptor' = [encryptor EXCEPT ![p] = FALSE]
    /\ held' = [held EXCEPT ![p] = None]
    /\ wire' = [wire EXCEPT ![p] = None]
    /\ UNCHANGED <<fresh, record, raw, payload>>

Next ==
    \E p \in Processes :
        \/ New(p) \/ Resolving(p) \/ KeyFails(p) \/ RedisFails(p) \/ Up(p)
        \/ Capture(p) \/ Reload(p) \/ Post(p) \/ Split(p) \/ Crash(p)

Spec == Init /\ [][Next]_vars

-----------------------------------------------------------------------------
\* What an agent needs of its configuration: the intervals start tickers, which panic
\* otherwise; a queue has room, a send has an attempt, a full buffer is past the
\* watermark (a ratio that is NaN is past nothing), a record expires, the overflow policy
\* is one enqueue knows, header names are in the form the walk compares, and the
\* endpoint is a host to which the API paths are added.
Usable(cfg) ==
    /\ \A f \in {"FlushInterval", "StatusInterval", "DynamicRuleInterval", "Timeout"} :
           cfg.num[f] > 0
    /\ cfg.num.BufferSize > 0 /\ cfg.num.MaxConcurrentFlushes > 0 /\ cfg.num.RetryAttempts >= 0
    /\ cfg.num.HighWatermarkRatio \in 1..100 \union {NaN}
    /\ cfg.redis = "on" => cfg.num.RedisTTL > 0
    /\ cfg.overflow \in Policies
    /\ \A h \in cfg.headers : Lower[h] = h
    /\ cfg.path # <<>> /\ ~IsSuffix(Suffix, TrimRight(cfg.path))

\* An agent that is up can run on what normalize made of its configuration, if the
\* endpoint had the version suffix at most once.
UpIsUsable == \A p \in Processes : place[p] = "up" => Usable(Cfg(p))

\* Nothing of the value is left where a step to it is a sensitive header of p's.
Clean(item, p) ==
    item.form.redacted
      \/ \A n \in DOMAIN item.form.steps : ~IsSensitive(item.form.steps[n], Cfg(p).headers)

\* Wherever the item is, in a buffer, in Redis or on the wire, and whichever process
\* reloaded it, it carries no value its capturer's configuration calls sensitive, and a
\* plaintext post none that the sender's calls so.  (Sealed posts skip the second pass.)
SecretsStayHome ==
    /\ record # None => Clean(record, record.by)
    /\ \A p \in Processes :
           /\ held[p] # None => Clean(held[p], held[p].by)
           /\ wire[p] # None => /\ Clean(wire[p].item, wire[p].item.by)
                                /\ wire[p].sealed \/ Clean(wire[p].item, p)

\* A form of an item in which more of the way to the value is behind the marker.
Shortened(form, of) == form.redacted /\ IsPrefix(form.steps, of.steps) /\ form.hidden = of.hidden

\* A sender whose list has no name that the capturer's lacks posts an item in the same
\* form however often it splits the batch or puts it back.  Under a list with more names
\* documents may grow past the scan limit in the first post, so that parts have a marker
\* where the whole batch had the document; they differ in nothing else.
ResendsAlike ==
    [][\A p \in Processes : wire[p] # None /\ wire'[p] # None =>
          \/ wire'[p] = wire[p]
          \/ LET last == wire[p].item  now == wire'[p].item
             IN  /\ ~(Cfg(p).headers \subseteq Cfg(last.by).headers)
                 /\ now.by = last.by /\ wire'[p].sealed = wire[p].sealed
                 /\ Shortened(now.form, last.form) \/ Shortened(last.form, now.form)]_vars

\* With a key configured no item is posted in plaintext (agent.go:184-187); reports of
\* the agent's status, which hold no items, are.
NoPlaintextFallback ==
    \A p \in Processes : wire[p] # None => (wire[p].sealed <=> raw[p].key # "none")
=============================================================================
