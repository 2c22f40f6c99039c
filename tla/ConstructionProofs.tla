-------------------------- MODULE ConstructionProofs --------------------------
(***************************************************************************)
(* TLAPS proofs about Construction, for every set of processes, every       *)
(* configuration and payload, every list of headers and every depth limit:  *)
(* a key in the configuration keeps plaintext off the wire, a sensitive     *)
(* value is nowhere after its capture, an identity that is settled stays,   *)
(* an agent that is up can run on its configuration, and posts of an item   *)
(* differ only where a reload under a longer list makes documents too long. *)
(***************************************************************************)
EXTENDS Construction, SequenceTheorems, WellFoundedInduction, TLAPS

Places == {"down", "read", "mkdir", "truncate", "write", "resolved", "failed", "up"}

\* An encryptor goes with a key while an agent is up, and only then does it hold an item.
KeyInv ==
  /\ raw \in [Processes -> RawConfigs]
  /\ place \in [Processes -> Places]
  /\ encryptor \in [Processes -> BOOLEAN]
  /\ held = [p \in Processes |-> held[p]]
  /\ wire = [p \in Processes |-> wire[p]]
  /\ \A p \in Processes :
       /\ place[p] = "up" => (encryptor[p] <=> raw[p].key # "none")
       /\ held[p] # None \/ wire[p] # None => place[p] = "up"
       /\ wire[p] # None => (wire[p].sealed <=> raw[p].key # "none")

\* normalize does not touch the key.
LEMMA KeyStays ==
  ASSUME NEW p \in Processes, raw[p] \in RawConfigs
  PROVE  Cfg(p).key = raw[p].key
BY DEF Cfg, Normalized, RawConfigs

LEMMA KeyInvInit == Init => KeyInv
BY ScenariosAssumption DEF Init, IdentityInit, KeyInv, Places

LEMMA KeyInvNext == KeyInv /\ [Next]_vars => KeyInv'
<1> SUFFICES ASSUME KeyInv, [Next]_vars PROVE KeyInv'
  OBVIOUS
<1> USE DEF KeyInv, Places, identityVars, itemVars
<1>1. CASE UNCHANGED vars
  BY <1>1 DEF vars
<1>2. ASSUME NEW p \in Processes, New(p) PROVE KeyInv'
  BY <1>2 DEF New, Resolve, Goto
<1>3. ASSUME NEW p \in Processes, Resolving(p) PROVE KeyInv'
  BY <1>3 DEF Resolving, ResolveStep, Read, ReadFails, MkdirAll, Truncate, Write, Goto
<1>4. ASSUME NEW p \in Processes, KeyFails(p) PROVE KeyInv'
  BY <1>4 DEF KeyFails, Ends, Goto
<1>5. ASSUME NEW p \in Processes, RedisFails(p) PROVE KeyInv'
  BY <1>5 DEF RedisFails, Ends, Goto
<1>6. ASSUME NEW p \in Processes, Up(p) PROVE KeyInv'
  <2>1. Cfg(p).key = raw[p].key /\ raw[p].key \in {"none", "good", "bad"}
    BY KeyStays DEF RawConfigs
  <2> QED
    BY <1>6, <2>1 DEF Up, Ends, Goto
<1>7. ASSUME NEW p \in Processes, Capture(p) PROVE KeyInv'
  BY <1>7 DEF Capture, Keep
<1>8. ASSUME NEW p \in Processes, Reload(p) PROVE KeyInv'
  BY <1>8 DEF Reload, Keep
<1>9. ASSUME NEW p \in Processes, Post(p) \/ Split(p) PROVE KeyInv'
  BY <1>9 DEF Post, Split, Sends
<1>10. ASSUME NEW p \in Processes, Crash(p) PROVE KeyInv'
  BY <1>10 DEF Crash, Goto
<1> QED
  BY <1>1, <1>2, <1>3, <1>4, <1>5, <1>6, <1>7, <1>8, <1>9, <1>10 DEF Next

\* For every instance: with a project key configured, whatever fails or crashes while
\* agents start, no batch of items leaves a process in plaintext (New, sendEvents,
\* sendMetrics).
THEOREM NeverPlaintext == Spec => []NoPlaintextFallback
<1>1. KeyInv => NoPlaintextFallback
  BY DEF KeyInv, NoPlaintextFallback
<1> QED
  BY KeyInvInit, KeyInvNext, <1>1, PTL DEF Spec

-----------------------------------------------------------------------------
\* A form without the value, or one whose steps are a sequence and harmless under headers.
Typed(form) == form.redacted = TRUE \/ \E S : form.steps \in Seq(S)
Innocent(form, headers) ==
  \/ form.redacted = TRUE
  \/ \A n \in DOMAIN form.steps : ~IsSensitive(form.steps[n], headers)
Harmless(item) == Typed(item.form) /\ Innocent(item.form, Cfg(item.by).headers)

SecretInv ==
  /\ raw \in [Processes -> RawConfigs]
  /\ held = [p \in Processes |-> held[p]]
  /\ wire = [p \in Processes |-> wire[p]]
  /\ Typed(payload)
  /\ record # None => Harmless(record)
  /\ \A p \in Processes :
       /\ held[p] # None => Harmless(held[p])
       /\ wire[p] # None =>
            /\ Harmless(wire[p].item)
            /\ wire[p].sealed \/ Innocent(wire[p].item.form, Cfg(p).headers)

\* A walk that finds nothing to cut leaves the steps as they are, but for the lengths
\* of documents; any other leaves the marker.
LEMMA RedactCases ==
  ASSUME NEW form, NEW headers
  PROVE  \/ Redact(form, headers).redacted = TRUE
         \/ /\ Cuts(form.steps, headers) = {}
            /\ Redact(form, headers).steps
                 = [n \in DOMAIN form.steps |-> Encoded(form.steps[n], form.hidden \union headers)]
BY DEF Redact, Payload

\* A marker stays a marker.
LEMMA RedactedStays ==
  ASSUME NEW form, NEW headers, form.redacted = TRUE
  PROVE  Redact(form, headers).redacted = TRUE
BY DEF Redact, Payload

\* Encoding a document again makes no key of it.
LEMMA EncodedKind ==
  ASSUME NEW step, NEW hidden, NEW headers, IsSensitive(Encoded(step, hidden), headers)
  PROVE  IsSensitive(step, headers)
BY DEF Encoded, Document, Step, IsSensitive

\* SanitizeHeaders leaves nothing sensitive under its own list.
LEMMA RedactCleans ==
  ASSUME NEW form, NEW headers, Typed(form)
  PROVE  Typed(Redact(form, headers)) /\ Innocent(Redact(form, headers), headers)
<1> DEFINE done == Redact(form, headers)
           again(step) == Encoded(step, form.hidden \union headers)
<1>1. CASE done.redacted = TRUE
  BY <1>1 DEF Typed, Innocent
<1>2. CASE done.redacted # TRUE
  <2>1. /\ Cuts(form.steps, headers) = {}
        /\ done.steps = [n \in DOMAIN form.steps |-> again(form.steps[n])]
    BY <1>2, RedactCases
  <2>2. PICK S : form.steps \in Seq(S)
    BY <1>2, RedactedStays DEF Typed
  <2>3. DOMAIN form.steps = 1..Len(form.steps) /\ Len(form.steps) \in Nat
    BY <2>2, LenProperties
  <2>4. done.steps \in Seq({again(form.steps[n]) : n \in DOMAIN form.steps})
    BY <2>1, <2>3
  <2>5. \A n \in DOMAIN form.steps : ~IsSensitive(form.steps[n], headers)
    BY <2>1, <2>3 DEF Cuts
  <2>6. \A n \in DOMAIN done.steps : ~IsSensitive(done.steps[n], headers)
    BY <2>1, <2>5, EncodedKind
  <2> QED
    BY <2>4, <2>6 DEF Typed, Innocent
<1> QED
  BY <1>1, <1>2

\* Nor does it bring back what another list took away.
LEMMA RedactKeeps ==
  ASSUME NEW form, NEW headers, NEW other, Typed(form), Innocent(form, other)
  PROVE  Innocent(Redact(form, headers), other)
<1> DEFINE done == Redact(form, headers)
<1>1. CASE done.redacted = TRUE
  BY <1>1 DEF Innocent
<1>2. CASE done.redacted # TRUE
  <2>1. done.steps = [n \in DOMAIN form.steps |-> Encoded(form.steps[n], form.hidden \union headers)]
    BY <1>2, RedactCases
  <2>2. form.redacted # TRUE
    BY <1>2, RedactedStays
  <2>3. \A n \in DOMAIN form.steps : ~IsSensitive(form.steps[n], other)
    BY <2>2 DEF Innocent
  <2>4. \A n \in DOMAIN done.steps : ~IsSensitive(done.steps[n], other)
    BY <2>1, <2>3, EncodedKind
  <2> QED
    BY <2>4 DEF Innocent
<1> QED
  BY <1>1, <1>2

LEMMA SecretInvInit == Init => SecretInv
BY ScenariosAssumption DEF Init, SecretInv, Typed

\* What a post carries.
LEMMA MarshalledHarmless ==
  ASSUME NEW p \in Processes, NEW item, Harmless(item)
  PROVE  /\ Harmless(Marshalled(p, item))
         /\ encryptor[p] \/ Innocent(Marshalled(p, item).form, Cfg(p).headers)
<1>1. CASE encryptor[p]
  BY <1>1 DEF Marshalled
<1>2. CASE ~encryptor[p]
  <2> DEFINE done == Redact(item.form, Cfg(p).headers)
  <2>1. Typed(done) /\ Innocent(done, Cfg(p).headers) /\ Innocent(done, Cfg(item.by).headers)
    BY RedactCleans, RedactKeeps DEF Harmless
  <2>2. Marshalled(p, item).form = done /\ Marshalled(p, item).by = item.by
    BY <1>2 DEF Marshalled
  <2> QED
    BY <2>1, <2>2 DEF Harmless
<1> QED
  BY <1>1, <1>2

LEMMA SecretInvNext == SecretInv /\ [Next]_vars => SecretInv'
<1> SUFFICES ASSUME SecretInv, [Next]_vars PROVE SecretInv'
  OBVIOUS
<1>a. raw' = raw /\ payload' = payload
  BY DEF vars, Next, New, Resolving, KeyFails, RedisFails, Up, Ends, Capture, Reload, Keep, Post, Split, Sends, Crash
<1>b. \A p : Cfg(p)' = Cfg(p)
  BY <1>a DEF Cfg, Normalized
<1>c. ASSUME UNCHANGED <<held, record, wire>> PROVE SecretInv'
  BY <1>a, <1>b, <1>c DEF SecretInv, Harmless
<1>1. CASE UNCHANGED vars
  BY <1>1, <1>c DEF vars, itemVars
<1>2. ASSUME NEW p \in Processes,
             New(p) \/ Resolving(p) \/ KeyFails(p) \/ RedisFails(p) \/ Up(p)
      PROVE  SecretInv'
  BY <1>2, <1>c DEF New, Resolving, KeyFails, RedisFails, Up, Ends, itemVars
<1>3. ASSUME NEW p \in Processes, Capture(p) PROVE SecretInv'
  <2> DEFINE item == Item(Redact(payload, Cfg(p).headers), p)
  <2>1. Harmless(item)
    BY RedactCleans DEF SecretInv, Harmless, Item
  <2>2. Harmless(item)'
    BY <1>a, <1>b, <2>1 DEF Harmless, Item
  <2>3. /\ held' = [held EXCEPT ![p] = item]
        /\ wire' = [wire EXCEPT ![p] = None]
        /\ record' \in {item, record}
    BY <1>3 DEF Capture, Keep, SecretInv
  <2> QED
    BY <1>a, <1>b, <2>1, <2>3 DEF SecretInv, Harmless
<1>4. ASSUME NEW p \in Processes, Reload(p) PROVE SecretInv'
  BY <1>a, <1>b, <1>4 DEF Reload, Keep, SecretInv, Harmless
<1>5. ASSUME NEW p \in Processes, Post(p) \/ Split(p) PROVE SecretInv'
  <2>1. PICK item : Harmless(item) /\ Sends(p, item)
    BY <1>5 DEF Post, Split, SecretInv
  <2>2. PICK posted : posted = Marshalled(p, item)
    OBVIOUS
  <2>3. Harmless(posted) /\ (encryptor[p] \/ Innocent(posted.form, Cfg(p).headers))
    BY <2>1, <2>2, MarshalledHarmless
  <2>4. /\ wire' = [wire EXCEPT ![p] = [sealed |-> encryptor[p], item |-> posted]]
        /\ UNCHANGED <<held, record>>
    BY <2>1, <2>2 DEF Sends
  <2> QED
    BY <1>a, <1>b, <2>3, <2>4 DEF SecretInv, Harmless
<1>6. ASSUME NEW p \in Processes, Crash(p) PROVE SecretInv'
  BY <1>a, <1>b, <1>6 DEF Crash, SecretInv, Harmless
<1> QED
  BY <1>1, <1>2, <1>3, <1>4, <1>5, <1>6 DEF Next

\* For every instance: in the buffers, in Redis and on the wire there is no value that
\* its capturer's configuration calls sensitive, nor in a plaintext post one that the
\* sender's does, whatever is reloaded, resent or put back (SendEvent, marshalBatch).
THEOREM NothingSensitiveLeaves == Spec => []SecretsStayHome
<1>1. SecretInv => SecretsStayHome
  BY DEF SecretInv, SecretsStayHome, Harmless, Innocent, Clean
<1> QED
  BY SecretInvInit, SecretInvNext, <1>1, PTL DEF Spec

-----------------------------------------------------------------------------
\* While the identity is settled nobody is about to write; a process has no identity
\* before it has looked for one; only processes that look in the file are heirs.
Reads(p) == ~Cfg(p).override /\ Cfg(p).hasPath

IdentityInv ==
  /\ raw \in [Processes -> RawConfigs]
  /\ place \in [Processes -> Places]
  /\ installID = [p \in Processes |-> installID[p]]
  /\ settled # 0 =>
       /\ file = settled /\ file \notin {Absent, Empty}
       /\ \A p \in Processes : place[p] \notin Writing
  /\ heir \subseteq {p \in Processes : Reads(p)}
  /\ settled = 0 => heir = {}
  /\ \A p \in Processes : place[p] \in {"down", "failed", "read"} => installID[p] = 0
  /\ \A p \in heir : installID[p] \in {0, settled}

LEMMA IdentityInvInit == Init => IdentityInv
BY ScenariosAssumption DEF Init, IdentityInit, IdentityInv, Places

\* The configuration does not change, so neither does where p looks.
LEMMA ReadsStays ==
  ASSUME NEW p, raw' = raw
  PROVE  Reads(p)' = Reads(p)
BY DEF Reads, Cfg, Normalized

\* What Goto does to the histories, when p's own identity is the settled one or none.
LEMMA GotoKeeps ==
  ASSUME IdentityInv, NEW p \in Processes, NEW next \in Places, NEW f,
         Goto(p, next, f), raw' = raw,
         installID' = [installID EXCEPT ![p] = installID'[p]],
         next \in {"down", "failed", "read"} => installID'[p] = 0,
         next = "read" => Reads(p),
         settled # 0 /\ next \notin Writing => f = file,
         p \in heir /\ next \notin Writing => installID'[p] \in {0, settled}
  PROVE  IdentityInv'
<1>1. place' = [place EXCEPT ![p] = next] /\ file' = f
  BY DEF Goto
<1>2. \A q : Reads(q)' = Reads(q)
  BY ReadsStays
<1>3. settled' # 0 =>
        /\ f \notin {Absent, Empty} /\ \A q \in Processes : place'[q] \notin Writing
        /\ settled' = IF settled = 0 THEN f ELSE settled
  BY DEF Goto
<1>4. settled' # 0 => next \notin Writing
  BY <1>1, <1>3 DEF IdentityInv
<1>5. settled' # 0 => file' = settled'
  BY <1>1, <1>3, <1>4 DEF IdentityInv
<1>6. settled' # 0 => heir' = IF next = "read" THEN heir \union {p} ELSE heir
  BY DEF Goto
<1>7. settled' = 0 => heir' = {}
  BY DEF Goto
<1>8. heir' \subseteq {q \in Processes : Reads(q)}
  BY <1>6, <1>7 DEF IdentityInv
<1>9. \A q \in heir' : installID'[q] \in {0, settled'}
  <2> SUFFICES ASSUME NEW q \in heir' PROVE installID'[q] \in {0, settled'}
    OBVIOUS
  <2>1. settled' # 0
    BY <1>7
  <2>2. q \in heir => settled # 0 /\ settled' = settled
    BY <2>1, <1>3 DEF IdentityInv
  <2>3. CASE q = p
    BY <2>1, <2>2, <2>3, <1>4, <1>6
  <2>4. CASE q # p
    BY <2>1, <2>2, <2>4, <1>6, <1>8 DEF IdentityInv
  <2> QED
    BY <2>3, <2>4
<1>10. \A q \in Processes :
         place'[q] \in {"down", "failed", "read"} => installID'[q] = 0
  BY <1>1 DEF IdentityInv
<1>11. place' \in [Processes -> Places] /\ raw' \in [Processes -> RawConfigs]
  BY <1>1 DEF IdentityInv
<1>12. installID' = [q \in Processes |-> installID'[q]]
  BY DEF IdentityInv
<1> QED
  BY <1>1, <1>2, <1>3, <1>5, <1>7, <1>8, <1>9, <1>10, <1>11, <1>12 DEF IdentityInv

LEMMA IdentityInvNext == IdentityInv /\ [Next]_vars => IdentityInv'
<1> SUFFICES ASSUME IdentityInv, [Next]_vars PROVE IdentityInv'
  OBVIOUS
<1>a. raw' = raw
  BY DEF vars, Next, New, Resolving, KeyFails, RedisFails, Up, Ends, Capture, Reload, Keep, Post, Split, Sends, Crash
<1>b. \A p : Reads(p)' = Reads(p)
  BY <1>a, ReadsStays
<1>c. ASSUME UNCHANGED identityVars PROVE IdentityInv'
  BY <1>a, <1>b, <1>c DEF IdentityInv, identityVars
<1>1. CASE UNCHANGED vars
  BY <1>1, <1>c DEF vars
<1>2. ASSUME NEW p \in Processes, New(p) PROVE IdentityInv'
  <2>1. installID[p] = 0
    BY <1>2 DEF New, IdentityInv
  <2>2. CASE Goto(p, "failed", file) /\ UNCHANGED installID
    BY <1>a, <2>1, <2>2, GotoKeeps DEF IdentityInv, Places
  <2>3. CASE Cfg(p).override /\ Goto(p, "resolved", file) /\ UNCHANGED installID
    BY <1>a, <2>1, <2>3, GotoKeeps DEF IdentityInv, Places
  <2>4. CASE ~Cfg(p).override /\ ~Cfg(p).hasPath /\ NewUUID(p) /\ Goto(p, "resolved", file)
    <3>1. p \notin heir
      BY <2>4 DEF IdentityInv, Reads
    <3>2. installID' = [installID EXCEPT ![p] = installID'[p]]
      BY <2>4 DEF NewUUID, IdentityInv
    <3> QED
      BY <1>a, <2>4, <3>1, <3>2, GotoKeeps DEF Places
  <2>5. CASE Reads(p) /\ Goto(p, "read", file) /\ UNCHANGED installID
    BY <1>a, <2>1, <2>5, GotoKeeps DEF IdentityInv, Places
  <2> QED
    BY <1>2, <2>2, <2>3, <2>4, <2>5 DEF New, Resolve, Reads
<1>3. ASSUME NEW p \in Processes, Read(p) \/ ReadFails(p) PROVE IdentityInv'
  <2>1. CASE NewUUID(p) /\ Goto(p, "mkdir", file)
    <3>1. installID' = [installID EXCEPT ![p] = installID'[p]]
      BY <2>1 DEF NewUUID, IdentityInv
    <3> QED
      BY <1>a, <2>1, <3>1, GotoKeeps DEF Places, Writing
  <2>2. CASE installID' = [installID EXCEPT ![p] = file] /\ Goto(p, "resolved", file)
    <3>1. p \in heir => file = settled
      BY DEF IdentityInv
    <3>2. installID'[p] = file
      BY <2>2 DEF IdentityInv
    <3> QED
      BY <1>a, <2>2, <3>1, <3>2, GotoKeeps DEF Places, Writing
  <2> QED
    BY <1>3, <2>1, <2>2 DEF Read, ReadFails
<1>4. ASSUME NEW p \in Processes, MkdirAll(p) \/ Truncate(p) \/ Write(p) PROVE IdentityInv'
  <2>1. settled = 0 /\ p \notin heir
    BY <1>4 DEF MkdirAll, Truncate, Write, Writing, IdentityInv
  <2>2. UNCHANGED installID
    BY <1>4 DEF MkdirAll, Truncate, Write
  <2>3. PICK next \in {"truncate", "write", "resolved"} : \E f : Goto(p, next, f)
    BY <1>4 DEF MkdirAll, Truncate, Write
  <2>4. next \in Places /\ next \notin {"down", "failed", "read"}
    BY <2>3 DEF Places
  <2>5. installID' = [installID EXCEPT ![p] = installID'[p]]
    BY <2>2 DEF IdentityInv
  <2> QED
    BY <1>a, <2>1, <2>3, <2>4, <2>5, GotoKeeps
<1>5. ASSUME NEW p \in Processes, KeyFails(p) \/ RedisFails(p) \/ Up(p) PROVE IdentityInv'
  <2>1. PICK next \in {"failed", "up"} : Ends(p, next)
    BY <1>5 DEF KeyFails, RedisFails, Up
  <2>2. installID' = [installID EXCEPT ![p] = IF next = "up" THEN installID[p] ELSE 0]
    BY <2>1 DEF Ends
  <2>3. installID'[p] = IF next = "up" THEN installID[p] ELSE 0
    BY <2>2 DEF IdentityInv
  <2>4. Goto(p, next, file)
    BY <2>1 DEF Ends
  <2>5. next \in Places /\ next \notin {"down", "read"}
    BY <2>1 DEF Places
  <2>6. installID' = [installID EXCEPT ![p] = installID'[p]]
    BY <2>2, <2>3
  <2>7. p \in heir => installID'[p] \in {0, settled}
    BY <2>3 DEF IdentityInv
  <2>8. next = "failed" => installID'[p] = 0
    BY <2>3
  <2> QED
    BY <1>a, <2>4, <2>5, <2>6, <2>7, <2>8, GotoKeeps
<1>6. ASSUME NEW p \in Processes, Crash(p) PROVE IdentityInv'
  <2>1. Goto(p, "down", file) /\ installID' = [installID EXCEPT ![p] = 0]
    BY <1>6 DEF Crash
  <2>2. installID'[p] = 0
    BY <2>1 DEF IdentityInv
  <2> QED
    BY <1>a, <2>1, <2>2, GotoKeeps DEF Places
<1>7. ASSUME NEW p \in Processes, Capture(p) \/ Reload(p) \/ Post(p) \/ Split(p)
      PROVE  IdentityInv'
  BY <1>7, <1>c DEF Capture, Reload, Keep, Post, Split, Sends
<1> QED
  BY <1>1, <1>2, <1>3, <1>4, <1>5, <1>6, <1>7 DEF Next, Resolving, ResolveStep

\* For every instance: once the file holds an identity and nobody who found none there
\* is left, restarts and failed file operations do not change what agents that begin
\* to resolve report, until a reader finds the file unreadable (resolveInstallID).
THEOREM IdentityIsStable == Spec => []IdentitySettles
<1>1. IdentityInv => IdentitySettles
  BY DEF IdentityInv, IdentitySettles
<1> QED
  BY IdentityInvInit, IdentityInvNext, <1>1, PTL DEF Spec
-----------------------------------------------------------------------------
\* The least and the greatest of a set of numbers, which Min and Max choose.
LEMMA MinProperties ==
  ASSUME NEW S \in SUBSET Nat, S # {}
  PROVE  Min(S) \in S /\ \A n \in S : Min(S) <= n
<1> DEFINE Before == {pair \in Nat \X Nat : pair[1] < pair[2]}
<1>1. IsWellFoundedOn(Before, Nat)
  BY NatLessThanWellFounded, Zenon DEF OpToRel
<1>2. PICK x \in S : \A y \in S : <<y, x>> \notin Before
  <2> HIDE DEF Before
  <2> QED
    BY <1>1, WFMin, Zenon
<1>3. ASSUME NEW y \in S, y < x PROVE FALSE
  <2>1. <<y, x>> \in Before
    BY <1>3
  <2> QED
    BY <1>2, <2>1
<1>4. \A y \in S : x <= y
  BY <1>3
<1> QED
  BY <1>2, <1>4 DEF Min

LEMMA MaxProperties ==
  ASSUME NEW L \in Nat, NEW S \in SUBSET (0..L), S # {}
  PROVE  Max(S) \in S /\ \A n \in S : n <= Max(S)
<1> DEFINE T == {L - n : n \in S}
<1>0. \A n \in S : n \in 0..L /\ L - n \in Nat /\ L - n \in T
  OBVIOUS
<1>1. T \in SUBSET Nat /\ T # {}
  BY <1>0
<1>2. PICK t \in T : \A u \in T : t <= u
  <2> HIDE DEF T
  <2> QED
    BY <1>1, MinProperties
<1>3. PICK m \in S : t = L - m
  OBVIOUS
<1>4. \A n \in S : n <= m
  <2> HIDE DEF T
  <2> QED
    BY <1>0, <1>2, <1>3
<1> QED
  BY <1>3, <1>4 DEF Max

\* TrimRight takes the empty segments off the end, and only them.
LEMMA TrimRightProperties ==
  ASSUME NEW S, NEW path \in Seq(S)
  PROVE  \E n \in Nat :
           /\ n <= Len(path)
           /\ TrimRight(path) = SubSeq(path, 1, n)
           /\ TrimRight(path) \in Seq(S) /\ Len(TrimRight(path)) = n
           /\ \A i \in 1..n : TrimRight(path)[i] = path[i]
           /\ n # 0 => path[n] # Blank
           /\ \A i \in 1..Len(path) : path[i] # Blank => i <= n
<1> DEFINE named == {0} \union {n \in DOMAIN path : path[n] # Blank}
           n == Max(named)
<1>1. Len(path) \in Nat /\ DOMAIN path = 1..Len(path) /\ \A i \in 1..Len(path) : path[i] \in S
  OBVIOUS
<1>2. named \in SUBSET (0..Len(path)) /\ 0 \in named
  <2>1. 0 \in 0..Len(path) /\ 1..Len(path) \subseteq 0..Len(path)
    BY <1>1
  <2> QED
    BY <1>1, <2>1
<1>3. n \in named /\ \A i \in named : i <= n
  <2> HIDE DEF named
  <2> QED
    BY <1>1, <1>2, MaxProperties
<1>4. n \in Nat /\ n <= Len(path) /\ (n # 0 => path[n] # Blank) /\ \A i \in 1..Len(path) : path[i] # Blank => i <= n
  <2>1. n \in Nat /\ n <= Len(path)
    <3>1. n \in 0..Len(path)
      BY <1>2, <1>3
    <3> HIDE DEF n
    <3> QED
      BY <1>1, <3>1
  <2>2. n # 0 => path[n] # Blank
    <3> HIDE DEF n
    <3> QED
      BY <1>3
  <2>3. \A i \in 1..Len(path) : path[i] # Blank => i <= n
    <3> HIDE DEF n
    <3> QED
      BY <1>1, <1>3
  <2> QED
    BY <2>1, <2>2, <2>3
<1>5. TrimRight(path) = SubSeq(path, 1, n)
  BY DEF TrimRight
<1> HIDE DEF n
<1>6. /\ SubSeq(path, 1, n) \in Seq(S) /\ Len(SubSeq(path, 1, n)) = n
      /\ \A i \in 1..n : SubSeq(path, 1, n)[i] = path[i]
  <2>1. /\ n \in Int /\ 1 \in Int /\ (1 <= n => n - 1 + 1 = n) /\ (~(1 <= n) => n = 0)
        /\ \A i \in 1..n : 1 + i - 1 = i /\ n - 1 + 1 = n
        /\ \A i \in 1..n : path[i] \in S
    BY <1>1, <1>4
  <2>2. /\ SubSeq(path, 1, n) \in Seq(S)
        /\ Len(SubSeq(path, 1, n)) = IF 1 <= n THEN n - 1 + 1 ELSE 0
        /\ \A i \in 1..(n - 1 + 1) : SubSeq(path, 1, n)[i] = path[1 + i - 1]
    BY <2>1, SubSeqProperties
  <2> QED
    BY <2>1, <2>2
<1> QED
  BY <1>4, <1>5, <1>6

\* What has been trimmed stays as it is.
LEMMA TrimRightTwice ==
  ASSUME NEW S, NEW path \in Seq(S)
  PROVE  TrimRight(TrimRight(path)) = TrimRight(path)
<1>1. PICK t : t = TrimRight(path)
  OBVIOUS
<1>2. PICK n \in Nat :
        /\ n <= Len(path) /\ t \in Seq(S) /\ Len(t) = n /\ \A i \in 1..n : t[i] = path[i]
        /\ n # 0 => path[n] # Blank
  BY <1>1, TrimRightProperties
<1>3. PICK m \in Nat :
        /\ m <= Len(t) /\ TrimRight(t) = SubSeq(t, 1, m)
        /\ \A i \in 1..Len(t) : t[i] # Blank => i <= m
  BY <1>2, TrimRightProperties
<1>4. m = n
  <2>1. Len(path) \in Nat /\ n \in Nat /\ m \in Nat /\ m <= n
    BY <1>2, <1>3
  <2>2. n # 0 => n \in 1..n /\ n \in 1..Len(t) /\ t[n] # Blank
    BY <1>2, <2>1
  <2> QED
    BY <1>3, <2>1, <2>2
<1>5. SubSeq(t, 1, n) = t
  BY <1>2, SubSeqFull
<1> QED
  BY <1>1, <1>3, <1>4, <1>5

\* A path that ends in the suffix has it in its last two segments.
LEMMA SuffixIsLast ==
  ASSUME NEW S, NEW path \in Seq(S), IsSuffix(Suffix, path)
  PROVE  /\ Len(path) >= 2
         /\ path[Len(path) - 1] = "api" /\ path[Len(path)] = "v1"
<1>1. /\ Len(path) \in Nat /\ Len(Suffix) = 2
      /\ Suffix[1] = "api" /\ Suffix[2] = "v1"
  BY DEF Suffix
<1> DEFINE a == Reverse(Suffix)
           b == Reverse(path)
<1>2. /\ a = [i \in 1..2 |-> Suffix[(2 - i) + 1]]
      /\ b = [i \in 1..Len(path) |-> path[(Len(path) - i) + 1]]
  BY <1>1 DEF Reverse
<1>3. a \in Seq({"api", "v1"}) /\ Len(a) = 2 /\ a[1] = "v1" /\ a[2] = "api"
  <2>1. a[1] = "v1" /\ a[2] = "api"
    BY <1>1, <1>2
  <2>2. a = [i \in 1..2 |-> a[i]] /\ \A i \in 1..2 : a[i] \in {"api", "v1"}
    BY <1>1, <1>2
  <2> HIDE DEF a
  <2> QED
    BY <2>1, <2>2
<1>4. b \in Seq(S) /\ Len(b) = Len(path)
  BY <1>1, <1>2
<1>5. 2 <= Len(b) /\ SubSeq(a, 1, 2) = SubSeq(b, 1, 2)
  BY <1>3 DEF IsSuffix, IsPrefix
<1> HIDE DEF a
<1>6. b[1] = path[Len(path)] /\ b[2] = path[Len(path) - 1]
  BY <1>1, <1>2, <1>4, <1>5
<1> HIDE DEF b
<1>7. SubSeq(a, 1, 2)[1] = a[1] /\ SubSeq(a, 1, 2)[2] = a[2]
  BY <1>3
<1>8. SubSeq(b, 1, 2)[1] = b[1] /\ SubSeq(b, 1, 2)[2] = b[2]
  BY <1>4, <1>5
<1> QED
  BY <1>3, <1>4, <1>5, <1>6, <1>7, <1>8

\* A path with a host, and with the version suffix at most once.
OneSuffix(path) ==
  /\ path # <<>> /\ path[1] \notin {Blank, "api"}
  /\ \A m, n \in DOMAIN path : path[m] = "v1" /\ path[n] = "v1" => m = n

LEMMA EndpointIsHost ==
  ASSUME NEW S, NEW path \in Seq(S), OneSuffix(path)
  PROVE  /\ NormalizeEndpoint(path) # <<>>
         /\ ~IsSuffix(Suffix, TrimRight(NormalizeEndpoint(path)))
<1>1. PICK t : t = TrimRight(path)
  OBVIOUS
<1>2. PICK n \in Nat :
        /\ n <= Len(path) /\ t \in Seq(S) /\ Len(t) = n /\ \A i \in 1..n : t[i] = path[i]
        /\ \A i \in 1..Len(path) : path[i] # Blank => i <= n
  BY <1>1, TrimRightProperties
<1>a. Len(path) \in Nat /\ 1 \in 1..Len(path) /\ path[1] \notin {Blank, "api"}
  BY DEF OneSuffix
<1>3. n >= 1 /\ t[1] = path[1]
  BY <1>2, <1>a
<1>4. CASE ~IsSuffix(Suffix, t)
  <2>1. NormalizeEndpoint(path) = t
    BY <1>1, <1>4 DEF NormalizeEndpoint
  <2> QED
    BY <1>1, <1>2, <1>3, <1>4, <1>a, <2>1, TrimRightTwice
<1>5. CASE IsSuffix(Suffix, t)
  <2>1. n >= 2 /\ t[n - 1] = "api" /\ t[n] = "v1"
    BY <1>2, <1>5, SuffixIsLast
  <2>2. n > 2
    BY <1>3, <1>a, <2>1
  <2>3. PICK u : u = SubSeq(t, 1, n - 2)
    OBVIOUS
  <2>4. u \in Seq(S) /\ Len(u) = n - 2 /\ \A i \in 1..(n - 2) : u[i] = path[i]
    BY <1>2, <2>2, <2>3
  <2>5. PICK v : v = TrimRight(u)
    OBVIOUS
  <2>6. PICK m \in Nat :
          /\ m <= Len(u) /\ v \in Seq(S) /\ Len(v) = m /\ \A i \in 1..m : v[i] = u[i]
          /\ \A i \in 1..Len(u) : u[i] # Blank => i <= m
    BY <2>4, <2>5, TrimRightProperties
  <2>7. m >= 1
    BY <1>a, <2>2, <2>4, <2>6
  <2>8. NormalizeEndpoint(path) = v /\ TrimRight(v) = v
    <3>1. Len(Suffix) = 2
      BY DEF Suffix
    <3> QED
      BY <1>1, <1>2, <1>5, <2>3, <2>4, <2>5, <3>1, TrimRightTwice DEF NormalizeEndpoint
  <2>9. ASSUME IsSuffix(Suffix, v) PROVE FALSE
    <3>1. v[m] = "v1"
      BY <2>6, <2>9, SuffixIsLast
    <3>2. path[m] = "v1" /\ path[n] = "v1" /\ m \in 1..Len(path) /\ n \in 1..Len(path) /\ m # n
      <4>1. Len(path) \in Nat /\ m <= n - 2 /\ m \in 1..(n - 2) /\ m \in 1..m /\ n \in 1..n
        BY <1>2, <2>2, <2>4, <2>6, <2>7
      <4>2. v[m] = u[m] /\ u[m] = path[m] /\ t[n] = path[n]
        BY <1>2, <2>4, <2>6, <4>1
      <4> QED
        BY <1>2, <2>1, <3>1, <4>1, <4>2
    <3> QED
      BY <3>2 DEF OneSuffix
  <2> QED
    BY <2>6, <2>7, <2>8, <2>9
<1> QED
  BY <1>4, <1>5
\* A number within its range has what Usable asks of it; only a float can be no number.
LEMMA InRange ==
  ASSUME NEW f \in DOMAIN Fields, NEW v \in Int \union {NaN}, ~OutOfRange(f, v),
         v = NaN => f \in Floats
  PROVE  \/ /\ Filled(f, v) \in Int
            /\ Fields[f].least <= Filled(f, v) /\ Filled(f, v) <= Fields[f].most
         \/ Filled(f, v) = NaN /\ f \in Floats
<1>1. Fields[f].zero \in Int /\ Fields[f].least \in Int /\ Fields[f].most \in Int
  BY DEF Fields, Field, Unlimited
<1>2. NaN \notin Int
  BY ConfigAssumption
<1>3. CASE v = NaN
  BY <1>2, <1>3 DEF Filled
<1>4. CASE v \in Int
  <2>1. Filled(f, v) \in Int
    BY <1>1, <1>4 DEF Filled
  <2>2. Fields[f].least <= Filled(f, v) /\ Filled(f, v) <= Fields[f].most
    BY <1>1, <1>2, <2>1 DEF OutOfRange, Less
  <2> QED
    BY <2>1, <2>2
<1> QED
  BY <1>3, <1>4

\* The numbers of a configuration without problems.
LEMMA NumbersInRange ==
  ASSUME NEW cfg \in RawConfigs, Problems(cfg) = {},
         NEW f \in DOMAIN Fields, f = "RedisTTL" => cfg.redis # "off"
  PROVE  \/ /\ Normalized(cfg).num[f] \in Int
            /\ Fields[f].least <= Normalized(cfg).num[f] /\ Normalized(cfg).num[f] <= Fields[f].most
         \/ Normalized(cfg).num[f] = NaN /\ f \in Floats
<1>1. cfg.num[f] \in Int \union {NaN} /\ (cfg.num[f] = NaN => f \in Floats)
  BY DEF RawConfigs
<1>2. ~OutOfRange(f, cfg.num[f])
  BY DEF Problems
<1>3. Normalized(cfg).num[f] = Filled(f, cfg.num[f])
  BY DEF Normalized, RawConfigs
<1> QED
  BY <1>1, <1>2, <1>3, InRange

\* normalize makes a usable configuration of any in which it finds no problem.
LEMMA NormalizedIsUsable ==
  ASSUME NEW cfg \in RawConfigs, Problems(cfg) = {}, cfg.endpoint = "ok" => OneSuffix(cfg.path)
  PROVE  Usable(Normalized(cfg))
<1> DEFINE done == Normalized(cfg)
<1>1. \A f \in {"FlushInterval", "StatusInterval", "DynamicRuleInterval", "Timeout"} :
        done.num[f] > 0
  <2> SUFFICES ASSUME NEW f \in {"FlushInterval", "StatusInterval", "DynamicRuleInterval", "Timeout"}
               PROVE  done.num[f] > 0
    OBVIOUS
  <2>1. f \in DOMAIN Fields /\ f # "RedisTTL" /\ f \notin Floats /\ Fields[f].least \in Int /\ Fields[f].least > 0
    BY DEF Fields, Field, Floats
  <2>2. done.num[f] \in Int /\ Fields[f].least <= done.num[f]
    BY <2>1, NumbersInRange
  <2> QED
    BY <2>1, <2>2
<1>2. \A f \in {"BufferSize", "MaxConcurrentFlushes"} : done.num[f] > 0
  <2> SUFFICES ASSUME NEW f \in {"BufferSize", "MaxConcurrentFlushes"} PROVE done.num[f] > 0
    OBVIOUS
  <2>1. f \in DOMAIN Fields /\ f # "RedisTTL" /\ f \notin Floats /\ Fields[f].least = 1
    BY DEF Fields, Field, Floats
  <2>2. done.num[f] \in Int /\ Fields[f].least <= done.num[f]
    BY <2>1, NumbersInRange
  <2> QED
    BY <2>1, <2>2
<1>3. done.num["RetryAttempts"] >= 0
  <2>1. "RetryAttempts" \in DOMAIN Fields /\ "RetryAttempts" \notin Floats /\ Fields["RetryAttempts"].least = 0
    BY DEF Fields, Field, Floats
  <2>2. done.num["RetryAttempts"] \in Int /\ Fields["RetryAttempts"].least <= done.num["RetryAttempts"]
    BY <2>1, NumbersInRange
  <2> QED
    BY <2>1, <2>2
<1>4. done.num["HighWatermarkRatio"] \in 1..100 \union {NaN}
  <2>1. /\ "HighWatermarkRatio" \in DOMAIN Fields
        /\ Fields["HighWatermarkRatio"].least = 1 /\ Fields["HighWatermarkRatio"].most = 100
    BY DEF Fields, Field
  <2>2. \/ done.num["HighWatermarkRatio"] = NaN
        \/ /\ done.num["HighWatermarkRatio"] \in Int
           /\ Fields["HighWatermarkRatio"].least <= done.num["HighWatermarkRatio"]
           /\ done.num["HighWatermarkRatio"] <= Fields["HighWatermarkRatio"].most
    BY <2>1, NumbersInRange
  <2> QED
    BY <2>1, <2>2
<1>5. done.redis = "on" => done.num["RedisTTL"] > 0
  <2>1. done.redis = cfg.redis
    BY DEF Normalized, RawConfigs
  <2>2. "RedisTTL" \in DOMAIN Fields /\ "RedisTTL" \notin Floats /\ Fields["RedisTTL"].least = 1
    BY DEF Fields, Field, Floats
  <2>3. cfg.redis # "off" =>
          done.num["RedisTTL"] \in Int /\ Fields["RedisTTL"].least <= done.num["RedisTTL"]
    BY <2>2, NumbersInRange
  <2> QED
    BY <2>1, <2>2, <2>3
<1>6. done.overflow \in Policies
  BY DEF Problems, Normalized, RawConfigs, Policies
<1>7. \A h \in done.headers : Lower[h] = h
  <2>1. done.headers = NormalizeHeaders(cfg.headers)
    BY DEF Normalized, RawConfigs
  <2>2. cfg.headers = Nil \/ cfg.headers \subseteq DOMAIN Lower
    BY DEF RawConfigs
  <2> QED
    BY <2>1, <2>2, ConfigAssumption DEF NormalizeHeaders
<1>8. done.path # <<>> /\ ~IsSuffix(Suffix, TrimRight(done.path))
  <2>1. done.path = IF cfg.endpoint = "empty" THEN DefaultEndpoint ELSE NormalizeEndpoint(cfg.path)
    BY DEF Normalized, RawConfigs
  <2>2. cfg.path \in Seq(STRING) /\ cfg.endpoint \in {"empty", "ok"}
    BY DEF RawConfigs, Problems
  <2>3. CASE cfg.endpoint = "ok"
    BY <2>1, <2>2, <2>3, EndpointIsHost
  <2>4. CASE cfg.endpoint = "empty"
    <3>1. DefaultEndpoint \in Seq({"api.guard-core.com"}) /\ Len(DefaultEndpoint) = 1
      BY DEF DefaultEndpoint
    <3>2. PICK t : t = TrimRight(DefaultEndpoint)
      OBVIOUS
    <3>3. t \in Seq({"api.guard-core.com"}) /\ Len(t) <= 1
      BY <3>1, <3>2, TrimRightProperties
    <3>4. ~IsSuffix(Suffix, t)
      <4>1. IsSuffix(Suffix, t) => Len(t) >= 2
        BY <3>3, SuffixIsLast
      <4> QED
        BY <3>3, <4>1
    <3> QED
      BY <2>1, <2>4, <3>1, <3>2, <3>4
  <2> QED
    BY <2>2, <2>3, <2>4
<1> HIDE DEF done
<1> QED
  BY <1>1, <1>2, <1>3, <1>4, <1>5, <1>6, <1>7, <1>8 DEF Usable, done

-----------------------------------------------------------------------------
\* Past normalize are only configurations without problems.
Past == {"read", "mkdir", "truncate", "write", "resolved", "up"}

ConfigInv ==
  /\ place \in [Processes -> Places]
  /\ \E s \in Scenarios :
       raw = s.raw /\ \A p \in Processes : place[p] \in Past => Problems(s.raw[p]) = {}

LEMMA ConfigInvInit == Init => ConfigInv
BY DEF Init, IdentityInit, ConfigInv, Places, Past

LEMMA ConfigInvNext == ConfigInv /\ [Next]_vars => ConfigInv'
<1> SUFFICES ASSUME ConfigInv, [Next]_vars PROVE ConfigInv'
  OBVIOUS
<1> USE DEF ConfigInv, Places, Past
<1>a. raw' = raw
  BY DEF vars, Next, New, Resolving, KeyFails, RedisFails, Up, Ends, Capture, Reload, Keep, Post, Split, Sends, Crash
<1>c. ASSUME UNCHANGED place PROVE ConfigInv'
  BY <1>a, <1>c
<1>d. ASSUME NEW p \in Processes, NEW next \in Places, place' = [place EXCEPT ![p] = next],
             next \in Past => Problems(raw[p]) = {}
      PROVE  ConfigInv'
  BY <1>a, <1>d
<1>1. CASE UNCHANGED vars
  BY <1>1, <1>c DEF vars, identityVars
<1>2. ASSUME NEW p \in Processes, New(p) PROVE ConfigInv'
  <2>1. PICK next \in {"failed", "resolved", "read"} :
          place' = [place EXCEPT ![p] = next] /\ (next # "failed" => Problems(raw[p]) = {})
    BY <1>2 DEF New, Resolve, Goto
  <2> QED
    BY <1>d, <2>1
<1>3. ASSUME NEW p \in Processes,
             Resolving(p) \/ KeyFails(p) \/ RedisFails(p) \/ Up(p) \/ Crash(p)
      PROVE  ConfigInv'
  <2>1. PICK next \in Places : place' = [place EXCEPT ![p] = next]
    BY <1>3 DEF Resolving, ResolveStep, Read, ReadFails, MkdirAll, Truncate, Write,
                KeyFails, RedisFails, Up, Ends, Crash, Goto
  <2>2. place[p] \in Past \/ next \notin Past
    BY <1>3, <2>1 DEF Resolving, ResolveStep, Read, ReadFails, MkdirAll, Truncate, Write,
                KeyFails, RedisFails, Up, Ends, Crash, Goto
  <2> QED
    BY <1>d, <2>1, <2>2
<1>4. ASSUME NEW p \in Processes, Capture(p) \/ Reload(p) \/ Post(p) \/ Split(p)
      PROVE  ConfigInv'
  BY <1>4, <1>c DEF Capture, Reload, Keep, Post, Split, Sends, identityVars
<1> QED
  BY <1>1, <1>2, <1>3, <1>4 DEF Next

\* For every instance whose endpoints have the version suffix at most once: whatever a
\* host passes to New, an agent that comes up can run on its configuration (normalize,
\* normalizeEndpoint, normalizeSensitiveHeaders).
THEOREM ConfigsAreUsable ==
  ASSUME \A s \in Scenarios, p \in Processes :
           s.raw[p].endpoint = "ok" => OneSuffix(s.raw[p].path)
  PROVE  Spec => []UpIsUsable
<1>1. ConfigInv => UpIsUsable
  BY NormalizedIsUsable, ScenariosAssumption DEF ConfigInv, UpIsUsable, Cfg, Past
<1> QED
  BY <1>1, ConfigInvInit, ConfigInvNext, PTL DEF Spec
-----------------------------------------------------------------------------
\* A form that a pass has left: its documents have the size that its passes give them.
Settled(form) ==
  /\ form = Payload(form.steps, form.redacted, form.hidden) /\ form.redacted \in BOOLEAN
  /\ \E S : form.steps \in Seq(S)
  /\ \A n \in DOMAIN form.steps : Encoded(form.steps[n], form.hidden) = form.steps[n]

\* The walk cuts nothing, or keeps the L steps to the first thing it replaces.
Walked(form, headers, done, L) ==
  /\ L \in Nat /\ L <= Len(form.steps)
  /\ done.steps = [n \in 1..L |-> Encoded(form.steps[n], form.hidden \union headers)]
  /\ \/ /\ Cuts(form.steps, headers) = {} /\ L = Len(form.steps)
        /\ done.redacted = (form.redacted \/ FALSE)
     \/ /\ L \in Cuts(form.steps, headers)
        /\ \A n \in Cuts(form.steps, headers) : L <= n
        /\ done.redacted = TRUE

LEMMA RedactWalks ==
  ASSUME NEW form, NEW headers, NEW S, form.steps \in Seq(S)
  PROVE  \E L : Walked(form, headers, Redact(form, headers), L)
<1>1. PICK s, cuts, hidden : /\ s = form.steps /\ cuts = Cuts(s, headers)
                             /\ hidden = form.hidden \union headers
  OBVIOUS
<1>2. s \in Seq(S) /\ Len(s) \in Nat /\ DOMAIN s = 1..Len(s)
  BY <1>1
<1>3. cuts \in SUBSET Nat /\ \A n \in cuts : n <= Len(s)
  BY <1>1, <1>2 DEF Cuts
<1>4. CASE cuts = {}
  <2>1. Redact(form, headers).steps = [n \in DOMAIN s |-> Encoded(s[n], hidden)]
    BY <1>1, <1>4 DEF Redact, Payload
  <2>2. Redact(form, headers).redacted = (form.redacted \/ FALSE)
    BY <1>1, <1>4 DEF Redact, Payload
  <2> QED
    BY <1>1, <1>2, <1>4, <2>1, <2>2 DEF Walked
<1>5. CASE cuts # {}
  <2>1. PICK L : L = Min(cuts)
    OBVIOUS
  <2>2. L \in cuts /\ \A n \in cuts : L <= n
    BY <1>3, <1>5, <2>1, MinProperties
  <2>3. PICK kept : kept = SubSeq(s, 1, L)
    OBVIOUS
  <2>4. L \in Nat /\ L <= Len(s)
    BY <1>3, <2>2
  <2>5. DOMAIN kept = 1..L /\ \A n \in 1..L : kept[n] = s[n]
    BY <1>2, <2>3, <2>4
  <2>6. Redact(form, headers).steps = [n \in DOMAIN kept |-> Encoded(kept[n], hidden)]
    BY <1>1, <1>5, <2>1, <2>3 DEF Redact, Payload
  <2>7. Redact(form, headers).redacted = TRUE
    BY <1>1, <1>5 DEF Redact, Payload
  <2>8. [n \in DOMAIN kept |-> Encoded(kept[n], hidden)] = [n \in 1..L |-> Encoded(s[n], hidden)]
    BY <2>5
  <2> QED
    BY <1>1, <2>2, <2>4, <2>6, <2>7, <2>8 DEF Walked
<1> QED
  BY <1>4, <1>5

\* The names a pass hides stay hidden.
LEMMA RedactHides ==
  ASSUME NEW form, NEW headers
  PROVE  /\ Redact(form, headers).hidden = form.hidden \union headers
         /\ Redact(form, headers).redacted \in BOOLEAN
         /\ Redact(form, headers)
              = Payload(Redact(form, headers).steps, Redact(form, headers).redacted,
                        Redact(form, headers).hidden)
BY DEF Redact, Payload

\* Whatever the form, a pass settles it.
LEMMA RedactSettles ==
  ASSUME NEW form, NEW headers, NEW S, form.steps \in Seq(S)
  PROVE  Settled(Redact(form, headers))
<1>1. PICK done, hidden : done = Redact(form, headers) /\ hidden = form.hidden \union headers
  OBVIOUS
<1>2. PICK L : Walked(form, headers, done, L)
  BY <1>1, RedactWalks
<1>3. L \in Nat /\ done.steps = [n \in 1..L |-> Encoded(form.steps[n], hidden)]
  BY <1>1, <1>2 DEF Walked
<1>4. /\ done = Payload(done.steps, done.redacted, done.hidden) /\ done.redacted \in BOOLEAN
      /\ done.hidden = hidden
  BY <1>1, RedactHides
<1>5. done.steps \in Seq({Encoded(form.steps[n], hidden) : n \in 1..L})
  BY <1>3
<1>6. \A step : Encoded(Encoded(step, hidden), hidden) = Encoded(step, hidden)
  BY DEF Encoded, Document, Step
<1>7. \A n \in DOMAIN done.steps : Encoded(done.steps[n], hidden) = done.steps[n]
  BY <1>3, <1>6
<1> QED
  BY <1>1, <1>4, <1>5, <1>7 DEF Settled

\* A pass that hides no more than those before it replaces at most documents that they
\* made too long, and then there is nothing left for the next such pass.
LEMMA RedactAgain ==
  ASSUME NEW form, NEW headers, Settled(form), headers \subseteq form.hidden
  PROVE  /\ \/ Redact(form, headers) = form
            \/ Shortened(Redact(form, headers), form)
         /\ Redact(Redact(form, headers), headers) = Redact(form, headers)
<1>1. PICK s, hidden, done, twice :
        /\ s = form.steps /\ hidden = form.hidden
        /\ done = Redact(form, headers) /\ twice = Redact(done, headers)
  OBVIOUS
<1>2. PICK S : s \in Seq(S)
  BY <1>1 DEF Settled
<1>3. form.hidden \union headers = hidden /\ hidden \union headers = hidden
  BY <1>1
<1>4. /\ done.hidden = hidden /\ done.redacted \in BOOLEAN
      /\ done = Payload(done.steps, done.redacted, done.hidden)
  BY <1>1, <1>3, RedactHides
<1>5. /\ twice.hidden = hidden
      /\ twice = Payload(twice.steps, twice.redacted, twice.hidden)
  <2>1. twice = Redact(done, headers) /\ done.hidden \union headers = hidden
    BY <1>1, <1>3, <1>4
  <2>2. twice.hidden = done.hidden \union headers
    BY <2>1, RedactHides
  <2>3. twice = Payload(twice.steps, twice.redacted, twice.hidden)
    BY <2>1, RedactHides
  <2> QED
    BY <2>1, <2>2, <2>3
<1>6. /\ form = Payload(s, form.redacted, hidden) /\ form.redacted \in BOOLEAN
      /\ \A n \in 1..Len(s) : Encoded(s[n], hidden) = s[n]
  BY <1>1, <1>2 DEF Settled
<1>7. PICK K : Walked(form, headers, done, K)
  BY <1>1, <1>2, RedactWalks
<1>8. /\ K \in Nat /\ K <= Len(s) /\ Len(s) \in Nat
      /\ done.steps = [n \in 1..K |-> Encoded(s[n], hidden)]
      /\ \/ Cuts(s, headers) = {} /\ K = Len(s) /\ done.redacted = (form.redacted \/ FALSE)
         \/ /\ K \in Cuts(s, headers) /\ \A n \in Cuts(s, headers) : K <= n
            /\ done.redacted = TRUE
  <2>1. /\ K \in Nat /\ K <= Len(s)
        /\ done.steps = [n \in 1..K |-> Encoded(s[n], form.hidden \union headers)]
        /\ \/ Cuts(s, headers) = {} /\ K = Len(s) /\ done.redacted = (form.redacted \/ FALSE)
           \/ /\ K \in Cuts(s, headers) /\ \A n \in Cuts(s, headers) : K <= n
              /\ done.redacted = TRUE
    BY <1>1, <1>7 DEF Walked
  <2>2. Len(s) \in Nat
    BY <1>2
  <2>3. done.steps = [n \in 1..K |-> Encoded(s[n], hidden)]
    BY <1>3, <2>1
  <2> QED
    BY <2>1, <2>2, <2>3
<1>9. done.steps = [n \in 1..K |-> s[n]]
  BY <1>6, <1>8
<1>10. CASE Cuts(s, headers) = {}
  <2>1. K = Len(s) /\ done.redacted = form.redacted
    BY <1>6, <1>8, <1>10
  <2>2. done.steps = s
    BY <1>2, <1>9, <2>1
  <2>3. done = form
    BY <1>4, <1>6, <2>1, <2>2
  <2> QED
    BY <1>1, <2>3
<1>11. CASE Cuts(s, headers) # {}
  <2>1. /\ K \in Cuts(s, headers) /\ \A n \in Cuts(s, headers) : K <= n
        /\ done.redacted = TRUE
    BY <1>8, <1>11
  <2>2. done.steps \in Seq({s[n] : n \in 1..K}) /\ Len(done.steps) = K
    BY <1>8, <1>9
  <2>3. Shortened(done, form)
    <3>1. SubSeq(s, 1, K) = [n \in 1..K |-> s[n]]
      BY <1>2, <1>8
    <3>2. SubSeq(done.steps, 1, K) = done.steps
      BY <1>8, <1>9, <2>2
    <3>3. IsPrefix(done.steps, s)
      BY <1>8, <1>9, <2>2, <3>1, <3>2 DEF IsPrefix
    <3> QED
      BY <1>1, <1>4, <2>1, <3>3 DEF Shortened
  <2>4. PICK L : Walked(done, headers, twice, L)
    BY <1>1, <2>2, RedactWalks
  <2>5. /\ L \in Nat /\ L <= K
        /\ twice.steps = [n \in 1..L |-> Encoded(done.steps[n], hidden)]
        /\ L = K \/ L \in Cuts(done.steps, headers)
        /\ twice.redacted = (done.redacted \/ FALSE) \/ twice.redacted = TRUE
    BY <1>3, <1>4, <2>2, <2>4 DEF Walked
  <2>6. Cuts(done.steps, headers) \subseteq Cuts(s, headers)
    <3>1. PICK t : t = done.steps
      OBVIOUS
    <3>2. Len(t) = K /\ \A n \in 1..K : t[n] = s[n]
      BY <1>9, <2>2, <3>1
    <3>3. \A n \in Cuts(t, headers) : n \in Cuts(s, headers)
      BY <1>8, <3>2 DEF Cuts
    <3> QED
      BY <3>1, <3>3
  <2>7. L = K
    BY <1>8, <2>1, <2>5, <2>6
  <2>8. twice.steps = done.steps
    BY <1>6, <1>8, <1>9, <2>5, <2>7
  <2>9. twice.redacted = TRUE
    BY <2>1, <2>5
  <2> QED
    BY <1>1, <1>4, <1>5, <2>1, <2>3, <2>8, <2>9
<1> QED
  BY <1>10, <1>11

-----------------------------------------------------------------------------
\* An item after its capture, and the two forms in which it may be posted: the whole
\* batch is redacted once more, its parts twice.
Captured(item) ==
  /\ item = Item(item.form, item.by) /\ Settled(item.form)
  /\ Cfg(item.by).headers \subseteq item.form.hidden
Posts(p) == {Marshalled(p, held[p]), Marshalled(p, Marshalled(p, held[p]))}

AlikeInv ==
  /\ place \in [Processes -> Places]
  /\ encryptor = [p \in Processes |-> encryptor[p]]
  /\ held = [p \in Processes |-> held[p]]
  /\ wire = [p \in Processes |-> wire[p]]
  /\ \E S : payload.steps \in Seq(S)
  /\ record # None => Captured(record)
  /\ \A p \in Processes :
       /\ held[p] # None => Captured(held[p]) /\ place[p] = "up"
       /\ wire[p] # None =>
            /\ held[p] # None /\ wire[p].item \in Posts(p)
            /\ wire[p] = [sealed |-> encryptor[p], item |-> wire[p].item]

LEMMA AlikeInvInit == Init => AlikeInv
BY ScenariosAssumption DEF Init, IdentityInit, AlikeInv, Places

\* How two posts of an item may differ, and that further parts of parts bring no more.
Differ(p, one, other) ==
  /\ ~(Cfg(p).headers \subseteq Cfg(one.by).headers) /\ other.by = one.by
  /\ Shortened(one.form, other.form) \/ Shortened(other.form, one.form)

LEMMA PostsOfItem ==
  ASSUME AlikeInv, NEW p \in Processes, held[p] # None
  PROVE  /\ \A one, other \in Posts(p) : one = other \/ Differ(p, one, other)
         /\ \A one \in Posts(p) : Marshalled(p, one) \in Posts(p)
<1>1. PICK item, first, second :
        /\ item = held[p] /\ first = Marshalled(p, item) /\ second = Marshalled(p, first)
  OBVIOUS
<1>2. Captured(item) /\ Posts(p) = {first, second}
  BY <1>1 DEF AlikeInv, Posts
<1>3. CASE encryptor[p]
  BY <1>1, <1>2, <1>3 DEF Marshalled
<1>4. CASE ~encryptor[p]
  <2>1. PICK form, by, list, once, twice :
          /\ form = item.form /\ by = item.by /\ list = Cfg(p).headers
          /\ once = Redact(form, list) /\ twice = Redact(once, list)
    OBVIOUS
  <2>2. item = [form |-> form, by |-> by] /\ Settled(form) /\ Cfg(by).headers \subseteq form.hidden
    BY <1>2, <2>1 DEF Captured, Item
  <2>3. first = [form |-> once, by |-> by]
    BY <1>1, <1>4, <2>1, <2>2 DEF Marshalled
  <2>4. second = [form |-> twice, by |-> by]
    BY <1>1, <1>4, <2>1, <2>3 DEF Marshalled
  <2>5. Settled(once) /\ list \subseteq once.hidden
    <3>1. PICK S : form.steps \in Seq(S)
      BY <2>2 DEF Settled
    <3>2. Settled(once)
      BY <2>1, <3>1, RedactSettles
    <3>3. once.hidden = form.hidden \union list
      BY <2>1, RedactHides
    <3> QED
      BY <3>2, <3>3
  <2>6. (twice = once \/ Shortened(twice, once)) /\ Redact(twice, list) = twice
    BY <2>1, <2>5, RedactAgain
  <2>7. Marshalled(p, second) = second
    BY <1>4, <2>1, <2>4, <2>6 DEF Marshalled
  <2>8. CASE list \subseteq Cfg(by).headers
    <3>1. twice = once
      BY <2>1, <2>2, <2>8, RedactAgain
    <3> QED
      BY <1>1, <1>2, <2>3, <2>4, <2>7, <3>1
  <2>9. CASE ~(list \subseteq Cfg(by).headers)
    <3>1. first = second \/ (Differ(p, first, second) /\ Differ(p, second, first))
      BY <2>1, <2>3, <2>4, <2>6, <2>9 DEF Differ
    <3> QED
      BY <1>1, <1>2, <2>7, <3>1
  <2> QED
    BY <2>8, <2>9
<1> QED
  BY <1>3, <1>4

LEMMA AlikeInvNext ==
  ASSUME AlikeInv, [Next]_vars
  PROVE  /\ AlikeInv'
         /\ \A p \in Processes : wire[p] # None /\ wire'[p] # None =>
              \/ wire'[p] = wire[p]
              \/ /\ wire'[p].sealed = wire[p].sealed
                 /\ Differ(p, wire[p].item, wire'[p].item)
<1> DEFINE Alike ==
      \A p \in Processes : wire[p] # None /\ wire'[p] # None =>
        \/ wire'[p] = wire[p]
        \/ wire'[p].sealed = wire[p].sealed /\ Differ(p, wire[p].item, wire'[p].item)
<1>a. raw' = raw /\ payload' = payload
  BY DEF vars, Next, New, Resolving, KeyFails, RedisFails, Up, Ends, Capture, Reload, Keep, Post,
         Split, Sends, Crash
<1>b. \A p : Cfg(p)' = Cfg(p)
  BY <1>a DEF Cfg, Normalized
<1>c. \A item : Captured(item)' <=> Captured(item)
  BY <1>b DEF Captured
<1>d. \A p : encryptor'[p] = encryptor[p] /\ held'[p] = held[p] => Posts(p)' = Posts(p)
  BY <1>b DEF Posts, Marshalled
<1>1. CASE UNCHANGED vars
  BY <1>1, <1>a, <1>c, <1>d DEF AlikeInv, vars, itemVars, identityVars
<1>2. ASSUME NEW p \in Processes,
             New(p) \/ Resolving(p) \/ KeyFails(p) \/ RedisFails(p) \/ Up(p)
      PROVE  AlikeInv' /\ Alike
  <2>1. UNCHANGED <<held, record, wire>> /\ place[p] # "up"
    BY <1>2 DEF New, Resolving, ResolveStep, Read, ReadFails, MkdirAll, Truncate, Write, Writing,
                KeyFails, RedisFails, Up, Ends, itemVars
  <2>2. PICK next \in Places : place' = [place EXCEPT ![p] = next]
    BY <1>2 DEF New, Resolve, Resolving, ResolveStep, Read, ReadFails, MkdirAll, Truncate, Write,
                KeyFails, RedisFails, Up, Ends, Goto, Places
  <2>3. encryptor' = [encryptor EXCEPT ![p] = encryptor'[p]]
    BY <1>2 DEF New, Resolving, KeyFails, RedisFails, Up, itemVars, AlikeInv
  <2>4. held[p] = None /\ wire[p] = None
    BY <2>1 DEF AlikeInv
  <2>5. \A q \in Processes : wire[q] # None => Posts(q)' = Posts(q) /\ encryptor'[q] = encryptor[q]
    BY <1>d, <2>1, <2>3, <2>4 DEF AlikeInv
  <2> QED
    BY <1>a, <1>c, <2>1, <2>2, <2>3, <2>4, <2>5 DEF AlikeInv
<1>3. ASSUME NEW p \in Processes, Capture(p) \/ Reload(p) PROVE AlikeInv' /\ Alike
  <2>1. PICK item : /\ Captured(item) /\ record' \in {item, record}
                    /\ held' = [held EXCEPT ![p] = item]
                    /\ wire' = [wire EXCEPT ![p] = None]
    <3>1. CASE Capture(p)
      <4> DEFINE item == Item(Redact(payload, Cfg(p).headers), p)
      <4>1. Captured(item)
        <5>1. PICK S : payload.steps \in Seq(S)
          BY DEF AlikeInv
        <5>2. PICK form : form = Redact(payload, Cfg(p).headers)
          OBVIOUS
        <5>3. Settled(form)
          BY <5>1, <5>2, RedactSettles
        <5>4. form.hidden = payload.hidden \union Cfg(p).headers
          BY <5>2, RedactHides
        <5>5. item = [form |-> form, by |-> p]
          BY <5>2 DEF Item
        <5> QED
          BY <5>3, <5>4, <5>5 DEF Captured, Item
      <4>2. held' = [held EXCEPT ![p] = item] /\ wire' = [wire EXCEPT ![p] = None]
        BY <3>1 DEF Capture, Keep
      <4>3. record' \in {item, record}
        BY <3>1, <4>2 DEF Capture, AlikeInv
      <4> QED
        BY <4>1, <4>2, <4>3
    <3>2. CASE Reload(p)
      BY <3>2 DEF Reload, Keep, AlikeInv
    <3> QED
      BY <1>3, <3>1, <3>2
  <2>2. UNCHANGED <<place, encryptor>> /\ place[p] = "up"
    BY <1>3 DEF Capture, Reload, Keep, identityVars
  <2>3. \A q \in Processes : q # p => Posts(q)' = Posts(q)
    BY <1>d, <2>1, <2>2 DEF AlikeInv
  <2> QED
    BY <1>a, <1>c, <2>1, <2>2, <2>3 DEF AlikeInv
<1>4. ASSUME NEW p \in Processes, Post(p) \/ Split(p) PROVE AlikeInv' /\ Alike
  <2>1. PICK item, post :
          /\ item \in Posts(p) /\ post = [sealed |-> encryptor[p], item |-> item]
          /\ held[p] # None /\ wire' = [wire EXCEPT ![p] = post]
          /\ UNCHANGED <<place, encryptor, held, record>>
    <3>1. CASE Post(p)
      BY <3>1 DEF Post, Sends, Posts, identityVars
    <3>2. CASE Split(p)
      <4>1. held[p] # None /\ wire[p].item \in Posts(p)
        BY <3>2 DEF Split, AlikeInv
      <4>2. Marshalled(p, wire[p].item) \in Posts(p)
        BY <4>1, PostsOfItem
      <4> QED
        BY <3>2, <4>1, <4>2 DEF Split, Sends, identityVars
    <3> QED
      BY <1>4, <3>1, <3>2
  <2>2. \A q \in Processes : Posts(q)' = Posts(q)
    BY <1>d, <2>1
  <2>3. Alike
    <3>1. ASSUME wire[p] # None
          PROVE  wire[p] = post \/ (wire[p].sealed = post.sealed /\ Differ(p, wire[p].item, item))
      <4>1. wire[p].item \in Posts(p) /\ wire[p] = [sealed |-> encryptor[p], item |-> wire[p].item]
        BY <3>1 DEF AlikeInv
      <4>2. wire[p].item = item \/ Differ(p, wire[p].item, item)
        BY <2>1, <4>1, PostsOfItem
      <4>3. wire[p].sealed = encryptor[p] /\ post.sealed = encryptor[p]
        BY <2>1, <4>1
      <4> QED
        BY <2>1, <4>1, <4>2, <4>3
    <3>2. post.item = item
      BY <2>1
    <3>3. \A q \in Processes : wire'[q] = IF q = p THEN post ELSE wire[q]
      BY <2>1 DEF AlikeInv
    <3> QED
      BY <3>1, <3>2, <3>3
  <2> QED
    BY <1>a, <1>c, <2>1, <2>2, <2>3 DEF AlikeInv
<1>5. ASSUME NEW p \in Processes, Crash(p) PROVE AlikeInv' /\ Alike
  <2>1. /\ held' = [held EXCEPT ![p] = None] /\ wire' = [wire EXCEPT ![p] = None]
        /\ encryptor' = [encryptor EXCEPT ![p] = FALSE]
        /\ place' = [place EXCEPT ![p] = "down"] /\ record' = record
    BY <1>5 DEF Crash, Goto
  <2>2. \A q \in Processes : q # p => Posts(q)' = Posts(q)
    BY <1>d, <2>1 DEF AlikeInv
  <2> QED
    BY <1>a, <1>c, <2>1, <2>2 DEF AlikeInv, Places
<1> QED
  BY <1>1, <1>2, <1>3, <1>4, <1>5 DEF Next

\* For every instance, whatever the lists of the processes and whatever passes do to the
\* sizes of documents: posts of an item differ only under a list with names its capturer's
\* lacks, and then only by a marker in place of what grew too long (marshalBatch,
\* splitOrDropEvents, SanitizeHeaders).
THEOREM PostsAreAlike == Spec => ResendsAlike
<1> DEFINE Alike ==
      \A p \in Processes : wire[p] # None /\ wire'[p] # None =>
          \/ wire'[p] = wire[p]
          \/ LET last == wire[p].item  now == wire'[p].item
             IN  /\ ~(Cfg(p).headers \subseteq Cfg(last.by).headers)
                 /\ now.by = last.by /\ wire'[p].sealed = wire[p].sealed
                 /\ Shortened(now.form, last.form) \/ Shortened(last.form, now.form)
<1>1. AlikeInv /\ [Next]_vars => AlikeInv'
  BY AlikeInvNext
<1>2. AlikeInv /\ [Next]_vars => [Alike]_vars
  BY AlikeInvNext DEF Differ
<1> QED
  BY <1>1, <1>2, AlikeInvInit, PTL DEF Spec, ResendsAlike
================================================================
