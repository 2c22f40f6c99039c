----------------------------- MODULE Persistence -----------------------------
(***************************************************************************)
(* persistence.go: the optional Redis side of the buffer.  A record's key  *)
(* is made of the time its item was enqueued and names that item alone, so *)
(* the item stands for the key and stamp for the key's order.  Redis is    *)
(* external: a command may fail, a failed SET may have been applied, and   *)
(* records expire.                                                         *)
(***************************************************************************)
EXTENDS Integers, Sequences, FiniteSets

CONSTANTS
    Items,              \* telemetry items
    KindOf,             \* KindOf[i]: the namespace of i's record
    Poison,             \* items json.Marshal fails on: a NaN or infinite number
    Durable,            \* cfg.Redis # nil
    MaxRedisFailures,   \* redisMaxConsecutiveFailures
    RedisFaulty         \* commands may fail and records may expire

Kinds == {"event", "metric"}

ASSUME ItemsAssumption ==
    /\ IsFiniteSet(Items) /\ KindOf \in [Items -> Kinds] /\ Poison \subseteq Items
ASSUME PersistenceAssumption == /\ Durable \in BOOLEAN
                                /\ RedisFaulty \in BOOLEAN
                                /\ MaxRedisFailures \in Nat \ {0}

VARIABLES
    records,               \* items whose record is in Redis
    stamp,                 \* the time in the item's key; 0 before it has one
    consecutiveFailures,   \* p.consecutiveFailures
    cooldown,              \* now is before p.cooldownUntil
    stored,                \* history: items for which store returned true
    expired                \* history: items whose record Redis expired

persistVars == <<records, stamp, consecutiveFailures, cooldown, stored, expired>>

PersistTypeOK ==
    /\ records \subseteq Items
    /\ stamp \in [Items -> Nat]
    /\ consecutiveFailures \in 0..(MaxRedisFailures - 1)
    /\ cooldown \in BOOLEAN
    /\ stored \subseteq Items
    /\ expired \subseteq Items

PersistInit ==
    /\ records = {}
    /\ stamp = [i \in Items |-> 0]
    /\ consecutiveFailures = 0
    /\ cooldown = FALSE
    /\ stored = {}
    /\ expired = {}

-----------------------------------------------------------------------------
\* shortKey: a time later than that of every earlier key.
NextStamp == 1 + Cardinality({i \in Items : stamp[i] > 0})

\* Mutant of Store: failures pile up through the cooldown.
StoreNeverResets(i, ok, open) ==
    /\ stamp' = [stamp EXCEPT ![i] = NextStamp]
    /\ ok = FALSE
    /\ consecutiveFailures' = consecutiveFailures + 1
    /\ cooldown' = (consecutiveFailures' >= MaxRedisFailures)
    /\ UNCHANGED <<records, stored, expired>>

\* store(i) and its result: refused during the cooldown; else SET succeeds, or
\* it fails, possibly after Redis applied it, and the third failure in a row
\* starts a cooldown.  open is FALSE once the client has been closed.
Store(i, ok, open) ==
    /\ stamp' = [stamp EXCEPT ![i] = NextStamp]
    /\ UNCHANGED expired
    /\ \/ /\ cooldown
          /\ ok = FALSE
          /\ UNCHANGED <<records, consecutiveFailures, cooldown, stored>>
       \/ /\ ~cooldown /\ open
          /\ ok = TRUE
          /\ records' = records \union {i}
          /\ stored' = stored \union {i}
          /\ consecutiveFailures' = 0
          /\ UNCHANGED cooldown
       \/ /\ ~cooldown /\ (RedisFaulty \/ ~open)
          /\ ok = FALSE
          /\ \/ UNCHANGED records
             \/ open /\ records' = records \union {i}
          /\ IF consecutiveFailures + 1 >= MaxRedisFailures
             THEN consecutiveFailures' = 0 /\ cooldown' = TRUE
             ELSE /\ consecutiveFailures' = consecutiveFailures + 1
                  /\ UNCHANGED cooldown
          /\ UNCHANGED stored

\* del: one DEL for all the keys, applied or not, never reported.
Del(keys, open) ==
    /\ \/ open /\ records' = records \ keys
       \/ (RedisFaulty \/ ~open) /\ UNCHANGED records
    /\ UNCHANGED <<stamp, consecutiveFailures, cooldown, stored, expired>>

\* The record of an item that could not be marshalled is empty; nothing can be
\* decoded from it.
Corrupt == records \intersect Poison

\* The items a reload of kind k can decode: those of its live records, oldest key
\* first, or none when SCAN or GET fails.
LoadKind(k) ==
    LET live == {i \in records \ Corrupt : KindOf[i] = k}
        n == Cardinality(live)
    IN  {s \in [1..n -> live] : \A x, y \in 1..n : x < y => stamp[s[x]] < stamp[s[y]]}
          \union {s \in {<<>>} : RedisFaulty}

Expire(i) ==
    /\ RedisFaulty /\ i \in records
    /\ records' = records \ {i}
    /\ expired' = expired \union {i}
    /\ UNCHANGED <<stamp, consecutiveFailures, cooldown, stored>>

CooldownEnds ==
    /\ cooldown
    /\ cooldown' = FALSE
    /\ UNCHANGED <<records, stamp, consecutiveFailures, stored, expired>>
=============================================================================
