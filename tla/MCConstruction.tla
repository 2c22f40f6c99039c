---------------------------- MODULE MCConstruction ----------------------------
(* Construction for TLC: two processes, and three families of configurations. *)
EXTENDS Construction

CONSTANTS p1, p2, nan, nil, none

MCProcesses == {p1, p2}
MCNames == {"authorization", "Authorization ", "x-custom", "X-Custom", "note"}
MCLower == [h \in MCNames |->
               CASE h = "Authorization " -> "authorization" [] h = "X-Custom" -> "x-custom" [] OTHER -> h]
MCDefaults == {"authorization"}

Plain == Payload(<<Entry("note")>>, FALSE, {})

Base == [num |-> [f \in DOMAIN Fields |-> 0], apiKey |-> "long enough", endpoint |-> "ok",
         path |-> <<"host">>, overflow |-> "", headers |-> nil, redis |-> "on", key |-> "none",
         override |-> FALSE, hasPath |-> TRUE]
Known == [Base EXCEPT !.override = TRUE]

Both(a, b, item) == [raw |-> p1 :> a @@ p2 :> b, payload |-> item]

\* Identity: both processes resolve theirs; one of them may be left without a
\* path, or find its Redis URL refused.
Identity == {Both(Base, [Base EXCEPT !.hasPath = b, !.redis = r], Plain) :
                b \in BOOLEAN, r \in {"on", "wrong scheme"}}

\* Configuration: one process departs from the defaults in one field.
Odd(f) == {-1, 0, 1, Fields[f].least - 1, Fields[f].least}
            \union {v \in {nan} : f \in Floats}
            \union {v \in {100, 101} : f = "HighWatermarkRatio"}
Departures ==
    {[Known EXCEPT !.num[f] = v] : <<f, v>> \in UNION {{f} \X Odd(f) : f \in DOMAIN Fields}}
      \union {[Known EXCEPT !.num["RedisTTL"] = -1, !.redis = r] : r \in {"off", "on"}}
      \union {[Known EXCEPT !.apiKey = k] : k \in {"none", "short"}}
      \union {[Known EXCEPT !.endpoint = e] : e \in {"empty", "malformed", "wrong scheme"}}
      \union {[Known EXCEPT !.path = <<"host">> \o s] :
                 s \in {<<"">>, <<"v1">>, <<"api", "v1">>, <<"api", "v1", "", "">>,
                         <<"", "api", "v1">>, <<"tenant", "api", "v1">>}}
      \union {[Known EXCEPT !.overflow = o] : o \in Policies \union {"other"}}
      \union {[Known EXCEPT !.redis = r, !.key = k] :
                 r \in {"off", "no url", "malformed", "wrong scheme", "on"},
                 k \in {"none", "good", "bad"}}
Configuration == {Both(d, Known, Plain) : d \in Departures}

\* Redaction: the lists differ between the processes.  Documents stay short, are or get
\* too long in any case, or get too long when the entries x-custom in them are hidden; the
\* documents in a document are not larger than it.
Hidings == SUBSET {"authorization", "x-custom"}
Documents == {Document("short", {}), Document("short", Hidings), Document("long", Hidings),
              Document("short", {h \in Hidings : "x-custom" \in h})}
MCSteps == {Entry(h) : h \in {"Authorization ", "x-custom"}} \union {Element, Unknown} \union Documents
Holds(outer, inner) == inner.over \subseteq outer.over /\ (TooLong(inner) => TooLong(outer))
Paths == {s \in UNION {[1..n -> MCSteps] : n \in 1..3} :
             /\ s[1].into = "entry"
             /\ \A n \in DOMAIN s : s[n] = Unknown => n = Len(s)
             /\ \A m, n \in DOMAIN s : m < n /\ {s[m], s[n]} \subseteq Documents => Holds(s[m], s[n])}
Lists == {nil, {}, {"X-Custom"}}
Listed == {[Known EXCEPT !.headers = l, !.key = k] : l \in Lists, k \in {"none", "good"}}
Redactions == {Both(a, b, Payload(s, FALSE, {})) : a \in Listed, b \in Listed, s \in Paths}

MCScenarios == Identity \union Configuration \union Redactions
=============================================================================
