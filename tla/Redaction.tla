------------------------------ MODULE Redaction ------------------------------
(***************************************************************************)
(* redact.go: what sanitizeValue leaves of one value inside an event's     *)
(* metadata or a metric's tags.  Siblings are sanitized independently, so  *)
(* the path from the root to the value says it all.                        *)
(***************************************************************************)
EXTENDS Config

CONSTANT MaxSanitizeDepth   \* maxSanitizeDepth

\* A step into a value: the entry of a map, the element of a slice, the document
\* in a string that parses as JSON, or something inside a value of a kind the walk
\* does not know.  A document is named for its size, "long" past maxJSONScanLen.  Its
\* size changes when it is encoded again, with what the entries hidden in it: it is
\* long once the header names that passes have hidden are one of the sets of over.
Step(into, name, over) == [into |-> into, name |-> name, over |-> over]
Entry(k) == Step("entry", k, {})
Element == Step("element", "", {})
Document(size, over) == Step("document", size, over)
Unknown == Step("unknown", "", {})
Steps == [into : {"entry", "element", "document", "unknown"}, name : STRING,
          over : SUBSET SUBSET STRING]

\* A payload: the steps to the value, or to the marker that replaced what was there,
\* and the header names of the passes that were made over it.
Payload(steps, redacted, hidden) == [steps |-> steps, redacted |-> redacted, hidden |-> hidden]

IsSensitive(step, headers) == step.into = "entry" /\ Lower[step.name] \in headers
TooLong(step) == step.into = "document" /\ step.name = "long"

\* How many steps lead to a value that is replaced by the marker: under a sensitive
\* key, deeper than the limit, a string too long to scan, an unknown kind.
Cuts(steps, headers) ==
    {n \in 1..Len(steps) : IsSensitive(steps[n], headers) \/ n > MaxSanitizeDepth}
      \union {n \in 0..(Len(steps) - 1) : TooLong(steps[n + 1]) \/ steps[n + 1] = Unknown}

\* Mutant of Encoded: every pass wraps a document once more, until it is too long.
EncodedAgain(step, hidden) ==
    IF step.into # "document" THEN step
    ELSE Document(IF step.name = "short" THEN "wrapped" ELSE "long", step.over)

\* A document that was scanned is encoded again, with the hidden entries replaced.
Encoded(step, hidden) ==
    IF step.into # "document" THEN step
    ELSE Document(IF hidden \in step.over THEN "long" ELSE "short", step.over)

\* SanitizeHeaders.
Redact(payload, headers) ==
    LET cuts == Cuts(payload.steps, headers)
        kept == IF cuts = {} THEN payload.steps ELSE SubSeq(payload.steps, 1, Min(cuts))
        hidden == payload.hidden \union headers
    IN  Payload([n \in DOMAIN kept |-> Encoded(kept[n], hidden)],
                payload.redacted \/ cuts # {}, hidden)
=============================================================================
