------------------------------- MODULE Config -------------------------------
(***************************************************************************)
(* config.go: how New fills and checks the host's Config.  Numbers keep    *)
(* their values (durations in seconds, ratios in percent); strings are     *)
(* reduced to the classes the code tells apart.                            *)
(***************************************************************************)
EXTENDS Integers, Sequences, SequencesExt

CONSTANTS
    NaN,        \* a floating-point field that is not a number
    Nil,        \* a nil slice
    Lower,      \* lower-cased and trimmed form of a header name
    Defaults    \* DefaultSensitiveHeaders

\* A name in its lower-cased and trimmed form has that form.
ASSUME ConfigAssumption ==
    /\ NaN \notin Int
    /\ Defaults \subseteq DOMAIN Lower
    /\ \A h \in DOMAIN Lower : Lower[h] \in DOMAIN Lower /\ Lower[Lower[h]] = Lower[h]

\* The numeric fields: what zero stands for, and the range of a value.
Field(zero, least, most) == [zero |-> zero, least |-> least, most |-> most]
Unlimited == 1000000

Fields == [
    BufferSize           |-> Field(100, 1, Unlimited),
    FlushInterval        |-> Field(30, 1, Unlimited),
    StatusInterval       |-> Field(300, 60, Unlimited),
    DynamicRuleInterval  |-> Field(300, 60, Unlimited),
    HighWatermarkRatio   |-> Field(80, 1, 100),
    MaxConcurrentFlushes |-> Field(1, 1, Unlimited),
    RetryAttempts        |-> Field(0, 0, Unlimited),
    Timeout              |-> Field(30, 1, Unlimited),
    BackoffFactor        |-> Field(1, 1, Unlimited),
    CompressionThreshold |-> Field(0, 0, Unlimited),
    MaxPayloadSize       |-> Field(1024, 1, Unlimited),
    RedisTTL             |-> Field(3600, 1, Unlimited)]

Floats == {"HighWatermarkRatio", "BackoffFactor"}
Policies == {"drop", "block", "raise"}
Blank == ""

\* What a host passes: strings by the classes the code tells apart.
RawConfigs == [
    num : {num \in [DOMAIN Fields -> Int \union {NaN}] :
              \A f \in DOMAIN Fields : num[f] = NaN => f \in Floats},
    apiKey : {"none", "short", "long enough"},
    endpoint : {"empty", "malformed", "wrong scheme", "ok"}, path : Seq(STRING),
    overflow : STRING,
    headers : {Nil} \union SUBSET DOMAIN Lower,
    redis : {"off", "no url", "malformed", "wrong scheme", "on"},
    key : {"none", "good", "bad"},
    override : BOOLEAN, hasPath : BOOLEAN]

\* Go's < on a float is false for NaN.
Less(v, w) == v # NaN /\ w # NaN /\ v < w

\* A zero field gets its default; RetryAttempts and CompressionThreshold keep it.
Filled(f, v) == IF v = 0 THEN Fields[f].zero ELSE v

\* Mutant of OutOfRange: the upper bound is forgotten.
NotBelow(f, v) == Less(Filled(f, v), Fields[f].least)

OutOfRange(f, v) ==
    Less(Filled(f, v), Fields[f].least) \/ Less(Fields[f].most, Filled(f, v))

-----------------------------------------------------------------------------
\* normalizeEndpoint.  A URL is its host and the segments of its path; a blank
\* one is what follows a trailing slash.

Suffix == <<"api", "v1">>
DefaultEndpoint == <<"api.guard-core.com">>

TrimRight(path) == SubSeq(path, 1, Max({0} \union {n \in DOMAIN path : path[n] # Blank}))

\* The suffix is cut off the text, once: it may be the host's name that goes with it.
NormalizeEndpoint(path) ==
    LET trimmed == TrimRight(path)
    IN  IF IsSuffix(Suffix, trimmed)
        THEN TrimRight(SubSeq(trimmed, 1, Len(trimmed) - Len(Suffix)))
        ELSE trimmed

\* normalizeSensitiveHeaders: nil stands for the defaults, an empty list for none.
NormalizeHeaders(headers) ==
    {Lower[h] : h \in IF headers = Nil THEN Defaults ELSE headers}

\* The problems normalize collects.
Problems(raw) ==
    {f \in DOMAIN Fields : (f = "RedisTTL" => raw.redis # "off") /\ OutOfRange(f, raw.num[f])}
      \union {x \in {"APIKey"} : raw.apiKey # "long enough"}
      \union {x \in {"Endpoint"} : raw.endpoint \in {"malformed", "wrong scheme"}}
      \union {x \in {"Overflow"} : raw.overflow \notin Policies \union {Blank}}
      \union {x \in {"Redis"} : raw.redis \in {"no url", "malformed"}}

\* The normalized configuration.
Normalized(raw) ==
    [raw EXCEPT !.num = [f \in DOMAIN Fields |->
                            IF f = "RedisTTL" /\ raw.redis = "off" THEN @[f] ELSE Filled(f, @[f])],
                !.path = IF raw.endpoint = "empty" THEN DefaultEndpoint ELSE NormalizeEndpoint(@),
                !.overflow = IF @ = Blank THEN "drop" ELSE @,
                !.headers = NormalizeHeaders(@)]
=============================================================================
