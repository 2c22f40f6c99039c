--------------------------- MODULE MCCircuitBreaker ---------------------------
(* CircuitBreaker for TLC: two telemetry callers and one rules poller.         *)
EXTENDS CircuitBreaker

CONSTANTS flush, status, rules

MCCallers == {flush, status, rules}
MCRules == {rules}
=============================================================================
