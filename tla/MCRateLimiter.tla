---------------------------- MODULE MCRateLimiter ----------------------------
(* RateLimiter for TLC: three goroutines compete for a two-call window.        *)
EXTENDS RateLimiter

CONSTANTS flush, status, rules

MCCallers == {flush, status, rules}
=============================================================================
