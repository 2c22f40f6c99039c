---------------------------- MODULE MCDynamicRules ----------------------------
(* DynamicRules for TLC: a telemetry caller, the rules loop and a host call.   *)
EXTENDS DynamicRules

CONSTANTS flush, rules, host

MCCallers == {flush, rules, host}
MCRules == {rules, host}
=============================================================================
