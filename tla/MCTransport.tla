---------------------------- MODULE MCTransport ----------------------------
(* Transport for TLC: batches of up to MaxBatch items, any of them too large. *)
EXTENDS Transport
=============================================================================
