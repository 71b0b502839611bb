------------------------- MODULE MCObjectLifecycle -------------------------
(* Instances of ObjectLifecycle for TLC.  The host never gets a device back, *)
(* so three device handles are three devices over a whole behaviour.         *)
EXTENDS ObjectLifecycle, TLC

CONSTANTS i1, i2, d1, d2, d3, q1, q2

MCInstance == {i1, i2}
MCDevice == {d1, d2, d3}
MCQueue == {q1, q2}

Interchangeable == Permutations(MCInstance) \cup Permutations(MCDevice) \cup Permutations(MCQueue)

=============================================================================
