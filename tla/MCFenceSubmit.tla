---------------------------- MODULE MCFenceSubmit ----------------------------
(* Instances of FenceSubmit for TLC. *)
EXTENDS FenceSubmit

CONSTANTS hf1, hf2, hs1, hs2

MCHostFence == {hf1, hf2}
MCHostSemaphore == {hs1, hs2}

=============================================================================
