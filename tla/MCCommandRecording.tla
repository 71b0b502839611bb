------------------------- MODULE MCCommandRecording -------------------------
(* Instances of CommandRecording for TLC.  The host has fewer buffers than the *)
(* devices can register, so its handles are used again.                        *)
EXTENDS CommandRecording, TLC

CONSTANTS d1, d2, h1, h2

MCDevice == {d1, d2}
MCHostBuffer == {h1, h2}

Interchangeable == Permutations(MCHostBuffer) \cup Permutations(MCDevice)

=============================================================================
