------------------------- MODULE MCConcurrentCreate -------------------------
(* Instances of ConcurrentCreate for TLC. *)
EXTENDS ConcurrentCreate, TLC

CONSTANTS t1, t2, d1, d2, b1, b2, b3

MCThread == {t1, t2}
MCDevice == {d1, d2}
MCBlock == {b1, b2, b3}

AllDevices == [t \in MCThread |-> MCDevice]

OnlySecond == {d2}

Interchangeable == Permutations(MCThread) \cup Permutations(MCBlock)

=============================================================================
