---------------------------- MODULE MCBufferViews ----------------------------
(* Instances of BufferViews for TLC.  Views do not depend on memory, so none is *)
(* allocated.  Of a buffer of size 2, the rest from 1 on is a good view, two     *)
(* bytes from 1 on are none; the rest from 3 on wraps around, and is let through. *)
EXTENDS BufferViews, TLC

CONSTANTS a1, v1, v2

MCAddress == {a1}
MCSizes == {2}
MCOffsets == {1, 3}
MCHostView == {v1, v2}
MCViewRanges == {2, VK_WHOLE_SIZE}

Interchangeable == Permutations(MCHostView)

=============================================================================
