------------------------------ MODULE MCLoader ------------------------------
(* Instances of Loader for TLC, with the objects of MCObjectLifecycle.  One *)
(* loader is too old for surfaces and one newer than the driver.            *)
EXTENDS Loader, TLC

CONSTANTS i1, i2, d1, d2, d3, q1, q2, w1, w2, b1, b2, ext

MCInstance == {i1, i2}
MCDevice == {d1, d2, d3}
MCQueue == {q1, q2}
MCHostExtensions == <<ext>>
MCVersions == {2, 7}
MCWindow == {w1, w2}
MCSurfaceBlock == {b1, b2}

Interchangeable ==
    Permutations(MCInstance) \cup Permutations(MCDevice) \cup Permutations(MCQueue)
      \cup Permutations(MCWindow) \cup Permutations(MCSurfaceBlock)

=============================================================================
