----------------------------- MODULE HandleTable -----------------------------
(***************************************************************************)
(* What a handle table of the driver promises its callers: a handle names  *)
(* one object from the call that creates it to the call that destroys it,  *)
(* and after that it never names anything again.  A creation that fails    *)
(* half way may use a handle up without anyone ever seeing it.             *)
(***************************************************************************)
CONSTANT Handle

VARIABLE status

Status == {"unused", "live", "dead"}

Init == status = [h \in Handle |-> "unused"]

Create(h) ==
    /\ status[h] = "unused"
    /\ status' = [status EXCEPT ![h] = "live"]

Burn(h) ==
    /\ status[h] = "unused"
    /\ status' = [status EXCEPT ![h] = "dead"]

\* One object is destroyed, or all of them with the device they belong to.
Destroy(H) ==
    /\ \A h \in H : status[h] = "live"
    /\ status' = [h \in Handle |-> IF h \in H THEN "dead" ELSE status[h]]

Next ==
    \/ \E h \in Handle : Create(h)
    \/ \E h \in Handle : Burn(h)
    \/ \E H \in SUBSET Handle : Destroy(H)

Spec == Init /\ [][Next]_status

=============================================================================
