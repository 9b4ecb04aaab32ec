------------------------------- MODULE RWLock -------------------------------
(***************************************************************************)
(* What pdnsd's cache lock promises its users: any number of readers, or   *)
(* one writer and nobody else.                                             *)
(***************************************************************************)
CONSTANT Users

VARIABLE holds      \* [Users -> {"none", "read", "write"}]

Holding(kind) == {u \in Users : holds[u] = kind}

Init == holds = [u \in Users |-> "none"]

ReadLock(u) == /\ holds[u] = "none" /\ Holding("write") = {}
               /\ holds' = [holds EXCEPT ![u] = "read"]

WriteLock(u) == /\ Holding("read") = {} /\ Holding("write") = {}
                /\ holds' = [holds EXCEPT ![u] = "write"]

Unlock(u) == /\ holds[u] # "none"
             /\ holds' = [holds EXCEPT ![u] = "none"]

Next == \E u \in Users : ReadLock(u) \/ WriteLock(u) \/ Unlock(u)

Spec == Init /\ [][Next]_holds
=============================================================================
