------------------------------ MODULE MCWatcher ------------------------------
(* Instances of Watcher for TLC. *)
EXTENDS Watcher, TLC

OneEach == [p \in Pieces |-> 1]

NoFaults == [k \in FaultKinds |-> 0]
EmbedFault == [NoFaults EXCEPT !["embed"] = 1]
EveryFault == [k \in FaultKinds |-> 1]

NoBody == {}
WholeBody == {Pieces}

Symmetric == Permutations(Files) \cup Permutations(Pieces)
=============================================================================
