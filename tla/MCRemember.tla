----------------------------- MODULE MCRemember -----------------------------
(* Instances of Remember for TLC. *)
EXTENDS Remember, FiniteSets, TLC

CONSTANTS a, a2, b, c, c1, c2, c3, i1, i2

\* a and a2 are equal texts of two sources, b is a near duplicate of both, and
\* c is about the same topic.
Distances ==
  [p \in Facts \X Facts |->
     CASE p[1] = p[2] \/ {p[1], p[2]} = {a, a2} -> 0
       [] p[1] # p[2] /\ c \in {p[1], p[2]} -> 20
       [] OTHER -> 5]

\* Two calls on one Memory object and the third on another.
Shared == [x \in Calls |-> IF x = c3 THEN i2 ELSE i1]

\* Bound: a behaviour has faults or one other operation than remember().
Trouble == Cardinality(used) <= IF faults = 0 THEN 1 ELSE 0

CallSymmetry == Permutations({c1, c2}) \cup Permutations({a, a2})
=============================================================================
