----------------------------- MODULE MCActToken -----------------------------
(* ActToken on small instances.                                             *)
EXTENDS ActToken

ActSymmetry == Permutations(Agent) \cup Permutations(Capability)

SomeExpiries == {-1, 0, 2, 4}
Deadline     == {4}
SomeStarts   == {0, 2}
SomeLimits   == {0, 1, MaxInt}
LimitOfTwo   == {0, 2}
NoStart      == {0}
=============================================================================
