------------------------------ MODULE MCGroupTreeV4 ------------------------------
(* Model checking of GroupTreeV4: a root and a few other groups, and entries.     *)
EXTENDS GroupTreeV4, TLC

CONSTANTS root, g1, g2, g3, e1, e2

MCGroups  == {root, g1, g2, g3}
MCEntries == {e1, e2}
Symmetry  == Permutations({g1, g2, g3}) \cup Permutations({e1, e2})
==================================================================================
