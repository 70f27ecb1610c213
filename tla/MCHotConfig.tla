------------------------------ MODULE MCHotConfig ------------------------------
(* DATABASE_URL and one parameter of the other kind.                            *)
EXTENDS HotConfig, TLC
CONSTANTS r1, r2, v1, v2, bad
Pair == {r1, r2}
MCValid == {v1, v2}
MCValues == {v1, v2, bad}
Symmetry == Permutations(Pair) \cup Permutations(MCValid)
===============================================================================
