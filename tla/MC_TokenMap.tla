---------------------------- MODULE MC_TokenMap ----------------------------
(* Two concurrent requests registering three originals, five ids in total. *)
EXTENDS TokenMap

CONSTANTS r1, r2, o1, o2, o3

MCRequest == {r1, r2}
MCOriginal == {o1, o2, o3}
MCSymmetry == Permutations(MCRequest) \cup Permutations(MCOriginal)
=============================================================================
