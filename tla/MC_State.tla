------------------------------ MODULE MC_State ------------------------------
(***************************************************************************)
(* The unit's run, and two more started by hand.                           *)
(***************************************************************************)
EXTENDS StateWrite, TLC

CONSTANTS c1, c2, i1, i2, i3, i4, i5, unit, hand, hand2

MCContent == {c1, c2}
MCRun == {unit, hand, hand2}
MCInode == {i1, i2, i3, i4, i5}
MCSymmetry == Permutations(MCContent) \cup Permutations(MCInode) \cup Permutations(MCRun)
=============================================================================
