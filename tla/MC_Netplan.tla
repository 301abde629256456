----------------------------- MODULE MC_Netplan -----------------------------
(***************************************************************************)
(* Two segments, one of them rendered in two ways; the unit's run and one  *)
(* started by hand.                                                        *)
(***************************************************************************)
EXTENDS NetplanWrite, TLC

CONSTANTS u, a, v1, v2, i1, i2, i3, i4, i5, unit, hand

MCRender ==
  {[segment |-> u, variant |-> v1], [segment |-> u, variant |-> v2],
   [segment |-> a, variant |-> v1]}
MCInode == {i1, i2, i3, i4, i5}
MCWriter == {unit, hand}
MCSymmetry == Permutations(MCInode) \cup Permutations(MCWriter)
=============================================================================
