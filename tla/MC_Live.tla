------------------------------- MODULE MC_Live -------------------------------
(***************************************************************************)
(* Three segments with w on a radio, a reporting config and one that       *)
(* reorders the segments; no operator.                                     *)
(***************************************************************************)
EXTENDS RebootCycle, TLC

CONSTANTS u, a, w, original, reordered

MCName == {u, a, w}
MCConfig == {original, reordered}
MCDeclared == (original :> <<u, a, w>>) @@ (reordered :> <<w, a, u>>)
MCWireless == [c \in MCConfig |-> {w}]
MCNative == [c \in MCConfig |-> {a}]
MCIfaceName == [s \in MCName |-> s]
MCOutages == {{}, {w}}
=============================================================================
