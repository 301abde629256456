----------------------------- MODULE MC_Commits -----------------------------
(***************************************************************************)
(* Three segments, and a commit that drops one of them.                    *)
(***************************************************************************)
EXTENDS RebootCycle, TLC

CONSTANTS u, a, w, good, dropped

MCName == {u, a, w}
MCConfig == {good, dropped}
MCDeclared == (good :> <<u, a, w>>) @@ (dropped :> <<u, a>>)
MCWireless == [c \in MCConfig |-> {w}]
MCNative == [c \in MCConfig |-> {a}]
MCIfaceName == [s \in MCName |-> s]
MCOutages == {{}, {w}}
=============================================================================
