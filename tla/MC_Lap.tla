------------------------------- MODULE MC_Lap -------------------------------
(***************************************************************************)
(* Four segments in one cycle: the update segment u, a, and w and b on one *)
(* shared radio, which detection cannot tell apart.  Besides the original  *)
(* config the repo may hold one that drops w, reorders the others and puts *)
(* all of them, u too, on radios, one that config.Load rejects, and one    *)
(* that declares nothing but w, not even the update segment.               *)
(***************************************************************************)
EXTENDS RebootCycle, TLC

CONSTANTS u, a, b, w, original, radios, rejected, noUpdate

MCName == {u, a, b, w}
MCConfig == {original, radios, rejected, noUpdate}
MCLoadable == MCConfig \ {rejected}
MCDeclared == (original :> <<u, a, w, b>>) @@ (radios :> <<a, b, u>>)
              @@ (rejected :> <<>>) @@ (noUpdate :> <<w>>)
MCWireless == (original :> {w, b}) @@ (radios :> {a, b, u})
              @@ (rejected :> {}) @@ (noUpdate :> {w})
\* a and u are wired in one config and on a radio in another.
MCNative == [c \in MCConfig |-> IF c = original THEN {a} ELSE {}]
MCIfaceName == [s \in MCName |-> IF s = b THEN w ELSE s]
MCOutages == {{}, {u, a, w, b}}
=============================================================================
