------------------------------- MODULE MC_Check -------------------------------
(***************************************************************************)
(* A native, a tagged and three wifi segments: w has its radio pinned by   *)
(* address, y by name, x takes the first there is.  Two radios, so they    *)
(* can differ.                                                             *)
(***************************************************************************)
EXTENDS SegmentCheck, TLC

CONSTANTS n, v, w, x, y, r1, r2

MCSegment == {n, v, w, x, y}
MCOrder == <<n, v, w, x, y>>
MCType == (n :> "native") @@ (v :> "vlan") @@ (w :> "wifi") @@ (x :> "wifi") @@ (y :> "wifi")
MCPin == (n :> AutoRadio) @@ (v :> AutoRadio) @@ (w :> r2) @@ (x :> AutoRadio) @@ (y :> r1)
MCRadio == {r1, r2}
MCSorted == <<r1, r2>>
=============================================================================
