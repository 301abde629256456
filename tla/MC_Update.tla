------------------------------ MODULE MC_Update ------------------------------
(***************************************************************************)
(* Three commits: one good, one that does not build, one whose build       *)
(* carries no revision.                                                    *)
(***************************************************************************)
EXTENDS SelfUpdate

CONSTANTS good, broken, unstamped

MCRevision == {good, broken, unstamped}
MCBuildable == {good, unstamped}
MCUnstamped == {unstamped}
=============================================================================
