---------------------------- MODULE SegmentCycle ----------------------------
(***************************************************************************)
(* What mseg-tester promises, without boots, files or processes: the box   *)
(* is at one segment of a fixed cycle, and it only leaves a segment that   *)
(* has a recorded result, for a later one, recording a result for every    *)
(* segment it jumps over.  So each return to the update segment -- where   *)
(* results are reported -- finds a fresh result for the whole cycle.       *)
(***************************************************************************)
EXTENDS Cycles

CONSTANTS Name,           \* segment names
          UpdateSegment,  \* the one segment with a route to the outside
          Nowhere         \* "no position": the state directory is empty

VARIABLES at,     \* the segment under test, or Nowhere
          cycle,  \* the order to advance through
          fresh   \* segments with a result since the last test of UpdateSegment

vars == <<at, cycle, fresh>>

TypeOK ==
  /\ at \in Name \cup {Nowhere}
  /\ cycle \in Seq(Name)
  /\ fresh \subseteq Name

Init == at = Nowhere /\ cycle = <<>> /\ fresh = {}

\* The first boot: a position and a cycle are chosen.  The first, possibly
\* partial, lap owes nothing.
Seed ==
  /\ at = Nowhere
  /\ at' \in Name
  /\ cycle' \in Seq(Name)
  /\ fresh' = Range(cycle')

Test ==
  /\ at # Nowhere
  /\ fresh' = IF at = UpdateSegment THEN {at} ELSE fresh \cup {at}
  /\ UNCHANGED <<at, cycle>>

Skip(s) ==
  /\ at # Nowhere
  /\ s \in Range(cycle)
  /\ fresh' = fresh \cup {s}
  /\ UNCHANGED <<at, cycle>>

Move(t) ==
  /\ at \in fresh /\ at \in Range(cycle)
  /\ HopsTo(cycle, at, t, fresh)
  /\ at' = t
  /\ UNCHANGED <<cycle, fresh>>

\* The state directory is wiped.
Lose == at # Nowhere /\ at' = Nowhere /\ cycle' = <<>> /\ UNCHANGED fresh

Next ==
  \/ Seed
  \/ Test
  \/ \E s \in Name : Skip(s) \/ Move(s)
  \/ Lose

Spec == Init /\ [][Next]_vars
=============================================================================
