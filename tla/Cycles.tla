------------------------------- MODULE Cycles -------------------------------
(***************************************************************************)
(* The cycle order of active.yaml (state.Active.Cycle): a sequence of      *)
(* segment names walked round and round.  Pure operators, shared by the    *)
(* abstract cycle and by the model of cmd/mseg-tester's run().             *)
(***************************************************************************)
EXTENDS Integers, Sequences, Functions

\* Where `for i, s := range a.Cycle { if s == a.Segment` stops: the first
\* match.  A name that occurs twice is only ever found at its first place.
FirstIndex(cycle, s) ==
  CHOOSE i \in DOMAIN cycle :
    /\ cycle[i] = s
    /\ \A j \in DOMAIN cycle : cycle[j] = s => i <= j

\* state.Active.Next, defined for s in Range(cycle); elsewhere it panics.
NextInCycle(cycle, s) == cycle[(FirstIndex(cycle, s) % Len(cycle)) + 1]

\* The segment k places after s.
Ahead(cycle, s, k) == cycle[((FirstIndex(cycle, s) - 1 + k) % Len(cycle)) + 1]

\* t follows s and every segment strictly between them is in skippable:
\* the moves advanceToResolvable can make when it may skip exactly those.
HopsTo(cycle, s, t, skippable) ==
  \E k \in 1 .. Len(cycle) :
    /\ t = Ahead(cycle, s, k)
    /\ \A j \in 1 .. k - 1 : Ahead(cycle, s, j) \in skippable
=============================================================================
