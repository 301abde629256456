-------------------------- MODULE RebootLap_proofs --------------------------
(***************************************************************************)
(* Theorems about the cycle as run() walks it: it never halts, netplan and *)
(* active.yaml stay together, a lap is complete, and RebootCycle           *)
(* implements SegmentCycle.                                                *)
(***************************************************************************)
EXTENDS RebootCycle_proofs

USE NameAssumption, MissingAssumption, ConfigAssumption, RunAssumption

-----------------------------------------------------------------------------
(* Cycles come from configs.                                               *)

LEMMA CyclesDeclaredStep ==
  ASSUME TypeInv, CyclesDeclared, Next
  PROVE  CyclesDeclared'
<1> USE DEF TypeInv, TypeOK, CyclesDeclared, Seeded, disk, machine, memory, world, history
<1>1. CASE LoadActive
  BY <1>1 DEF LoadActive
<1>2. CASE SeedActive
  <2>1. cfg \in Loadable
    BY <1>2 DEF SeedActive, MemoryOK
  <2>2. activeYaml'.cycle = Declared[cfg] /\ active' = activeYaml'
    BY <1>2 DEF SeedActive
  <2> QED
    BY <2>1, <2>2
<1>3. CASE AdvanceActive
  <2>1. active \in Active /\ active # Missing
    BY <1>3 DEF AdvanceActive, MemoryOK
  <2>2. activeYaml'.cycle = active.cycle /\ active' = active
    BY <1>3, <2>1 DEF AdvanceActive, Active
  <2> QED
    BY <2>1, <2>2
<1>4. CASE EditStopOn
  <2>1. activeYaml # Missing /\ activeYaml'.cycle = activeYaml.cycle /\ active' = active
    BY <1>4 DEF EditStopOn, Active
  <2> QED
    BY <2>1
<1>5. CASE WipeState
  BY <1>5 DEF WipeState
<1>6. CASE Reboot \/ Crash \/ OperatorReboot
  BY <1>6 DEF Reboot, Crash, OperatorReboot, Boot
<1>7. CASE \/ SyncSucceeds \/ SyncFails \/ LoadConfig \/ ConfigRejected
           \/ Test \/ UpdateHangs \/ IoFails
  <2>1. UNCHANGED <<activeYaml, active>>
    BY <1>7 DEF SyncSucceeds, SyncFails, LoadConfig, ConfigRejected, Test, ActiveUndeclared, Check,
                ReportSucceeds, ReportFails, ParkHere, GoOn, UpdateHangs, IoFails
  <2> QED
    BY <2>1
<1>8. CASE \/ Commit \/ NextPanics \/ CandidateUndeclared \/ TakeCandidate
           \/ SkipCandidate \/ NoneResolvable \/ WriteNetplan
  <2>1. UNCHANGED <<activeYaml, active>>
    BY <1>8 DEF Commit, NextPanics, CandidateUndeclared, TakeCandidate, SkipCandidate,
                NoneResolvable, WriteNetplan
  <2> QED
    BY <2>1
<1> QED
  BY <1>1, <1>2, <1>3, <1>4, <1>5, <1>6, <1>7, <1>8 DEF Next, Step, Prepare, Advance

LEMMA CyclesDeclaredHolds == Spec => []CyclesDeclared
<1>1. Init => CyclesDeclared
  BY DEF Init, CyclesDeclared, Seeded
<1>2. TypeInv /\ CyclesDeclared /\ [Next]_vars => CyclesDeclared'
  <2>1. ASSUME CyclesDeclared, UNCHANGED vars
        PROVE  CyclesDeclared'
    BY <2>1 DEF CyclesDeclared, Seeded, vars, disk, memory
  <2> QED
    BY <2>1, CyclesDeclaredStep
<1> QED
  BY <1>1, <1>2, TypeInvHolds, PTL DEF Spec

\* No name occurs twice in a cycle.
LEMMA CycleInjective ==
  ASSUME NoDuplicates, TypeInv, CyclesDeclared
  PROVE  /\ Seeded => activeYaml.cycle \in Seq(Name) /\ IsInjective(activeYaml.cycle)
         /\ active # Missing =>
              active.cycle \in Seq(Name) /\ IsInjective(active.cycle)
<1>1. \A c \in Loadable : Declared[c] \in Seq(Name) /\ IsInjective(Declared[c])
  BY DEF NoDuplicates
<1> QED
  BY <1>1 DEF CyclesDeclared

-----------------------------------------------------------------------------
(* The search.                                                             *)

\* What a step may do to the search.
SearchEnds == pc' \notin {"advance", "write", "save"}
SearchKept == pc' = pc /\ UNCHANGED <<active, next, tries>>
SearchMoves == GoOn \/ SkipCandidate \/ TakeCandidate \/ WriteNetplan

LEMMA SearchCases ==
  ASSUME TypeInv, Next
  PROVE  SearchEnds \/ SearchKept \/ SearchMoves
<1> USE DEF TypeInv, TypeOK, disk, machine, memory, world, history,
            SearchEnds, SearchKept
<1>1. CASE Reboot \/ Crash \/ OperatorReboot
  <2>1. pc' = "load"
    BY <1>1 DEF Reboot, Crash, OperatorReboot, Boot
  <2> QED
    BY <2>1
<1>2. CASE EditStopOn \/ WipeState \/ Commit
  BY <1>2 DEF EditStopOn, WipeState, Commit
<1>3. ASSUME Prepare
      PROVE  SearchEnds \/ SearchKept
  <2>1. CASE LoadActive
    BY <2>1 DEF LoadActive
  <2>2. CASE SyncSucceeds \/ SyncFails
    BY <2>2 DEF SyncSucceeds, SyncFails
  <2>3. CASE LoadConfig \/ ConfigRejected
    BY <2>3 DEF LoadConfig, ConfigRejected
  <2>4. CASE SeedActive
    BY <2>4 DEF SeedActive
  <2> QED
    BY <1>3, <2>1, <2>2, <2>3, <2>4 DEF Prepare
<1>4. ASSUME Test
      PROVE  SearchEnds \/ SearchKept \/ SearchMoves
  <2>1. CASE ActiveUndeclared \/ ParkHere
    BY <2>1 DEF ActiveUndeclared, ParkHere
  <2>2. CASE Check \/ ReportSucceeds \/ ReportFails
    BY <2>2 DEF Check, ReportSucceeds, ReportFails
  <2>3. CASE GoOn
    BY <2>3 DEF GoOn, SearchMoves
  <2> QED
    BY <1>4, <2>1, <2>2, <2>3 DEF Test
<1>5. ASSUME Advance
      PROVE  SearchEnds \/ SearchKept \/ SearchMoves
  <2>1. CASE NextPanics \/ CandidateUndeclared \/ NoneResolvable
    BY <2>1 DEF NextPanics, CandidateUndeclared, NoneResolvable
  <2>2. CASE TakeCandidate \/ SkipCandidate
    BY <2>2 DEF TakeCandidate, SkipCandidate, SearchMoves
  <2>3. CASE WriteNetplan
    BY <2>3 DEF WriteNetplan, SearchMoves
  <2>4. CASE AdvanceActive
    BY <2>4 DEF AdvanceActive
  <2> QED
    BY <1>5, <2>1, <2>2, <2>3, <2>4 DEF Advance
<1>6. ASSUME UpdateHangs \/ IoFails
      PROVE  SearchEnds \/ SearchKept
  BY <1>6 DEF UpdateHangs, IoFails
<1> QED
  BY <1>1, <1>2, <1>3, <1>4, <1>5, <1>6 DEF Next, Step

\* Where the next candidate is.
LEMMA CandidateAhead ==
  ASSUME NoDuplicates, TypeInv, CyclesDeclared, ActiveInCycle,
         NEW S, SearchedOver(S), MaySearch
  PROVE  LET c == active.cycle IN
         /\ active.segment \in Range(c) /\ tries \in Nat /\ tries + 1 \in 1 .. Len(c)
         /\ HasSuccessor /\ Candidate \in Range(c)
         /\ Candidate = Ahead(c, active.segment, tries + 1)
<1> DEFINE c == active.cycle
<1>1. active \in Active /\ active # Missing /\ tries \in Nat /\ tries < Len(c)
  BY DEF TypeInv, TypeOK, MemoryOK, MaySearch
<1>2. /\ c \in Seq(Name) /\ IsInjective(c)
      /\ active.segment \in Range(c) /\ next \in Range(c)
  BY <1>1, CycleInjective DEF ActiveInCycle, MaySearch
<1>3. next = Ahead(c, active.segment, tries)
  BY DEF SearchedOver, MaySearch
<1>4. Candidate = Ahead(c, active.segment, tries + 1)
  BY <1>1, <1>2, <1>3, NextIsAhead DEF Candidate
<1>5. HasSuccessor /\ Candidate \in Range(c)
  BY <1>1, <1>2, CandidateInCycle DEF HasSuccessor
<1>6. tries + 1 \in 1 .. Len(c)
  BY <1>1, <1>2
<1> QED
  BY <1>1, <1>2, <1>4, <1>5, <1>6

\* A search stays one over S, if what it skips is in S and S only grows.
LEMMA SearchStep ==
  ASSUME NoDuplicates, TypeInv, CyclesDeclared, ActiveInCycle, Next,
         NEW S, NEW T, S \subseteq T,
         SearchedOver(S), SkipCandidate => Candidate \in T
  PROVE  SearchedOver(T)'
<1> DEFINE c == active.cycle
           s == active.segment
<1>1. CASE SearchEnds
  BY <1>1 DEF SearchEnds, SearchedOver
<1>2. CASE SearchKept
  BY <1>2 DEF SearchKept, SearchedOver, HopsTo
<1>3. CASE GoOn
  <2>1. /\ pc' = "advance" /\ active' = active /\ next' = s /\ tries' = 0
        /\ active # Missing
    BY <1>3 DEF GoOn, TypeInv, TypeOK, MemoryOK
  <2>2. c \in Seq(Name) /\ s \in Range(c)
    BY <2>1, CycleInjective DEF ActiveInCycle
  <2>3. Ahead(c, s, 0) = s /\ 0 <= Len(c)
    BY <2>2, AheadZero
  <2> QED
    BY <2>1, <2>3 DEF SearchedOver
<1>4. CASE SkipCandidate
  <2>1. /\ pc' = "advance" /\ active' = active /\ next' = Candidate
        /\ tries' = tries + 1 /\ Candidate \in T /\ MaySearch
    BY <1>4 DEF SkipCandidate, MaySearch, TypeInv, TypeOK
  <2>2. /\ tries \in Nat /\ tries + 1 <= Len(c)
        /\ Candidate = Ahead(c, s, tries + 1)
    BY <2>1, CandidateAhead
  <2>3. \A j \in 1 .. tries : Ahead(c, s, j) \in T
    BY <2>1 DEF SearchedOver, MaySearch
  <2>4. \A j \in 1 .. tries + 1 : Ahead(c, s, j) \in T
    BY <2>1, <2>2, <2>3
  <2> QED
    BY <2>1, <2>2, <2>4 DEF SearchedOver
<1>5. CASE TakeCandidate
  <2>1. /\ pc' = "write" /\ active' = active /\ next' = Candidate /\ MaySearch
    BY <1>5 DEF TakeCandidate, TypeInv, TypeOK
  <2>2. /\ tries \in Nat /\ tries + 1 \in 1 .. Len(c)
        /\ Candidate = Ahead(c, s, tries + 1)
    BY <2>1, CandidateAhead
  <2>3. \A j \in 1 .. tries : Ahead(c, s, j) \in T
    BY <2>1 DEF SearchedOver, MaySearch
  <2>4. tries + 1 - 1 = tries
    BY <2>2
  <2>5. HopsTo(c, s, Candidate, T)
    BY <2>2, <2>3, <2>4 DEF HopsTo
  <2> QED
    BY <2>1, <2>5 DEF SearchedOver
<1>6. CASE WriteNetplan
  <2>1. pc = "write" /\ pc' = "save" /\ UNCHANGED <<active, next>>
    BY <1>6 DEF WriteNetplan, memory, TypeInv, TypeOK
  <2>2. HopsTo(c, s, next, T)
    BY <2>1 DEF SearchedOver, HopsTo
  <2> QED
    BY <2>1, <2>2 DEF SearchedOver
<1> QED
  BY <1>1, <1>2, <1>3, <1>4, <1>5, <1>6, SearchCases DEF SearchMoves

LEMMA SearchInvHolds ==
  ASSUME UpdateAlwaysDeclared, NoDuplicates
  PROVE  Spec => []SearchInv
<1>1. Init => SearchInv
  BY DEF Init, SearchInv, SearchedOver
<1>2. TypeInv /\ CyclesDeclared /\ ActiveInCycle /\ SearchInv /\ [Next]_vars => SearchInv'
  <2>1. ASSUME TypeInv, CyclesDeclared, ActiveInCycle, SearchInv, Next
        PROVE  SearchedOver(EverWireless)'
    <3>1. SkipCandidate => Candidate \in EverWireless
      <4> SUFFICES ASSUME SkipCandidate
                   PROVE  Candidate \in EverWireless
        OBVIOUS
      <4>1. cfg \in Config /\ Candidate \in Wireless[cfg]
        BY <2>1 DEF SkipCandidate, MaySearch, Resolves, TypeInv, MemoryOK
      <4> QED
        BY <4>1 DEF EverWireless
    <3>2. SearchedOver(EverWireless)
      BY <2>1 DEF SearchInv
    <3> HIDE DEF EverWireless
    <3> QED
      BY <2>1, <3>1, <3>2, SearchStep
  <2>2. ASSUME SearchInv, UNCHANGED vars
        PROVE  SearchInv'
    BY <2>2 DEF SearchInv, SearchedOver, HopsTo, vars, memory
  <2> QED
    BY <2>1, <2>2 DEF SearchInv
<1> QED
  BY <1>1, <1>2, TypeInvHolds, CyclesDeclaredHolds, NextNeverPanics, PTL DEF Spec

-----------------------------------------------------------------------------
(* What the search returns.                                                *)

\* The config of a run and the radios of a boot are fixed while it searches.
LEMMA SearchFixed ==
  ASSUME TypeInv, Next
  PROVE  SearchEnds \/ UNCHANGED <<cfg, outage>>
<1> USE DEF TypeInv, TypeOK, disk, machine, memory, world, history, SearchEnds
<1>1. CASE Reboot \/ Crash \/ OperatorReboot
  <2>1. pc' = "load"
    BY <1>1 DEF Reboot, Crash, OperatorReboot, Boot
  <2> QED
    BY <2>1
<1>2. CASE LoadConfig
  BY <1>2 DEF LoadConfig
<1>3. CASE ~(Reboot \/ Crash \/ OperatorReboot) /\ ~LoadConfig
  <2>1. UNCHANGED <<cfg, outage>>
    BY <1>3 DEF Next, Step, Prepare, Test, Advance, LoadActive, SyncSucceeds, SyncFails, ConfigRejected,
       SeedActive, ActiveUndeclared, Check, ReportSucceeds, ReportFails, ParkHere, GoOn, NextPanics,
       CandidateUndeclared, TakeCandidate, SkipCandidate, NoneResolvable, WriteNetplan, AdvanceActive,
       UpdateHangs, IoFails, EditStopOn, WipeState, Commit
  <2> QED
    BY <2>1
<1> QED
  BY <1>1, <1>2, <1>3

LEMMA NearestStep ==
  ASSUME NoDuplicates, TypeInv, CyclesDeclared, ActiveInCycle, NearestInv, Next
  PROVE  /\ SearchedOver(Unresolvable)'
         /\ (pc \in {"write", "save"} => Resolves(cfg, next))'
<1>1. CASE SearchEnds
  BY <1>1 DEF SearchEnds, SearchedOver
<1>2. CASE UNCHANGED <<cfg, outage>>
  <2>1. Unresolvable' = Unresolvable
    BY <1>2 DEF Unresolvable, Resolves
  <2>2. PICK S : S = Unresolvable
    OBVIOUS
  <2>3. SkipCandidate => Candidate \in S
    <3> SUFFICES ASSUME SkipCandidate
                 PROVE  Candidate \in Unresolvable
      BY <2>2
    <3>1. Candidate \in Name
      BY CandidateInCycle DEF SkipCandidate, MaySearch, TypeInv, MemoryOK
    <3> QED
      BY <3>1 DEF SkipCandidate, Unresolvable
  <2>4. SearchedOver(S)'
    <3>1. SearchedOver(S)
      BY <2>2 DEF NearestInv
    <3> QED
      BY <2>3, <3>1, SearchStep
  <2>5. SearchedOver(Unresolvable)'
    BY <2>1, <2>2, <2>4 DEF SearchedOver, HopsTo
  <2>6. ASSUME pc' \in {"write", "save"}
        PROVE  Resolves(cfg, next)'
    <3>1. CASE SearchKept
      BY <1>2, <2>6, <3>1 DEF SearchKept, NearestInv, Resolves
    <3>2. CASE GoOn \/ SkipCandidate
      <4>1. pc' = "advance"
        BY <3>2 DEF GoOn, SkipCandidate, MaySearch, TypeInv, TypeOK
      <4> QED
        BY <2>6, <4>1
    <3>3. CASE TakeCandidate
      <4>1. next' = Candidate /\ Resolves(cfg, Candidate)
        BY <3>3 DEF TakeCandidate, TypeInv, TypeOK
      <4> QED
        BY <1>2, <4>1 DEF Resolves
    <3>4. CASE WriteNetplan
      <4>1. next' = next /\ Resolves(cfg, next)
        BY <3>4 DEF WriteNetplan, NearestInv, memory
      <4> QED
        BY <1>2, <4>1 DEF Resolves
    <3>5. ~SearchEnds
      BY <2>6 DEF SearchEnds
    <3> QED
      BY <3>1, <3>2, <3>3, <3>4, <3>5, SearchCases DEF SearchMoves
  <2> QED
    BY <2>5, <2>6
<1> QED
  BY <1>1, <1>2, SearchFixed

\* advanceToResolvable returns what its comment says, for any cycle and all
\* radios: the first segment ahead whose interface resolves, and an error
\* only if none of the cycle's does.
THEOREM SearchIsExact ==
  ASSUME UpdateAlwaysDeclared, NoDuplicates
  PROVE  Spec => []NearestResolvable
<1> DEFINE Inv == TypeInv /\ CyclesDeclared /\ ActiveInCycle
<1>1. Init => NearestInv
  BY DEF Init, NearestInv, SearchedOver
<1>2. Inv /\ NearestInv /\ [Next]_vars => NearestInv'
  <2>1. ASSUME NearestInv, UNCHANGED vars
        PROVE  NearestInv'
    BY <2>1 DEF NearestInv, SearchedOver, HopsTo, Unresolvable, Resolves, vars, memory, machine
  <2> QED
    BY <2>1, NearestStep DEF NearestInv
<1>3. Inv /\ NearestInv => NearestResolvable
  <2> SUFFICES ASSUME Inv, NearestInv,
                      pc = "advance", tries = Len(active.cycle),
                      NEW t \in Range(active.cycle)
               PROVE  t \in Unresolvable
    BY DEF NearestResolvable, NearestInv, SearchedOver
  <2> DEFINE c == active.cycle
  <2>1. c \in Seq(Name) /\ active.segment \in Range(c)
    <3>1. active # Missing
      BY DEF TypeInv, MemoryOK
    <3> QED
      BY <3>1, CycleInjective DEF ActiveInCycle
  <2>2. PICK k \in 1 .. Len(c) : t = Ahead(c, active.segment, k)
    BY <2>1, AheadCovers
  <2>3. \A j \in 1 .. tries : Ahead(c, active.segment, j) \in Unresolvable
    BY DEF NearestInv, SearchedOver
  <2> QED
    BY <2>2, <2>3
<1>4. Spec => []Inv
  BY TypeInvHolds, CyclesDeclaredHolds, NextNeverPanics, PTL
<1> HIDE DEF Inv
<1> QED
  BY <1>1, <1>2, <1>3, <1>4, PTL DEF Spec

-----------------------------------------------------------------------------
(* The box does not stop.                                                  *)

\* Commits that keep the segments declare what any cycle has.
LEMMA CycleIsDeclared ==
  ASSUME SegmentsKept, TypeInv, CyclesDeclared, active # Missing, cfg \in Loadable
  PROVE  Range(active.cycle) = Range(Declared[cfg])
<1>1. PICK c \in Loadable : active.cycle = Declared[c]
  BY DEF CyclesDeclared
<1> QED
  BY <1>1 DEF SegmentsKept

\* A search that has come past the update segment has stopped there.
LEMMA SearchSucceeds ==
  ASSUME UpdateAlwaysDeclared, SegmentsKept, NoDuplicates, UpdateSegment \notin EverWireless,
         TypeInv, CyclesDeclared, ActiveInCycle, SearchInv,
         pc = "advance"
  PROVE  tries < Len(active.cycle)
<1> DEFINE c == active.cycle
<1>1. active # Missing /\ cfg \in Loadable /\ tries \in Nat
  BY DEF TypeInv, TypeOK, MemoryOK
<1>2. c \in Seq(Name) /\ active.segment \in Range(c)
  BY <1>1, CycleInjective DEF ActiveInCycle
<1>3. UpdateSegment \in Range(c)
  BY <1>1, CycleIsDeclared DEF UpdateAlwaysDeclared
<1>4. PICK k \in 1 .. Len(c) : UpdateSegment = Ahead(c, active.segment, k)
  BY <1>2, <1>3, AheadCovers
<1>5. \A j \in 1 .. tries : Ahead(c, active.segment, j) \in EverWireless
  BY DEF SearchInv, SearchedOver
<1>6. k \notin 1 .. tries
  <2> HIDE DEF EverWireless
  <2> QED
    BY <1>4, <1>5
<1> QED
  BY <1>1, <1>2, <1>4, <1>6

LEMMA NeverHaltedStep ==
  ASSUME UpdateAlwaysDeclared, SegmentsKept, NoDuplicates, UpdateSegment \notin EverWireless,
         "io" \notin Faults,
         TypeInv, CyclesDeclared, ActiveInCycle, SearchInv, NeverHalted, Next
  PROVE  NeverHalted'
<1> USE DEF NeverHalted
<1>1. ASSUME Prepare
      PROVE  NeverHalted'
  <2>1. ~ConfigRejected
    BY DEF ConfigRejected, SegmentsKept, TypeInv, TypeOK
  <2> QED
    BY <1>1, <2>1 DEF Prepare, LoadActive, SyncSucceeds, SyncFails, LoadConfig, SeedActive,
       TypeInv, TypeOK
<1>2. ASSUME Test
      PROVE  NeverHalted'
  <2>1. ASSUME ActiveUndeclared
        PROVE  FALSE
    <3>1. active # Missing /\ cfg \in Loadable
      BY <2>1 DEF ActiveUndeclared, TypeInv, MemoryOK
    <3>2. active.segment \in Range(Declared[cfg])
      BY <3>1, CycleIsDeclared DEF ActiveInCycle
    <3> QED
      BY <2>1, <3>2 DEF ActiveUndeclared, IsDeclared
  <2> QED
    BY <1>2, <2>1 DEF Test, Check, ReportSucceeds, ReportFails, ParkHere, GoOn, TypeInv, TypeOK
<1>3. ASSUME Advance
      PROVE  NeverHalted'
  <2>1. ASSUME MaySearch
        PROVE  HasSuccessor /\ IsDeclared(cfg, Candidate)
    <3>1. active # Missing /\ cfg \in Loadable
      BY <2>1 DEF MaySearch, TypeInv, MemoryOK
    <3>2. HasSuccessor /\ Candidate \in Range(active.cycle)
      BY <2>1, CandidateAhead DEF SearchInv
    <3> QED
      BY <3>1, <3>2, CycleIsDeclared DEF IsDeclared
  <2>2. ~NextPanics /\ ~CandidateUndeclared
    BY <2>1 DEF NextPanics, CandidateUndeclared
  <2>3. ASSUME NoneResolvable
        PROVE  FALSE
    <3>1. pc = "advance" /\ tries >= Len(active.cycle) /\ active.cycle \in Seq(Name)
      BY <2>3 DEF NoneResolvable, TypeInv, MemoryOK, Active
    <3>2. tries < Len(active.cycle)
      BY <3>1, SearchSucceeds
    <3> QED
      BY <3>1, <3>2 DEF TypeInv, TypeOK
  <2> QED
    BY <1>3, <2>2, <2>3 DEF Advance, TakeCandidate, SkipCandidate, WriteNetplan, AdvanceActive, TypeInv, TypeOK
<1>4. ASSUME UpdateHangs
      PROVE  NeverHalted'
  BY <1>4 DEF UpdateHangs, TypeInv, TypeOK
<1>5. CASE Reboot \/ Crash \/ OperatorReboot
  BY <1>5 DEF Reboot, Crash, OperatorReboot, Boot
<1>6. CASE EditStopOn \/ WipeState \/ Commit
  BY <1>6 DEF EditStopOn, WipeState, Commit
<1> QED
  BY <1>1, <1>2, <1>3, <1>4, <1>5, <1>6 DEF Next, Step, IoFails

\* advanceToResolvable skips dead radios and comes to the update segment at
\* the latest: with commits that keep the segments and file operations that
\* work, the unit's run never ends in an error that only a reboot by hand
\* would mend.  It may hang in git, which is no error: see GitReturns.
THEOREM NeverHalts ==
  ASSUME UpdateAlwaysDeclared, SegmentsKept, NoDuplicates, UpdateSegment \notin EverWireless,
         "io" \notin Faults
  PROVE  Spec => []NeverHalted
<1>1. Init => NeverHalted
  BY DEF Init, NeverHalted
<1>2. TypeInv /\ CyclesDeclared /\ ActiveInCycle /\ SearchInv /\ NeverHalted /\ [Next]_vars => NeverHalted'
  <2>1. ASSUME NeverHalted, UNCHANGED vars
        PROVE  NeverHalted'
    BY <2>1 DEF NeverHalted, vars
  <2> QED
    BY <2>1, NeverHaltedStep
<1> QED
  BY <1>1, <1>2, TypeInvHolds, CyclesDeclaredHolds, NextNeverPanics, SearchInvHolds, PTL DEF Spec

-----------------------------------------------------------------------------
(* Netplan and active.yaml.                                                *)

LEMMA NetplanStep ==
  ASSUME OperatorWaits, "wipe" \notin Faults,
         TypeInv, SearchInv, MemoryIsFile, NetplanInv, Next
  PROVE  NetplanInv'
<1> USE DEF TypeInv, TypeOK, NetplanInv, NetplanOneAdvanceAhead, Seeded, PC,
            disk, machine, memory, world, history
<1> HIDE DEF EverWireless
<1>1. CASE SeedActive
  <2>1. activeYaml = Missing /\ netplan' = Initial
    BY <1>1 DEF SeedActive, MemoryIsFile
  <2>2. pc' = "check" /\ activeYaml' # Missing
    BY <1>1, DetectableIsName DEF SeedActive, MemoryOK, Active
  <2> QED
    BY <2>1, <2>2
<1>2. CASE WriteNetplan
  <2>1. /\ activeYaml # Missing /\ active = activeYaml
        /\ HopsTo(active.cycle, active.segment, next, EverWireless)
    BY <1>2 DEF WriteNetplan, MemoryIsFile, MemoryOK, SearchInv, SearchedOver
  <2>2. netplan' = next /\ pc' = "save" /\ UNCHANGED <<activeYaml, active, next>>
    BY <1>2 DEF WriteNetplan
  <2> QED
    BY <2>1, <2>2
<1>3. CASE AdvanceActive
  <2>1. /\ activeYaml'.segment = next /\ activeYaml' # Missing
        /\ netplan' = next /\ pc' = "delay"
    BY <1>3, ActiveUpdated DEF AdvanceActive, MemoryOK, Active
  <2> QED
    BY <2>1
<1>4. CASE EditStopOn
  <2>1. /\ activeYaml # Missing /\ activeYaml' # Missing
        /\ activeYaml'.segment = activeYaml.segment /\ activeYaml'.cycle = activeYaml.cycle
        /\ UNCHANGED <<netplan, active, next, pc>>
    BY <1>4, ActiveUpdated DEF EditStopOn, Active
  <2> QED
    BY <2>1
<1>5. CASE Reboot \/ Crash \/ OperatorReboot
  <2>1. UNCHANGED <<activeYaml, netplan>> /\ pc' = "load"
    BY <1>5 DEF Reboot, Crash, OperatorReboot, Boot
  <2> QED
    BY <2>1
<1>6. CASE Commit \/ IoFails \/ UpdateHangs
  BY <1>6 DEF Commit, IoFails, UpdateHangs
<1>7. CASE \/ LoadActive \/ SyncSucceeds \/ SyncFails
           \/ ConfigRejected \/ LoadConfig
  <2>1. /\ UNCHANGED <<activeYaml, netplan>> /\ pc' # "save"
        /\ pc' = "seed" => active' = Missing
    BY <1>7 DEF LoadActive, SyncSucceeds, SyncFails, ConfigRejected, LoadConfig
  <2> QED
    BY <2>1
<1>8. CASE Test
  <2>1. UNCHANGED <<activeYaml, netplan>> /\ pc' \notin {"seed", "save"}
    BY <1>8 DEF Test, ActiveUndeclared, Check, ReportSucceeds, ReportFails, ParkHere, GoOn
  <2> QED
    BY <2>1
<1>9. CASE \/ NextPanics \/ CandidateUndeclared \/ TakeCandidate
           \/ SkipCandidate \/ NoneResolvable
  <2>1. UNCHANGED <<activeYaml, netplan>> /\ pc' \notin {"seed", "save"}
    BY <1>9 DEF NextPanics, CandidateUndeclared, TakeCandidate, SkipCandidate, NoneResolvable, MaySearch
  <2> QED
    BY <2>1
<1> QED
  BY <1>1, <1>2, <1>3, <1>4, <1>5, <1>6, <1>7, <1>8, <1>9
     DEF Next, Step, Prepare, Advance, WipeState

LEMMA NetplanInvHolds ==
  ASSUME UpdateAlwaysDeclared, NoDuplicates, OperatorWaits, "wipe" \notin Faults
  PROVE  Spec => []NetplanInv
<1>1. Init => NetplanInv
  BY DEF Init, NetplanInv, NetplanOneAdvanceAhead, Seeded
<1>2. TypeInv /\ SearchInv /\ MemoryIsFile /\ NetplanInv /\ [Next]_vars => NetplanInv'
  <2>1. ASSUME NetplanInv, UNCHANGED vars
        PROVE  NetplanInv'
    BY <2>1 DEF NetplanInv, NetplanOneAdvanceAhead, HopsTo, Seeded, vars, disk, memory
  <2> QED
    BY <2>1, NetplanStep
<1> QED
  BY <1>1, <1>2, TypeInvHolds, SearchInvHolds, StopOnInvHolds, PTL DEF Spec

\* Netplan and active.yaml are two files, and power may be lost between
\* their writes again and again: they are never more than one advance apart.
THEOREM NetplanStaysClose ==
  ASSUME UpdateAlwaysDeclared, NoDuplicates, OperatorWaits, "wipe" \notin Faults
  PROVE  Spec => []NetplanOneAdvanceAhead
<1>1. NetplanInv => NetplanOneAdvanceAhead
  BY DEF NetplanInv
<1> QED
  BY <1>1, NetplanInvHolds, PTL

-----------------------------------------------------------------------------
(* Results of another segment's network.                                   *)

\* MisfiledIsNear, for one result of s.
Near(s, outcome) ==
  Misattributed(outcome, s) =>
    \/ outcome = UpdateSegment /\ NamedOnFirstBoot(s)
    \/ /\ crashes > 0 \/ "io" \in Faults
       /\ HopsTo(activeYaml.cycle, s, outcome, EverWireless)

LEMMA NearForAll ==
  MisfiledIsNear <=> \A s \in Name : Near(s, results[s]) /\ Near(s, collector[s])
BY DEF MisfiledIsNear, Near

\* A result that is near stays near while the cycle does not change.
LEMMA NearKept ==
  ASSUME activeYaml'.cycle = activeYaml.cycle, crashes > 0 => crashes' > 0,
         NEW s, NEW outcome, Near(s, outcome)
  PROVE  Misattributed(outcome, s) =>
           \/ outcome = UpdateSegment /\ NamedOnFirstBoot(s)
           \/ /\ crashes' > 0 \/ "io" \in Faults
              /\ HopsTo(activeYaml'.cycle, s, outcome, EverWireless)
BY DEF Near

\* As long as a step keeps the cycle and adds only results that are near.
LEMMA MisfiledKept ==
  ASSUME activeYaml'.cycle = activeYaml.cycle, crashes > 0 => crashes' > 0,
         \A s \in Name : Near(s, results'[s]) /\ Near(s, collector'[s])
  PROVE  MisfiledIsNear'
<1> SUFFICES ASSUME NEW s \in Name, NEW outcome \in {results'[s], collector'[s]}
             PROVE  Misattributed(outcome, s) =>
                      \/ outcome = UpdateSegment /\ NamedOnFirstBoot(s)
                      \/ /\ crashes' > 0 \/ "io" \in Faults
                         /\ HopsTo(activeYaml'.cycle, s, outcome, EverWireless)
  BY DEF MisfiledIsNear
<1>1. Near(s, outcome)
  OBVIOUS
<1> QED
  BY <1>1, NearKept

\* First boot names the update segment or one that looks the same.
LEMMA NamedOnSeed ==
  ASSUME TypeInv, live = Initial, NEW c \in Loadable, NEW s \in Detectable(c)
  PROVE  s = UpdateSegment \/ NamedOnFirstBoot(s)
<1>1. Addressable(c) = {IfaceName[t] : t \in {UpdateSegment} \cup Native[c]}
  BY DEF Addressable, Carries
<1>2. s = UpdateSegment \/ IfaceName[s] \in Addressable(c)
  BY DEF Detectable
<1> QED
  BY <1>1, <1>2 DEF NamedOnFirstBoot

\* What the checks measure is near.
LEMMA CheckIsNear ==
  ASSUME TypeInv, MemoryIsFile, NetplanInv, SyncInv, MisfiledInv, pc = "check"
  PROVE  /\ active = activeYaml /\ Seeded
         /\ Near(activeYaml.segment, Carries(live))
<1> DEFINE s == activeYaml.segment
<1>1. active = activeYaml /\ Seeded /\ netplan = live
  BY DEF TypeInv, MemoryOK, MemoryIsFile, SyncInv, Seeded
<1>2. CASE netplan = Initial
  <2>1. Carries(live) = UpdateSegment
    BY <1>1, <1>2 DEF Carries
  <2>2. s = UpdateSegment \/ NamedOnFirstBoot(s)
    BY <1>1, <1>2 DEF MisfiledInv
  <2> QED
    BY <1>1, <2>1, <2>2 DEF Near, Misattributed
<1>3. CASE netplan # Initial
  <2>1. Carries(live) = netplan
    BY <1>1, <1>3 DEF Carries
  <2>2. netplan = s \/ HopsTo(activeYaml.cycle, s, netplan, EverWireless)
    BY <1>1, <1>3 DEF NetplanInv, NetplanOneAdvanceAhead
  <2>3. netplan = s \/ crashes > 0 \/ "io" \in Faults
    BY <1>1, <1>3 DEF MisfiledInv, TypeInv, TypeOK
  <2> QED
    BY <1>1, <2>1, <2>2, <2>3 DEF Near, Misattributed
<1> QED
  BY <1>2, <1>3

LEMMA MisfiledStep ==
  ASSUME OperatorWaits, "wipe" \notin Faults,
         TypeInv, MemoryIsFile, NetplanInv, SyncInv, MisfiledInv, Next
  PROVE  MisfiledInv'
<1> USE DEF TypeInv, TypeOK, Seeded, PC, disk, machine, memory, world, history
<1> HIDE DEF EverWireless, NamedOnFirstBoot, Misattributed, HopsTo
<1> DEFINE Quiet == /\ UNCHANGED <<activeYaml, netplan, results, collector>>
                    /\ crashes > 0 => crashes' > 0
                    /\ pc = "save" /\ pc' # "save"
                         => crashes' > 0 \/ "io" \in Faults
                    /\ crashes' = 0 => crashes = 0
<1>1. ASSUME Quiet
      PROVE  MisfiledInv'
  <2>1. \A s \in Name : Near(s, results'[s]) /\ Near(s, collector'[s])
    BY <1>1, NearForAll DEF MisfiledInv
  <2>2. MisfiledIsNear'
    BY <1>1, <2>1, MisfiledKept
  <2> QED
    BY <1>1, <2>2 DEF MisfiledInv
<1>2. ASSUME Seeded, Seeded', activeYaml'.cycle = activeYaml.cycle, crashes' = crashes,
             \A s \in Name : Near(s, results'[s]) /\ Near(s, collector'[s]),
             activeYaml'.segment = activeYaml.segment, netplan' = netplan,
             pc # "save"
      PROVE  MisfiledInv'
  <2>1. MisfiledIsNear'
    BY <1>2, MisfiledKept
  <2> QED
    BY <1>2, <2>1 DEF MisfiledInv
<1>3. CASE SeedActive
  <2>1. ~Seeded /\ cfg \in Loadable /\ netplan = Initial /\ live = Initial
    BY <1>3 DEF SeedActive, MemoryIsFile, MemoryOK, NetplanInv, SyncInv
  <2>2. PICK s \in Detectable(cfg) :
          activeYaml' = [segment |-> s, cycle |-> Declared[cfg], stopOn |-> NoSegment]
    BY <1>3 DEF SeedActive
  <2>3. activeYaml' # Missing /\ activeYaml'.segment = s
    <3>1. s \in Name /\ Declared[cfg] \in Seq(Name)
      BY <2>1, DetectableIsName
    <3> QED
      BY <2>2, <3>1 DEF Active
  <2>4. s = UpdateSegment \/ NamedOnFirstBoot(s)
    BY <2>1, NamedOnSeed
  <2>5. UNCHANGED <<netplan, results, collector>>
    BY <1>3 DEF SeedActive
  <2>6. MisfiledIsNear'
    BY <2>1, <2>5 DEF MisfiledInv, MisfiledIsNear, Misattributed
  <2> QED
    BY <2>1, <2>3, <2>4, <2>5, <2>6 DEF MisfiledInv
<1>4. CASE Check
  <2>1. active = activeYaml /\ Seeded /\ Near(activeYaml.segment, Carries(live))
    BY <1>4, CheckIsNear DEF Check
  <2>2. /\ results' = [results EXCEPT ![activeYaml.segment] = Carries(live)]
        /\ UNCHANGED <<activeYaml, netplan, collector, crashes>> /\ pc = "check"
    BY <1>4, <2>1 DEF Check
  <2>3. \A s \in Name : Near(s, results'[s]) /\ Near(s, collector'[s])
    BY <2>1, <2>2, NearForAll DEF MisfiledInv
  <2> QED
    BY <1>2, <2>1, <2>2, <2>3
<1>5. CASE ReportSucceeds
  <2>1. /\ Seeded /\ UNCHANGED <<activeYaml, netplan, results, crashes>> /\ pc = "report"
        /\ collector' = [s \in Name |-> IF results[s] = NoResult THEN collector[s] ELSE results[s]]
    BY <1>5 DEF ReportSucceeds, MemoryIsFile, MemoryOK
  <2>2. \A s \in Name : Near(s, results'[s]) /\ Near(s, collector'[s])
    BY <2>1, NearForAll DEF MisfiledInv
  <2> QED
    BY <1>2, <2>1, <2>2
<1>6. CASE SkipCandidate
  <2>1. /\ Seeded /\ UNCHANGED <<activeYaml, netplan, collector, crashes>> /\ pc = "advance"
        /\ results' = [results EXCEPT ![Candidate] = Skipped] \/ results' = results
    BY <1>6 DEF SkipCandidate, MaySearch, MemoryIsFile, MemoryOK
  <2>2. \A s \in Name : results'[s] = Skipped \/ results'[s] = results[s]
    BY <2>1
  <2>3. \A s \in Name : Near(s, Skipped)
    BY DEF Near, Misattributed
  <2>4. \A s \in Name : Near(s, results'[s]) /\ Near(s, collector'[s])
    BY <2>1, <2>2, <2>3, NearForAll DEF MisfiledInv
  <2> QED
    BY <1>2, <2>1, <2>4
<1>7. CASE WriteNetplan
  <2>1. /\ Seeded /\ UNCHANGED <<activeYaml, results, collector, crashes>>
        /\ netplan' = next /\ next # Initial /\ pc' = "save"
    BY <1>7 DEF WriteNetplan, MemoryIsFile, MemoryOK
  <2>2. \A s \in Name : Near(s, results'[s]) /\ Near(s, collector'[s])
    BY <2>1, NearForAll DEF MisfiledInv
  <2>3. MisfiledIsNear'
    BY <2>1, <2>2, MisfiledKept
  <2> QED
    BY <2>1, <2>3 DEF MisfiledInv
<1>8. CASE AdvanceActive
  <2>1. /\ Seeded /\ activeYaml \in Active /\ netplan = next /\ next \in Name
        /\ activeYaml' = [activeYaml EXCEPT !.segment = next]
        /\ UNCHANGED <<netplan, results, collector, crashes>>
    BY <1>8 DEF AdvanceActive, MemoryIsFile, MemoryOK, NetplanInv
  <2>2. /\ Seeded' /\ activeYaml'.cycle = activeYaml.cycle /\ activeYaml'.segment = netplan'
        /\ netplan' # Initial
    BY <2>1, ActiveUpdated DEF Active
  <2>3. \A s \in Name : Near(s, results'[s]) /\ Near(s, collector'[s])
    BY <2>1, NearForAll DEF MisfiledInv
  <2>4. MisfiledIsNear'
    BY <2>1, <2>2, <2>3, MisfiledKept
  <2> QED
    BY <2>2, <2>4 DEF MisfiledInv
<1>9. CASE EditStopOn
  <2>1. /\ activeYaml \in Active /\ Seeded /\ pc # "save"
        /\ \E s \in Name \cup {NoSegment} : activeYaml' = [activeYaml EXCEPT !.stopOn = s]
        /\ UNCHANGED <<netplan, results, collector, crashes>>
    BY <1>9 DEF EditStopOn, OperatorWaits
  <2>2. Seeded' /\ activeYaml'.cycle = activeYaml.cycle /\ activeYaml'.segment = activeYaml.segment
    BY <2>1, ActiveUpdated DEF Active
  <2>3. \A s \in Name : Near(s, results'[s]) /\ Near(s, collector'[s])
    BY <2>1, NearForAll DEF MisfiledInv
  <2> QED
    BY <1>2, <2>1, <2>2, <2>3
<1>10. CASE Crash
  <2>1. Quiet
    BY <1>10 DEF Crash, Boot
  <2> QED
    BY <1>1, <2>1
<1>11. CASE \/ LoadActive \/ SyncSucceeds \/ SyncFails
            \/ LoadConfig \/ ConfigRejected
  <2>1. Quiet
    BY <1>11 DEF LoadActive, SyncSucceeds, SyncFails, LoadConfig, ConfigRejected
  <2> QED
    BY <1>1, <2>1
<1>12. CASE \/ ActiveUndeclared \/ ReportFails \/ ParkHere \/ GoOn
  <2>1. Quiet
    BY <1>12 DEF ActiveUndeclared, ReportFails, ParkHere, GoOn
  <2> QED
    BY <1>1, <2>1
<1>13. CASE \/ NextPanics \/ CandidateUndeclared \/ TakeCandidate
            \/ NoneResolvable
  <2>1. Quiet
    BY <1>13 DEF NextPanics, CandidateUndeclared, TakeCandidate, NoneResolvable, MaySearch
  <2> QED
    BY <1>1, <2>1
<1>14. CASE Reboot \/ OperatorReboot \/ Commit \/ IoFails \/ UpdateHangs
  <2>1. Quiet
    BY <1>14 DEF Reboot, OperatorReboot, Commit, IoFails, UpdateHangs, Boot
  <2> QED
    BY <1>1, <2>1
<1> HIDE DEF Quiet
<1> QED
  BY <1>3, <1>4, <1>5, <1>6, <1>7, <1>8, <1>9, <1>10, <1>11, <1>12, <1>13, <1>14
     DEF Next, Step, Prepare, Test, Advance, WipeState

\* Nothing compares the network the checks run on with the segment their
\* result is named after.  Still, for every cycle and any sequence of crashes,
\* failed writes and outages, a misfiled result is the first boot's, or of the
\* one segment the netplan was ahead of active.yaml; and without a crash or a
\* failed write there is none of the second kind.
THEOREM MisfiledStaysNear ==
  ASSUME UpdateAlwaysDeclared, NoDuplicates, OperatorWaits, "wipe" \notin Faults
  PROVE  Spec => []MisfiledIsNear
<1>1. Init => MisfiledInv
  BY DEF Init, MisfiledInv, MisfiledIsNear, Misattributed, Seeded
<1>2. TypeInv /\ MemoryIsFile /\ NetplanInv /\ SyncInv /\ MisfiledInv /\ [Next]_vars => MisfiledInv'
  <2>1. ASSUME MisfiledInv, UNCHANGED vars
        PROVE  MisfiledInv'
    BY <2>1 DEF MisfiledInv, MisfiledIsNear, Seeded, vars, disk, world
  <2> QED
    BY <2>1, MisfiledStep
<1>3. MisfiledInv => MisfiledIsNear
  BY DEF MisfiledInv
<1> QED
  BY <1>1, <1>2, <1>3, TypeInvHolds, NetplanInvHolds, SyncInvHolds, StopOnInvHolds, PTL DEF Spec

-----------------------------------------------------------------------------
(* What a full lap without a usable interface leaves.                      *)

LEMMA ResultsChange ==
  ASSUME [Next]_vars
  PROVE  results' = results \/ Check \/ SkipCandidate \/ WipeState
BY DEF Next, Step, Prepare, Test, Advance, LoadActive, SyncSucceeds, SyncFails,
       LoadConfig, ConfigRejected, SeedActive, ActiveUndeclared, ReportSucceeds, ReportFails, ParkHere,
       GoOn, NextPanics, CandidateUndeclared, TakeCandidate, NoneResolvable, WriteNetplan,
       AdvanceActive, UpdateHangs, IoFails, Reboot, Crash, OperatorReboot, Boot, EditStopOn, Commit,
       disk, vars

LEMMA SkippedStep ==
  ASSUME OperatorWaits, NoDuplicates, "skipSave" \notin Faults,
         TypeInv, CyclesDeclared, ActiveInCycle, SkippedInv, Next
  PROVE  SkippedInv'
<1> DEFINE Skips == {s \in Name : results[s] = Skipped}
<1> USE DEF TypeInv, TypeOK
<1>1. CASE Check
  <2>1. pc' \in {"report", "park"}
    BY <1>1 DEF Check
  <2> QED
    BY <2>1 DEF SkippedInv, SearchedOver
<1>2. CASE WipeState
  <2>1. pc' \in {"delay", "parked", "halted"}
    BY <1>2 DEF WipeState, OperatorWaits
  <2> QED
    BY <2>1 DEF SkippedInv, SearchedOver
<1>3. CASE ~Check /\ ~WipeState
  <2>1. \/ results' = results
        \/ SkipCandidate /\ results' = [results EXCEPT ![Candidate] = Skipped]
    BY <1>3, ResultsChange DEF SkipCandidate
  <2>2. Skips \subseteq Skips'
    BY <2>1
  <2>3. SkipCandidate => Candidate \in Skips'
    <3> SUFFICES ASSUME SkipCandidate
                 PROVE  Candidate \in Skips'
      OBVIOUS
    <3>1. Candidate \in Name
      BY CandidateInCycle DEF SkipCandidate, MaySearch, MemoryOK
    <3>2. results' = [results EXCEPT ![Candidate] = Skipped]
      BY DEF SkipCandidate
    <3> QED
      BY <3>1, <3>2
  <2>4. PICK S, T : S = Skips /\ T = Skips'
    OBVIOUS
  <2>5. SearchedOver(S)
    BY <2>4 DEF SkippedInv
  <2>6. SearchedOver(T)'
    BY <2>2, <2>3, <2>4, <2>5, SearchStep
  <2> QED
    BY <2>4, <2>6 DEF SkippedInv, SearchedOver, HopsTo
<1> QED
  BY <1>1, <1>2, <1>3

LEMMA SkippedInvHolds ==
  ASSUME OperatorWaits, UpdateAlwaysDeclared, NoDuplicates, "skipSave" \notin Faults
  PROVE  Spec => []SkippedInv
<1>1. Init => SkippedInv
  BY DEF Init, SkippedInv, SearchedOver
<1>2. TypeInv /\ CyclesDeclared /\ ActiveInCycle /\ SkippedInv /\ [Next]_vars => SkippedInv'
  <2>1. ASSUME SkippedInv, UNCHANGED vars
        PROVE  SkippedInv'
    BY <2>1 DEF SkippedInv, SearchedOver, HopsTo, vars, memory, disk
  <2> QED
    BY <2>1, SkippedStep
<1> QED
  BY <1>1, <1>2, TypeInvHolds, CyclesDeclaredHolds, NextNeverPanics, PTL DEF Spec

\* The search meets the active segment in its last try only.
LEMMA LastOfLap ==
  ASSUME NoDuplicates, TypeInv, CyclesDeclared, ActiveInCycle, SkippedInv, MaySearch,
         Candidate = active.segment,
         NEW t \in Range(active.cycle)
  PROVE  t = Candidate \/ results[t] = Skipped
<1> DEFINE c == active.cycle
           s == active.segment
           k == tries
<1>1. SearchedOver({n \in Name : results[n] = Skipped})
  BY DEF SkippedInv
<1>2. /\ s \in Range(c) /\ k \in Nat /\ k + 1 \in 1 .. Len(c)
      /\ Candidate = Ahead(c, s, k + 1)
  BY <1>1, CandidateAhead
<1>3. c \in Seq(Name) /\ IsInjective(c)
  <2>1. active # Missing
    BY DEF MaySearch, TypeInv, MemoryOK
  <2> QED
    BY <2>1, CycleInjective
<1>4. k + 1 = Len(c)
  BY <1>2, <1>3, BackAfterLap
<1>5. PICK j \in 1 .. Len(c) : t = Ahead(c, s, j)
  BY <1>2, <1>3, AheadCovers
<1>6. CASE j = k + 1
  BY <1>2, <1>5, <1>6
<1>7. CASE j # k + 1
  <2>1. j \in 1 .. k
    BY <1>2, <1>4, <1>7
  <2>2. Ahead(c, s, j) \in {n \in Name : results[n] = Skipped}
    BY <1>1, <2>1 DEF SearchedOver, MaySearch
  <2> QED
    BY <1>5, <2>2
<1> QED
  BY <1>6, <1>7

\* A search that fails goes all the way round and writes a failed "interface"
\* result over the one the active segment got minutes ago.  It does so last,
\* for a cycle of any length: where the active segment's measurement is gone,
\* no segment has a usable interface.
THEOREM MeasurementsKept ==
  ASSUME OperatorWaits, UpdateAlwaysDeclared, NoDuplicates, "skipSave" \notin Faults
  PROVE  Spec => MeasurementKept
<1> DEFINE Inv == TypeInv /\ CyclesDeclared /\ ActiveInCycle /\ SkippedInv
           Lost == /\ pc = "advance"
                   /\ results[active.segment] # Skipped
                   /\ results'[active.segment] = Skipped
           AllSkipped == \A t \in Range(active.cycle) : results'[t] = Skipped
<1>1. Inv /\ [Next]_vars => (Lost => AllSkipped)
  <2> SUFFICES ASSUME Inv, [Next]_vars, Lost, NEW t \in Range(active.cycle)
               PROVE  results'[t] = Skipped
    OBVIOUS
  <2>1. active \in Active /\ active.segment \in Name
    BY DEF TypeInv, MemoryOK, Active
  <2>2. SkipCandidate /\ results' = [results EXCEPT ![Candidate] = Skipped]
    <3>1. results' # results
      OBVIOUS
    <3>2. ~Check /\ ~WipeState
      BY DEF Check, WipeState, OperatorWaits
    <3> QED
      BY <3>1, <3>2, ResultsChange DEF SkipCandidate
  <2>3. Candidate = active.segment /\ MaySearch
    BY <2>1, <2>2 DEF SkipCandidate, TypeInv, TypeOK
  <2>4. t = Candidate \/ results[t] = Skipped
    BY <2>3, LastOfLap
  <2>5. t \in Name
    BY <2>1 DEF Active, Range
  <2> QED
    BY <2>2, <2>4, <2>5 DEF TypeInv, TypeOK
<1>2. Spec => []Inv
  BY TypeInvHolds, CyclesDeclaredHolds, NextNeverPanics, SkippedInvHolds, PTL
<1>3. MeasurementKept <=> [][Lost => AllSkipped]_vars
  BY DEF MeasurementKept
<1> HIDE DEF Inv, Lost, AllSkipped
<1> QED
  BY <1>1, <1>2, <1>3, PTL DEF Spec

-----------------------------------------------------------------------------
(* What a segment is left with.                                            *)

\* Only the check of the update segment and a first boot start a new lap;
\* until then records are added.
LEMMA FreshGrows ==
  ASSUME Next
  PROVE  fresh \subseteq fresh' \/ Check \/ SeedActive
BY DEF Next, Step, Prepare, Test, Advance, LoadActive, SyncSucceeds, SyncFails, LoadConfig,
       ConfigRejected, ActiveUndeclared, ReportSucceeds, ReportFails, ParkHere, GoOn,
       NextPanics, CandidateUndeclared, TakeCandidate, SkipCandidate, NoneResolvable, WriteNetplan,
       AdvanceActive, UpdateHangs, IoFails, Reboot, Crash, OperatorReboot, Boot, EditStopOn,
       WipeState, Commit, history

LEMMA FreshStep ==
  ASSUME NoDuplicates, "skipSave" \notin Faults,
         TypeInv, CyclesDeclared, ActiveInCycle, FreshInv, Next
  PROVE  FreshInv'
<1> USE DEF TypeInv, TypeOK, PC, disk, machine, memory, world, history
<1>1. SearchedOver(fresh)'
  <2>1. CASE Check \/ SeedActive
    <3>1. pc' \in {"check", "report", "park"}
      BY <2>1 DEF Check, SeedActive
    <3> QED
      BY <3>1 DEF SearchedOver
  <2>2. CASE fresh \subseteq fresh'
    <3>1. SkipCandidate => Candidate \in fresh'
      BY DEF SkipCandidate
    <3>2. SearchedOver(fresh)
      BY DEF FreshInv
    <3>3. PICK S, T : S = fresh /\ T = fresh'
      OBVIOUS
    <3>4. SearchedOver(T)'
      BY <2>2, <3>1, <3>2, <3>3, SearchStep
    <3> QED
      BY <3>3, <3>4 DEF SearchedOver, HopsTo
  <2> QED
    BY <2>1, <2>2, FreshGrows
<1>2. (pc = "seed" => active = Missing)'
  <2>1. CASE LoadConfig
    BY <2>1 DEF LoadConfig
  <2>2. CASE ~LoadConfig
    <3>1. pc' = "seed" => pc = "seed" /\ active' = active
      BY <2>2 DEF Next, Step, Prepare, Test, Advance, LoadActive, SyncSucceeds, SyncFails,
        ConfigRejected, SeedActive, Check, ActiveUndeclared, ReportSucceeds, ReportFails, ParkHere, GoOn,
        NextPanics, CandidateUndeclared, TakeCandidate, SkipCandidate, NoneResolvable, WriteNetplan,
        AdvanceActive, UpdateHangs, IoFails, Reboot, Crash, OperatorReboot, Boot, EditStopOn,
        WipeState, Commit, MaySearch
    <3> QED
      BY <3>1 DEF FreshInv
  <2> QED
    BY <2>1, <2>2
<1>3. (pc \in {"report", "park", "advance", "write", "save"}
         => active.segment \in fresh)'
  <2>1. CASE Check
    BY <2>1 DEF Check
  <2>2. CASE ~Check
    <3>1. pc' \in {"report", "park", "advance", "write", "save"} =>
            /\ pc \in {"report", "park", "advance", "write", "save"}
            /\ active' = active /\ ~SeedActive
      BY <2>2 DEF Next, Step, Prepare, Test, Advance, LoadActive, SyncSucceeds, SyncFails, LoadConfig,
        ConfigRejected, SeedActive, ActiveUndeclared, ReportSucceeds, ReportFails, ParkHere, GoOn,
        NextPanics, CandidateUndeclared, TakeCandidate, SkipCandidate, NoneResolvable, WriteNetplan,
        AdvanceActive, UpdateHangs, IoFails, Reboot, Crash, OperatorReboot, Boot, EditStopOn,
        WipeState, Commit, MaySearch
    <3> QED
      BY <2>2, <3>1, FreshGrows DEF FreshInv
  <2> QED
    BY <2>1, <2>2
<1> QED
  BY <1>1, <1>2, <1>3 DEF FreshInv

LEMMA FreshInvHolds ==
  ASSUME UpdateAlwaysDeclared, NoDuplicates, "skipSave" \notin Faults
  PROVE  Spec => []FreshInv
<1>1. Init => FreshInv
  BY DEF Init, FreshInv, SearchedOver
<1>2. TypeInv /\ CyclesDeclared /\ ActiveInCycle /\ FreshInv /\ [Next]_vars => FreshInv'
  <2>1. ASSUME FreshInv, UNCHANGED vars
        PROVE  FreshInv'
    BY <2>1 DEF FreshInv, SearchedOver, HopsTo, vars, memory, history
  <2> QED
    BY <2>1, FreshStep
<1> QED
  BY <1>1, <1>2, TypeInvHolds, CyclesDeclaredHolds, NextNeverPanics, PTL DEF Spec

-----------------------------------------------------------------------------
(* The refinement.                                                         *)

\* The variables of the abstract cycle, read off the files.
Kept == UNCHANGED Abstract!vars

\* The steps between a load and the next visible change are invisible.
LEMMA InvisibleStep ==
  ASSUME UNCHANGED <<activeYaml, fresh>>
  PROVE  Kept
BY DEF Kept, Abstract!vars, Seeded

\* The abstract module's copies of the operators on cycles.
LEMMA AbstractOperators ==
  /\ \A c : Abstract!Range(c) = Range(c)
  /\ \A c, s, t, S : Abstract!HopsTo(c, s, t, S) <=> HopsTo(c, s, t, S)
<1>1. \A c : Abstract!Range(c) = Range(c)
  BY DEF Abstract!Range, Range
<1>2. \A c, s : Abstract!FirstIndex(c, s) = FirstIndex(c, s)
  BY DEF Abstract!FirstIndex, FirstIndex
<1>3. \A c, s, k : Abstract!Ahead(c, s, k) = Ahead(c, s, k)
  BY <1>2 DEF Abstract!Ahead, Ahead
<1> QED
  BY <1>1, <1>3 DEF Abstract!HopsTo, HopsTo

LEMMA VisibleSteps ==
  ASSUME TypeInv, Next
  PROVE  \/ UNCHANGED <<activeYaml, fresh>>
         \/ SeedActive \/ Check \/ SkipCandidate
         \/ AdvanceActive \/ EditStopOn \/ WipeState
BY DEF Next, Step, Prepare, Test, Advance, LoadActive, SyncSucceeds, SyncFails, LoadConfig,
       ConfigRejected, ActiveUndeclared, ReportSucceeds, ReportFails, ParkHere, GoOn,
       NextPanics, CandidateUndeclared, TakeCandidate, NoneResolvable, WriteNetplan,
       UpdateHangs, IoFails, Reboot, Crash, OperatorReboot, Boot, Commit, disk, history

LEMMA RefinementStep ==
  ASSUME NoDuplicates, "skipSave" \notin Faults,
         TypeInv, CyclesDeclared, ActiveInCycle, MemoryIsFile, FreshInv, Next
  PROVE  Abstract!Next \/ Kept
<1> USE DEF TypeInv, TypeOK, MemoryOK, Seeded, Kept, Abstract!vars
<1>1. CASE UNCHANGED <<activeYaml, fresh>>
  BY <1>1, InvisibleStep
<1>2. CASE SeedActive
  <2>1. activeYaml = Missing /\ cfg \in Loadable
    BY <1>2 DEF SeedActive, FreshInv, MemoryIsFile
  <2>2. PICK s \in Detectable(cfg) :
          activeYaml' = [segment |-> s, cycle |-> Declared[cfg], stopOn |-> NoSegment]
    BY <1>2 DEF SeedActive
  <2>3. s \in Name /\ Declared[cfg] \in Seq(Name) /\ fresh' = Range(Declared[cfg])
    BY <1>2, <2>1, DetectableIsName DEF SeedActive
  <2>4. /\ activeYaml' \in Active /\ activeYaml' # Missing /\ activeYaml'.segment = s
        /\ activeYaml'.cycle = Declared[cfg]
    BY <2>2, <2>3 DEF Active
  <2>5. Abstract!Seed
    BY <2>1, <2>3, <2>4, AbstractOperators DEF Abstract!Seed
  <2> QED
    BY <2>5 DEF Abstract!Next
<1>3. CASE Check
  <2>1. activeYaml \in Active /\ activeYaml # Missing /\ active = activeYaml
    BY <1>3 DEF Check, MemoryIsFile
  <2>2. /\ fresh' = IF activeYaml.segment = UpdateSegment
                     THEN {activeYaml.segment} ELSE fresh \cup {activeYaml.segment}
        /\ activeYaml' = activeYaml
    BY <1>3, <2>1 DEF Check
  <2>3. activeYaml.segment # NoSegment
    BY <2>1 DEF Active
  <2>4. Abstract!Test
    BY <2>1, <2>2, <2>3 DEF Abstract!Test
  <2> QED
    BY <2>4 DEF Abstract!Next
<1>4. CASE SkipCandidate
  <2>1. /\ activeYaml \in Active /\ activeYaml # Missing /\ active = activeYaml
        /\ MaySearch /\ activeYaml' = activeYaml
        /\ fresh' = fresh \cup {Candidate}
    BY <1>4 DEF SkipCandidate, MaySearch, MemoryIsFile
  <2>2. Candidate \in Range(activeYaml.cycle) /\ Candidate \in Name
    BY <1>4, <2>1, CandidateInCycle DEF SkipCandidate
  <2>3. activeYaml.segment # NoSegment
    BY <2>1 DEF Active
  <2>4. Abstract!Skip(Candidate)
    BY <2>1, <2>2, <2>3, AbstractOperators DEF Abstract!Skip
  <2> QED
    BY <2>2, <2>4 DEF Abstract!Next
<1>5. CASE AdvanceActive
  <2>1. /\ activeYaml \in Active /\ activeYaml # Missing /\ active = activeYaml
        /\ pc = "save" /\ next \in Name /\ fresh' = fresh
    BY <1>5 DEF AdvanceActive, MemoryIsFile, history
  <2>2. /\ activeYaml' \in Active /\ activeYaml' # Missing
        /\ activeYaml'.segment = next /\ activeYaml'.cycle = activeYaml.cycle
    BY <1>5, <2>1, ActiveUpdated DEF AdvanceActive, Active
  <2>3. activeYaml.segment \in fresh /\ activeYaml.segment \in Range(activeYaml.cycle)
    BY <2>1 DEF FreshInv, ActiveInCycle
  <2>4. HopsTo(activeYaml.cycle, activeYaml.segment, next, fresh)
    BY <2>1 DEF FreshInv, SearchedOver
  <2>5. Abstract!Move(next)
    BY <2>1, <2>2, <2>3, <2>4, AbstractOperators DEF Abstract!Move
  <2> QED
    BY <2>1, <2>5 DEF Abstract!Next
<1>6. CASE EditStopOn
  <2>1. /\ activeYaml \in Active /\ activeYaml # Missing /\ fresh' = fresh
        /\ \E s \in Name \cup {NoSegment} : activeYaml' = [activeYaml EXCEPT !.stopOn = s]
    BY <1>6 DEF EditStopOn
  <2>2. /\ activeYaml' \in Active /\ activeYaml' # Missing
        /\ activeYaml'.segment = activeYaml.segment /\ activeYaml'.cycle = activeYaml.cycle
    BY <2>1, ActiveUpdated DEF Active
  <2> QED
    BY <2>1, <2>2
<1>7. CASE WipeState
  <2>1. activeYaml \in Active /\ activeYaml # Missing /\ activeYaml' = Missing /\ fresh' = fresh
    BY <1>7 DEF WipeState
  <2>2. activeYaml.segment # NoSegment
    BY <2>1 DEF Active
  <2>3. Abstract!Lose
    BY <2>1, <2>2 DEF Abstract!Lose
  <2> QED
    BY <2>3 DEF Abstract!Next
<1> QED
  BY <1>1, <1>2, <1>3, <1>4, <1>5, <1>6, <1>7, VisibleSteps

\* The box does what SegmentCycle promises: it leaves a segment only with a
\* result for it and for every segment it jumps over, whatever radios fail
\* and wherever power is lost.
THEOREM BoxImplementsCycle ==
  ASSUME OperatorWaits, UpdateAlwaysDeclared, NoDuplicates, "skipSave" \notin Faults
  PROVE  Spec => ImplementsSegmentCycle
<1>1. Init => Abstract!Init
  BY DEF Init, Abstract!Init, Seeded
<1>2. TypeInv /\ CyclesDeclared /\ ActiveInCycle /\ MemoryIsFile /\ FreshInv /\ [Next]_vars
        => [Abstract!Next]_(Abstract!vars)
  <2>1. ASSUME UNCHANGED vars
        PROVE  Kept
    BY <2>1, InvisibleStep DEF vars, disk, history
  <2> QED
    BY <2>1, RefinementStep DEF Kept
<1> QED
  BY <1>1, <1>2, TypeInvHolds, CyclesDeclaredHolds, NextNeverPanics, StopOnInvHolds, FreshInvHolds, PTL
     DEF Spec, ImplementsSegmentCycle, Abstract!Spec

-----------------------------------------------------------------------------
(* A complete lap.                                                         *)

\* Every cycle has the update segment, from which laps are counted.
LEMMA UpdateInCycle ==
  ASSUME UpdateAlwaysDeclared, NoDuplicates, TypeInv, CyclesDeclared, Seeded
  PROVE  /\ activeYaml.cycle \in Seq(Name) /\ IsInjective(activeYaml.cycle)
         /\ UpdateSegment \in Range(activeYaml.cycle)
<1>1. PICK c \in Loadable : activeYaml.cycle = Declared[c]
  BY DEF CyclesDeclared
<1> QED
  BY <1>1, CycleInjective DEF UpdateAlwaysDeclared

\* The lap of one cycle, at one segment, with given records.
LapUpTo(cycle, s, F) ==
  \E k \in 0 .. Len(cycle) - 1 :
    /\ s = Ahead(cycle, UpdateSegment, k)
    /\ \A j \in 0 .. k - 1 : Ahead(cycle, UpdateSegment, j) \in F

\* What the save of an advance does to the lap.
LEMMA LapAdvances ==
  ASSUME UpdateAlwaysDeclared, NoDuplicates,
         TypeInv, CyclesDeclared, ActiveInCycle, MemoryIsFile, FreshInv, LapInv, AdvanceActive
  PROVE  /\ Seeded /\ Seeded' /\ LapInv'
         /\ activeYaml.segment # UpdateSegment /\ activeYaml'.segment = UpdateSegment
              => Range(activeYaml.cycle) \subseteq fresh
<1>1. /\ activeYaml \in Active /\ Seeded /\ active = activeYaml
      /\ pc = "save" /\ next \in Name /\ fresh' = fresh
  BY DEF AdvanceActive, MemoryIsFile, TypeInv, TypeOK, MemoryOK, Seeded, history
<1>2. /\ Seeded' /\ activeYaml'.segment = next /\ activeYaml'.cycle = activeYaml.cycle
  <2>1. activeYaml' = [activeYaml EXCEPT !.segment = next]
    BY <1>1 DEF AdvanceActive
  <2>2. activeYaml' \in Active
    BY <1>1, <2>1, ActiveUpdated
  <2> QED
    BY <1>1, <2>1, <2>2 DEF Active, Seeded
<1> DEFINE c == activeYaml.cycle
<1>3. /\ c \in Seq(Name) /\ IsInjective(c) /\ UpdateSegment \in Range(c)
  BY <1>1, UpdateInCycle
<1>4. activeYaml.segment \in fresh /\ HopsTo(c, activeYaml.segment, next, fresh)
  BY <1>1 DEF FreshInv, SearchedOver
<1>5. PICK k \in 0 .. Len(c) - 1 :
        /\ activeYaml.segment = Ahead(c, UpdateSegment, k)
        /\ \A j \in 0 .. k - 1 : Ahead(c, UpdateSegment, j) \in fresh
  BY <1>1 DEF LapInv
<1>6. /\ LapUpTo(c, next, fresh)
      /\ next = UpdateSegment /\ Ahead(c, UpdateSegment, k) # UpdateSegment
           => Range(c) \subseteq fresh
  <2>1. Ahead(c, UpdateSegment, k) \in fresh
    BY <1>4, <1>5
  <2>2. HopsTo(c, Ahead(c, UpdateSegment, k), next, fresh)
    BY <1>4, <1>5
  <2>3. \A j \in 0 .. k - 1 : Ahead(c, UpdateSegment, j) \in fresh
    BY <1>5
  <2> HIDE DEF c
  <2>4. /\ \E m \in 0 .. Len(c) - 1 :
             next = Ahead(c, UpdateSegment, m) /\ \A j \in 0 .. m - 1 : Ahead(c, UpdateSegment, j) \in fresh
        /\ next = UpdateSegment /\ Ahead(c, UpdateSegment, k) # UpdateSegment
             => Range(c) \subseteq fresh
    BY <1>3, <1>5, <2>1, <2>2, <2>3, HopFillsLap
  <2> QED
    BY <2>4 DEF LapUpTo
<1> QED
  BY <1>1, <1>2, <1>5, <1>6 DEF LapInv, LapUpTo

LEMMA LapStep ==
  ASSUME UpdateAlwaysDeclared, NoDuplicates, "skipSave" \notin Faults,
         TypeInv, CyclesDeclared, CyclesDeclared', TypeInv',
         ActiveInCycle, ActiveInCycle', MemoryIsFile, FreshInv, LapInv, Next
  PROVE  /\ LapInv'
         /\ Seeded /\ Seeded' /\ activeYaml.segment # UpdateSegment /\ activeYaml'.segment = UpdateSegment
              => Range(activeYaml.cycle) \subseteq fresh
<1> USE DEF Seeded
<1>1. ASSUME Seeded, Seeded', fresh \subseteq fresh',
             activeYaml'.segment = activeYaml.segment, activeYaml'.cycle = activeYaml.cycle
      PROVE  LapInv'
  BY <1>1 DEF LapInv
<1>2. CASE UNCHANGED <<activeYaml, fresh>>
  BY <1>1, <1>2 DEF LapInv
<1>3. CASE SeedActive
  <2>1. ~Seeded
    BY <1>3 DEF SeedActive, FreshInv, MemoryIsFile
  <2>2. Seeded' => activeYaml'.cycle = Declared[cfg] /\ fresh' = Range(activeYaml'.cycle)
    BY <1>3 DEF SeedActive
  <2>3. ASSUME Seeded'
        PROVE  LapInv'
    <3> DEFINE c == activeYaml'.cycle
    <3>1. PICK d \in Loadable : c = Declared[d]
      BY <2>3 DEF CyclesDeclared
    <3>2. c \in Seq(Name) /\ IsInjective(c) /\ UpdateSegment \in Range(c)
      BY <3>1 DEF NoDuplicates, UpdateAlwaysDeclared
    <3>3. activeYaml'.segment \in Range(c)
      BY <2>3 DEF ActiveInCycle
    <3>4. PICK k \in 0 .. Len(c) - 1 : activeYaml'.segment = Ahead(c, UpdateSegment, k)
      BY <3>2, <3>3, PlaceInLap
    <3>5. \A j \in 0 .. k - 1 : j \in 0 .. Len(c)
      BY <3>2
    <3>6. \A j \in 0 .. k - 1 : Ahead(c, UpdateSegment, j) \in Range(c)
      BY <3>2, <3>5, AheadPlace
    <3> QED
      BY <2>2, <2>3, <3>4, <3>6 DEF LapInv
  <2> QED
    BY <2>1, <2>3 DEF LapInv
<1>4. CASE Check
  <2>1. activeYaml \in Active /\ Seeded /\ active = activeYaml /\ activeYaml' = activeYaml
    BY <1>4 DEF Check, MemoryIsFile, TypeInv, TypeOK, MemoryOK
  <2>2. CASE activeYaml.segment = UpdateSegment
    <3> DEFINE c == activeYaml.cycle
    <3>1. c \in Seq(Name) /\ UpdateSegment \in Range(c)
      BY <2>1, UpdateInCycle
    <3>2. UpdateSegment = Ahead(c, UpdateSegment, 0) /\ 0 \in 0 .. Len(c) - 1
      BY <3>1, AheadZero, FirstIndexExists
    <3>3. \A j \in 0 .. 0 - 1 : FALSE
      OBVIOUS
    <3> QED
      BY <2>1, <2>2, <3>2, <3>3 DEF LapInv
  <2>3. CASE activeYaml.segment # UpdateSegment
    <3>1. fresh \subseteq fresh'
      BY <1>4, <2>1, <2>3 DEF Check
    <3> QED
      BY <1>1, <2>1, <3>1
  <2> QED
    BY <2>1, <2>2, <2>3
<1>5. CASE SkipCandidate
  <2>1. activeYaml' = activeYaml /\ fresh \subseteq fresh'
    BY <1>5 DEF SkipCandidate
  <2> QED
    BY <1>1, <2>1 DEF LapInv
<1>6. CASE AdvanceActive
  BY <1>6, LapAdvances
<1>7. CASE EditStopOn
  <2>1. /\ activeYaml \in Active /\ Seeded /\ fresh' = fresh
        /\ \E s \in Name \cup {NoSegment} : activeYaml' = [activeYaml EXCEPT !.stopOn = s]
    BY <1>7 DEF EditStopOn, TypeInv, TypeOK, history
  <2>2. /\ activeYaml' \in Active /\ Seeded'
        /\ activeYaml'.segment = activeYaml.segment /\ activeYaml'.cycle = activeYaml.cycle
    BY <2>1, ActiveUpdated DEF Active
  <2> QED
    BY <1>1, <2>1, <2>2
<1>8. CASE WipeState
  BY <1>8 DEF WipeState, LapInv
<1> QED
  BY <1>2, <1>3, <1>4, <1>5, <1>6, <1>7, <1>8, VisibleSteps

\* When active.yaml comes back to the update segment, each segment of the
\* cycle has a result that is newer than the last visit there: a check's, or
\* the one a missing radio gets.
THEOREM LapsAreComplete ==
  ASSUME OperatorWaits, UpdateAlwaysDeclared, NoDuplicates, "skipSave" \notin Faults
  PROVE  Spec => LapComplete
<1> DEFINE Inv == TypeInv /\ CyclesDeclared /\ ActiveInCycle /\ MemoryIsFile /\ FreshInv
           Returns == /\ Seeded /\ activeYaml.segment # UpdateSegment
                      /\ Seeded' /\ activeYaml'.segment = UpdateSegment
<1>1. Init => LapInv
  BY DEF Init, LapInv, Seeded
<1>2. Inv /\ Inv' /\ LapInv /\ [Next]_vars
        => LapInv' /\ (Returns => Range(activeYaml.cycle) \subseteq fresh)
  <2>1. ASSUME LapInv, UNCHANGED vars
        PROVE  LapInv' /\ ~Returns
    BY <2>1 DEF LapInv, Seeded, vars, disk, history
  <2> QED
    BY <2>1, LapStep
<1>3. Spec => []Inv
  BY TypeInvHolds, CyclesDeclaredHolds, NextNeverPanics, StopOnInvHolds, FreshInvHolds, PTL
<1> HIDE DEF Inv
<1> QED
  BY <1>1, <1>2, <1>3, PTL DEF Spec, LapComplete
=============================================================================
