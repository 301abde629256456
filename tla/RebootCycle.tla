----------------------------- MODULE RebootCycle -----------------------------
(***************************************************************************)
(* cmd/mseg-tester's run(): once per boot the box loads active.yaml, syncs *)
(* and loads config.yaml, checks the active segment, records the result,   *)
(* picks the next segment, writes its netplan, advances active.yaml and    *)
(* reboots into it.  One action per step between which a power loss or the *)
(* operator can come; files survive, process memory does not.  The run is  *)
(* the systemd unit's.  A second one, started by hand beside it, shares    *)
(* the temporary files of its writes: StateWrite and NetplanWrite have it. *)
(***************************************************************************)
EXTENDS Cycles, FiniteSets

CONSTANTS
  Name,            \* segment names
  UpdateSegment,   \* bootstrap.yaml's updateSegment
  Config,          \* the config.yaml files the private repo may ever hold
  Declared,        \* Config -> the names of its segments, in order
  Wireless,        \* Config -> its segments of type "wifi" without a literal ifname
  Native,          \* Config -> its segment of type "native", if any: a set
  Loadable,        \* the configs config.Load accepts
  Reporting,       \* the configs with a report target
  IfaceName,       \* Name -> the interface the segment's addresses appear on
  Outages,         \* sets of segments whose radio may be missing in one boot
  OperatorPoints,  \* the service states in which the operator edits or wipes
  StopOnChoices,   \* the values the operator writes into stopOn
  Faults,          \* which failures happen: "io", "skipSave", "wipe"
  MaxCrashes,      \* bound on power losses
  Initial,         \* the netplan cloud-init leaves
  NoSegment, Missing, NoConfig, NoResult, Skipped

PC == {"load", "sync", "config", "seed", "check", "hung", "report", "park",
       "advance", "write", "save", "delay", "parked", "halted"}

ASSUME NameAssumption ==
  /\ UpdateSegment \in Name
  /\ NoSegment \notin Name /\ NoResult \notin Name /\ Skipped \notin Name
  /\ Initial \notin Name
  /\ StopOnChoices \subseteq Name \cup {NoSegment}
  /\ Outages \subseteq SUBSET Name

\* The content of active.yaml (state.Active).
Active == [segment : Name, cycle : Seq(Name), stopOn : Name \cup {NoSegment}]

ASSUME MissingAssumption == Missing \notin Active

ASSUME ConfigAssumption ==
  /\ NoConfig \notin Config
  /\ Loadable \subseteq Config /\ Reporting \subseteq Config
  /\ Declared \in [Config -> Seq(Name)]
  /\ Wireless \in [Config -> SUBSET Name]
  /\ Native \in [Config -> SUBSET Name]
  /\ \A c \in Loadable : Declared[c] # <<>>

ASSUME RunAssumption == OperatorPoints \subseteq PC /\ MaxCrashes \in Nat

VARIABLES
  \* files
  activeYaml,   \* active.yaml: a record, or Missing
  configYaml,   \* config.yaml
  netplan,      \* the segment /etc/netplan/90-mseg-tester.yaml is for, or Initial
  results,      \* <segment>.result.yaml: the segment really measured, or Skipped
  \* the machine, since it booted
  live,         \* the netplan that was applied at boot
  outage,       \* segments whose radio did not come up in this boot
  \* the unit's run and its memory
  pc, active, cfg, next, tries,
  \* the world
  repo,         \* the config repo's current commit
  collector,    \* the last outcome the report target received, per segment
  crashes,
  \* history, read by properties only
  fresh,        \* segments recorded since UpdateSegment was last checked
  wanted        \* the stopOn the operator last asked for

disk == <<activeYaml, configYaml, netplan, results>>
machine == <<live, outage>>
memory == <<active, cfg, next, tries>>
world == <<repo, collector, crashes>>
history == <<fresh, wanted>>
vars == <<disk, machine, pc, memory, world, history>>

\* "The segment measured" is the one live while the checks ran: nothing in
\* internal/checks compares it with the segment the result is named after.
Outcome == Name \cup {NoResult, Skipped}

TypeOK ==
  /\ activeYaml \in Active \cup {Missing}
  /\ configYaml \in Config
  /\ netplan \in Name \cup {Initial}
  /\ results \in [Name -> Outcome]
  /\ live \in Name \cup {Initial}
  /\ outage \in SUBSET Name
  /\ pc \in PC
  /\ active \in Active \cup {Missing}
  /\ cfg \in Config \cup {NoConfig}
  /\ next \in Name \cup {NoSegment}
  /\ tries \in Nat
  /\ repo \in Config
  /\ collector \in [Name -> Outcome]
  /\ crashes \in 0 .. MaxCrashes
  /\ fresh \subseteq Name
  /\ wanted \in Name \cup {NoSegment}

-----------------------------------------------------------------------------
(* Configuration lookups.                                                  *)

\* config.Config.BySegmentName finds it.
IsDeclared(c, s) == s \in Range(Declared[c])

\* resolveIfName succeeds: only a wifi segment has an interface that can be
\* missing.
Resolves(c, s) == s \notin Wireless[c] \/ s \notin outage

\* The segment whose traffic a netplan carries.
Carries(n) == IF n = Initial THEN UpdateSegment ELSE n

\* The box is on the update segment and its interface came up: the only
\* state with a route to the config repo and the report targets.
Online(c) == Carries(live) = UpdateSegment /\ Resolves(c, UpdateSegment)

\* The interfaces that can have an address.  cloud-init's netplan, unlike
\* those the binary writes, lets the bare trunk take one, too.
Addressable(c) ==
  {IfaceName[s] : s \in {Carries(live)} \cup (IF live = Initial THEN Native[c] ELSE {})}

\* detectActiveSegment: the first declared segment whose interface has an
\* address is the one named; without a match, or if `ip a` fails, run()
\* falls back to UpdateSegment.  Which interfaces have one by then is open,
\* so it may be the first segment on any of them.
Detectable(c) ==
  LET Iface(i) == IfaceName[Declared[c][i]]
      found == {i \in DOMAIN Declared[c] :
                  Resolves(c, Declared[c][i]) /\ Iface(i) \in Addressable(c)}
  IN  {UpdateSegment} \cup
      {Declared[c][i] : i \in {i \in found : \A j \in found : Iface(j) = Iface(i) => i <= j}}

-----------------------------------------------------------------------------
(* The steps of run().                                                     *)

\* A run that returns leaves the unit `active (exited)`, parked, or failed,
\* halted, until the next boot.

\* Bug: sync config.yaml on first boot only.
LoadActiveSyncsOnce ==
  /\ pc = "load"
  /\ active' = activeYaml
  /\ pc' = IF activeYaml = Missing THEN "sync" ELSE "config"
  /\ UNCHANGED <<disk, machine, cfg, next, tries, world, history>>

\* state.LoadActive; a missing file means first boot.
LoadActive ==
  /\ pc = "load"
  /\ active' = activeYaml
  /\ pc' = IF activeYaml = Missing \/ activeYaml.segment = UpdateSegment
            THEN "sync" ELSE "config"
  /\ UNCHANGED <<disk, machine, cfg, next, tries, world, history>>

\* configsync.Fetch
SyncSucceeds ==
  /\ pc = "sync"
  /\ Online(configYaml)
  /\ configYaml' = repo
  /\ pc' = "config"
  /\ UNCHANGED <<activeYaml, netplan, results, machine, memory, world, history>>

\* A failed fetch is logged and leaves config.yaml as it is.
SyncFails ==
  /\ pc = "sync"
  /\ pc' = "config"
  /\ UNCHANGED <<disk, machine, memory, world, history>>

\* config.Load
LoadConfig ==
  /\ pc = "config"
  /\ configYaml \in Loadable
  /\ cfg' = configYaml
  /\ pc' = IF active = Missing THEN "seed" ELSE "check"
  /\ UNCHANGED <<disk, machine, active, next, tries, world, history>>

ConfigRejected ==
  /\ pc = "config"
  /\ configYaml \notin Loadable
  /\ pc' = "halted"
  /\ UNCHANGED <<disk, machine, memory, world, history>>

\* Bug: first boot starts at the first declared segment.
SeedFirstDeclared ==
  /\ pc = "seed"
  /\ LET first == [segment |-> Declared[cfg][1], cycle |-> Declared[cfg], stopOn |-> NoSegment]
     IN  activeYaml' = first /\ active' = first
  /\ fresh' = Range(Declared[cfg])
  /\ wanted' = NoSegment
  /\ pc' = "check"
  /\ UNCHANGED <<configYaml, netplan, results, machine, cfg, next, tries, world>>

\* First boot: detect the segment, take the whole declared cycle, save --
\* before the segment is looked up in the config.
SeedActive ==
  /\ pc = "seed"
  /\ \E s \in Detectable(cfg) :
       LET first == [segment |-> s, cycle |-> Declared[cfg], stopOn |-> NoSegment]
       IN  activeYaml' = first /\ active' = first
  /\ fresh' = Range(Declared[cfg])
  /\ wanted' = NoSegment
  /\ pc' = "check"
  /\ UNCHANGED <<configYaml, netplan, results, machine, cfg, next, tries, world>>

ActiveUndeclared ==
  /\ pc = "check"
  /\ ~IsDeclared(cfg, active.segment)
  /\ pc' = "halted"
  /\ UNCHANGED <<disk, machine, memory, world, history>>

\* Bug: a result file that exists is kept.
CheckKeepsFirst ==
  LET s == active.segment IN
  /\ pc = "check"
  /\ IsDeclared(cfg, s)
  /\ results' = [results EXCEPT ![s] = IF @ = NoResult THEN Carries(live) ELSE @]
  /\ fresh' = IF s = UpdateSegment THEN {s} ELSE fresh \cup {s}
  /\ pc' = IF s = UpdateSegment /\ cfg \in Reporting THEN "report" ELSE "park"
  /\ UNCHANGED <<activeYaml, configYaml, netplan, machine, memory, world, wanted>>

\* checks.Run, on the update segment applyUpdateCheck, and state.SaveResult.
\* Passed or failed, the result is recorded and the run goes on -- if the
\* update check returns.
Check ==
  LET s == active.segment IN
  /\ pc = "check"
  /\ IsDeclared(cfg, s)
  /\ results' = [results EXCEPT ![s] = Carries(live)]
  /\ fresh' = IF s = UpdateSegment THEN {s} ELSE fresh \cup {s}
  /\ pc' = IF s = UpdateSegment /\ cfg \in Reporting THEN "report" ELSE "park"
  /\ UNCHANGED <<activeYaml, configYaml, netplan, machine, memory, world, wanted>>

\* On the update segment the check for an update runs git and go build, which
\* have no timeout, and neither has the unit: a run they hang in saves nothing
\* and goes nowhere until the box is rebooted from outside.
UpdateHangs ==
  /\ pc = "check"
  /\ IsDeclared(cfg, active.segment)
  /\ active.segment = UpdateSegment
  /\ pc' = "hung"
  /\ UNCHANGED <<disk, machine, memory, world, history>>

\* report.Push and PushInflux send every result file there is, those of
\* earlier laps included.
ReportSucceeds ==
  /\ pc = "report"
  /\ Online(cfg)
  /\ collector' = [s \in Name |-> IF results[s] = NoResult THEN collector[s] ELSE results[s]]
  /\ pc' = "park"
  /\ UNCHANGED <<disk, machine, memory, repo, crashes, history>>

ReportFails ==
  /\ pc = "report"
  /\ pc' = "park"
  /\ UNCHANGED <<disk, machine, memory, world, history>>

\* stopOn names the active segment: stay here, do not advance or reboot.
ParkHere ==
  /\ pc = "park"
  /\ active.stopOn = active.segment
  /\ pc' = "parked"
  /\ UNCHANGED <<disk, machine, memory, world, history>>

\* Bug: fetch the config for the next boot before leaving.
GoOnAndSync ==
  /\ pc = "park"
  /\ active.stopOn # active.segment
  /\ configYaml' = IF Online(cfg) THEN repo ELSE configYaml
  /\ next' = active.segment
  /\ tries' = 0
  /\ pc' = "advance"
  /\ UNCHANGED <<activeYaml, netplan, results, machine, active, cfg, world, history>>

\* Bug: the search starts at the head of the cycle.
GoOnFromHead ==
  /\ pc = "park"
  /\ active.stopOn # active.segment
  /\ next' = active.cycle[1]
  /\ tries' = 0
  /\ pc' = "advance"
  /\ UNCHANGED <<disk, machine, active, cfg, world, history>>

\* Any other stopOn: look for the segment to boot into next.
GoOn ==
  /\ pc = "park"
  /\ active.stopOn # active.segment
  /\ next' = active.segment
  /\ tries' = 0
  /\ pc' = "advance"
  /\ UNCHANGED <<disk, machine, active, cfg, world, history>>

-----------------------------------------------------------------------------
(* advanceToResolvable: one action per candidate.  next is its cursor.     *)

MaySearch == pc = "advance" /\ tries < Len(active.cycle)

HasSuccessor == next \in Range(active.cycle)

\* Bug: the cursor moves before and after a candidate is tried.
CandidateAfterNext == NextInCycle(active.cycle, NextInCycle(active.cycle, next))

Candidate == NextInCycle(active.cycle, next)

\* state.Active.Next panics: the active segment is not in its own cycle.
NextPanics ==
  /\ MaySearch
  /\ ~HasSuccessor
  /\ pc' = "halted"
  /\ UNCHANGED <<disk, machine, memory, world, history>>

CandidateUndeclared ==
  /\ MaySearch /\ HasSuccessor
  /\ ~IsDeclared(cfg, Candidate)
  /\ pc' = "halted"
  /\ UNCHANGED <<disk, machine, memory, world, history>>

\* Bug: the search returns the zero value for the name.
TakeNothing ==
  /\ MaySearch /\ HasSuccessor
  /\ IsDeclared(cfg, Candidate)
  /\ Resolves(cfg, Candidate)
  /\ next' = NoSegment
  /\ pc' = "write"
  /\ UNCHANGED <<disk, machine, active, cfg, tries, world, history>>

\* Bug: active.yaml moves on before the netplan is written.
TakeAndSave ==
  /\ MaySearch /\ HasSuccessor
  /\ IsDeclared(cfg, Candidate)
  /\ Resolves(cfg, Candidate)
  /\ next' = Candidate
  /\ activeYaml' = [active EXCEPT !.segment = Candidate]
  /\ pc' = "write"
  /\ UNCHANGED <<configYaml, netplan, results, machine, active, cfg, tries, world, history>>

\* The candidate's interface is there: it is the next segment.
TakeCandidate ==
  /\ MaySearch /\ HasSuccessor
  /\ IsDeclared(cfg, Candidate)
  /\ Resolves(cfg, Candidate)
  /\ next' = Candidate
  /\ pc' = "write"
  /\ UNCHANGED <<disk, machine, active, cfg, tries, world, history>>

\* Bug, once real: an unresolvable interface ends the run.
SkipIsFatal ==
  /\ MaySearch /\ HasSuccessor
  /\ IsDeclared(cfg, Candidate)
  /\ ~Resolves(cfg, Candidate)
  /\ pc' = "halted"
  /\ UNCHANGED <<disk, machine, memory, world, history>>

\* Bug: a skipped segment leaves no result.
SkipSilently ==
  /\ MaySearch /\ HasSuccessor
  /\ IsDeclared(cfg, Candidate)
  /\ ~Resolves(cfg, Candidate)
  /\ next' = Candidate
  /\ tries' = tries + 1
  /\ UNCHANGED <<disk, machine, pc, active, cfg, world, history>>

\* Bug: the search goes on from where it started.
SkipInPlace ==
  /\ MaySearch /\ HasSuccessor
  /\ IsDeclared(cfg, Candidate)
  /\ ~Resolves(cfg, Candidate)
  /\ results' = [results EXCEPT ![Candidate] = Skipped]
  /\ fresh' = fresh \cup {Candidate}
  /\ tries' = tries + 1
  /\ UNCHANGED <<activeYaml, configYaml, netplan, machine, pc, active, cfg, next, world, wanted>>

\* A missing radio: record a failed "interface" result for the segment and
\* look further.  A failure to save that result is only logged.
SkipCandidate ==
  /\ MaySearch /\ HasSuccessor
  /\ IsDeclared(cfg, Candidate)
  /\ ~Resolves(cfg, Candidate)
  /\ \/ /\ results' = [results EXCEPT ![Candidate] = Skipped]
        /\ fresh' = fresh \cup {Candidate}
     \/ /\ "skipSave" \in Faults
        /\ UNCHANGED <<results, fresh>>
  /\ next' = Candidate
  /\ tries' = tries + 1
  /\ UNCHANGED <<activeYaml, configYaml, netplan, machine, pc, active, cfg, world, wanted>>

\* A full lap without a usable interface.
NoneResolvable ==
  /\ pc = "advance"
  /\ tries >= Len(active.cycle)
  /\ pc' = "halted"
  /\ UNCHANGED <<disk, machine, memory, world, history>>

-----------------------------------------------------------------------------
(* Advancing: two files, written one after the other.                      *)

\* netplan.Write, as far as the next boot can tell: the NetplanWrite module
\* opens it up.
WriteNetplan ==
  /\ pc = "write"
  /\ netplan' = next
  /\ pc' = "save"
  /\ UNCHANGED <<activeYaml, configYaml, results, machine, memory, world, history>>

\* state.SaveActive with the cycle and stopOn this run loaded at its start.
\* With -no-reboot the run ends here.
AdvanceActive ==
  /\ pc = "save"
  /\ activeYaml' = [active EXCEPT !.segment = next]
  /\ pc' = "delay"
  /\ UNCHANGED <<configYaml, netplan, results, machine, memory, world, history>>

\* Any file operation whose error run() returns.  The writes are a temporary
\* file and a rename: one that fails leaves the old content.  In "delay" it
\* is `systemctl reboot` that fails.
IoFails ==
  /\ "io" \in Faults
  /\ pc \in {"load", "config", "seed", "check", "write", "save", "delay"}
  /\ pc' = "halted"
  /\ UNCHANGED <<disk, machine, memory, world, history>>

-----------------------------------------------------------------------------
(* Boots, the operator and the world.                                      *)

\* The files stay, everything else starts over: the netplan on disk becomes
\* the live network, and each radio comes up or not.
Boot ==
  /\ live' = netplan
  /\ outage' \in Outages
  /\ pc' = "load"
  /\ active' = Missing
  /\ cfg' = NoConfig
  /\ next' = NoSegment
  /\ tries' = 0
  /\ UNCHANGED <<disk, repo, collector, history>>

\* The delay is over and the unit runs `systemctl reboot`.
Reboot == pc = "delay" /\ Boot /\ UNCHANGED crashes

\* Power loss at any point of any run.
Crash == crashes < MaxCrashes /\ Boot /\ crashes' = crashes + 1

\* Nothing restarts a parked or failed unit: Type=oneshot, no Restart=.  Nor
\* one that hangs.
OperatorReboot == pc \in {"parked", "halted", "hung"} /\ Boot /\ UNCHANGED crashes

\* Hand edit of active.yaml "while the cycle is already running".
EditStopOn ==
  /\ pc \in OperatorPoints
  /\ activeYaml # Missing
  /\ \E s \in StopOnChoices :
       /\ activeYaml' = [activeYaml EXCEPT !.stopOn = s]
       /\ wanted' = s
  /\ UNCHANGED <<configYaml, netplan, results, machine, pc, memory, world, fresh>>

\* The state directory is lost.
WipeState ==
  /\ "wipe" \in Faults
  /\ pc \in OperatorPoints
  /\ activeYaml # Missing
  /\ activeYaml' = Missing
  /\ results' = [s \in Name |-> NoResult]
  /\ wanted' = NoSegment
  /\ UNCHANGED <<configYaml, netplan, machine, pc, memory, world, fresh>>

\* A commit to the config repo.
Commit ==
  /\ repo' \in Config \ {repo}
  /\ UNCHANGED <<disk, machine, pc, memory, collector, crashes, history>>

-----------------------------------------------------------------------------

\* cloud-init leaves the box on UpdateSegment with some config.yaml.
Init ==
  /\ activeYaml = Missing
  /\ configYaml \in Config
  /\ netplan = Initial
  /\ results = [s \in Name |-> NoResult]
  /\ live = Initial
  /\ outage \in Outages
  /\ pc = "load"
  /\ active = Missing
  /\ cfg = NoConfig
  /\ next = NoSegment
  /\ tries = 0
  /\ repo \in Config
  /\ collector = [s \in Name |-> NoResult]
  /\ crashes = 0
  /\ fresh = {}
  /\ wanted = NoSegment

Prepare == LoadActive \/ SyncSucceeds \/ SyncFails \/ LoadConfig
              \/ ConfigRejected \/ SeedActive

Test == ActiveUndeclared \/ Check \/ ReportSucceeds \/ ReportFails
           \/ ParkHere \/ GoOn

Advance == NextPanics \/ CandidateUndeclared \/ TakeCandidate
              \/ SkipCandidate \/ NoneResolvable
              \/ WriteNetplan \/ AdvanceActive

Step == Prepare \/ Test \/ Advance

Next ==
  \/ Step \/ UpdateHangs \/ IoFails
  \/ Reboot \/ Crash \/ OperatorReboot
  \/ EditStopOn \/ WipeState \/ Commit

Spec == Init /\ [][Next]_vars

-----------------------------------------------------------------------------
(* Safety.                                                                 *)

\* Premises on the constants that some of the properties need.

\* No commit drops the update segment.
UpdateAlwaysDeclared == \A c \in Loadable : UpdateSegment \in Range(Declared[c])

\* No config has two segments of one name.
NoDuplicates == \A c \in Loadable : IsInjective(Declared[c])

\* Commits are valid and leave the set of segments alone.
SegmentsKept ==
  /\ Loadable = Config
  /\ \A c, d \in Config : Range(Declared[c]) = Range(Declared[d])

\* Segments some config carries over a radio.
EverWireless == UNION {Wireless[c] : c \in Config}

\* The operator touches the state directory only while the unit's run has
\* nothing left to write.
OperatorWaits == OperatorPoints \subseteq {"delay", "parked", "halted"}

\* What the run has in memory by the time it needs it.
MemoryOK ==
  /\ pc \in {"check", "report", "park", "advance", "write", "save"} => active \in Active
  /\ pc \in {"seed", "check", "report", "park", "advance", "write", "save"}
       => cfg \in Loadable
  /\ pc \in {"advance", "write", "save"} => next \in Name

\* The type invariant, inductive together with what the run relies on.
TypeInv == TypeOK /\ MemoryOK

Seeded == activeYaml # Missing

\* The active segment is always an element of its own cycle, on disk and in
\* the run's memory, and so is the cursor of a search: state.Active.Next
\* never panics.  Holds when no config drops the update segment, on which
\* run() falls back when detection fails.
ActiveInCycle ==
  /\ Seeded => activeYaml.segment \in Range(activeYaml.cycle)
  /\ active # Missing => active.segment \in Range(active.cycle)
  /\ pc \in {"advance", "write", "save"} => next \in Range(active.cycle)

\* "A dead/missing wifi radio shouldn't wedge the entire reboot cycle": as
\* long as commits leave the set of segments alone and the update segment is
\* wired, no sequence of outages, crashes, wipes and edits ends in a box that
\* sits in a failed unit.  A run that hangs has not failed: see GitReturns.
NeverHalted == pc # "halted"

\* However often power is lost between the two writes of an advance, and
\* even if detection was wrong, from the first advance on the netplan on disk
\* is the active segment's or that of a segment one advance away: the pair
\* never drifts apart by more.
NetplanOneAdvanceAhead ==
  Seeded /\ netplan # Initial =>
            \/ netplan = activeYaml.segment
            \/ HopsTo(activeYaml.cycle, activeYaml.segment, netplan, EverWireless)

\* A result of a segment that was measured on another one's network.
Misattributed(outcome, s) == outcome \notin {s, Skipped, NoResult}

\* Segments a first boot may be named after: those detection cannot tell
\* from the update segment or from the native one beside it.
NamedOnFirstBoot(s) ==
  \E c \in Loadable : IfaceName[s] \in {IfaceName[t] : t \in {UpdateSegment} \cup Native[c]}

\* No result, on disk or with the report target, is of a network further
\* away than the crash that misfiled it can explain: the first boot names the
\* update segment's, and only after a power loss or a failed file operation
\* is one filed under the segment it was one advance ahead of.
MisfiledIsNear ==
  \A s \in Name : \A outcome \in {results[s], collector[s]} :
    Misattributed(outcome, s) =>
      \/ outcome = UpdateSegment /\ NamedOnFirstBoot(s)
      \/ /\ crashes > 0 \/ "io" \in Faults
         /\ HopsTo(activeYaml.cycle, s, outcome, EverWireless)

\* The stopOn the operator asked for is what active.yaml says, across
\* advances and crashes: no write of run() undoes the edit.
StopOnKept == Seeded => activeYaml.stopOn = wanted

\* Why: from load to save, memory and file agree.
MemoryIsFile ==
  pc \in {"sync", "config", "seed", "check", "report", "park", "advance",
          "write", "save"} => active = activeYaml

\* A bad commit can be taken back by a commit: whenever the config.yaml on
\* disk is one config.Load rejects, the next boot comes up on the update
\* segment with its route to the repo, and syncs before it loads.
BadCommitRecoverable ==
  configYaml \notin Loadable =>
    /\ Carries(netplan) = UpdateSegment
    /\ Seeded => activeYaml.segment = UpdateSegment

\* Why: a run that has loaded its config is past the sync, only a run that
\* booted on the update segment syncs, and the netplan stays what the box
\* booted with until the config has been loaded.
SyncInv ==
  /\ BadCommitRecoverable
  /\ configYaml \notin Loadable => pc \in {"load", "sync", "config", "halted"}
  /\ pc \in {"load", "sync", "config", "seed", "check", "report", "park",
             "advance", "write"} => netplan = live
  /\ pc = "sync" /\ Seeded => activeYaml.segment = UpdateSegment

\* A failed box can be repaired by a commit: it sits on the update segment.
HaltedWhereCommitsReach == pc = "halted" => Carries(netplan) = UpdateSegment

\* When the cycle comes back to the update segment, which is where results
\* are reported, every segment of the cycle has been recorded since it was
\* there last.
LapComplete ==
  [][ (/\ Seeded /\ activeYaml.segment # UpdateSegment
       /\ Seeded' /\ activeYaml'.segment = UpdateSegment)
      => Range(activeYaml.cycle) \subseteq fresh ]_vars

\* advanceToResolvable comes back to the active segment last: what this boot
\* measured there is replaced by a failed "interface" result only when every
\* segment of the cycle has one.
MeasurementKept ==
  [][ (/\ pc = "advance"
       /\ results[active.segment] # Skipped
       /\ results'[active.segment] = Skipped)
      => \A t \in Range(active.cycle) : results'[t] = Skipped ]_vars

\* What advanceToResolvable returns: the nearest segment ahead whose interface
\* is there in this boot, or an error when the cycle has none, the active
\* segment included.
Unresolvable == {s \in Name : ~Resolves(cfg, s)}

NearestResolvable ==
  /\ pc \in {"write", "save"} =>
       /\ Resolves(cfg, next)
       /\ HopsTo(active.cycle, active.segment, next, Unresolvable)
  /\ pc = "advance" /\ tries = Len(active.cycle) =>
       Range(active.cycle) \subseteq Unresolvable

-----------------------------------------------------------------------------
(* Why the properties of the cycle hold, as inductive invariants.          *)

\* Every cycle is one that some config declared.
CyclesDeclared ==
  LET cycles == {Declared[c] : c \in Loadable}
  IN  /\ Seeded => activeYaml.cycle \in cycles
      /\ active # Missing => active.cycle \in cycles

\* A search has walked `tries` places ahead, all of them over segments that
\* are in S, and found one that is reached over such segments only.
SearchedOver(S) ==
  LET Place(k) == Ahead(active.cycle, active.segment, k) IN
  /\ pc = "advance" =>
       /\ tries <= Len(active.cycle)
       /\ next = Place(tries)
       /\ \A j \in 1 .. tries : Place(j) \in S
  /\ pc \in {"write", "save"} => HopsTo(active.cycle, active.segment, next, S)

SearchInv == SearchedOver(EverWireless)

\* There is an active.yaml before the first netplan is written, and the
\* netplan is written before active.yaml moves on.
NetplanInv ==
  /\ NetplanOneAdvanceAhead
  /\ ~Seeded => netplan = Initial
  /\ pc = "seed" => active = Missing
  /\ pc = "save" => netplan = next

\* The box runs on the netplan it booted with; that is the active segment's,
\* unless this is the first boot or an advance was cut in two.
MisfiledInv ==
  /\ MisfiledIsNear
  /\ ~Seeded => \A s \in Name : results[s] = NoResult /\ collector[s] = NoResult
  /\ Seeded /\ netplan = Initial =>
       activeYaml.segment = UpdateSegment \/ NamedOnFirstBoot(activeYaml.segment)
  /\ /\ crashes = 0 /\ "io" \notin Faults
     /\ Seeded /\ netplan # Initial /\ pc # "save"
     => netplan = activeYaml.segment

\* A search only walks over what does not resolve.
NearestInv ==
  /\ SearchedOver(Unresolvable)
  /\ pc \in {"write", "save"} => Resolves(cfg, next)

\* What a search has walked over is skipped.
SkippedInv == SearchedOver({s \in Name : results[s] = Skipped})

\* A segment is left, and one is skipped, only with a result.
FreshInv ==
  /\ pc = "seed" => active = Missing
  /\ pc \in {"report", "park", "advance", "write", "save"} => active.segment \in fresh
  /\ SearchedOver(fresh)

\* From the update segment up to the active one, every segment is recorded.
LapInv ==
  Seeded =>
    \E k \in 0 .. Len(activeYaml.cycle) - 1 :
      /\ activeYaml.segment = Ahead(activeYaml.cycle, UpdateSegment, k)
      /\ \A j \in 0 .. k - 1 : Ahead(activeYaml.cycle, UpdateSegment, j) \in fresh

-----------------------------------------------------------------------------
(* Refinement.                                                             *)

\* The implementation relation: files and history are an abstract cycle.
Abstract == INSTANCE SegmentCycle WITH
  at <- IF Seeded THEN activeYaml.segment ELSE NoSegment,
  cycle <- IF Seeded THEN activeYaml.cycle ELSE <<>>,
  Nowhere <- NoSegment

\* Each step of the box is a step of the abstract cycle or invisible in it.
ImplementsSegmentCycle == Abstract!Spec

-----------------------------------------------------------------------------
(* Liveness.                                                               *)

\* A skip of s that leaves the result it should.
SkipRecorded(s) == SkipCandidate /\ Candidate = s /\ results'[s] = Skipped

\* The run keeps going and the reboot it asks for happens: all it waits for
\* has a timeout, except the update check, which may go to UpdateHangs
\* instead.  A fetch, a push and a save that are tried again and again get
\* through some time.  No fairness for hangs, crashes, commits and the operator.
Fairness ==
  /\ WF_vars(Step)
  /\ WF_vars(Reboot)
  /\ SF_vars(SyncSucceeds)
  /\ SF_vars(ReportSucceeds)
  /\ \A s \in EverWireless : SF_vars(SkipRecorded(s))

FairSpec == Spec /\ Fairness

\* git and go build return, from some time on.
GitReturns == <>[](pc # "hung")

\* Every wired segment is booted into and checked over and over, whatever
\* radios do: no segment of the cycle starves, unless git hangs again and
\* again on the update segment.
WiredSegmentsTested ==
  GitReturns =>
    \A s \in Name \ EverWireless :
      []<>(pc = "check" /\ active.segment = s /\ Carries(live) = s)

\* A result measured on another segment's network, left by a crash between
\* the two writes, does not stay with the report target forever, as git does
\* not keep the run from testing and reporting.
MisattributionHeals ==
  GitReturns =>
    \A s \in Name : Misattributed(collector[s], s) ~> ~Misattributed(collector[s], s)

\* A commit that is the repo's last reaches config.yaml.  Every run on the
\* update segment syncs before git can hang, but one that a torn advance left
\* on another segment's network cannot, and must get on to the next lap.
LastCommitArrives ==
  GitReturns => \A c \in Config : <>[](repo = c) => <>[](configYaml = c)
=============================================================================
