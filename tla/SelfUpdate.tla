----------------------------- MODULE SelfUpdate -----------------------------
(***************************************************************************)
(* How a commit of the software repo gets onto a box: cloud-init's one-time *)
(* bootstrap script, selfupdate.CheckAndApply on every visit to the update *)
(* segment, and `mseg-tester deploy`, which both end in and an operator    *)
(* may run.  They share a checkout, the binary and its systemd unit.  git  *)
(* and go may hang, and a power loss inside git may leave the checkout in  *)
(* a state git refuses.                                                    *)
(* Boots into other segments touch none of it and are left out.            *)
(***************************************************************************)
EXTENDS Naturals

CONSTANTS
  Revision,   \* commits of the software repo
  Buildable,  \* those `go build` accepts
  Unstamped,  \* those whose build carries no VCS revision
  CrashIn,    \* the callers during which power may be lost
  FailIn,     \* the callers whose file and systemctl operations may fail
  MaxEvents,  \* bound on power losses and deploys by hand
  NoFile,
  Broken      \* a checkout git refuses: half a clone, or a lock file left in it

Caller == {"bootstrap", "update", "hand"}

PC == {"clone", "fetch", "compare", "build", "replace", "unit", "enable",
       "done", "dead", "hung"}

ASSUME RevisionAssumption ==
  /\ Buildable \subseteq Revision /\ Unstamped \subseteq Revision
  /\ NoFile \notin Revision /\ Broken \notin Revision \cup {NoFile}
  /\ CrashIn \cup FailIn \subseteq Caller
  /\ MaxEvents \in Nat

VARIABLES
  remote,    \* the commit softwareRef names
  checkout,  \* HEAD of /mseg-tester/src, or NoFile, or Broken
  binary,    \* the commit /usr/local/bin/mseg-tester was built from, or NoFile
  unit,      \* the commit whose unit file systemd has, or NoFile
  enabled,   \* whether systemd starts it at boot
  caller,    \* who is at work in this boot
  pc,
  running,   \* the commit the running `mseg-tester run` was built from
  built,     \* the commit the executable about to be installed is built from
  updated,   \* the visit's Result.Updated
  events

disk == <<checkout, binary, unit, enabled>>
vars == <<remote, disk, caller, pc, running, built, updated, events>>

TypeOK ==
  /\ remote \in Revision
  /\ checkout \in Revision \cup {NoFile, Broken}
  /\ binary \in Revision \cup {NoFile} /\ unit \in Revision \cup {NoFile}
  /\ running \in Revision \cup {NoFile} /\ built \in Revision \cup {NoFile}
  /\ enabled \in BOOLEAN /\ updated \in BOOLEAN
  /\ caller \in Caller
  /\ pc \in PC
  /\ pc \in {"replace", "unit", "enable"} => built \in Revision
  /\ pc \in {"compare", "build"} => checkout \in Revision
  /\ events \in 0 .. MaxEvents

-----------------------------------------------------------------------------
(* Boot.                                                                   *)

\* mseg-tester-bootstrap.service has ConditionPathExists=!<the binary>;
\* mseg-tester.service starts if it is there and enabled.
Boot ==
  /\ caller' = IF binary = NoFile THEN "bootstrap" ELSE "update"
  /\ pc' = IF binary = NoFile \/ (unit # NoFile /\ enabled) THEN "clone" ELSE "dead"
  /\ running' = binary
  /\ built' = NoFile
  /\ updated' = FALSE
  /\ UNCHANGED <<remote, binary, unit, enabled>>

\* The script and run() both end in a reboot.
Reboot == pc = "done" /\ Boot /\ UNCHANGED <<checkout, events>>

\* What a power loss leaves of the checkout.  git is at work in a clone that
\* has something to do and in a fetch, and has it done, undone, or half done:
\* .git without its origin, or shallow.lock or index.lock still there.
Interrupted ==
  IF \/ pc = "clone" /\ checkout = NoFile
     \/ pc \in {"fetch", "hung"} /\ checkout # Broken
  THEN {checkout, remote, Broken} ELSE {checkout}

Crash ==
  /\ caller \in CrashIn
  /\ events < MaxEvents /\ events' = events + 1
  /\ checkout' \in Interrupted
  /\ Boot

\* Nothing but someone at the power switch ends a command that hangs.
SwitchOff ==
  /\ pc = "hung"
  /\ checkout' \in Interrupted
  /\ Boot
  /\ UNCHANGED events

\* And nothing else mends a checkout git refuses: CheckAndApply clones anew
\* "in case srcDir was ever removed by hand".
RemoveCheckout ==
  /\ pc \in {"clone", "done", "dead"}
  /\ checkout = Broken
  /\ checkout' = NoFile
  /\ UNCHANGED <<remote, binary, unit, enabled, caller, pc, running, built, updated, events>>

\* A commit is pushed to softwareRef.
Push == remote' \in Revision \ {remote} /\ UNCHANGED <<disk, caller, pc, running, built, updated, events>>

-----------------------------------------------------------------------------
(* checkAndApply, and the same steps in the bootstrap script.              *)

\* The clone is made once: any .git will do.
Clone ==
  /\ pc = "clone"
  /\ checkout' = IF checkout = NoFile THEN remote ELSE checkout
  /\ pc' = "fetch"
  /\ UNCHANGED <<remote, binary, unit, enabled, caller, running, built, updated, events>>

\* Bug: nothing to do if the fetch brings nothing new.
FetchNothingNew ==
  /\ pc = "fetch"
  /\ checkout # Broken
  /\ checkout' = remote
  /\ pc' = IF checkout = remote /\ caller = "update" THEN "done" ELSE "compare"
  /\ UNCHANGED <<remote, binary, unit, enabled, caller, running, built, updated, events>>

\* `git fetch` and `git reset --hard`.
Fetch ==
  /\ pc = "fetch"
  /\ checkout # Broken
  /\ checkout' = remote
  /\ pc' = "compare"
  /\ UNCHANGED <<remote, binary, unit, enabled, caller, running, built, updated, events>>

\* Bug: compare the full commit with an abbreviated one.
NeverUpToDate == FALSE

UpToDate == caller = "update" /\ running \notin Unstamped /\ running = checkout

Compare ==
  /\ pc = "compare"
  /\ pc' = IF UpToDate THEN "done" ELSE "build"
  /\ UNCHANGED <<remote, disk, caller, running, built, updated, events>>

\* Bug: the path of the built executable is not set.
BuildNowhere ==
  /\ pc = "build"
  /\ checkout \in Buildable
  /\ pc' = "replace"
  /\ UNCHANGED <<remote, disk, caller, running, built, updated, events>>

Build ==
  /\ pc = "build"
  /\ checkout \in Buildable
  /\ built' = checkout
  /\ pc' = "replace"
  /\ UNCHANGED <<remote, disk, caller, running, updated, events>>

\* Bug: the binary alone makes an update.
ReplaceIsAll ==
  /\ pc = "replace"
  /\ binary' = built
  /\ updated' = (caller = "update")
  /\ pc' = IF caller = "update" THEN "done" ELSE "unit"
  /\ UNCHANGED <<remote, checkout, unit, enabled, caller, running, built, events>>

\* replaceSelf, the script's mv, or deploy's installSelf: a rename.
Replace ==
  /\ pc = "replace"
  /\ binary' = built
  /\ pc' = "unit"
  /\ UNCHANGED <<remote, checkout, unit, enabled, caller, running, built, updated, events>>

-----------------------------------------------------------------------------
(* `deploy`, run by the executable just installed.  installSelf finds it   *)
(* is there already.                                                       *)

\* Bug: the unit is disabled while its file changes.
WriteUnitDisabled ==
  /\ pc = "unit"
  /\ unit' = built
  /\ enabled' = FALSE
  /\ pc' = "enable"
  /\ UNCHANGED <<remote, checkout, binary, caller, running, built, updated, events>>

WriteUnit ==
  /\ pc = "unit"
  /\ unit' = built
  /\ pc' = "enable"
  /\ UNCHANGED <<remote, checkout, binary, enabled, caller, running, built, updated, events>>

\* systemctl daemon-reload and enable.
Enable ==
  /\ pc = "enable"
  /\ enabled' = TRUE
  /\ updated' = (caller = "update")
  /\ pc' = "done"
  /\ UNCHANGED <<remote, checkout, binary, unit, caller, running, built, events>>

\* An operator deploys an executable built elsewhere, while the unit waits
\* for its reboot or on a box where nothing runs, and reboots it.
DeployByHand ==
  /\ pc = "dead" \/ (pc = "done" /\ caller = "update")
  /\ events < MaxEvents /\ events' = events + 1
  /\ built' \in Buildable
  /\ caller' = "hand" /\ pc' = "replace" /\ updated' = FALSE
  /\ UNCHANGED <<remote, disk, running>>

-----------------------------------------------------------------------------
(* Failures.                                                               *)

\* A build that is refused, everything that needs the network, and `git
\* rev-parse`, which the script has not.  The script tries again from the
\* start; a self-update waits for the next visit.
FetchOrBuildFails ==
  /\ pc \in {"clone", "fetch", "build"} \/ (pc = "compare" /\ caller = "update")
  /\ pc' = IF caller = "bootstrap" THEN "clone" ELSE "done"
  /\ UNCHANGED <<remote, disk, caller, running, built, updated, events>>

\* `git clone`, `git fetch` and `go build` have no timeout, and neither unit
\* has one.
CommandHangs ==
  /\ pc \in {"clone", "fetch", "build"}
  /\ pc' = "hung"
  /\ UNCHANGED <<remote, disk, caller, running, built, updated, events>>

\* A failed write or systemctl: the script is `set -e` and ends, a
\* self-update is recorded as a failed check.
InstallFails ==
  /\ caller \in FailIn
  /\ pc \in {"replace", "unit", "enable"}
  /\ pc' = IF caller = "bootstrap" THEN "dead" ELSE "done"
  /\ UNCHANGED <<remote, disk, caller, running, built, updated, events>>

-----------------------------------------------------------------------------

\* A box cloud-init has just set up.
Init ==
  /\ remote \in Revision
  /\ checkout = NoFile /\ binary = NoFile /\ unit = NoFile /\ enabled = FALSE
  /\ caller = "bootstrap" /\ pc = "clone"
  /\ running = NoFile /\ built = NoFile /\ updated = FALSE
  /\ events = 0

Step == Clone \/ Fetch \/ Compare \/ Build \/ Replace \/ WriteUnit \/ Enable

Next ==
  \/ Step \/ FetchOrBuildFails \/ InstallFails \/ CommandHangs
  \/ Reboot \/ Crash \/ SwitchOff
  \/ Push \/ DeployByHand \/ RemoveCheckout

Spec == Init /\ [][Next]_vars

\* Every command returns, with or without an error, unless it hangs, and what
\* is tried again and again -- network, disk, systemctl -- works some time.
\* Nobody has to come and switch a box off or remove its checkout.
Fairness ==
  /\ WF_vars(Step \/ FetchOrBuildFails \/ InstallFails) /\ WF_vars(Reboot)
  /\ SF_vars(Clone) /\ SF_vars(Fetch) /\ SF_vars(Compare) /\ SF_vars(Build)
  /\ SF_vars(Replace) /\ SF_vars(WriteUnit) /\ SF_vars(Enable)

FairSpec == Spec /\ Fairness

-----------------------------------------------------------------------------
(* Properties.                                                             *)

\* A result that says Updated was written by a run after which binary and
\* unit are those of the checkout.
UpdatedMeansDeployed ==
  updated => binary = checkout /\ unit = checkout /\ enabled

\* Why: from the build on, what a self-update installs is the checkout.
InstallInv ==
  /\ UpdatedMeansDeployed
  /\ updated => pc = "done"
  /\ caller = "update" /\ pc \in {"replace", "unit", "enable"} => built = checkout
  /\ pc \in {"unit", "enable"} => binary = built
  /\ pc = "enable" => unit = built

\* Once `deploy` has got through on a box, every boot starts mseg-tester,
\* whatever interrupts later updates.  (Power lost or a command failed between
\* the bootstrap script's mv and the end of its deploy leaves a box on which
\* nothing ever runs: see the README.)
OnceDeployedAlwaysStarts == [](enabled => [](pc # "dead"))

\* Why: a box with an enabled unit has all its files.
DeployInv ==
  /\ pc \in {"unit", "enable"} => binary # NoFile
  /\ pc = "enable" => unit # NoFile
  /\ enabled => binary # NoFile /\ unit # NoFile /\ pc # "dead"
  /\ enabled /\ caller = "bootstrap" => pc = "done"

\* From some time on the last push is r, and the box is in no state that only
\* somebody's hands end: a bootstrap script cut off where nothing resumes it,
\* a command that hangs, or a checkout git refuses.
LeftAloneWith(r) ==
  <>[](remote = r /\ pc \notin {"dead", "hung"} /\ checkout # Broken)

\* The last push of a build that works ends up as the box's binary, whatever
\* was pushed, interrupted or deployed by hand before.
LastPushArrives ==
  \A r \in Buildable : LeftAloneWith(r) => <>[](binary = r)

\* And then the box leaves it at that: it does not rebuild on every visit.
RebuildsStop ==
  \A r \in Buildable \ Unstamped : <>[](remote = r /\ pc # "hung") => <>[](pc # "build")

\* "Keeps mseg-tester.service current across a self-update, not just the
\* binary": once a push is the last, the unit file is its, too.
UnitFollows ==
  \A r \in Buildable : LeftAloneWith(r) => <>[](unit = r)
=============================================================================
