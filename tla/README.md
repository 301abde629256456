# mseg-tester, specified in TLA+

`mseg-tester` runs on a small box behind a trunk port. It tests one network
segment per boot: check the active segment, record the result, write the
netplan of the next segment, advance, reboot. One segment, the *update
segment*, has a route to the outside; config sync, self-update and reporting
only happen there. Nobody watches the box, so what matters is that no sequence
of power losses, missing radios, bad commits or edits by hand ends in a box
that is stuck, tests the wrong network for good, or can no longer be reached by
a commit.

`PROJECT.json` maps every definition to the lines it models and lists the runs,
the mutants that show each property can fail, the hazards and the theorems.

## 1. Inventory

| Component | State | Operations | Hard behaviour | What makes it correct |
|---|---|---|---|---|
| run loop, `cmd/mseg-tester` `run()` | the process's `active`, `cfg`, `next` | load, sync, check, record, report, advance, reboot | a power loss between any two steps; a run started by hand beside the unit's; a failing step ends the unit until someone reboots, and so does a git or go command that hangs | cycle never loses its place or a segment, never ends halted |
| `internal/state` | `active.yaml`, `<segment>.result.yaml` | LoadActive, SaveActive, Next, SaveResult, LoadAllResults | `Next` panics outside the cycle; save from a copy loaded minutes earlier; every run saves through the same temporary file | active segment in its cycle, an operator's `stopOn` kept, a save that no other meets is atomic |
| `internal/configsync` | `config.yaml` | Fetch | replaces the file before anything validates it; only possible in one segment | last commit arrives, a bad commit can be taken back |
| `internal/config` | - | Load, BySegmentName, CycleNames, defaults; the trunk, native segment and PCI devices of a config | config changes while `active.yaml` keeps the old cycle; other packages rely on what Load rejects | a lookup that fails does not strand the box; what is accepted can be tested |
| `internal/bootstrap`, `internal/envfile` | - (read only) | Load, `${VAR}` expansion | - | secrets are never written out expanded |
| `internal/checks` | - | Run: batches with retry, discoverIface, the checks | interfaces, addresses and drivers come and go during the batches, and the network changes between two queries; only the last batch is kept | what passes was measured on the segment's own interface and is evidence of one batch; what fails is broken |
| `internal/ifaces`, `internal/ifdiscover` | - | List, Find, ResolveIfName | interfaces are told apart by counting; a radio that does not come up in a boot, or late; several radios; two segments on one radio | the interface that carries the segment is found; a dead radio never stops the cycle |
| `internal/netplan` | `90-mseg-tester.yaml`, one file per segment | Render, Write | power loss between its system calls; leftovers; files that share an inode; a second run in `Write` | the file the boot reads is always a complete render |
| `internal/report` | (remote) | Push, PushInflux | sends files of any age | a wrong result does not stay with the target |
| `internal/selfupdate`, `internal/deploy` | checkout, binary, unit file | CheckAndApply, Run | power loss between two of the three, or inside git; builds that fail; commands without a timeout | the last push is built, installed, and then left alone |
| cloud-init | bootstrap unit | one-time script | power loss or a failing command inside it | the box ends up deployed |
| `cmd/verify-mseg-tester`, `internal/verifyvm`, `internal/sshrun` | on a remote host: a VM, its two snippets, the storage's content types | create, destroy, status, each a list of ssh commands | a plan stops at its first failure, a connection is lost with the command carried out or half an upload written, sessions overlap, the host reboots | "Done." is true, half a VM is never started, failures can be cleared away, other people's VMs and settings survive |
| dashboard, examples | data | | | |

How they interact: `run()` calls everything else in one goroutine, in a fixed
order. What couples the components is the disk: each boot starts from the files
the boot before left. The other actors are power (a crash at any point), the
operator (edits, reboots, runs and deploys by hand) and the two repositories.
The VM tool is a program of its own that shares `internal/config` with `run()`:
it reads the same `config.yaml` to give a VM the trunk and the cards its segments
need.

## 2. Modules

| Module | Models |
|---|---|
| `Cycles` | `state.Active.Next` and the order of the cycle, as pure operators |
| `SegmentCycle` | abstract: a box at one place of a cycle, which only moves on leaving results behind |
| `RebootCycle` | the unit's `run()` with state, config sync, reporting, boots, crashes and the operator; **implements `SegmentCycle`** |
| `AtomicFile` | abstract: a file with one complete content that changes in one step |
| `StateWrite` | `LoadActive` and `SaveActive` with `writeAtomic`, system call by system call, by several runs; **implements `AtomicFile`** |
| `NetplanWrite` | `netplan.Write` system call by system call, on directory entries and inodes, by several runs; **implements `AtomicFile`** |
| `SegmentCheck` | what netplan, networkd, radios and `ip a` make of a segment: `Render`, `checks.Run`, `ifaces.Find`, `ifdiscover`, `matchActiveSegment` |
| `SelfUpdate` | bootstrap script, `checkAndApply`, `deploy` |
| `ConfigFile` | what `config.Load` accepts and what is derived from a config, as pure operators |
| `CheckBatch` | `checks.Run`: batches and retries, the plan of checks, DNS tests and round trips in a network that changes |
| `VerifyVM` | `verify-mseg-tester create` and `destroy`, command by command |
| `RebootCycle_proofs`, `RebootLap_proofs`, `StateWrite_proofs`, `SegmentCheck_proofs`, `SelfUpdate_proofs`, `NetplanWrite_proofs`, `CheckBatch_proofs`, `VerifyVM_proofs` | the theorems |
| `MC_Lap`, `MC_Commits`, `MC_Live`, `MC_State`, `MC_Netplan`, `MC_Check`, `MC_Update`, `MC_Batch`, `MC_Vm` | values for the constants |

`Cycles` is the part of `RebootCycle` that is pure, `ConfigFile` that of
`CheckBatch` and `VerifyVM`. `RebootCycle` replaces `active.yaml` and a netplan
in one step each, which `StateWrite` and `NetplanWrite` open up, and measures
what is live, which `SegmentCheck` opens up; `SegmentCheck` takes the outcome of
a batch as one choice, which `CheckBatch` opens up.

Definitions that begin with a comment "Bug:" are what a plausible mistake in
the code would make of the definition that follows. No specification uses them;
`PROJECT.json` says which property each of them breaks.

### RebootCycle

Variables are in four groups. *Files*: `activeYaml`, `configYaml`, `netplan`
(the segment whose netplan is installed, or `Initial`, cloud-init's) and
`results`. *Machine*, fixed for a boot: `live`, the netplan that was applied, and
`outage`, the segments
whose radio did not come up. *Memory* of the run: `pc`, `active`, `cfg`,
`next`, `tries`. *World*: `repo`, `collector`, `crashes`. Two history variables,
`fresh` and `wanted`, are read by properties only.

A result is the segment that was *really* live when it was measured, or
`Skipped`: that is what lets a property say that a result filed under one name
was measured somewhere else. Whether checks pass does not steer `run()`, so it
is left out.

`pc` follows `run()` from top to bottom:

| pc | code (`main.go`) | actions |
|---|---|---|
| load | 260-283 | `LoadActive` |
| sync | 283-290 | `SyncSucceeds`, `SyncFails` |
| config | 292-295 | `LoadConfig`, `ConfigRejected` |
| seed | 299-317 | `SeedActive` |
| check | 322-362 | `ActiveUndeclared`, `Check`, `UpdateHangs` |
| hung | 357 | nothing: git or go does not return |
| report | 364-382 | `ReportSucceeds`, `ReportFails` |
| park | 392-397 | `ParkHere`, `GoOn` |
| advance | 508-531 | `NextPanics`, `CandidateUndeclared`, `TakeCandidate`, `SkipCandidate`, `NoneResolvable`; one action per turn of the loop |
| write | 409-415 | `WriteNetplan` |
| save | 421-429 | `AdvanceActive` |
| delay | 446-463 | `Reboot` |

An error `run()` returns goes to `halted` (`ConfigRejected`, ..., `IoFails`): the
unit is `Type=oneshot` without `Restart=`, so only an `OperatorReboot` or a
power loss starts it again. `Boot` copies `netplan` to `live`, forgets all memory
and chooses the radios that come up. On the update segment the update check may
never return (`UpdateHangs`): `git` and `go` run without a timeout
(`selfupdate.go:57-109`), and neither has the unit one. Then, too, only someone at
the power switch goes on.

The run is the unit's, one per boot. A run started by hand beside it (`run
-no-reboot`) is not in this module: its writes go through the same temporary
files as the unit's, so no save or netplan could be one step. `StateWrite` and
`NetplanWrite` have both runs and say what is left of their promises.

Detection on first boot (`Detectable`) may return the first declared segment on
an interface that can have an address, or the fallback: the model leaves open
which of them have one. Under a netplan the binary wrote that is one interface
only; under cloud-init's it is also the bare trunk (`Addressable`; `SegmentCheck`
shows why), so a native segment may be named by mistake and the cycle be seeded
there.

Each file is replaced in one step, because the code writes a temporary file and
renames it. `StateWrite` and `NetplanWrite` justify this, for a run that meets no
other. `Faults` says what else may go wrong: `"io"`, a write fails; `"wipe"`, the
state directory is emptied; `"skipSave"`, the result of a skipped segment is not
saved.

### StateWrite

Two directory entries, `active.yaml` and `active.yaml.tmp`, inodes, and what is in
them: a content somebody saved, `Empty` after an open with `O_TRUNC`, `Torn` after a
failed write or two writes to one inode. Each run loads, and saves once or
twice: open, write, rename. Any number of them are at it. The second to open
empties the file the first has open or is about to rename; the first to rename
takes it away from the second, which may still have the inode open and writes
into `active.yaml` itself. An error ends the run (`failed`), as it ends `run()`. An
empty file is read as an `Active` without a segment, which no config declares,
so a run fails on it, too; a torn one may be read as anything.

`overlap` says whether any two saves have been between open and rename at a time,
`met` which runs are affected; both are history. From the first overlap on the
atomic file is void (`ImplementsAtomicFile`), as the code does nothing to keep
it. What holds nevertheless, at any later time, is about a save that meets
no other: it installs its content (`LoneSaveInstalls`) and its rename is not
refused (`LoneRunGoesOn`). An empty `active.yaml` is not mended by that, as no run
gets past loading it. These properties, and what `NetplanWrite` says of a `Write`
that is alone, are what `RebootCycle`'s one-step writes rest on.

### NetplanWrite

`dir` maps directory entries to inodes, `content` inodes to a render, `Partial`
or nothing. `rename(2)`, `link(2)`, `O_TRUNC` and freeing of inodes that are
neither linked nor open are modelled, as it is exactly the sharing of an inode
between the installed file, a segment's own file and a stale link that could go
wrong. A render is a record of a segment and a *variant* (what else it depends
on). A crash leaves the directory as it is: the model assumes that the file
system does not persist a rename before the data it names, as ext4 does for a
rename over an existing file; the code does not call fsync.

Nothing keeps a run started by hand out of `Write`, so there are several
writers. The history variable `overlap` says what has met in `Write` so far:
`"none"`; `"segments"`, writers of different segments, until they are out again;
`"file"`, writers of one segment, which share its temporary file, and from then on
whatever they left. Properties are as strong as each of the three allows: the
segment files and the atomic change of the netplan survive writers of different
segments (`AtomicFile` gets the set of what is asked for, and `void` once one
segment was written twice at a time), a failure-free `Write` needs to be alone,
and that there is *some* netplan file (`PathStays`) holds always. Two runs that meet
may be refused by each other (EEXIST, ENOENT), which ends a run with an error:
that is `Refused` and `CallFails` here, and why `RebootCycle` has one run only.

### SegmentCheck

`RebootCycle` takes for granted that checks measure whatever is live. This
module opens that up for one segment after the other. A netplan is reduced to
what it does to addresses: the interface that is the segment's `own`, those it
`brings` up, those with `dhcp` and those with `ra` (accept-ra). `Render` is the
binary's, `InitialPlan` cloud-init's. In the boot after, the environment acts in
any order: networkd brings interfaces up (`BringUp`), carriers come and go
(`GainCarrier`, `LoseCarrier`), DHCP servers and routers answer (`Lease`,
`Advertise`), radios bind late (`Bind`) and are brought up for a scan (`Scan`).
Meanwhile `Attempt` is one batch of checks: `Discover` picks the interface, by
counting those that are UP and LOWER_UP (wired) or by resolving the radio anew
(wifi); the batch may pass only if that interface has both an IPv4 and an IPv6
address, as `dhcp` and `dhcp6` are part of every batch. The other checks only
make it fail. `measured` is a history variable. The segment is the running
netplan's; the code takes the one `active.yaml` names (`main.go:322`, 347), which
is the same unless an advance was torn, and that is `RebootCycle`'s subject.

The environment keeps to three rules, which are what the code's comments say of
it: a radio that is not associated is never LOWER_UP (`ifaces.go:25-33`); only
the segment's own radio knows an access point, because netplan configures no
other; a VLAN has carrier only with its trunk. The update segment is a tagged
one, as `user-data.yaml:43-50` requires of the initial netplan. Left out: an
`ifname` on a wired segment, `optional: true`, and `activation-mode: off`, whose
effect `Scan` undoes anyway.

### SelfUpdate

One `caller` at a time (bootstrap script, self-update, operator) goes through
clone, fetch, compare, build, replace, unit, enable. What is tracked is the
commit that checkout, binary, unit file and running process each come from. A
boot starts `mseg-tester.service` if binary, unit and `enabled` are there, the
bootstrap unit if there is no binary, and otherwise nothing (`dead`). Power may
be lost during the callers in `CrashIn`, file and systemctl operations may fail
during those in `FailIn`. `git clone`, `git fetch` and `go build` may hang
(`CommandHangs`), until someone switches the box off. A power loss while git is at
work leaves the checkout old, new or `Broken`: half a clone, which counts as one
because there is a `.git`, or a lock file that makes every later fetch or reset
fail. Only `RemoveCheckout`, by hand, mends that. Boots into other segments touch
none of this and are left out.

### ConfigFile and CheckBatch

A config is a sequence of segments; text is reduced to whether a value is there
and which are equal. `Accepted` is `config.Load` without an error.

In `CheckBatch` the network is a `world`: what each server answers to forward and
reverse queries, and which of the other checks would pass. It may change at any
time, also between the two lookups of a round trip (`A-PTR`, `Hostname4`, ...),
which are two steps (`RoundTripGoesOn`, `ReverseLookup`). `todo` is what is left of
the batch, in the order of `runOnce`; `EndBatch` decides between the end and a
retry, `Retry` starts over with empty results, as `Run` does. Each boot tests one
segment (`NextRun`). `seen`, the worlds there were since the batch began, is read
by properties only.

### VerifyVM

Each `Vmid` has a session that is at one step `pc` of its plan; the host has the
VMs, the two snippets of each and the storage's content types. Each command is
an action. It may be carried out with the session going on, be carried out with
the connection lost before its status arrives (`Then`), fail (`Fails`), or be
refused by the host (`Refused`); either way the session ends and what it did
stays. A lost connection cuts an upload off, which `cat >` does not notice. The
host reboots and then starts the VMs with `onboot`; its admin edits content
types, at any time and also between a session's query and its set (`raced` has the
types changed then), and creates VMs; it does not take "snippets" away again.
`create -yes` and `destroy -yes` may be run for any VMID at any time, except
destroy for one known to be somebody else's: nothing in the tool checks whose a
VMID is. `status` only reads; a dry run does nothing.

A VM is complete (`Complete`) when it has its disk, cloud-init drive, boot order
and size, each card its config names, both snippets whole, and a trunk on which
every wired segment of `config.yaml` arrives the way the guest expects it.
`FileAssumption`: a file names no two segments alike, and the cards it names are
in the host (without one, `attachHostPCI` fails, which is `Fails`). Each VM has a
`-name` of its own.

## 3. Runs

| Run | Checks | Bounds | Result |
|---|---|---|---|
| `lap` | TypeOK, BadCommitRecoverable, LapComplete, MeasurementKept, ImplementsSegmentCycle | 4 segments, 2 sharing a radio; configs that drop one, reorder the rest and put them all on radios, are invalid, or drop all but one; I/O errors; wipes; `stopOn` edits while the run waits; 1 power loss | pass |
| `live` | NeverHalted, NetplanOneAdvanceAhead, MisfiledIsNear, WiredSegmentsTested, MisattributionHeals, LastCommitArrives | 3 segments, 2 configs, 2 power losses, hanging update checks, results of skipped segments that cannot be saved; fairness | pass |
| `state` | TypeOK, LoneRunGoesOn, LoneSaveInstalls, ImplementsAtomicFile | 3 runs, 2 contents, 5 inodes, any number of crashes and failing calls | pass |
| `stop_on` | StopOnKept | an edit while the checks run | **violated** |
| `dropped` | HaltedWhereCommitsReach | a commit that drops a segment | **violated** |
| `check` | TypeOK, PassMeansOwn, WiredFound, PinnedFound, DetectionSound | 5 segments: native, tagged, 3 wifi (by address, by name, auto) on 2 radios; 2 batches per boot; any number of boots | pass |
| `first_boot` | FreshVmUnambiguous | the same | **violated** |
| `batch` | TypeOK, PassIsEvidence, NoFalseAlarm, RunEnds | 7 segments, 3 of which Load rejects; 2 servers; 4 networks that change into each other at any time; 3 batches; any number of boots; fairness | pass |
| `netplan` | TypeOK, WrittenIsInstalled, OwnFilesComplete, LeftoversHarmless, ImplementsAtomicFile | 2 writers, 2 segments, one of them in 2 variants, 5 inodes, any number of crashes and failing calls | pass |
| `update` | TypeOK, UpdatedMeansDeployed, OnceDeployedAlwaysStarts, LastPushArrives, RebuildsStop | 3 commits: good, broken, without a VCS stamp; power losses, inside git too, and failures in all three callers; hanging commands; 3 power losses or deploys by hand; fairness | pass |
| `stale_unit` | UnitFollows | 1 power loss during a self-update; fairness | **violated** |
| `vm` | TypeOK, StartAccepted, ContentKept, DoneMeansDone, NeverStartsHalfMade, MadeInTheEnd | 2 VMIDs; 4 files, 1 of them invalid; 1 failing command, lost connection or host reboot; any number of sessions, edits and VMs of others; fairness | pass |

Why the bounds are enough. A cycle of three has a segment to come from, one to
skip and one to land on; four allow two skips in a row and a lap that starts and
ends in the middle. Boots, laps, commits, edits, wipes and outages are not
bounded at all (the state space is finite without that), only power losses are:
one tears the pair of files, a second one may hit the run that would repair it,
after which the state is one the first can already produce
(`NetplanOneAdvanceAhead` is checked with two). In `check`, two radios are
enough for one to be confused with the other and for each way to name one; two
batches have a wait in between; nothing about the environment is bounded. In
`batch`, three attempts have a first, a middle and a last one, and of two
servers either may be the one that fails; the networks differ in the ways a
check can tell: the name is renumbered, a server is down, a reverse record is
missing. In `netplan`, five inodes are the installed file's, the two segments'
and the two that are being written; the proofs hold for any number of writers,
segments and inodes. Two commits would do for `update`; the third gives a last
push something to differ from in each way. In `state`, a third run is there when
two have met: it finds what they leave, while one of them is still at work; five
inodes are the two entries' and the three files open. In `vm`, one failure is
what one plan meets before it stops; the next one starts where it left things,
which is why `MadeInTheEnd` is about any number of sessions; two VMIDs share the
storage's settings. `MaxCrashes`, `MaxEvents` and `MaxFaults` are the only
counters capped. `netplan` and `state` use symmetry on inodes and writers
(`state` on contents, too), which the specifications only compare (and check no
liveness); the other runs use none, as segments, configs and commits play
different parts.

What the passing runs show:

- `ImplementsSegmentCycle`, `LapComplete`: whatever radios, power and the
  operator do, the box only leaves a segment that has a result, for a later
  one, leaving a result for all it jumps over; back at the update segment,
  results are fresh for the whole cycle. Holds with `"skipSave" \notin Faults`:
  when saving a skipped segment's result fails, that is only logged
  (`main.go:525`).
- `NeverHalted`: with commits that leave the set of segments alone and a wired
  update segment, the unit's run never ends in a failure. A second run that meets
  its writes can make it fail (`LoneRunGoesOn`).
- `BadCommitRecoverable`: config sync replaces `config.yaml` with whatever the
  repo has, so the box can hold an invalid one, but only where it syncs again
  on its next boot. This is why sync before load, and only on the update
  segment, is right.
- `NetplanOneAdvanceAhead`: netplan and `active.yaml` are not written
  atomically, but however often power fails between the two, they are never
  more than one advance apart.
- `MisfiledIsNear`: what a result filed under a wrong name can be: the update
  segment's, from a first boot that took another segment for it, or, only after a
  power loss or a failed file operation, that of the one segment the netplan was
  ahead. Nothing older or further away is ever on disk or with the report target.
- `MeasurementKept`: a search that fails comes back to the active segment and
  writes a failed "interface" result over the one the same boot just measured
  (`main.go:520`). It does so last: every other segment is known to have no
  interface by then, and the run ends in an error.
- `MisattributionHeals`: results measured in that state under the wrong name
  leave the report target again, if git does not hang for good (`GitReturns`).
- `PassMeansOwn`, `WiredFound`, `PinnedFound`: whatever radios bind or scan,
  carriers are lost or addresses linger, counting finds a wired segment's
  interface once it has carrier, a pinned radio is found once it is there, and
  no batch passes on another interface. The dhcp check is what makes the last
  one hold under cloud-init's netplan, where the trunk has an IPv6 address too.
- `DetectionSound`: once the binary has written a netplan, detection names only
  what is live.
- `PassIsEvidence`: a passed run is evidence from one batch, for every server
  named for a test. It needs `config.Load`: an entry that is no address would be
  skipped by `resolver` and counted as passed.
- `NoFalseAlarm`, `RunEnds`: a failed run has tried the configured number of
  times, and if the network held still in the last batch, what failed is what is
  broken. It excepts a round trip for a host written without its final dot
  (section 4).
- `ImplementsAtomicFile`, `LoneSaveInstalls`, `LoneRunGoesOn` of `state`: power losses,
  failed writes and leftovers never show in `active.yaml`; two runs that met leave
  nothing behind that a later save on its own would trip over. The saves that
  overlap themselves are promised nothing, and if they leave the file empty, no
  run gets as far as a save again (section 4).
- `ImplementsAtomicFile`, `OwnFilesComplete` of `netplan`: also with two runs in
  `Write`, as long as they write different segments, the next boot has a complete
  netplan that somebody asked for; some netplan it has in any case (`PathStays`,
  which is proved).
- `LeftoversHarmless`: whatever an interrupted `Write`, or two that met, leave
  behind, a later one does not fail because of it.
- `LastPushArrives`, `RebuildsStop`: a fetch that moved the checkout before a
  build that failed does not hide the commit from the next visit, because the
  comparison is with the running binary, not with the previous HEAD. A binary
  without a VCS stamp is rebuilt at every visit: the second property is about
  the others. The first is about boxes that are left alone with the push
  (`LeftAloneWith`): neither `dead` nor `hung` from some time on, nor with a checkout
  git refuses.
- `OnceDeployedAlwaysStarts`: a box on which `deploy` has got through once
  starts at every boot, however later updates are interrupted.
- `DoneMeansDone`, `NeverStartsHalfMade`, `MadeInTheEnd`: the plan's stop at the
  first failure leaves half a VM, but no session starts one or calls it done, and
  destroy and create, tried again, get a running VM out of every state a failure
  leaves.
- `ContentKept`: two sessions that both found snippets disabled set the same
  list; sessions change no other content type, and what the admin sets stays,
  unless it is set between a session's query and its set: then that type, and
  no other, is reverted (section 4).

## 4. Where code and comments disagree

Shown by a violated run:

- `stop_on`: `state.go:31-32` says `stopOn` is meant to be edited while the
  cycle runs, `main.go:416-420` that the advance never clears it. The advance
  writes back what the run loaded at its start; an edit made during checks,
  report or self-update is lost.
- `dropped`: `config.go:5-6` says that changing a segment is a commit. The
  cycle in `active.yaml` is that of the first boot; after a commit drops a
  segment, the run before it ends with an error, on a segment no commit
  reaches. An added segment is never visited.
- `first_boot`: `user-data.yaml:32-33` says the initial netplan has the same
  shape as those the binary writes, `main.go:629-631` that detection on a fresh
  VM is unambiguous. The initial trunk lacks `accept-ra: false` and
  `link-local: []`, takes an address from the native segment's router
  advertisements, and `examples/config.yaml` declares the native segment first:
  the first run takes it for the active one and files the update segment's
  measurements under it. The next advance repairs that
  (`NetplanOneAdvanceAhead`, `MisattributionHeals` and `LapComplete` are checked
  with it).
- `stale_unit`: `selfupdate.go:111-113` says the redeploy keeps the unit file
  current. After a power loss between `replaceSelf` and `runDeploy`, binary
  and HEAD agree, so nothing redeploys until the next push.

Met while reading, not (yet) a run:

- `config.go:246-260` describes `Wait` as a throttle that skips sync, update
  and report; the code only lengthens the delay before the reboot
  (`effectiveDelay`), and `main.go:351-355` says so.
- `netplan.go:301-303` says path and its segment's file are always
  byte-identical; between the first and the last rename of `Write` the
  segment's file is already new (the model's `WrittenIsInstalled` claims it only
  on return).
- `user-data.yaml:411` says the bootstrap unit retries until it succeeds; after
  its `mv` (line 386) its condition keeps it from ever running again, although
  `deploy` may not have run: power lost, or a failing `systemctl`, in between
  leaves a box on which nothing starts (`dead` in `SelfUpdate`, the premise of
  `LastPushArrives`).
- `README.md:409-422` calls a run with `-no-reboot` one that "skips the reboot":
  it still writes the netplan and advances `active.yaml`.
- `main.go:470-472` says netplan and checks end up with the same resolved radio.
  It is resolved twice, in two boots: with two radios and none of `ifname`,
  `mac` and PCI IDs set they can differ (`PinnedFound` is about the other
  segments; `examples/config.yaml` warns of that case).
- Nothing rejects a segment name that occurs twice; `Next` then never gets past
  its first place.
- `state.go:23-25` says `segment` is what netplan is configured for and the
  checks apply to. After a power loss between `main.go:413` and `:421` the next
  run files the new segment's measurements under the old name
  (`NetplanOneAdvanceAhead`, `MisfiledIsNear` and `MisattributionHeals` bound the
  damage).
- `netplan.go:316-319` says there is never a moment when path points at a
  half-written file. That holds unless two runs write *one* segment at a time:
  they share `<path>.<segment>.tmp`, one may rename and install the inode the
  other has open and has just truncated, and a power loss then leaves half a
  file for the next boot. It is why `ImplementsAtomicFile` and
  `OwnFilesComplete` except `overlap = "file"`.
- `state.go:7-9` says a power loss never leaves a half-written, unparseable file.
  That holds unless two runs save the same file at a time, as they share its
  temporary file: the first has written, the second opens and so empties it, the
  first renames, and an empty `active.yaml` is installed. The second then writes
  into `active.yaml` itself, and its rename is refused, which ends it with an
  error (`main.go:413-423`). If power is lost in between, the empty file stays:
  it parses as an `Active` without a segment, and every later run fails on it
  until somebody removes it. Result files and `config.yaml`
  (`configsync.go:121-131`) are written the same way. It is why
  `ImplementsAtomicFile` and `LoneRunGoesOn` of `StateWrite` except saves that met.
- `selfupdate.go:65-69` says that fetch and hard reset can never get stuck on
  local state. Git itself can: a power loss while it works leaves lock files, or
  half a clone, which `selfupdate.go:163-170` takes for a whole one as there is a
  `.git`. Every later visit then fails until somebody removes the checkout. And
  `git` and `go` run without a timeout. `LastPushArrives` has the premise
  `LeftAloneWith` for both, the liveness of `RebootCycle` has `GitReturns`.
- `verifyvm.go:545-548` says the update of the storage's content types never
  clobbers other types. The list is read (550) and set (566) by two commands: what
  the admin changes in between is reverted (`raced`; `ContentKept` is about all
  other changes).
- `config.go:157` allows PCI IDs "with or without a 0x prefix";
  `WifiPCIDevices` compares them as text. A file that spells one radio's IDs
  in two ways attaches its card twice, and `qm start` is refused.
  `StartAccepted` and the fairness of `MadeInTheEnd` are about the others
  (`OwnAddresses`).
- `verifyvm.go:58` says `TrunkVLANs` excludes `NativeSegment`, line 60 that it
  comes from `CycleNames`; it is `VLANSegmentNames`, which includes the native
  segment, and `ValidateCreate` (lines 331-345) insists on that.
- A round trip compares the names of PTR answers, which end in a dot, with
  `host` as it is written (`checks.go:409-412`): without its final dot it never
  matches. Load does not ask for one.

Limits of the VM tool that a user should know, none of them contradicting a
comment: `create` on a VMID of one's own that exists replaces its user-data
snippet before `qm create` is refused; two VMs with the default `-name` share
their snippets; a destroy that failed after `qm destroy`, or one for a create
that failed before `qm create`, stops at `qm destroy` when repeated and leaves
the snippets; with `-onboot` the host starts a half-made VM at its next reboot
(`NeverStartsHalfMade` is about the others).

## 5. Fairness

Only liveness properties use it (`FairSpec`, in `CheckBatch` the `Spec`).

- `RebootCycle`: weak fairness on the unit's own steps and on the reboot: `run()`
  is sequential and waits for no other process. Config fetch, lookups, requests
  and pushes have timeouts; local commands (`ip`, `systemctl`) are taken to
  return. The update check is different: `git` and `go build` run through
  `exec.Command` without a context (`selfupdate.go:57`, 73, 77, 102), and a oneshot
  unit has no start timeout. So `UpdateHangs` may happen instead of every check on
  the update segment, and the three liveness properties have the premise
  `GitReturns`: from some time on it does not. Without that a box may hang for
  good, with the wired segments not tested. Strong fairness on `SyncSucceeds` and
  `ReportSucceeds`: a fetch and a push that are tried on every visit get through on
  some visit -- an assumption about the network, not the code -- and on
  `SkipRecorded`: the same of the save of a skipped result. No fairness for crashes, commits, radios, hangs or the operator. A radio may be out
  forever, which is why `WiredSegmentsTested` is about wired segments only.
- `SelfUpdate`: weak fairness on "the command returns, well or badly", for
  commands that do not hang; strong fairness on each step that is retried on every
  visit, the comparison included. Nothing makes a hanging command return, and no
  fairness makes anyone switch the box off (`SwitchOff`) or remove a broken checkout
  (`RemoveCheckout`). So `LastPushArrives` has the premise that the box does not
  stay `dead`, hanging or with a broken checkout for good (`LeftAloneWith`), and
  `RebuildsStop` that it does not hang.
- `CheckBatch`: weak fairness on `Run`: every lookup and request has a timeout,
  and `checkRetryDelay` ends. None on changes of the network.
- `VerifyVM`: weak fairness on a session's work, as every ssh command returns or
  loses its connection; strong fairness on an operator who wants the VM and
  so destroys one that does not run and creates it again, with a file that is
  valid. No fairness for failures, the admin or the host's reboots.

## 6. Proofs

Proved for every value of the constants -- segments, configs, runs, writers,
inodes, VMIDs, crashes -- under the ASSUMEs of the modules (typed constants,
distinct markers, a valid config has a segment, the lists of a segment are
sequences, a file names no two segments alike):

| Theorem | States | Extra premise |
|---|---|---|
| `TypeCorrect` | TypeOK, MemoryOK | none |
| `NextNeverPanics` | ActiveInCycle | `UpdateAlwaysDeclared` |
| `StopOnSurvives` | StopOnKept | `OperatorWaits` |
| `BadCommitsRecoverable` | BadCommitRecoverable | none |
| `NeverHalts` | NeverHalted | `UpdateAlwaysDeclared`, `SegmentsKept`, `NoDuplicates`, a wired update segment, no failing file operation |
| `NetplanStaysClose` | NetplanOneAdvanceAhead | `UpdateAlwaysDeclared`, `NoDuplicates`, `OperatorWaits`, no wipe |
| `BoxImplementsCycle` | ImplementsSegmentCycle (a refinement) | `OperatorWaits`, `UpdateAlwaysDeclared`, `NoDuplicates`, skipped results are saved |
| `LapsAreComplete` | LapComplete | the same |
| `MisfiledStaysNear` | MisfiledIsNear | those of `NetplanStaysClose` |
| `MeasurementsKept` | MeasurementKept | those of `LapsAreComplete` |
| `SearchIsExact` | NearestResolvable | `UpdateAlwaysDeclared`, `NoDuplicates` |
| `NextVisitsEachOnce` | the order `Next` goes through a cycle | the cycle has no duplicates |
| `SegmentCheckTypeCorrect` | TypeOK of SegmentCheck | none |
| `PassMeansOwnHolds` | PassMeansOwn | none |
| `WiredFoundHolds` | WiredFound | none |
| `PinnedFoundHolds` | PinnedFound | none |
| `DetectionSoundHolds` | DetectionSound | none |
| `SelfUpdateTypeCorrect` | TypeOK of SelfUpdate | none |
| `UpdatedIsDeployed` | UpdatedMeansDeployed | none |
| `DeployedAlwaysStarts` | OnceDeployedAlwaysStarts | none |
| `SaveIsAtomic` | ImplementsAtomicFile of StateWrite (a refinement) | none |
| `LoneSavesInstall` | LoneSaveInstalls | none |
| `LoneRunsGoOn` | LoneRunGoesOn | none |
| `NetplanTypeCorrect` | TypeOK of NetplanWrite | none |
| `PathAlwaysThere` | PathStays | none |
| `WrittenInstalled` | WrittenIsInstalled | none |
| `OwnFilesWhole` | OwnFilesComplete | none |
| `LeftoversNeverRefuse` | LeftoversHarmless | none |
| `WriteIsAtomic` | ImplementsAtomicFile of NetplanWrite (a refinement) | none |
| `BatchTypeCorrect` | TypeOK of CheckBatch | none |
| `PassHasEvidence` | PassIsEvidence | none |
| `FailureIsReal` | NoFalseAlarm | none |
| `LoopsAskAll` | the plan of DNS checks is every test of every server, no more | none |
| `RunsAreFinite` | WorkShrinks | none |
| `VmTypeCorrect` | TypeOK of VerifyVM | none |
| `OnlyRacedTypesChange` | ContentKept | none |
| `StartNeverRefused` | StartAccepted | none |
| `OthersStay` | OthersUntouched | none |
| `DoneIsTrue` | DoneMeansDone | none |
| `HalfMadeStaysDown` | NeverStartsHalfMade | none |
| `RadiosListedOnce` | the radios `WifiPCIDevices` lists | none |
| `TrunkFits` | net0, the file and the initial netplan agree | the file is valid |

`LoopsAskAll`, `NextVisitsEachOnce`, `RadiosListedOnce` and `TrunkFits` are about
operators, not about steps. `ActiveInCycle`, `NearestResolvable`, `PathStays`,
`WorkShrinks` and `OthersUntouched` are no properties of a run listed above; TLC
finds them true on the instances of `live`, `netplan`, `batch` and `vm`. `StopOnKept`
is checked only where its premise does not hold, by `stop_on`, which violates it.
The theorems about `RebootCycle` are, like the module, about the unit's run: they
hold of the box as long as no second run's writes meet its own.

`UpdateAlwaysDeclared`: no valid config lacks the update segment.
`SegmentsKept`: every commit is valid and has the same segments, in any order
and on any interfaces. `NoDuplicates`: no config names two segments alike, which
`config.Load` does not check (section 4). `OperatorWaits`: the state directory is edited or wiped only while
the unit's run has nothing left to write.

Why a premise is there: `stop_on` violates `StopOnKept` without `OperatorWaits`;
a config that does not declare the update segment makes `Next` panic (in `lap`,
`NextPanics` happens); `dropped` halts a box by a commit that drops a
segment; a second segment of a name is never reached, as `Next` looks for the
first; after a wipe the netplan is still that of any segment; and a skip whose
result is not saved leaves a hole in the lap. `NextNeverPanics`, `NeverHalts`,
`SearchIsExact` and `BadCommitsRecoverable` need no `OperatorWaits`.

The arguments:

- `TypeCorrect`. TypeOK alone is not inductive: an action uses `active` as a
  record and `cfg` as a config, which is so only because earlier steps loaded
  them. `MemoryOK` says by which `pc` each is there.
- `NextNeverPanics`. `ActiveInCycle` speaks of the file, of the run's copy and of
  the search's cursor, which makes it inductive: the file gets the copy, the
  copy comes from the file, `SeedActive` takes the cycle from the config together with
  a segment that is declared, and `NextInCycle` stays inside
  (`NextInCycleInRange`, from `FirstIndexExists`).
- `StopOnSurvives`. A save writes back what the run loaded, so `MemoryIsFile` is
  needed: between load and save, memory and file agree. That is where
  `OperatorWaits` comes in.
- `BadCommitsRecoverable`. `SyncInv` adds why the netplan cannot have moved:
  a run past the sync has a config that was valid; up to the netplan write the
  installed netplan is the live one; and who syncs with an `active.yaml` is on
  the update segment.
- `NeverHalts`. `SearchInv` ties a search to the cycle: `tries` is the number of
  places the cursor is ahead of the active segment, and all of them have been
  segments that some config carries over a radio. `AheadCovers` says that within a
  lap every segment is met, the wired update segment too, so a search is over
  before `tries` reaches the length of the cycle. `CyclesDeclared` (every cycle, in
  a file or in memory, is one that a config declared) with `SegmentsKept` makes
  every candidate declared, however old the cycle is. `NextIsAhead`, that one
  `Next` is one place ahead, is where duplicate names would break it.
- `NetplanStaysClose`. `NetplanInv`: there is an `active.yaml` before the first
  netplan is written, and a netplan is what the search found (`SearchInv`) from the
  segment the file still names (`MemoryIsFile`).
- `MisfiledStaysNear`. What is measured is live, and live is the installed netplan
  until the next one is written (`SyncInv`); `NetplanInv` says how far that may be
  from the active segment. `MisfiledInv` adds the two things a result depends on
  without a crash: outside the `save` step netplan and `active.yaml` agree, and
  under cloud-init's netplan the active segment is one that detection may name.
  A result that is near stays so because no step changes the cycle (`NearKept`).
- `SearchIsExact`. `NearestInv` is `SearchedOver` once more, with "does not resolve"
  as what is walked over; a search that has tried the whole length has met every
  segment (`AheadCovers`), and neither the config of a run nor the radios of a boot
  change under it (`SearchFixed`).
- `MeasurementsKept`. `SkippedInv`: what the unit's search has walked over has a
  skipped result, which only checks and wipes take away, and neither happens
  during a search. A candidate that is the active segment is a whole lap ahead
  (`BackAfterLap`), so all others are behind it (`LastOfLap`).
- `NextVisitsEachOnce`. Modular arithmetic on the index: one `Next` is one place
  (`NextIsAhead`), every segment has a place (`AheadCovers`) and only one
  (`AheadOnce`).
- `BoxImplementsCycle`. `FreshInv` says of a search what `SearchInv` does, with "is
  recorded" in place of "is a radio", and that a run past its check has recorded
  its own segment. `SeedActive` is the abstract `Seed`, `Check` is `Test`,
  `SkipCandidate` is `Skip`, `AdvanceActive` is `Move`, `WipeState` is `Lose`; all else,
  crashes and boots included, is invisible.
- `LapsAreComplete`. `LapInv`: from the update segment up to the active one, every
  place is recorded. A check of the update segment starts over with nothing to
  show; an advance adds the places it jumps over, and when it comes round
  again they are all there (`HopFillsLap`).
- `SegmentCheck`'s five. `NetworkInv` is inductive: an installed netplan is
  cloud-init's or a render for an interface of the segment's kind (`PlanInv`);
  only its own interface gets a lease, others at most a router advertisement
  where accept-ra is on; carrier is only on what it brings up, and on the
  segment's own interface only with the trunk below it. `WiredFound` is then a
  matter of cardinality 1 or 2, `DetectionSound` of no two wired segments having
  one interface (at most one native segment, which `config.Load` enforces).
- `UpdatedIsDeployed`. `InstallInv` follows the executable from the build
  through replace, unit and enable. `DeployedAlwaysStarts`: `DeployInv` says that
  an enabled unit has both files and that the bootstrap script never runs
  again, which a step of another caller does not undo.
- `StateWrite`'s three. `SaveInv`: a file is open only between open and write, and
  the two entries never lead to one inode (`FilesInv`); a save that met no other
  is the only one there is, and its temporary file is as it left it (`LoneInv`);
  before the first overlap `active.yaml` is complete (`WholeInv`). `OpenTmp` is the
  one step at which runs meet: whoever is there then is in `met`, and stays there
  until its next save. A leftover of runs that met is emptied by the next open,
  which is why `LoneInv` needs no premise about the past.
- `NetplanWrite`'s six. `WriteInv` is `PathStays`, and `DisjointInv` for as long as
  no two runs have written one segment at a time. `DisjointInv` says that
  temporary files share no inode (`LinksInv`), so truncating one harms nobody;
  that what other names lead to is complete (`WholeInv`); and that each writer's
  render is where its `pc` says (`ProgressInv`). The shared link name is the one
  place where writers of different segments do meet: what is installed may be
  the other's render, which is why `AtomicFile` allows any render asked for, and
  why `WrittenIsInstalled` and `LeftoversHarmless` need `AloneInv`. `WriteIsAtomic`
  maps each step to `Replace`, to a change of what is asked for, or to a stutter.
- `LoopsAskAll`. `dnsChecks` appends in two nested loops; the model flattens a
  sequence of sequences with the library's `FlattenSeq`, a recursive function. That
  such a function exists (`FlattenExists`) and what it holds (`Flattened`) are proved
  without the induction theorems: a length at which either fails would have a
  least one (`LeastExists`, from `<` being well-founded), and from the length before
  it holds there.
- `RunsAreFinite`. `Work` is a natural number -- the attempts left, and the checks
  left in this one, with a round trip as two -- that every step of `Run` lowers and
  no change of the network touches. With the fairness of section 5 that is
  `RunEnds`.
- `CheckBatch`'s other three. `ResultInv`: every check of the plan is still to come or
  has a result; a pass has its evidence among the worlds since the batch began,
  and if there was one world only, a failure is one of that world. `BatchInv`
  says what a round trip knows between its two lookups, that `world` is one of
  `seen`, and that a batch before the last is retried. That an unusable server
  would count as passed does no harm, as `config.Load` accepts none (`DnsItemOK`).
- `VerifyVM`'s six. `VmInv` adds to TypeOK what a session knows (`SessionInv`):
  from `qm create` on the VM is its own and has the machine type its cards need,
  the cards are the first ones of its file, and the content types it has read
  agree with the admin's outside `raced` (`Agree`). TypeOK alone is not inductive, as `qm set` on
  somebody else's VM would break it. `BuildInv` adds what is behind each `pc` of a
  create (`PartsAt`): a valid file, its snippets, the disk, the cards so far, the
  trunk, and that the VM is not running. Each card is attached where its file
  first mentions it (`FirstDevice`, as `<` on the naturals is well-founded), so when
  the list is through, all are there (`CardsMatch`); every wired segment of a
  valid file arrives over the trunk, the update segment as the initial netplan
  has it (`TrunkFits`). `Frame` lemmas carry both over the steps of other sessions.

Out of the prover's reach and only model-checked: liveness under fairness
(`WiredSegmentsTested`, `MisattributionHeals`,
`LastCommitArrives`, `LastPushArrives`, `RebuildsStop`, `RunEnds`,
`MadeInTheEnd`): the prover has no rule for fairness. Induction over data is possible
only where a least counterexample can be used in its place, as for `LoopsAskAll`.

## 7. Not modelled

Timezone and the length of delays; log output; the encodings of YAML, JSON and
line protocol; what geo and routing checks ask and compare (one outcome each);
the text netplan renders and `ip a` prints; an `ifname` on a wired segment; URL
parsing in config sync; `${VAR}` expansion and `bootstrap.yaml`, which are read
and never written; the two report targets apart from each other; what
exactly is broken in a `Broken` checkout, and which of fetch and reset notices; a
second run beside the unit's in `RebootCycle` (how its writes meet the unit's is in
`StateWrite` and `NetplanWrite`, what both do to results and reports is nowhere);
`config.yaml.tmp` as a file of its own (it is written as `active.yaml.tmp` is, and by
the update segment's runs only); two sessions of the VM tool for one VMID,
and VMs that share a name; `-update-segment` and the file agreeing with each
other, which nobody checks; `status` and dry runs, which change nothing; grafana
and example data.

## 8. Plan

1. Done: `Cycles`, `SegmentCycle`, `RebootCycle`, `StateWrite`, `SegmentCheck`,
   `SelfUpdate`, `NetplanWrite` with several writers, `ConfigFile`, `CheckBatch`,
   `VerifyVM`; the theorems of section 6.
2. `StateWrite`'s runs with the rest of `run()` around them, to say what two
   overlapping runs leave of a lap.
3. `SegmentCheck` as what `RebootCycle`'s `Addressable` and `outage` abstract, by
   a refinement.
4. `${VAR}` expansion as an operator.
