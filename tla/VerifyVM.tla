------------------------------- MODULE VerifyVM -------------------------------
(***************************************************************************)
(* verify-mseg-tester: `create` and `destroy` each run a plan of commands  *)
(* on a Proxmox host, one ssh connection per command, and stop at the      *)
(* first that fails.  The host's VMs, snippet files and storage settings   *)
(* outlive the tool, which keeps no state of its own.  Sessions for        *)
(* different VMIDs may overlap; an operator runs one at a time for each.   *)
(***************************************************************************)
EXTENDS ConfigFile

CONSTANTS
  Vmid,           \* each with a -name of its own
  Options,        \* Vmid -> the other flags: [ovmf, start, onboot, keep]
  Files,          \* Vmid -> what its -config-file may be; <<>> is none at all
  UpdateSegment,  \* -update-segment
  Address,        \* PCI IDs -> the address of the first card `lspci -d` lists
  ContentType,    \* content types of the snippets storage, "snippets" among them
  MaxFaults,      \* bound on failing commands, lost connections and host reboots
  NoVm, Other,    \* a free VMID; somebody else's VM
  Altered,        \* somebody else's VM after the tool has changed it
  Everything,     \* no trunks= and no tag=: whatever is on the wire
  Missing, Partial, Disabled

ASSUME VmAssumption ==
  /\ Options \in [Vmid -> [ovmf : BOOLEAN, start : BOOLEAN, onboot : BOOLEAN, keep : BOOLEAN]]
  /\ "snippets" \in ContentType /\ MaxFaults \in Nat

Label == {"idle", "query", "enable", "user", "network", "create", "import", "scsi0",
          "ide2", "boot", "resize", "pci", "stop", "destroy", "remove", "created", "destroyed"}

VARIABLES
  \* the host
  vm,        \* Vmid -> NoVm, Other or a VM
  user,      \* Vmid -> its user-data snippet: the config.yaml in it
  network,   \* Vmid -> its network-config snippet
  content,   \* the storage's content types
  \* each session
  pc,        \* the step it is about to take; created, destroyed: "Done."
  file,      \* its -config-file
  types,     \* the content types it has read
  \* bound and history
  faults,
  wanted,    \* the content types but snippets, as the host's admin last set them
  raced      \* those this changed while a session stood between query and set

host == <<vm, user, network, content>>
vars == <<host, pc, file, types, faults, wanted, raced>>

AnyFile == UNION {Files[v] : v \in Vmid}

\* A file gives each segment a name of its own, and a card for its IDs is in
\* the host.
ASSUME FileAssumption ==
  /\ DOMAIN Files = Vmid
  /\ \A c \in AnyFile : c \in Seq(Range(c))
  /\ \A c \in AnyFile : \A i, j \in DOMAIN c :
       c[i].name # None /\ (c[i].name = c[j].name => i = j)
  /\ \A c \in AnyFile : \A i \in WifiPCIDevices(c) : Ids(c[i]) \in DOMAIN Address

Trunk == {Everything} \cup SUBSET UNION {VLANSegmentNames(c) : c \in AnyFile}

Vm ==
  [q35 : BOOLEAN, net0 : Trunk, onboot : BOOLEAN, unused : BOOLEAN,
   parts : SUBSET {"scsi0", "ide2", "boot", "resize"},
   pci : SUBSET (Nat \X Range(Address)), running : BOOLEAN]

ASSUME MarkerAssumption ==
  NoVm # Other /\ Altered \notin {NoVm, Other} /\ \A m \in {NoVm, Other, Altered} : m \notin Vm

TypeOK ==
  /\ vm \in [Vmid -> Vm \cup {NoVm, Other}]
  /\ user \in [Vmid -> AnyFile \cup {Missing, Partial}]
  /\ network \in [Vmid -> {Missing, Partial, Disabled}]
  /\ content \subseteq ContentType
  /\ wanted \subseteq ContentType \ {"snippets"} /\ raced \subseteq ContentType \ {"snippets"}
  /\ pc \in [Vmid -> Label]
  /\ file \in [Vmid -> AnyFile \cup {<<>>}]
  /\ types \in [Vmid -> SUBSET ContentType]
  /\ faults \in 0 .. MaxFaults

-----------------------------------------------------------------------------
(* What create derives from its flags and its file.                        *)

\* runCreate and ValidateCreate accept the file.  Without one, config.yaml
\* has to come from -config-repo.
Valid(c) ==
  \/ c = <<>>
  \/ /\ Accepted(c)
     /\ NativeSegmentName(c) # None /\ VLANSegmentNames(c) # {}
          => NativeSegmentName(c) \in VLANSegmentNames(c)

\* Bug: a native segment is left to the bridge.
Net0Listed(c) == IF VLANSegmentNames(c) = {} THEN Everything ELSE VLANSegmentNames(c)

\* net0: the tags that pass, or everything.
Net0(c) ==
  IF NativeSegmentName(c) # None \/ VLANSegmentNames(c) = {} THEN Everything ELSE VLANSegmentNames(c)

\* The template's initial netplan uses the bare trunk, no sub-interface.
InitialUntagged(c) == NativeSegmentName(c) = UpdateSegment

-----------------------------------------------------------------------------
(* Steps.                                                                  *)

Idle(v) == pc[v] \in {"idle", "created", "destroyed"}

Ours(v) == vm[v] \notin {NoVm, Other, Altered}
Running(v) == Ours(v) /\ vm[v].running
Stopped(v) == Ours(v) /\ ~vm[v].running

Fault == faults < MaxFaults /\ faults' = faults + 1

Goto(v, label) == pc' = [pc EXCEPT ![v] = label]

\* A command is carried out.  The connection may be lost before its status
\* arrives: the tool takes that for a failure.
Then(v, next) ==
  \/ Goto(v, next) /\ UNCHANGED faults
  \/ Goto(v, "idle") /\ Fault

\* A command fails: the session ends, what it has done so far stays.
Fails(v) ==
  /\ ~Idle(v)
  /\ Goto(v, "idle") /\ Fault
  /\ UNCHANGED <<host, file, types, wanted, raced>>

\* `create -yes`, perhaps for a VMID that is taken.
BeginCreate(v, c) ==
  /\ Idle(v)
  /\ IF Valid(c) THEN Goto(v, "query") /\ file' = [file EXCEPT ![v] = c]
                 ELSE Goto(v, "idle") /\ file' = file
  /\ UNCHANGED <<host, types, faults, wanted, raced>>

\* ensureSnippetsEnabled reads the storage's content types, ...
Query(v) ==
  /\ pc[v] = "query"
  /\ types' = [types EXCEPT ![v] = IF "snippets" \in content THEN {} ELSE content]
  /\ Then(v, IF "snippets" \in content THEN "user" ELSE "enable")
  /\ UNCHANGED <<host, file, wanted, raced>>

\* Bug: set what is needed.
EnableOnly(v) ==
  /\ pc[v] = "enable"
  /\ content' = {"snippets"}
  /\ Then(v, "user")
  /\ UNCHANGED <<vm, user, network, file, types, wanted, raced>>

\* ... and sets them with snippets added.
Enable(v) ==
  /\ pc[v] = "enable"
  /\ content' = types[v] \cup {"snippets"}
  /\ types' = [types EXCEPT ![v] = {}]
  /\ Then(v, "user")
  /\ UNCHANGED <<vm, user, network, file, wanted, raced>>

\* Uploads through `cat >`, which a lost connection cuts off.
UploadUser(v) ==
  /\ pc[v] = "user"
  /\ \/ user' = [user EXCEPT ![v] = file[v]] /\ Then(v, "network")
     \/ user' = [user EXCEPT ![v] = Partial] /\ Goto(v, "idle") /\ Fault
  /\ UNCHANGED <<vm, network, content, file, types, wanted, raced>>

UploadNetwork(v) ==
  /\ pc[v] = "network"
  /\ \/ network' = [network EXCEPT ![v] = Disabled] /\ Then(v, "create")
     \/ network' = [network EXCEPT ![v] = Partial] /\ Goto(v, "idle") /\ Fault
  /\ UNCHANGED <<vm, user, content, file, types, wanted, raced>>

\* A `qm` command that changes VM v.
Change(v, new, next) ==
  /\ vm' = [vm EXCEPT ![v] = new]
  /\ Then(v, next)
  /\ UNCHANGED <<user, network, content, file, types, wanted, raced>>

NeedsQ35(v) == Options[v].ovmf \/ WifiPCIDevices(file[v]) # {}

NewVm(v) ==
  [q35 |-> NeedsQ35(v), net0 |-> Net0(file[v]), onboot |-> Options[v].onboot,
   unused |-> FALSE, parts |-> {}, pci |-> {}, running |-> FALSE]

\* Bug: an error of `qm create` is ignored, as if the VM were this one's.
CreateAnyway(v) ==
  /\ pc[v] = "create"
  /\ Change(v, IF vm[v] = Other THEN Altered ELSE NewVm(v), "import")

Create(v) == pc[v] = "create" /\ vm[v] = NoVm /\ Change(v, NewVm(v), "import")

ImportDisk(v) == pc[v] = "import" /\ Change(v, [vm[v] EXCEPT !.unused = TRUE], "scsi0")

\* attachImportedDisk: the unused disk becomes scsi0.
AttachDisk(v) ==
  /\ pc[v] = "scsi0" /\ vm[v].unused
  /\ Change(v, [vm[v] EXCEPT !.unused = FALSE, !.parts = @ \cup {"scsi0"}], "ide2")

\* The commands that follow it: cloud-init drive, boot order, disk size.
Set(v) ==
  /\ pc[v] \in {"ide2", "boot", "resize"}
  /\ Change(v, [vm[v] EXCEPT !.parts = @ \cup {pc[v]}],
            [ide2 |-> "boot", boot |-> "resize", resize |-> "pci"][pc[v]])

\* The PCI devices still to attach, as positions in the file.
Rest(v) == WifiPCIDevices(file[v]) \ {d[1] : d \in vm[v].pci}

\* attachHostPCI for the next one.
AttachPCI(v) ==
  /\ pc[v] = "pci"
  /\ \E i \in Rest(v) :
       /\ \A j \in Rest(v) : i <= j
       /\ Change(v, [vm[v] EXCEPT !.pci = @ \cup {<<i, Address[Ids(file[v][i])]>>}], "pci")

\* Proxmox starts it: PCIe devices need q35, and none is attached twice.
Startable(m) ==
  /\ m.pci # {} => m.q35
  /\ \A d, e \in m.pci : d[2] = e[2] => d = e

\* Bug: start it while devices are still to come.
StartEarly(v) ==
  /\ pc[v] = "pci" /\ Options[v].start
  /\ Startable(vm[v])
  /\ Change(v, [vm[v] EXCEPT !.running = TRUE], "created")

Start(v) ==
  /\ pc[v] = "pci" /\ Rest(v) = {} /\ Options[v].start
  /\ Startable(vm[v])
  /\ Change(v, [vm[v] EXCEPT !.running = TRUE], "created")

LeaveStopped(v) ==
  /\ pc[v] = "pci" /\ Rest(v) = {} /\ ~Options[v].start
  /\ Goto(v, "created")
  /\ UNCHANGED <<host, file, types, faults, wanted, raced>>

\* `destroy -yes`, for any VMID of the operator's own.
BeginDestroy(v) ==
  /\ Idle(v) /\ vm[v] # Other
  /\ Goto(v, "stop")
  /\ file' = [file EXCEPT ![v] = <<>>]
  /\ UNCHANGED <<host, types, faults, wanted, raced>>

\* Bug: without `|| true`, a VM that is not running cannot be stopped.
StopOrFail(v) ==
  /\ pc[v] = "stop"
  /\ IF Running(v) THEN vm' = [vm EXCEPT ![v].running = FALSE] /\ Goto(v, "destroy")
                   ELSE vm' = vm /\ Goto(v, "idle")
  /\ UNCHANGED <<user, network, content, file, types, faults, wanted, raced>>

\* `qm stop ... || true`: if the guest does not stop, nobody is told.
Stop(v) ==
  /\ pc[v] = "stop"
  /\ \/ /\ vm' = [vm EXCEPT ![v] = IF Ours(v) THEN [@ EXCEPT !.running = FALSE] ELSE @]
        /\ Then(v, "destroy")
     \/ vm' = vm /\ Goto(v, "destroy") /\ Fault
  /\ UNCHANGED <<user, network, content, file, types, wanted, raced>>

Destroy(v) ==
  /\ pc[v] = "destroy" /\ Stopped(v)
  /\ Change(v, NoVm, IF Options[v].keep THEN "destroyed" ELSE "remove")

RemoveSnippets(v) ==
  /\ pc[v] = "remove"
  /\ user' = [user EXCEPT ![v] = Missing]
  /\ network' = [network EXCEPT ![v] = Missing]
  /\ Then(v, "destroyed")
  /\ UNCHANGED <<vm, content, file, types, wanted, raced>>

\* The host refuses a command.
Refused(v) ==
  /\ \/ pc[v] = "create" /\ vm[v] # NoVm
     \/ pc[v] = "pci" /\ Rest(v) = {} /\ Options[v].start /\ ~Startable(vm[v])
     \/ pc[v] = "destroy" /\ ~Stopped(v)
  /\ Goto(v, "idle")
  /\ UNCHANGED <<host, file, types, faults, wanted, raced>>

-----------------------------------------------------------------------------
(* The host.                                                               *)

\* Sessions lose their connections; VMs with onboot come up, whole or not.
HostReboot ==
  /\ Fault
  /\ pc' = [v \in Vmid |-> IF Idle(v) THEN pc[v] ELSE "idle"]
  /\ vm' = [v \in Vmid |-> IF Ours(v) THEN [vm[v] EXCEPT !.running = vm[v].onboot /\ Startable(vm[v])]
                           ELSE vm[v]]
  /\ UNCHANGED <<user, network, content, file, types, wanted, raced>>

\* The admin changes the content types, at any time.  They do not take away
\* the snippets this tool relies on.
AdminEdit ==
  /\ content' \in SUBSET ContentType
  /\ "snippets" \in content => "snippets" \in content'
  /\ wanted' = content' \ {"snippets"}
  /\ raced' = IF \E v \in Vmid : pc[v] = "enable"
               THEN raced \cup {t \in ContentType \ {"snippets"} : (t \in content) # (t \in content')}
               ELSE {}
  /\ UNCHANGED <<vm, user, network, pc, file, types, faults>>

\* The admin makes a VM, though not under a `destroy` of that VMID.
AdminCreate(v) ==
  /\ vm[v] = NoVm /\ pc[v] \notin {"stop", "destroy"}
  /\ vm' = [vm EXCEPT ![v] = Other]
  /\ UNCHANGED <<user, network, content, pc, file, types, faults, wanted, raced>>

-----------------------------------------------------------------------------

Init ==
  /\ vm \in [Vmid -> {NoVm, Other}]
  /\ user = [v \in Vmid |-> Missing] /\ network = [v \in Vmid |-> Missing]
  /\ content \in SUBSET ContentType /\ wanted = content \ {"snippets"} /\ raced = {}
  /\ pc = [v \in Vmid |-> "idle"]
  /\ file = [v \in Vmid |-> <<>>]
  /\ types = [v \in Vmid |-> {}]
  /\ faults = 0

Work(v) ==
  \/ Query(v) \/ Enable(v) \/ UploadUser(v) \/ UploadNetwork(v)
  \/ Create(v) \/ ImportDisk(v) \/ AttachDisk(v) \/ Set(v) \/ AttachPCI(v)
  \/ Start(v) \/ LeaveStopped(v)
  \/ Stop(v) \/ Destroy(v) \/ RemoveSnippets(v) \/ Refused(v)

Next ==
  \/ \E v \in Vmid : \/ Work(v) \/ Fails(v) \/ BeginDestroy(v) \/ AdminCreate(v)
                     \/ \E c \in Files[v] : BeginCreate(v, c)
  \/ HostReboot \/ AdminEdit

Spec == Init /\ [][Next]_vars

\* The radios of a file are at one address only if their IDs are written the
\* same.
OwnAddresses(c) ==
  \A i, j \in {i \in DOMAIN c : HasIds(c[i])} :
    Address[Ids(c[i])] = Address[Ids(c[j])] => Ids(c[i]) = Ids(c[j])

\* A session's commands return, and an operator who wants a VM clears away
\* one that is not running and creates it again, with a file that is valid.
FairSpec ==
  /\ Spec
  /\ \A v \in Vmid : WF_vars(Work(v))
  /\ \A v \in {v \in Vmid : Options[v].start} :
       /\ SF_vars(Stopped(v) /\ BeginDestroy(v))
       /\ \A c \in Files[v] :
            SF_vars(vm[v] = NoVm /\ Valid(c) /\ OwnAddresses(c) /\ BeginCreate(v, c))

-----------------------------------------------------------------------------
(* Properties.                                                             *)

\* Untagged traffic reaches the guest only where net0 names no VLANs.
Carried(net0, s) == net0 = Everything \/ (s.type = "vlan" /\ s.name \in net0)

\* VM v is what its file asks for: disk, cloud-init drive, boot order and
\* size, every card, both snippets whole, and a trunk on which each wired
\* segment arrives the way the guest expects it, the update segment as in
\* the initial netplan.
Complete(v) ==
  LET m == vm[v]  c == file[v] IN
  /\ m.parts = {"scsi0", "ide2", "boot", "resize"}
  /\ {d[2] : d \in m.pci} = {Address[Ids(s)] : s \in {s \in Range(c) : HasIds(s)}}
  /\ user[v] = c /\ network[v] = Disabled /\ "snippets" \in content
  /\ \A s \in Range(c) : s.type # "wifi" =>
       /\ Carried(m.net0, s)
       /\ s.name = UpdateSegment => (InitialUntagged(c) <=> s.type = "native")

\* "Done." is true: after a create the VM is complete, and running if asked
\* for, after a destroy neither VM nor, unless kept, its snippets are left --
\* whatever failed in the sessions before.
DoneMeansDone ==
  [][\A v \in Vmid :
       /\ pc'[v] = "created" /\ pc[v] # "created" =>
            Complete(v)' /\ (vm'[v].running <=> Options[v].start)
       /\ pc'[v] = "destroyed" /\ pc[v] # "destroyed" =>
            /\ ~Ours(v)'
            /\ Options[v].keep \/ (user'[v] = Missing /\ network'[v] = Missing)]_vars

\* A VM that stopped half-way is never started, not by the session that made
\* it nor by a later one.  (With onboot the host does start it, see the
\* README.)
NeverStartsHalfMade ==
  [][\A v \in Vmid : ~Running(v) /\ Running(v)' /\ ~vm'[v].onboot => Complete(v)']_vars

\* Proxmox does not refuse to start what `create` made: PCIe devices have the
\* machine type they need, and no card is attached twice.
StartAccepted ==
  \A v \in Vmid :
    pc[v] = "pci" /\ Rest(v) = {} /\ OwnAddresses(file[v]) => Startable(vm[v])

\* Somebody else's VM stays as it is when a create is given its VMID.
OthersUntouched == [][\A v \in Vmid : vm[v] = Other => vm'[v] = Other]_vars

\* T is what the admin wants, but for the types changed under a session that
\* had read them already.
Agree(T) == \A t \in ContentType \ (raced \cup {"snippets"}) : t \in T <=> t \in wanted

\* Sessions, also those that overlap, add snippets to the storage's content
\* types and lose or bring back none, except for the very types the admin
\* changes between a session's query and its set: those the set reverts.
ContentKept == Agree(content)

\* No failure leaves a VMID in a state that destroy and create cannot get a
\* running VM out of.
MadeInTheEnd ==
  \A v \in Vmid : Options[v].start /\ [](vm[v] # Other) => []<>Running(v)

-----------------------------------------------------------------------------
(* Why the first of them hold.                                             *)

Shaping == {"import", "scsi0", "ide2", "boot", "resize", "pci"}
Making == {"query", "enable", "user", "network", "create"} \cup Shaping

\* What a session knows of its VM at each step: it is its own since `qm
\* create`, and the cards it has are the first ones of its file.
SessionOK(v) ==
  /\ pc[v] \in Making => file[v] \in Files[v]
  /\ pc[v] \in Shaping =>
       /\ vm[v] \in Vm /\ vm[v].q35 = NeedsQ35(v)
       /\ \A d \in vm[v].pci :
            d[1] \in WifiPCIDevices(file[v]) /\ d[2] = Address[Ids(file[v][d[1]])]
  /\ pc[v] \in {"stop", "destroy"} => vm[v] # Other
  /\ pc[v] = "enable" => Agree(types[v])

SessionInv == \A v \in Vmid : SessionOK(v)

\* The parts a VM has when its session is about to take a step.
PartsAt ==
  [import |-> {}, scsi0 |-> {}, ide2 |-> {"scsi0"}, boot |-> {"scsi0", "ide2"},
   resize |-> {"scsi0", "ide2", "boot"}, pci |-> {"scsi0", "ide2", "boot", "resize"}]

\* What a session has behind it: a valid file, its snippets on a storage that
\* takes them, and all parts up to the present step.
BuildOK(v) ==
  /\ pc[v] \in Making => Valid(file[v])
  /\ pc[v] \in {"user", "network", "create"} \cup Shaping => "snippets" \in content
  /\ pc[v] \in {"network", "create"} \cup Shaping => user[v] = file[v]
  /\ pc[v] \in {"create"} \cup Shaping => network[v] = Disabled
  /\ pc[v] \in Shaping =>
       vm[v].parts = PartsAt[pc[v]] /\ vm[v].net0 = Net0(file[v]) /\ ~vm[v].running
  /\ pc[v] = "remove" => ~Ours(v)

BuildInv == \A v \in Vmid : BuildOK(v)
=============================================================================
