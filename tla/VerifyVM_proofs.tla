--------------------------- MODULE VerifyVM_proofs ---------------------------
(***************************************************************************)
(* Theorems about VerifyVM, for any number of VMIDs, sessions and files,   *)
(* and for every failure, lost connection and reboot of the host.          *)
(***************************************************************************)
EXTENDS VerifyVM, WellFoundedInduction, TLAPS

USE VmAssumption, FileAssumption, MarkerAssumption

LEMMA OursIsVm ==
  ASSUME TypeOK, NEW v \in Vmid
  PROVE  Ours(v) <=> vm[v] \in Vm
BY DEF Ours, TypeOK

\* What a file gives is what the types of a VM ask for.
LEMMA FileTypes ==
  ASSUME NEW v \in Vmid, NEW c \in Files[v]
  PROVE  /\ c \in AnyFile
         /\ Net0(c) \in Trunk
         /\ \A i \in WifiPCIDevices(c) : i \in Nat /\ Address[Ids(c[i])] \in Range(Address)
<1>1. c \in AnyFile
  BY DEF AnyFile
<1>2. VLANSegmentNames(c) \in SUBSET UNION {VLANSegmentNames(d) : d \in AnyFile}
  BY <1>1
<1>3. Net0(c) \in Trunk
  BY <1>2 DEF Net0, Trunk
<1>4. ASSUME NEW i \in WifiPCIDevices(c)
      PROVE  i \in Nat /\ Address[Ids(c[i])] \in Range(Address)
  <2>1. i \in DOMAIN c /\ c \in Seq(Range(c))
    BY <1>1, <1>4 DEF WifiPCIDevices
  <2>2. Ids(c[i]) \in DOMAIN Address
    BY <1>1, <1>4
  <2> QED
    BY <2>1, <2>2 DEF Range
<1> QED
  BY <1>1, <1>3, <1>4

\* The other sessions do not notice a step of one.
LEMMA Frame ==
  ASSUME SessionInv, NEW v \in Vmid,
         \A o \in Vmid \ {v} : /\ pc'[o] = pc[o] /\ file'[o] = file[o]
                               /\ vm'[o] = vm[o] /\ types'[o] = types[o],
         wanted' = wanted, raced' = raced,
         SessionOK(v)'
  PROVE  SessionInv'
<1>1. ASSUME NEW o \in Vmid \ {v}
      PROVE  SessionOK(o)'
  <2>1. NeedsQ35(o)' = NeedsQ35(o)
    BY <1>1 DEF NeedsQ35
  <2> QED
    BY <1>1, <2>1 DEF SessionInv, SessionOK, Agree
<1> QED
  BY <1>1 DEF SessionInv

\* A command that fails or is refused ends the session.
LEMMA IdleStep ==
  ASSUME TypeOK, SessionInv, NEW v \in Vmid, Fails(v) \/ Refused(v)
  PROVE  TypeOK' /\ SessionInv'
<1>1. UNCHANGED <<host, file, types, wanted, raced>> /\ pc' = [pc EXCEPT ![v] = "idle"]
  BY DEF Fails, Refused, Goto
<1>2. faults' \in 0 .. MaxFaults
  BY DEF Fails, Refused, Fault, TypeOK
<1>3. TypeOK'
  BY <1>1, <1>2 DEF TypeOK, host, Label
<1>4. SessionOK(v)'
  BY <1>1 DEF SessionOK, TypeOK, Making, Shaping
<1> QED
  BY <1>1, <1>3, <1>4, Frame DEF host, TypeOK

\* Steps before there is a VM: they change at most snippets and content types.
LEMMA PrepareStep ==
  ASSUME TypeOK, SessionInv, ContentKept, NEW v \in Vmid,
         Query(v) \/ Enable(v) \/ UploadUser(v) \/ UploadNetwork(v) \/ LeaveStopped(v)
         \/ RemoveSnippets(v)
  PROVE  TypeOK' /\ SessionInv' /\ ContentKept'
<1>1. UNCHANGED <<vm, file, wanted, raced>>
  BY DEF Query, Enable, UploadUser, UploadNetwork, LeaveStopped, RemoveSnippets, host
<1>2. faults' \in 0 .. MaxFaults
  BY DEF Query, Enable, UploadUser, UploadNetwork, LeaveStopped, RemoveSnippets, Then, Fault,
     TypeOK
<1>3. PICK l \in {"idle", "enable", "user", "network", "create", "created", "destroyed"} :
        pc' = [pc EXCEPT ![v] = l]
  BY DEF Query, Enable, UploadUser, UploadNetwork, LeaveStopped, RemoveSnippets, Then, Goto
<1>4. pc' \in [Vmid -> Label]
  BY <1>3 DEF TypeOK, Label
<1>5. types' \in [Vmid -> SUBSET ContentType] /\ \A o \in Vmid \ {v} : types'[o] = types[o]
  BY DEF Query, Enable, UploadUser, UploadNetwork, LeaveStopped, RemoveSnippets, TypeOK
<1>6. content' \subseteq ContentType
  BY DEF Query, Enable, UploadUser, UploadNetwork, LeaveStopped, RemoveSnippets, host, TypeOK
<1>7. /\ user' \in [Vmid -> AnyFile \cup {Missing, Partial}]
      /\ network' \in [Vmid -> {Missing, Partial, Disabled}]
  <2>1. CASE UploadUser(v)
    <3>1. file[v] \in AnyFile
      BY <2>1, FileTypes DEF UploadUser, SessionInv, SessionOK, Making
    <3> QED
      BY <2>1, <3>1 DEF UploadUser, TypeOK
  <2>2. CASE UploadNetwork(v) \/ RemoveSnippets(v)
    BY <2>2 DEF UploadNetwork, RemoveSnippets, TypeOK
  <2>3. CASE Query(v) \/ Enable(v) \/ LeaveStopped(v)
    BY <2>3 DEF Query, Enable, LeaveStopped, host, TypeOK
  <2> QED
    BY <2>1, <2>2, <2>3
<1>8. TypeOK'
  BY <1>1, <1>2, <1>4, <1>5, <1>6, <1>7 DEF TypeOK
<1>9. SessionOK(v)'
  <2>1. pc'[v] = l
    BY <1>3 DEF TypeOK
  <2>2. l \in Making => pc[v] \in Making
    <3>1. CASE RemoveSnippets(v)
      <4>1. pc'[v] \in {"idle", "destroyed"}
        BY <3>1 DEF RemoveSnippets, Then, Goto, TypeOK
      <4> QED
        BY <2>1, <4>1 DEF Making, Shaping
    <3>2. CASE ~RemoveSnippets(v)
      BY <3>2 DEF Query, Enable, UploadUser, UploadNetwork, LeaveStopped, Making, Shaping
    <3> QED
      BY <3>1, <3>2
  <2>3. l = "enable" => Agree(types[v])'
    <3>1. CASE Query(v)
      <4>1. l = "enable" => "snippets" \notin content
        BY <2>1, <3>1 DEF Query, Then, Goto, TypeOK
      <4>2. types'[v] = IF "snippets" \in content THEN {} ELSE content
        BY <3>1 DEF Query, TypeOK
      <4> QED
        BY <1>1, <4>1, <4>2 DEF ContentKept, Agree
    <3>2. CASE ~Query(v)
      <4>1. pc'[v] # "enable"
        BY <3>2 DEF Enable, UploadUser, UploadNetwork, LeaveStopped, RemoveSnippets, Then, Goto, TypeOK
      <4> QED
        BY <2>1, <4>1
    <3> QED
      BY <3>1, <3>2
  <2> QED
    BY <1>1, <1>3, <2>1, <2>2, <2>3 DEF SessionInv, SessionOK, Making, Shaping
<1>10. ContentKept'
  <2>1. CASE Enable(v)
    <3>1. Agree(types[v]) /\ content' = types[v] \cup {"snippets"}
      BY <2>1 DEF Enable, SessionInv, SessionOK
    <3> QED
      BY <1>1, <3>1 DEF ContentKept, Agree
  <2>2. CASE ~Enable(v)
    BY <1>1, <2>2
       DEF Query, UploadUser, UploadNetwork, LeaveStopped, RemoveSnippets, host, ContentKept, Agree
  <2> QED
    BY <2>1, <2>2
<1> QED
  BY <1>1, <1>3, <1>5, <1>8, <1>9, <1>10, Frame DEF TypeOK

\* A `qm` command on the session's own VM keeps it a VM with the cards of its
\* file.
LEMMA ChangeStep ==
  ASSUME TypeOK, SessionInv, ContentKept, NEW v \in Vmid, NEW new \in Vm, NEW l \in Label,
         Change(v, new, l), pc[v] \in Making, l \in Making => l \in Shaping,
         new.q35 = NeedsQ35(v),
         \A d \in new.pci :
           d[1] \in WifiPCIDevices(file[v]) /\ d[2] = Address[Ids(file[v][d[1]])],
         l \notin {"stop", "destroy"}
  PROVE  TypeOK' /\ SessionInv' /\ ContentKept'
<1>1. /\ vm' = [vm EXCEPT ![v] = new] /\ UNCHANGED <<user, network, content, file, types, wanted, raced>>
      /\ \E m \in {l, "idle"} : pc' = [pc EXCEPT ![v] = m]
      /\ faults' \in 0 .. MaxFaults
  BY DEF Change, Then, Goto, Fault, TypeOK
<1>2. TypeOK'
  BY <1>1 DEF TypeOK, Label
<1>3. pc'[v] \in {l, "idle"} /\ vm'[v] = new /\ NeedsQ35(v)' = NeedsQ35(v)
  BY <1>1 DEF TypeOK, NeedsQ35
<1>4. pc'[v] \in Making => pc'[v] \in Shaping
  BY <1>3 DEF Making, Shaping
<1>5. SessionOK(v)'
  BY <1>1, <1>3, <1>4 DEF SessionInv, SessionOK, Making, Shaping
<1> QED
  BY <1>1, <1>2, <1>5, Frame DEF TypeOK, ContentKept, Agree

\* The commands between `qm create` and `qm start`.
LEMMA ShapeStep ==
  ASSUME TypeOK, SessionInv, ContentKept, NEW v \in Vmid,
         Create(v) \/ ImportDisk(v) \/ AttachDisk(v) \/ Set(v) \/ AttachPCI(v) \/ Start(v)
  PROVE  TypeOK' /\ SessionInv' /\ ContentKept'
<1>1. CASE Create(v)
  <2>1. file[v] \in Files[v] /\ pc[v] = "create"
    BY <1>1 DEF Create, SessionInv, SessionOK, Making
  <2>2. NewVm(v) \in Vm
    <3>1. NeedsQ35(v) \in BOOLEAN /\ Options[v].onboot \in BOOLEAN
      BY DEF NeedsQ35
    <3>2. Net0(file[v]) \in Trunk
      BY <2>1, FileTypes
    <3> QED
      BY <3>1, <3>2 DEF NewVm, Vm
  <2>3. NewVm(v).q35 = NeedsQ35(v) /\ NewVm(v).pci = {}
    BY DEF NewVm
  <2> QED
    BY <1>1, <2>1, <2>2, <2>3, ChangeStep DEF Create, Making, Shaping, Label
<1>2. ASSUME pc[v] \in Shaping
      PROVE  /\ vm[v] \in Vm /\ file[v] \in Files[v] /\ vm[v].q35 = NeedsQ35(v)
             /\ \A d \in vm[v].pci :
                  d[1] \in WifiPCIDevices(file[v]) /\ d[2] = Address[Ids(file[v][d[1]])]
  BY <1>2 DEF SessionInv, SessionOK, Making
<1>3. ASSUME NEW new \in Vm, NEW l \in Label, Change(v, new, l), pc[v] \in Shaping,
             new.q35 = vm[v].q35, new.pci = vm[v].pci, l \in Shaping \cup {"created"}
      PROVE  TypeOK' /\ SessionInv' /\ ContentKept'
  BY <1>2, <1>3, ChangeStep DEF Making, Shaping
<1>4. CASE ImportDisk(v)
  <2> DEFINE new == [vm[v] EXCEPT !.unused = TRUE]
  <2>1. pc[v] = "import" /\ Change(v, new, "scsi0")
    BY <1>4 DEF ImportDisk
  <2>2. new \in Vm /\ new.q35 = vm[v].q35 /\ new.pci = vm[v].pci
    BY <1>2, <2>1 DEF Vm, Shaping
  <2> QED
    BY <1>3, <2>1, <2>2 DEF Shaping, Label
<1>5. CASE AttachDisk(v)
  <2> DEFINE new == [vm[v] EXCEPT !.unused = FALSE, !.parts = @ \cup {"scsi0"}]
  <2>1. pc[v] = "scsi0" /\ Change(v, new, "ide2")
    BY <1>5 DEF AttachDisk
  <2>2. new \in Vm /\ new.q35 = vm[v].q35 /\ new.pci = vm[v].pci
    BY <1>2, <2>1 DEF Vm, Shaping
  <2> QED
    BY <1>3, <2>1, <2>2 DEF Shaping, Label
<1>6. CASE Set(v)
  <2> DEFINE new == [vm[v] EXCEPT !.parts = @ \cup {pc[v]}]
             l == [ide2 |-> "boot", boot |-> "resize", resize |-> "pci"][pc[v]]
  <2>1. pc[v] \in {"ide2", "boot", "resize"} /\ Change(v, new, l)
    BY <1>6 DEF Set
  <2>2. l \in {"boot", "resize", "pci"}
    BY <2>1
  <2>3. new \in Vm /\ new.q35 = vm[v].q35 /\ new.pci = vm[v].pci
    BY <1>2, <2>1 DEF Vm, Shaping
  <2> QED
    BY <1>3, <2>1, <2>2, <2>3 DEF Shaping, Label
<1>7. CASE AttachPCI(v)
  <2>1. PICK i \in Rest(v) :
          Change(v, [vm[v] EXCEPT !.pci = @ \cup {<<i, Address[Ids(file[v][i])]>>}], "pci")
    BY <1>7 DEF AttachPCI
  <2> DEFINE new == [vm[v] EXCEPT !.pci = @ \cup {<<i, Address[Ids(file[v][i])]>>}]
  <2>2. pc[v] = "pci" /\ i \in WifiPCIDevices(file[v])
    BY <1>7 DEF AttachPCI, Rest
  <2>3. i \in Nat /\ Address[Ids(file[v][i])] \in Range(Address)
    BY <1>2, <2>2, FileTypes DEF Shaping
  <2>4. /\ new \in Vm /\ new.q35 = vm[v].q35
        /\ new.pci = vm[v].pci \cup {<<i, Address[Ids(file[v][i])]>>}
    BY <1>2, <2>2, <2>3 DEF Vm, Shaping
  <2>5. \A d \in new.pci :
          d[1] \in WifiPCIDevices(file[v]) /\ d[2] = Address[Ids(file[v][d[1]])]
    BY <1>2, <2>2, <2>4 DEF Shaping
  <2> QED
    BY <1>2, <2>1, <2>2, <2>4, <2>5, ChangeStep DEF Making, Shaping, Label
<1>8. CASE Start(v)
  <2> DEFINE new == [vm[v] EXCEPT !.running = TRUE]
  <2>1. pc[v] = "pci" /\ Change(v, new, "created")
    BY <1>8 DEF Start
  <2>2. new \in Vm /\ new.q35 = vm[v].q35 /\ new.pci = vm[v].pci
    BY <1>2, <2>1 DEF Vm, Shaping
  <2> QED
    BY <1>3, <2>1, <2>2 DEF Shaping, Label
<1> QED
  BY <1>1, <1>4, <1>5, <1>6, <1>7, <1>8

LEMMA DestroyStep ==
  ASSUME TypeOK, SessionInv, ContentKept, NEW v \in Vmid, Stop(v) \/ Destroy(v)
  PROVE  TypeOK' /\ SessionInv' /\ ContentKept'
<1>1. /\ UNCHANGED <<user, network, content, file, types, wanted, raced>>
      /\ pc[v] \in {"stop", "destroy"} /\ vm[v] # Other
      /\ \E m \in {"idle", "destroy", "destroyed", "remove"} : pc' = [pc EXCEPT ![v] = m]
      /\ faults' \in 0 .. MaxFaults
  BY DEF Stop, Destroy, Change, Then, Goto, Fault, TypeOK, SessionInv, SessionOK
<1>2. PICK new \in Vm \cup {NoVm} : vm' = [vm EXCEPT ![v] = new]
  <2>1. CASE Stop(v)
    <3>1. vm[v] \in Vm \cup {NoVm}
      BY <1>1 DEF TypeOK
    <3>2. Ours(v) => [vm[v] EXCEPT !.running = FALSE] \in Vm
      BY OursIsVm DEF Vm
    <3>3. vm = [vm EXCEPT ![v] = vm[v]]
      BY DEF TypeOK
    <3>4. \/ vm' = [vm EXCEPT ![v] = IF Ours(v) THEN [@ EXCEPT !.running = FALSE] ELSE @]
          \/ vm' = vm
      BY <2>1 DEF Stop
    <3> QED
      BY <3>1, <3>2, <3>3, <3>4
  <2>2. CASE Destroy(v)
    BY <2>2 DEF Destroy, Change
  <2> QED
    BY <2>1, <2>2
<1>3. TypeOK'
  BY <1>1, <1>2 DEF TypeOK, Label
<1>4. SessionOK(v)'
  BY <1>1, <1>2 DEF SessionOK, TypeOK, Making, Shaping
<1> QED
  BY <1>1, <1>2, <1>3, <1>4, Frame DEF TypeOK, ContentKept, Agree

\* A session starts.
LEMMA BeginStep ==
  ASSUME TypeOK, SessionInv, ContentKept, NEW v \in Vmid,
         BeginDestroy(v) \/ \E c \in Files[v] : BeginCreate(v, c)
  PROVE  TypeOK' /\ SessionInv' /\ ContentKept'
<1>1. UNCHANGED <<host, types, faults, wanted, raced>>
  BY DEF BeginDestroy, BeginCreate
<1>2. CASE BeginDestroy(v)
  <2>1. pc' = [pc EXCEPT ![v] = "stop"] /\ file' = [file EXCEPT ![v] = <<>>] /\ vm[v] # Other
    BY <1>2 DEF BeginDestroy, Goto
  <2>2. TypeOK'
    BY <1>1, <2>1 DEF TypeOK, host, Label
  <2>3. SessionOK(v)'
    BY <1>1, <2>1 DEF SessionOK, TypeOK, host, Making, Shaping
  <2> QED
    BY <1>1, <2>1, <2>2, <2>3, Frame DEF TypeOK, ContentKept, Agree, host
<1>3. ASSUME NEW c \in Files[v], BeginCreate(v, c)
      PROVE  TypeOK' /\ SessionInv' /\ ContentKept'
  <2>1. \/ pc' = [pc EXCEPT ![v] = "query"] /\ file' = [file EXCEPT ![v] = c]
        \/ pc' = [pc EXCEPT ![v] = "idle"] /\ file' = file
    BY <1>3 DEF BeginCreate, Goto
  <2>2. pc' \in [Vmid -> Label]
    BY <2>1 DEF TypeOK, Label
  <2>3. TypeOK'
    <3>1. file' \in [Vmid -> AnyFile \cup {<<>>}]
      BY <2>1, FileTypes DEF TypeOK
    <3> QED
      BY <1>1, <2>2, <3>1 DEF TypeOK, host
  <2>4. SessionOK(v)'
    BY <1>1, <2>1 DEF SessionOK, TypeOK, host, Making, Shaping
  <2> QED
    BY <1>1, <2>1, <2>3, <2>4, Frame DEF TypeOK, ContentKept, Agree, host
<1> QED
  BY <1>2, <1>3

\* A reboot of the host ends every session.
LEMMA RebootStep ==
  ASSUME TypeOK, SessionInv, ContentKept, HostReboot
  PROVE  TypeOK' /\ SessionInv' /\ ContentKept'
<1>1. UNCHANGED <<user, network, content, file, types, wanted, raced>> /\ faults' \in 0 .. MaxFaults
  BY DEF HostReboot, Fault, TypeOK
<1>2. pc' \in [Vmid -> {"idle", "created", "destroyed"}]
  BY DEF HostReboot, Idle
<1>3. vm' \in [Vmid -> Vm \cup {NoVm, Other}]
  <2>1. ASSUME NEW v \in Vmid, Ours(v)
        PROVE  [vm[v] EXCEPT !.running = vm[v].onboot /\ Startable(vm[v])] \in Vm
    <3>1. vm[v] \in Vm
      BY <2>1, OursIsVm
    <3>2. (vm[v].onboot /\ Startable(vm[v])) \in BOOLEAN
      OBVIOUS
    <3> QED
      BY <3>1, <3>2 DEF Vm
  <2>2. ASSUME NEW v \in Vmid
        PROVE  vm'[v] \in Vm \cup {NoVm, Other}
    BY <2>1 DEF HostReboot, TypeOK
  <2> QED
    BY <2>2 DEF HostReboot
<1>4. TypeOK'
  BY <1>1, <1>2, <1>3 DEF TypeOK, Label
<1>5. SessionInv'
  BY <1>2 DEF SessionInv, SessionOK, Making, Shaping
<1> QED
  BY <1>1, <1>4, <1>5 DEF ContentKept, Agree

\* What the host's admin does.
LEMMA AdminStep ==
  ASSUME TypeOK, SessionInv, ContentKept, AdminEdit \/ \E v \in Vmid : AdminCreate(v)
  PROVE  TypeOK' /\ SessionInv' /\ ContentKept'
<1>1. CASE AdminEdit
  <2>1. UNCHANGED <<vm, pc, file, types>> /\ wanted' = content' \ {"snippets"}
    BY <1>1 DEF AdminEdit
  <2>2. TypeOK'
    BY <1>1 DEF AdminEdit, TypeOK
  <2>3. ASSUME NEW v \in Vmid
        PROVE  SessionOK(v)'
    <3>1. SessionOK(v) /\ NeedsQ35(v)' = NeedsQ35(v)
      BY <2>1 DEF SessionInv, NeedsQ35
    \* What the session has read differs from the new types only in what
    \* this edit changes.
    <3>2. ASSUME pc[v] = "enable"
          PROVE  Agree(types[v])'
      <4>1. raced' = raced \cup {t \in ContentType \ {"snippets"} : (t \in content) # (t \in content')}
        BY <1>1, <3>2 DEF AdminEdit
      <4>2. Agree(types[v]) /\ Agree(content)
        BY <3>1, <3>2 DEF SessionOK, ContentKept
      <4> QED
        BY <2>1, <4>1, <4>2 DEF Agree
    <3> QED
      BY <2>1, <3>1, <3>2 DEF SessionOK
  <2>4. ContentKept'
    BY <2>1 DEF ContentKept, Agree
  <2> QED
    BY <2>2, <2>3, <2>4 DEF SessionInv
<1>2. ASSUME NEW v \in Vmid, AdminCreate(v)
      PROVE  TypeOK' /\ SessionInv' /\ ContentKept'
  <2>1. /\ vm' = [vm EXCEPT ![v] = Other]
        /\ UNCHANGED <<user, network, content, pc, file, types, faults, wanted, raced>>
    BY <1>2 DEF AdminCreate
  <2>2. TypeOK'
    BY <2>1 DEF TypeOK
  <2>3. pc[v] \notin Shaping /\ pc[v] \notin {"stop", "destroy"}
    BY <1>2 DEF AdminCreate, SessionInv, SessionOK
  <2>4. SessionOK(v)'
    BY <2>1, <2>3 DEF SessionInv, SessionOK, Agree
  <2> QED
    BY <2>1, <2>2, <2>4, Frame DEF TypeOK, ContentKept, Agree
<1> QED
  BY <1>1, <1>2

-----------------------------------------------------------------------------

\* The inductive invariant.
VmInv == TypeOK /\ SessionInv /\ ContentKept

LEMMA VmInduction == Spec => []VmInv
<1>1. Init => VmInv
  <2> SUFFICES ASSUME Init
               PROVE  VmInv
    OBVIOUS
  <2>1. TypeOK
    BY DEF Init, TypeOK, Label
  <2>2. SessionInv
    BY DEF Init, SessionInv, SessionOK, Making, Shaping
  <2>3. ContentKept
    BY DEF Init, ContentKept, Agree
  <2> QED
    BY <2>1, <2>2, <2>3 DEF VmInv
<1>2. VmInv /\ [Next]_vars => VmInv'
  <2> SUFFICES ASSUME TypeOK, SessionInv, ContentKept, [Next]_vars
               PROVE  TypeOK' /\ SessionInv' /\ ContentKept'
    BY DEF VmInv
  <2>1. CASE UNCHANGED vars
    <3>1. TypeOK'
      BY <2>1 DEF vars, host, TypeOK
    <3>2. SessionInv'
      BY <2>1 DEF vars, host, SessionInv, SessionOK, NeedsQ35, Agree
    <3> QED
      BY <2>1, <3>1, <3>2 DEF vars, host, ContentKept, Agree
  <2>2. ASSUME NEW v \in Vmid, Work(v)
        PROVE  TypeOK' /\ SessionInv' /\ ContentKept'
    <3>1. CASE Refused(v)
      BY <3>1, IdleStep DEF Refused, ContentKept, Agree, host
    <3> QED
      BY <2>2, <3>1, PrepareStep, ShapeStep, DestroyStep DEF Work
  <2>3. ASSUME NEW v \in Vmid, Fails(v)
        PROVE  TypeOK' /\ SessionInv' /\ ContentKept'
    BY <2>3, IdleStep DEF Fails, ContentKept, Agree, host
  <2> QED
    BY <2>1, <2>2, <2>3, BeginStep, RebootStep, AdminStep DEF Next
<1> QED
  BY <1>1, <1>2, PTL DEF Spec

\* Every session, snippet and VM is of its type at all times: in particular
\* no command ever changes a VM that is not this session's.
THEOREM VmTypeCorrect == Spec => []TypeOK
<1>1. VmInv => TypeOK
  BY DEF VmInv
<1> QED
  BY <1>1, VmInduction, PTL

\* Any number of overlapping sessions, each with a query and a later set of
\* the storage's content types, change no type but snippets, except one the
\* admin changes between a session's query and its set, at any time
\* (verifyvm.go:549-570).
THEOREM OnlyRacedTypesChange == Spec => []ContentKept
<1>1. VmInv => ContentKept
  BY DEF VmInv
<1> QED
  BY <1>1, VmInduction, PTL

\* The machine type and the cards of what `create` made are such that
\* Proxmox starts it (verifyvm.go:439-451, 486-494, config.go:540-572).
THEOREM StartNeverRefused == Spec => []StartAccepted
<1>1. VmInv => StartAccepted
  <2> SUFFICES ASSUME TypeOK, SessionInv, NEW v \in Vmid, pc[v] = "pci", OwnAddresses(file[v])
               PROVE  Startable(vm[v])
    BY DEF VmInv, StartAccepted
  <2> DEFINE c == file[v]
  <2>1. /\ c \in Files[v] /\ vm[v] \in Vm /\ vm[v].q35 = NeedsQ35(v)
        /\ \A d \in vm[v].pci : d[1] \in WifiPCIDevices(c) /\ d[2] = Address[Ids(c[d[1]])]
    BY DEF SessionInv, SessionOK, Making, Shaping
  <2>2. vm[v].pci # {} => vm[v].q35
    BY <2>1 DEF NeedsQ35
  <2>3. ASSUME NEW d \in vm[v].pci, NEW e \in vm[v].pci, d[2] = e[2]
        PROVE  d = e
    <3>1. c \in Seq(Range(c))
      BY <2>1 DEF AnyFile
    <3>2. /\ d[1] \in DOMAIN c /\ HasIds(c[d[1]])
          /\ e[1] \in DOMAIN c /\ HasIds(c[e[1]])
      BY <2>1 DEF WifiPCIDevices
    <3>3. Ids(c[d[1]]) = Ids(c[e[1]])
      BY <2>1, <2>3, <3>2 DEF OwnAddresses
    <3>4. d[1] \in Nat \ {0} /\ e[1] \in Nat \ {0}
      BY <3>1, <3>2
    <3>5. ~(d[1] < e[1]) /\ ~(e[1] < d[1])
      BY <2>1, <3>2, <3>3, <3>4 DEF WifiPCIDevices
    <3>6. d[1] = e[1]
      BY <3>4, <3>5
    <3>7. d \in Nat \X Range(Address) /\ e \in Nat \X Range(Address)
      BY <2>1 DEF Vm
    <3> QED
      BY <2>3, <3>6, <3>7
  <2> QED
    BY <2>2, <2>3 DEF Startable
<1> QED
  BY <1>1, VmInduction, PTL

\* No step of any session touches somebody else's VM.
LEMMA OthersStep ==
  ASSUME VmInv, [Next]_vars, NEW v \in Vmid, vm[v] = Other
  PROVE  vm'[v] = Other
<1>1. CASE UNCHANGED vars
  BY <1>1 DEF vars, host
<1>2. ASSUME NEW o \in Vmid, Work(o) \/ Fails(o) \/ BeginDestroy(o)
      PROVE  vm'[v] = Other
  <2>1. CASE Query(o) \/ Enable(o) \/ UploadUser(o) \/ UploadNetwork(o) \/ LeaveStopped(o)
             \/ RemoveSnippets(o) \/ Refused(o) \/ Fails(o) \/ BeginDestroy(o)
    BY <2>1 DEF Query, Enable, UploadUser, UploadNetwork, LeaveStopped, RemoveSnippets,
       Refused, Fails, BeginDestroy, host
  <2>2. CASE Create(o)
    BY <2>2 DEF Create, Change, VmInv, TypeOK
  <2>3. CASE ImportDisk(o) \/ AttachDisk(o) \/ Set(o) \/ AttachPCI(o) \/ Start(o)
    <3>1. pc[o] \in Shaping
      BY <2>3 DEF ImportDisk, AttachDisk, Set, AttachPCI, Start, Shaping
    <3>2. o # v
      BY <3>1 DEF VmInv, SessionInv, SessionOK
    <3> QED
      BY <2>3, <3>2 DEF ImportDisk, AttachDisk, Set, AttachPCI, Start, Change, VmInv, TypeOK
  <2>4. CASE Stop(o) \/ Destroy(o)
    BY <2>4 DEF Stop, Destroy, Stopped, Ours, Change, VmInv, TypeOK
  <2> QED
    BY <1>2, <2>1, <2>2, <2>3, <2>4 DEF Work
<1>3. ASSUME NEW o \in Vmid, \/ AdminCreate(o)
                             \/ \E c \in Files[o] : BeginCreate(o, c)
      PROVE  vm'[v] = Other
  BY <1>3 DEF AdminCreate, BeginCreate, host, VmInv, TypeOK
<1>4. CASE HostReboot \/ AdminEdit
  BY <1>4 DEF HostReboot, AdminEdit, Ours
<1> QED
  BY <1>1, <1>2, <1>3, <1>4 DEF Next

\* A create that is given a taken VMID, and a destroy, leave the VMs of
\* others alone (verifyvm.go:456-459, main.go:322: a plan stops at the first failure).
THEOREM OthersStay == Spec => OthersUntouched
<1>1. VmInv /\ [Next]_vars => [\A v \in Vmid : vm[v] = Other => vm'[v] = Other]_vars
  BY OthersStep
<1> QED
  BY <1>1, VmInduction, PTL DEF Spec, OthersUntouched

-----------------------------------------------------------------------------
(* What "Done." means.                                                     *)

\* The first position in a file with given IDs is the one whose card is
\* attached.
LEMMA FirstDevice ==
  ASSUME NEW c, c \in Seq(Range(c)), NEW j \in DOMAIN c, HasIds(c[j])
  PROVE  \E i \in WifiPCIDevices(c) : Ids(c[i]) = Ids(c[j])
<1> DEFINE Match == {i \in DOMAIN c : HasIds(c[i]) /\ Ids(c[i]) = Ids(c[j])}
           R == OpToRel(<, Nat)
<1>1. Match \subseteq Nat /\ j \in Match /\ DOMAIN c = 1 .. Len(c) /\ Len(c) \in Nat
  OBVIOUS
<1>2. PICK i \in Match : \A m \in Match : <<m, i>> \notin R
  <2>1. IsWellFoundedOn(R, Nat)
    BY NatLessThanWellFounded
  <2> HIDE DEF R, Match
  <2> QED
    BY <2>1, <1>1, WFMin
<1>3. \A m \in Match : ~(m < i)
  BY <1>1, <1>2 DEF OpToRel
<1>4. ASSUME NEW m \in 1 .. i - 1, HasIds(c[m])
      PROVE  Ids(c[m]) # Ids(c[i])
  <2>1. m \in DOMAIN c /\ m < i
    BY <1>1, <1>4
  <2> QED
    BY <1>3, <1>4, <2>1
<1> QED
  BY <1>4 DEF WifiPCIDevices

\* config.WifiPCIDevices deduplicates, for every file: each pair of IDs some
\* radio has is in its list, and none is twice.
THEOREM RadiosListedOnce ==
  ASSUME NEW c, c \in Seq(Range(c))
  PROVE  /\ {Ids(c[i]) : i \in WifiPCIDevices(c)} = {Ids(s) : s \in {s \in Range(c) : HasIds(s)}}
         /\ \A i, j \in WifiPCIDevices(c) : Ids(c[i]) = Ids(c[j]) => i = j
<1>1. ASSUME NEW i \in WifiPCIDevices(c)
      PROVE  /\ i \in DOMAIN c /\ i \in Nat \ {0} /\ HasIds(c[i])
             /\ \A m \in 1 .. i - 1 : HasIds(c[m]) => Ids(c[m]) # Ids(c[i])
  BY <1>1 DEF WifiPCIDevices
<1>2. ASSUME NEW s \in Range(c), HasIds(s)
      PROVE  \E i \in WifiPCIDevices(c) : Ids(c[i]) = Ids(s)
  BY <1>2, FirstDevice DEF Range
<1>3. ASSUME NEW i \in WifiPCIDevices(c)
      PROVE  c[i] \in Range(c) /\ HasIds(c[i])
  BY <1>1, <1>3 DEF Range
<1>4. ASSUME NEW i \in WifiPCIDevices(c), NEW j \in WifiPCIDevices(c), Ids(c[i]) = Ids(c[j])
      PROVE  i = j
  <2>1. ~(i < j) /\ ~(j < i) /\ i \in Nat /\ j \in Nat
    BY <1>1, <1>4
  <2> QED
    BY <2>1
<1> QED
  BY <1>2, <1>3, <1>4

\* All attached means every card of the file, and no other.
LEMMA CardsMatch ==
  ASSUME NEW v \in Vmid, SessionOK(v), pc[v] = "pci", Rest(v) = {}
  PROVE  {d[2] : d \in vm[v].pci} = {Address[Ids(s)] : s \in {s \in Range(file[v]) : HasIds(s)}}
<1> DEFINE c == file[v]
           cards == {d[2] : d \in vm[v].pci}
           asked == {Address[Ids(s)] : s \in {s \in Range(c) : HasIds(s)}}
<1>1. /\ c \in AnyFile /\ c \in Seq(Range(c))
      /\ \A d \in vm[v].pci : d[1] \in WifiPCIDevices(c) /\ d[2] = Address[Ids(c[d[1]])]
  <2>1. c \in Files[v]
    BY DEF SessionOK, Making, Shaping
  <2> QED
    BY <2>1, FileTypes DEF SessionOK, Shaping
<1>2. ASSUME NEW d \in vm[v].pci
      PROVE  d[2] \in asked
  BY <1>1 DEF WifiPCIDevices, Range
<1>3. ASSUME NEW s \in Range(c), HasIds(s)
      PROVE  Address[Ids(s)] \in cards
  <2>1. PICK j \in DOMAIN c : s = c[j]
    BY DEF Range
  <2>2. PICK i \in WifiPCIDevices(c) : Ids(c[i]) = Ids(s)
    BY <1>1, <1>3, <2>1, FirstDevice
  <2>3. PICK d \in vm[v].pci : d[1] = i
    BY <2>2 DEF Rest
  <2> QED
    BY <1>1, <2>2, <2>3
<1> QED
  BY <1>2, <1>3

\* net0 and the template agree about a valid file, whatever is native in it:
\* each wired segment arrives, and the update segment the way cloud-init's
\* netplan expects it, tagged or not.
THEOREM TrunkFits ==
  ASSUME NEW c \in AnyFile \cup {<<>>}, Valid(c), NEW s \in Range(c), s.type # "wifi"
  PROVE  /\ Carried(Net0(c), s)
         /\ s.name = UpdateSegment => (InitialUntagged(c) <=> s.type = "native")
<1>1. PICK j \in DOMAIN c : s = c[j]
  BY DEF Range
<1>2. c \in AnyFile /\ Accepted(c)
  BY <1>1 DEF Valid, Accepted, Range
<1>3. s.type \in {"native", "vlan"} /\ s.name \in VLANSegmentNames(c)
  BY <1>1, <1>2 DEF Accepted, SegmentOK, VLANSegmentNames
<1>4. CASE \E i \in DOMAIN c : c[i].type = "native"
  <2>1. PICK i \in DOMAIN c : c[i].type = "native"
    BY <1>4
  <2>2. NativeSegmentName(c) = c[i].name
    <3>1. \E t \in Range(c) : t.type = "native"
      BY <2>1 DEF Range
    <3>2. (CHOOSE t \in Range(c) : t.type = "native") \in Range(c)
          /\ (CHOOSE t \in Range(c) : t.type = "native").type = "native"
      BY <3>1
    <3>3. PICK k \in DOMAIN c : (CHOOSE t \in Range(c) : t.type = "native") = c[k]
      BY <3>2 DEF Range
    <3>4. k = i
      BY <1>2, <2>1, <3>2, <3>3 DEF Accepted
    <3> QED
      BY <1>4, <3>3, <3>4 DEF NativeSegmentName
  <2>3. c[i].name # None
    BY <1>2, <2>1
  <2>4. Carried(Net0(c), s)
    BY <2>2, <2>3 DEF Net0, Carried
  <2>5. s.name = UpdateSegment => (InitialUntagged(c) <=> s.type = "native")
    <3>1. s.type = "native" => j = i
      BY <1>1, <1>2, <2>1 DEF Accepted
    <3>2. s.name = c[i].name => j = i
      BY <1>1, <1>2, <2>1
    <3> QED
      BY <1>1, <2>1, <2>2, <3>1, <3>2 DEF InitialUntagged
  <2> QED
    BY <2>4, <2>5
<1>5. CASE ~\E i \in DOMAIN c : c[i].type = "native"
  <2>1. NativeSegmentName(c) = None /\ s.type = "vlan"
    BY <1>1, <1>3, <1>5 DEF NativeSegmentName
  <2>2. Net0(c) = VLANSegmentNames(c)
    BY <1>3, <2>1 DEF Net0
  <2>3. s.name # None
    BY <1>1, <1>2
  <2> QED
    BY <1>3, <2>1, <2>2, <2>3 DEF Carried, InitialUntagged
<1> QED
  BY <1>4, <1>5

\* Where a session's plan ends, its VM is complete.
LEMMA BuiltIsComplete ==
  ASSUME TypeOK, NEW v \in Vmid, SessionOK(v), BuildOK(v), pc[v] = "pci", Rest(v) = {}
  PROVE  Complete(v) /\ ~vm[v].running
<1> DEFINE c == file[v]
<1>1. /\ pc[v] \in Making /\ pc[v] \in Shaping
      /\ vm[v].parts = {"scsi0", "ide2", "boot", "resize"}
  BY DEF BuildOK, PartsAt, Making, Shaping
<1>2. user[v] = c /\ network[v] = Disabled /\ "snippets" \in content /\ Valid(c)
  BY <1>1 DEF BuildOK
<1>3. vm[v].net0 = Net0(c) /\ ~vm[v].running
  BY <1>1 DEF BuildOK
<1>4. c \in AnyFile \cup {<<>>}
  BY DEF TypeOK
<1>5. \A s \in Range(c) : s.type # "wifi" =>
        /\ Carried(vm[v].net0, s)
        /\ s.name = UpdateSegment => (InitialUntagged(c) <=> s.type = "native")
  BY <1>2, <1>3, <1>4, TrunkFits
<1> QED
  BY <1>1, <1>2, <1>3, <1>5, CardsMatch DEF Complete

\* The other sessions do not notice what one of them builds or takes down.
LEMMA BuildFrame ==
  ASSUME BuildInv, NEW v \in Vmid,
         \A o \in Vmid \ {v} : /\ pc'[o] = pc[o] /\ file'[o] = file[o] /\ vm'[o] = vm[o]
                               /\ user'[o] = user[o] /\ network'[o] = network[o],
         "snippets" \in content => "snippets" \in content',
         BuildOK(v)'
  PROVE  BuildInv'
<1>1. ASSUME NEW o \in Vmid \ {v}
      PROVE  BuildOK(o)'
  BY <1>1 DEF BuildInv, BuildOK, Ours
<1> QED
  BY <1>1 DEF BuildInv

\* Up to `qm create`: a valid file, then the storage, then the two snippets.
LEMMA BuildPrepare ==
  ASSUME TypeOK, BuildInv, NEW v \in Vmid,
         \/ Query(v) \/ Enable(v) \/ UploadUser(v) \/ UploadNetwork(v)
         \/ \E c \in Files[v] : BeginCreate(v, c)
  PROVE  BuildInv'
<1> USE DEF TypeOK, host, Then, Goto
<1>1. CASE Query(v)
  <2>1. BuildOK(v)'
    BY <1>1 DEF Query, BuildInv, BuildOK, Making, Shaping
  <2> QED
    BY <1>1, <2>1, BuildFrame DEF Query
<1>2. CASE Enable(v)
  <2>1. BuildOK(v)' /\ "snippets" \in content'
    BY <1>2 DEF Enable, BuildInv, BuildOK, Making, Shaping
  <2> QED
    BY <1>2, <2>1, BuildFrame DEF Enable
<1>3. CASE UploadUser(v)
  <2>1. BuildOK(v)'
    BY <1>3 DEF UploadUser, BuildInv, BuildOK, Making, Shaping
  <2>2. /\ UNCHANGED <<vm, content, file>>
        /\ \A o \in Vmid \ {v} : pc'[o] = pc[o] /\ user'[o] = user[o] /\ network'[o] = network[o]
    BY <1>3 DEF UploadUser
  <2> QED
    BY <2>1, <2>2, BuildFrame
<1>4. CASE UploadNetwork(v)
  <2>1. BuildOK(v)'
    BY <1>4 DEF UploadNetwork, BuildInv, BuildOK, Making, Shaping
  <2>2. /\ UNCHANGED <<vm, content, file>>
        /\ \A o \in Vmid \ {v} : pc'[o] = pc[o] /\ user'[o] = user[o] /\ network'[o] = network[o]
    BY <1>4 DEF UploadNetwork
  <2> QED
    BY <2>1, <2>2, BuildFrame
<1>5. ASSUME NEW c \in Files[v], BeginCreate(v, c)
      PROVE  BuildInv'
  <2>1. BuildOK(v)'
    BY <1>5 DEF BeginCreate, BuildInv, BuildOK, Making, Shaping
  <2> QED
    BY <1>5, <2>1, BuildFrame DEF BeginCreate
<1> QED
  BY <1>1, <1>2, <1>3, <1>4, <1>5

\* From `qm create` on each command adds its part, and none starts the VM but
\* the last.
LEMMA BuildShape ==
  ASSUME TypeOK, SessionInv, BuildInv, NEW v \in Vmid,
         \/ Create(v) \/ ImportDisk(v) \/ AttachDisk(v) \/ Set(v) \/ AttachPCI(v)
         \/ Start(v) \/ LeaveStopped(v)
  PROVE  BuildInv'
<1>1. /\ UNCHANGED <<user, network, content, file>>
      /\ \A o \in Vmid \ {v} : pc'[o] = pc[o] /\ vm'[o] = vm[o]
      /\ pc[v] \in {"create"} \cup Shaping
  BY DEF Create, ImportDisk, AttachDisk, Set, AttachPCI, Start, LeaveStopped, Change, Then, Goto,
     host, Shaping, TypeOK
<1>2. /\ Valid(file[v]) /\ "snippets" \in content
      /\ user[v] = file[v] /\ network[v] = Disabled
  BY <1>1 DEF BuildInv, BuildOK, Making
<1>3. ASSUME NEW l \in Shaping, pc'[v] \in {l, "idle"},
             vm'[v].parts = PartsAt[l], vm'[v].net0 = Net0(file[v]), ~vm'[v].running
      PROVE  BuildInv'
  <2>1. BuildOK(v)'
    BY <1>1, <1>2, <1>3 DEF BuildOK, Shaping
  <2> QED
    BY <1>1, <2>1, BuildFrame
<1>4. ASSUME pc'[v] \in {"created", "idle"}
      PROVE  BuildInv'
  <2>1. BuildOK(v)'
    BY <1>1, <1>4 DEF BuildOK, Making, Shaping
  <2> QED
    BY <1>1, <2>1, BuildFrame
<1>5. CASE Create(v)
  <2>1. pc'[v] \in {"import", "idle"} /\ vm'[v] = NewVm(v)
    BY <1>5 DEF Create, Change, Then, Goto, TypeOK
  <2> QED
    BY <1>3, <2>1 DEF NewVm, PartsAt, Shaping
<1>6. ASSUME pc[v] \in Shaping
      PROVE  /\ vm[v] \in Vm /\ vm[v].parts = PartsAt[pc[v]]
             /\ vm[v].net0 = Net0(file[v]) /\ ~vm[v].running
  BY <1>6 DEF SessionInv, SessionOK, BuildInv, BuildOK
<1>7. CASE ImportDisk(v)
  <2>1. /\ pc[v] = "import" /\ pc'[v] \in {"scsi0", "idle"}
        /\ vm'[v] = [vm[v] EXCEPT !.unused = TRUE]
    BY <1>7 DEF ImportDisk, Change, Then, Goto, TypeOK
  <2>2. /\ vm'[v].parts = PartsAt["scsi0"] /\ vm'[v].net0 = Net0(file[v]) /\ ~vm'[v].running
    BY <1>6, <2>1 DEF Vm, PartsAt, Shaping
  <2> QED
    BY <1>3, <2>1, <2>2 DEF Shaping
<1>8. CASE AttachDisk(v)
  <2>1. /\ pc[v] = "scsi0" /\ pc'[v] \in {"ide2", "idle"}
        /\ vm'[v] = [vm[v] EXCEPT !.unused = FALSE, !.parts = @ \cup {"scsi0"}]
    BY <1>8 DEF AttachDisk, Change, Then, Goto, TypeOK
  <2>2. /\ vm'[v].parts = PartsAt["ide2"] /\ vm'[v].net0 = Net0(file[v]) /\ ~vm'[v].running
    BY <1>6, <2>1 DEF Vm, PartsAt, Shaping
  <2> QED
    BY <1>3, <2>1, <2>2 DEF Shaping
<1>9. CASE Set(v)
  <2> DEFINE l == [ide2 |-> "boot", boot |-> "resize", resize |-> "pci"][pc[v]]
  <2>1. /\ pc[v] \in {"ide2", "boot", "resize"} /\ pc'[v] \in {l, "idle"}
        /\ vm'[v] = [vm[v] EXCEPT !.parts = @ \cup {pc[v]}]
    BY <1>9 DEF Set, Change, Then, Goto, TypeOK
  <2>2. l \in Shaping /\ PartsAt[l] = PartsAt[pc[v]] \cup {pc[v]}
    BY <2>1 DEF PartsAt, Shaping
  <2>3. /\ vm'[v].parts = vm[v].parts \cup {pc[v]} /\ vm'[v].net0 = vm[v].net0
        /\ vm'[v].running = vm[v].running
    BY <1>6, <2>1 DEF Vm, Shaping
  <2>4. /\ vm'[v].parts = PartsAt[l] /\ vm'[v].net0 = Net0(file[v]) /\ ~vm'[v].running
    BY <1>6, <2>1, <2>2, <2>3 DEF Shaping
  <2> QED
    BY <1>3, <2>1, <2>2, <2>4
<1>10. CASE AttachPCI(v)
  <2>1. PICK i \in Rest(v) :
          /\ pc[v] = "pci" /\ pc'[v] \in {"pci", "idle"}
          /\ vm'[v] = [vm[v] EXCEPT !.pci = @ \cup {<<i, Address[Ids(file[v][i])]>>}]
    BY <1>10 DEF AttachPCI, Change, Then, Goto, TypeOK
  <2>2. /\ vm'[v].parts = PartsAt["pci"] /\ vm'[v].net0 = Net0(file[v]) /\ ~vm'[v].running
    BY <1>6, <2>1 DEF Vm, Shaping
  <2> QED
    BY <1>3, <2>1, <2>2 DEF Shaping
<1>11. CASE Start(v) \/ LeaveStopped(v)
  <2>1. pc'[v] \in {"created", "idle"}
    BY <1>11 DEF Start, LeaveStopped, Change, Then, Goto, TypeOK
  <2> QED
    BY <1>4, <2>1
<1> QED
  BY <1>5, <1>7, <1>8, <1>9, <1>10, <1>11

\* Taking down, failing, the host and its admin.
LEMMA BuildOther ==
  ASSUME TypeOK, SessionInv, BuildInv,
         \/ \E v \in Vmid : \/ Fails(v) \/ Refused(v) \/ Stop(v) \/ Destroy(v) \/ RemoveSnippets(v)
                            \/ BeginDestroy(v) \/ AdminCreate(v)
         \/ HostReboot \/ AdminEdit
  PROVE  BuildInv'
<1>1. ASSUME NEW v \in Vmid, Fails(v) \/ Refused(v) \/ BeginDestroy(v)
      PROVE  BuildInv'
  <2>1. /\ UNCHANGED host /\ pc'[v] \in {"idle", "stop"}
        /\ \A o \in Vmid \ {v} : pc'[o] = pc[o] /\ file'[o] = file[o]
    BY <1>1 DEF Fails, Refused, BeginDestroy, Goto, TypeOK
  <2>2. BuildOK(v)'
    BY <2>1 DEF BuildOK, Making, Shaping
  <2> QED
    BY <2>1, <2>2, BuildFrame DEF host
<1>2. ASSUME NEW v \in Vmid, Stop(v) \/ Destroy(v) \/ RemoveSnippets(v)
      PROVE  BuildInv'
  <2>1. /\ UNCHANGED <<content, file>>
        /\ pc'[v] \in {"idle", "destroy", "remove", "destroyed"}
        /\ \A o \in Vmid \ {v} : /\ pc'[o] = pc[o] /\ vm'[o] = vm[o]
                                 /\ user'[o] = user[o] /\ network'[o] = network[o]
    BY <1>2 DEF Stop, Destroy, RemoveSnippets, Change, Then, Goto, TypeOK
  <2>2. pc'[v] = "remove" => vm'[v] = NoVm
    BY <1>2 DEF Stop, Destroy, RemoveSnippets, Change, Then, Goto, TypeOK
  <2>3. BuildOK(v)'
    BY <2>1, <2>2 DEF BuildOK, Ours, Making, Shaping
  <2> QED
    BY <2>1, <2>3, BuildFrame
<1>3. ASSUME NEW v \in Vmid, AdminCreate(v)
      PROVE  BuildInv'
  <2>1. /\ vm' = [vm EXCEPT ![v] = Other] /\ UNCHANGED <<user, network, content, pc, file>>
        /\ pc[v] \notin Shaping
    BY <1>3 DEF AdminCreate, SessionInv, SessionOK
  <2>2. BuildOK(v)'
    BY <2>1 DEF BuildInv, BuildOK, Ours, TypeOK
  <2> QED
    BY <2>1, <2>2, BuildFrame DEF TypeOK
<1>4. CASE HostReboot
  <2>1. \A v \in Vmid : pc'[v] \in {"idle", "created", "destroyed"}
    BY <1>4 DEF HostReboot, Idle
  <2> QED
    BY <2>1 DEF BuildInv, BuildOK, Making, Shaping
<1>5. CASE AdminEdit
  BY <1>5 DEF AdminEdit, BuildInv, BuildOK, Ours
<1> QED
  BY <1>1, <1>2, <1>3, <1>4, <1>5

LEMMA BuildInduction == Spec => []BuildInv
<1>1. Init => BuildInv
  BY DEF Init, BuildInv, BuildOK, Making, Shaping
<1>2. VmInv /\ BuildInv /\ [Next]_vars => BuildInv'
  <2>1. ASSUME BuildInv, UNCHANGED vars
        PROVE  BuildInv'
    BY <2>1 DEF BuildInv, BuildOK, Ours, vars, host
  <2> QED
    BY <2>1, BuildPrepare, BuildShape, BuildOther DEF VmInv, Next, Work
<1> QED
  BY <1>1, <1>2, VmInduction, PTL DEF Spec

-----------------------------------------------------------------------------
(* The two promises of a session.                                          *)

\* What makes a session say "Done." after a create, or a VM run.
LEMMA StartedIsComplete ==
  ASSUME TypeOK, SessionInv, BuildInv, NEW v \in Vmid, Start(v) \/ LeaveStopped(v)
  PROVE  /\ Complete(v)'
         /\ Start(v) => vm'[v].running /\ Options[v].start
         /\ LeaveStopped(v) => ~vm'[v].running /\ ~Options[v].start
<1>1. pc[v] = "pci" /\ Rest(v) = {} /\ UNCHANGED <<user, network, content, file>>
  BY DEF Start, LeaveStopped, Change, host
<1>2. Complete(v) /\ ~vm[v].running /\ vm[v] \in Vm
  BY <1>1, BuiltIsComplete DEF SessionInv, SessionOK, BuildInv, Shaping
<1>3. CASE Start(v)
  <2>1. vm'[v] = [vm[v] EXCEPT !.running = TRUE] /\ Options[v].start
    BY <1>3 DEF Start, Change, TypeOK
  <2>2. /\ vm'[v].parts = vm[v].parts /\ vm'[v].pci = vm[v].pci /\ vm'[v].net0 = vm[v].net0
        /\ vm'[v].running
    BY <1>2, <2>1 DEF Vm
  <2>3. ~LeaveStopped(v)
    BY <2>1 DEF LeaveStopped
  <2> QED
    BY <1>1, <1>2, <2>1, <2>2, <2>3 DEF Complete
<1>4. CASE LeaveStopped(v)
  <2>1. UNCHANGED vm /\ ~Options[v].start /\ ~Start(v)
    BY <1>4 DEF LeaveStopped, Start, host
  <2> QED
    BY <1>1, <1>2, <2>1 DEF Complete
<1> QED
  BY <1>3, <1>4

\* Only two steps say so.
LEMMA CreatedBy ==
  ASSUME TypeOK, Next, NEW v \in Vmid, pc'[v] = "created", pc[v] # "created"
  PROVE  Start(v) \/ LeaveStopped(v)
<1>1. ASSUME NEW o \in Vmid, Work(o)
      PROVE  Start(v) \/ LeaveStopped(v)
  <2>1. CASE Start(o) \/ LeaveStopped(o)
    <3>1. o = v
      BY <2>1 DEF Start, LeaveStopped, Change, Then, Goto, TypeOK
    <3> QED
      BY <2>1, <3>1
  <2>2. CASE Set(o)
    BY <2>2 DEF Set, Change, Then, Goto, TypeOK
  <2> QED
    BY <1>1, <2>1, <2>2
       DEF Work, Query, Enable, UploadUser, UploadNetwork, Create, ImportDisk, AttachDisk, AttachPCI,
           Stop, Destroy, RemoveSnippets, Refused, Change, Then, Goto, TypeOK
<1>2. ASSUME NEW o \in Vmid, \/ Fails(o) \/ BeginDestroy(o) \/ AdminCreate(o)
                             \/ \E c \in Files[o] : BeginCreate(o, c)
      PROVE  FALSE
  BY <1>2 DEF Fails, BeginDestroy, AdminCreate, BeginCreate, Goto, TypeOK
<1>3. ~HostReboot /\ ~AdminEdit
  BY DEF HostReboot, AdminEdit
<1> QED
  BY <1>1, <1>2, <1>3 DEF Next

LEMMA DestroyedBy ==
  ASSUME TypeOK, Next, NEW v \in Vmid, pc'[v] = "destroyed", pc[v] # "destroyed"
  PROVE  Destroy(v) \/ RemoveSnippets(v)
<1>1. ASSUME NEW o \in Vmid, Work(o)
      PROVE  Destroy(v) \/ RemoveSnippets(v)
  <2>1. CASE Destroy(o) \/ RemoveSnippets(o)
    <3>1. o = v
      BY <2>1 DEF Destroy, RemoveSnippets, Change, Then, Goto, TypeOK
    <3> QED
      BY <2>1, <3>1
  <2>2. CASE Set(o)
    BY <2>2 DEF Set, Change, Then, Goto, TypeOK
  <2> QED
    BY <1>1, <2>1, <2>2
       DEF Work, Query, Enable, UploadUser, UploadNetwork, Create, ImportDisk, AttachDisk, AttachPCI,
           Start, LeaveStopped, Stop, Refused, Change, Then, Goto, TypeOK
<1>2. ASSUME NEW o \in Vmid, \/ Fails(o) \/ BeginDestroy(o) \/ AdminCreate(o)
                             \/ \E c \in Files[o] : BeginCreate(o, c)
      PROVE  FALSE
  BY <1>2 DEF Fails, BeginDestroy, AdminCreate, BeginCreate, Goto, TypeOK
<1>3. ~HostReboot /\ ~AdminEdit
  BY DEF HostReboot, AdminEdit
<1> QED
  BY <1>1, <1>2, <1>3 DEF Next

\* After `qm destroy` there is no VM, and the snippets go unless kept.
LEMMA DestroyedIsGone ==
  ASSUME TypeOK, BuildInv, NEW v \in Vmid, Destroy(v) \/ RemoveSnippets(v), pc'[v] = "destroyed"
  PROVE  /\ ~Ours(v)'
         /\ Options[v].keep \/ (user'[v] = Missing /\ network'[v] = Missing)
<1>1. CASE Destroy(v)
  BY <1>1 DEF Destroy, Change, Then, Goto, Ours, TypeOK
<1>2. CASE RemoveSnippets(v)
  <2>1. ~Ours(v) /\ UNCHANGED vm
    BY <1>2 DEF RemoveSnippets, BuildInv, BuildOK
  <2> QED
    BY <1>2, <2>1 DEF RemoveSnippets, Ours, TypeOK
<1> QED
  BY <1>1, <1>2

\* "Done." is true, whatever failed in the sessions before, for every set of
\* VMIDs, options and files (main.go:308-326, verifyvm.go:397-505).
THEOREM DoneIsTrue == Spec => DoneMeansDone
<1> DEFINE Done ==
      \A v \in Vmid :
        /\ pc'[v] = "created" /\ pc[v] # "created" =>
             Complete(v)' /\ (vm'[v].running <=> Options[v].start)
        /\ pc'[v] = "destroyed" /\ pc[v] # "destroyed" =>
             /\ ~Ours(v)'
             /\ Options[v].keep \/ (user'[v] = Missing /\ network'[v] = Missing)
<1>1. VmInv /\ BuildInv /\ [Next]_vars => [Done]_vars
  BY CreatedBy, DestroyedBy, StartedIsComplete, DestroyedIsGone DEF VmInv
<1> QED
  BY <1>1, VmInduction, BuildInduction, PTL DEF Spec, DoneMeansDone

\* Which step lets a VM run.
LEMMA RunBy ==
  ASSUME TypeOK, SessionInv, Next, NEW v \in Vmid, ~Running(v), Running(v)', ~vm'[v].onboot
  PROVE  Start(v)
<1>1. ASSUME NEW o \in Vmid, Work(o)
      PROVE  Start(v)
  <2>1. CASE \/ Query(o) \/ Enable(o) \/ UploadUser(o) \/ UploadNetwork(o) \/ LeaveStopped(o)
             \/ RemoveSnippets(o) \/ Refused(o)
    BY <2>1 DEF Query, Enable, UploadUser, UploadNetwork, LeaveStopped, RemoveSnippets, Refused,
       host, Running, Ours
  <2>2. CASE Create(o)
    BY <2>2 DEF Create, Change, NewVm, Running, Ours, TypeOK
  <2>3. CASE ImportDisk(o) \/ AttachDisk(o) \/ Set(o) \/ AttachPCI(o)
    <3>1. vm[o] \in Vm /\ Ours(o)
      BY <2>3, OursIsVm
         DEF ImportDisk, AttachDisk, Set, AttachPCI, SessionInv, SessionOK, Shaping
    <3>2. vm'[o].running = vm[o].running /\ \A u \in Vmid \ {o} : vm'[u] = vm[u]
      <4>1. ASSUME NEW new, NEW l, Change(o, new, l), new.running = vm[o].running
            PROVE  vm'[o].running = vm[o].running /\ \A u \in Vmid \ {o} : vm'[u] = vm[u]
        BY <4>1 DEF Change, TypeOK
      <4>2. CASE ImportDisk(o)
        BY <3>1, <4>1, <4>2 DEF ImportDisk, Vm
      <4>3. CASE AttachDisk(o)
        BY <3>1, <4>1, <4>3 DEF AttachDisk, Vm
      <4>4. CASE Set(o)
        <5> DEFINE new == [vm[o] EXCEPT !.parts = @ \cup {pc[o]}]
        <5>1. new.running = vm[o].running
          BY <3>1 DEF Vm
        <5>2. \E l : Change(o, new, l)
          BY <4>4 DEF Set
        <5> QED
          BY <4>1, <5>1, <5>2
      <4>5. CASE AttachPCI(o)
        <5>1. PICK i : Change(o, [vm[o] EXCEPT !.pci = @ \cup {<<i, Address[Ids(file[o][i])]>>}], "pci")
          BY <4>5 DEF AttachPCI
        <5>2. [vm[o] EXCEPT !.pci = @ \cup {<<i, Address[Ids(file[o][i])]>>}].running = vm[o].running
          BY <3>1 DEF Vm
        <5> QED
          BY <4>1, <5>1, <5>2
      <4> QED
        BY <2>3, <4>2, <4>3, <4>4, <4>5
    <3> QED
      BY <3>1, <3>2 DEF Running, Ours
  <2>4. CASE Start(o)
    BY <2>4 DEF Start, Change, Running, Ours, TypeOK
  <2>5. CASE Stop(o) \/ Destroy(o)
    <3>1. \A u \in Vmid \ {o} : vm'[u] = vm[u]
      BY <2>5 DEF Stop, Destroy, Change, TypeOK
    <3>2. ~Running(o)' \/ vm'[o] = vm[o]
      <4>1. Ours(o) => [vm[o] EXCEPT !.running = FALSE].running = FALSE
        BY OursIsVm DEF Vm
      <4> QED
        BY <2>5, <4>1 DEF Stop, Destroy, Change, Running, Ours, TypeOK
    <3> QED
      BY <3>1, <3>2 DEF Running, Ours
  <2> QED
    BY <1>1, <2>1, <2>2, <2>3, <2>4, <2>5 DEF Work
<1>2. ASSUME NEW o \in Vmid, \/ Fails(o) \/ BeginDestroy(o) \/ AdminCreate(o)
                             \/ \E c \in Files[o] : BeginCreate(o, c)
      PROVE  Start(v)
  BY <1>2 DEF Fails, BeginDestroy, AdminCreate, BeginCreate, host, Running, Ours, TypeOK
<1>3. CASE HostReboot
  <2>1. CASE Ours(v)
    <3>1. vm[v] \in Vm /\ vm'[v] = [vm[v] EXCEPT !.running = vm[v].onboot /\ Startable(vm[v])]
      BY <1>3, <2>1, OursIsVm DEF HostReboot
    <3>2. vm'[v].onboot = vm[v].onboot /\ vm'[v].running = (vm[v].onboot /\ Startable(vm[v]))
      BY <3>1 DEF Vm
    <3> QED
      BY <3>2 DEF Running
  <2>2. CASE ~Ours(v)
    BY <1>3, <2>2 DEF HostReboot, Running, Ours
  <2> QED
    BY <2>1, <2>2
<1>4. CASE AdminEdit
  BY <1>4 DEF AdminEdit, Running, Ours
<1> QED
  BY <1>1, <1>2, <1>3, <1>4 DEF Next

\* No session starts what an earlier one left half-made (verifyvm.go:456-505):
\* only the host does, at its own boot, with onboot.
THEOREM HalfMadeStaysDown == Spec => NeverStartsHalfMade
<1> DEFINE Rises == \A v \in Vmid : ~Running(v) /\ Running(v)' /\ ~vm'[v].onboot => Complete(v)'
<1>1. VmInv /\ BuildInv /\ [Next]_vars => [Rises]_vars
  BY RunBy, StartedIsComplete DEF VmInv
<1> QED
  BY <1>1, VmInduction, BuildInduction, PTL DEF Spec, NeverStartsHalfMade
=============================================================================
