------------------------- MODULE SegmentCheck_proofs -------------------------
(***************************************************************************)
(* Theorems about SegmentCheck, for every set of segments and radios.      *)
(***************************************************************************)
EXTENDS SegmentCheck, FiniteSetTheorems, WellFoundedInduction, TLAPS

USE SegmentAssumption, IfaceAssumption

\* Looking for the first match finds one.
LEMMA MinExists ==
  ASSUME NEW S \in SUBSET Nat, S # {}
  PROVE  Min(S) \in S
<1>1. \E m \in S : \A j \in S : m =< j
  <2> DEFINE R == OpToRel(<, Nat)
  <2>1. PICK m \in S : \A j \in S : <<j, m>> \notin R
    <3>1. IsWellFoundedOn(R, Nat)
      BY NatLessThanWellFounded
    <3>2. PICK s \in S : TRUE
      OBVIOUS
    <3> HIDE DEF R
    <3> QED
      BY <3>1, <3>2, WFMin
  <2>2. \A j \in S : ~(j < m)
    BY <2>1 DEF OpToRel
  <2> QED
    BY <2>2
<1> QED
  BY <1>1 DEF Min

LEMMA FirstPresentIsPresent ==
  FirstPresent \in {NoIface} \cup (Radio \cap present)
<1> DEFINE found == {i \in DOMAIN Sorted : Sorted[i] \in present}
<1>1. CASE found = {}
  BY <1>1 DEF FirstPresent
<1>2. CASE found # {}
  <2>1. found \in SUBSET Nat
    OBVIOUS
  <2>2. Min(found) \in found
    BY <2>1, <1>2, MinExists
  <2> QED
    BY <2>2, <1>2 DEF FirstPresent
<1> QED
  BY <1>1, <1>2

\* A segment has an interface of its kind, or none at the moment.
LEMMA IfaceNameType ==
  ASSUME NEW s \in Segment
  PROVE  /\ IfaceName(s) \in Port \cup {NoIface}
         /\ Type[s] = "native" => IfaceName(s) = Trunk
         /\ Type[s] = "vlan" => IfaceName(s) = Vlan(s)
         /\ Type[s] = "wifi" => IfaceName(s) \in Radio \cup {NoIface}
<1>1. ResolveIfName(s) \in Radio \cup {NoIface}
  BY FirstPresentIsPresent DEF ResolveIfName
<1> QED
  BY <1>1 DEF IfaceName, Port, Iface, Vlans

LEMMA DiscoverType ==
  ASSUME TypeOK, NEW s \in Segment
  PROVE  Discover(s) \in Port \cup {NoIface}
<1>1. CASE Type[s] = "wifi"
  BY <1>1 DEF Discover, FindByName, TypeOK, Port, Iface
<1>2. CASE Type[s] # "wifi"
  <2>1. Counted \subseteq Port
    BY DEF Counted, TypeOK
  <2>2. Cardinality(Counted) = 1 => Counted # {}
    <3> SUFFICES ASSUME Counted = {} PROVE Cardinality(Counted) = 0
      OBVIOUS
    <3> QED
      BY FS_EmptySet
  <2> QED
    BY <2>1, <2>2, <1>2 DEF Discover, FindByCount
<1> QED
  BY <1>1, <1>2

LEMMA RenderType ==
  ASSUME NEW s \in Segment, IfaceName(s) # NoIface
  PROVE  Render(s, IfaceName(s)) \in Plan
<1>1. IfaceName(s) \in Port /\ Trunk \in Port
  BY IfaceNameType DEF Port, Iface
<1> QED
  BY <1>1 DEF Render, Plan

LEMMA InitialPlanType ==
  /\ InitialPlan \in Plan
  /\ InitialPlan.segment = UpdateSegment
  /\ InitialPlan.own = Vlan(UpdateSegment)
  /\ InitialPlan.brings = {Trunk, Vlan(UpdateSegment)}
  /\ InitialPlan.dhcp = {Vlan(UpdateSegment)}
<1>1. Vlan(UpdateSegment) \in Port /\ Trunk \in Port
  BY DEF Port, Iface, Vlans
<1> QED
  BY <1>1 DEF InitialPlan, Render, Plan

-----------------------------------------------------------------------------
(* Types.                                                                  *)

LEMMA TypeOKStep ==
  ASSUME TypeOK, Next
  PROVE  TypeOK'
<1> USE DEF TypeOK, network, checks
<1>1. ASSUME NEW i \in Iface, BringUp(i)
      PROVE  TypeOK'
  <2>1. i \in Port
    BY <1>1 DEF BringUp, Plan
  <2> QED
    BY <1>1, <2>1 DEF BringUp
<1>2. ASSUME NEW i \in Iface, GainCarrier(i) \/ LoseCarrier(i)
      PROVE  TypeOK'
  BY <1>2 DEF GainCarrier, LoseCarrier
<1>3. ASSUME NEW i \in Iface, Lease(i) \/ Advertise(i)
      PROVE  TypeOK'
  BY <1>3 DEF Lease, Advertise
<1>4. ASSUME NEW r \in Radio, Scan(r) \/ Bind(r)
      PROVE  TypeOK'
  BY <1>4 DEF Scan, Bind, Port, Iface
<1>5. CASE Attempt
  <2>1. Discover(running.segment) \in Port \cup {NoIface}
    BY DiscoverType DEF Plan
  <2>2. attempt \in Nat /\ attempt < MaxAttempts /\ attempt' = attempt + 1
    BY <1>5 DEF Attempt
  <2>3. attempt' \in 0 .. MaxAttempts /\ (attempt' # MaxAttempts => attempt' < MaxAttempts)
    BY <2>2
  <2>4. pass' \in BOOLEAN
    BY <1>5 DEF Attempt
  <2>5. measured' \in Port \cup {NoIface}
    BY <1>5, <2>1 DEF Attempt
  <2>6. pc' \in {"recorded", "wait"} /\ (pc' = "wait" => attempt' # MaxAttempts)
    BY <1>5 DEF Attempt
  <2> QED
    BY <1>5, <2>3, <2>4, <2>5, <2>6 DEF Attempt
<1>6. CASE Wait
  BY <1>6 DEF Wait
<1>7. CASE WriteNetplan
  <2>1. PICK s \in Segment : IfaceName(s) # NoIface /\ netplan' = Render(s, IfaceName(s))
    BY <1>7 DEF WriteNetplan
  <2>2. netplan' \in Plan
    BY <2>1, RenderType
  <2> QED
    BY <1>7, <2>2 DEF WriteNetplan
<1>8. CASE Boot
  <2>1. 0 \in 0 .. MaxAttempts /\ 0 < MaxAttempts
    OBVIOUS
  <2> QED
    BY <1>8, <2>1 DEF Boot
<1> QED
  BY <1>1, <1>2, <1>3, <1>4, <1>5, <1>6, <1>7, <1>8 DEF Next, Environment

LEMMA TypeOKInit ==
  ASSUME Init
  PROVE  TypeOK
<1>1. 0 \in 0 .. MaxAttempts /\ 0 < MaxAttempts
  OBVIOUS
<1> HIDE DEF InitialPlan
<1> QED
  BY <1>1, InitialPlanType DEF Init, TypeOK

\* Every variable keeps its type; what is installed is always the render of
\* some segment.
THEOREM SegmentCheckTypeCorrect == Spec => []TypeOK
<1>1. TypeOK /\ UNCHANGED vars => TypeOK'
  BY DEF TypeOK, vars, network, checks
<1> QED
  BY <1>1, TypeOKInit, TypeOKStep, PTL DEF Spec

-----------------------------------------------------------------------------
(* The network.                                                            *)

\* Every netplan that is written satisfies PlanInv.
LEMMA RenderIsPlan ==
  ASSUME NEW s \in Segment, IfaceName(s) # NoIface
  PROVE  PlanInv(Render(s, IfaceName(s)))
<1>1. Type[s] = "wifi" => IfaceName(s) \in Radio
  BY IfaceNameType
<1>2. Type[s] = "wifi" => Pin[s] \in {AutoRadio, IfaceName(s)}
  BY DEF IfaceName, ResolveIfName
<1> QED
  BY <1>1, <1>2, IfaceNameType DEF PlanInv, Render

\* The parts of PlanInv that the steps of the network use.
LEMMA PlanShape ==
  ASSUME NEW p \in Plan, PlanInv(p)
  PROVE  /\ p.dhcp = {p.own}
         /\ p # InitialPlan => p.ra = {p.own}
         /\ p.own \in p.brings
         /\ p.brings \subseteq {p.own, Trunk}
         /\ Trunk \in p.brings => p.own = Trunk \/ p.own \in Vlans
         /\ p.own \in Vlans => p.brings = {p.own, Trunk}
         /\ p.brings = IF Type[p.segment] = "vlan" THEN {Trunk, p.own} ELSE {p.own}
<1> DEFINE s == p.segment
           t == Type[s]
<1>1. s \in Segment /\ t \in {"native", "vlan", "wifi"}
  BY DEF Plan
<1>2. /\ p.dhcp = {p.own}
      /\ p # InitialPlan => p.ra = {p.own}
      /\ p.brings = IF t = "vlan" THEN {Trunk, p.own} ELSE {p.own}
  <2> DEFINE q == Render(s, p.own)
  <2>1. /\ q.dhcp = {p.own} /\ q.ra = {p.own}
        /\ q.brings = IF t = "vlan" THEN {Trunk, p.own} ELSE {p.own}
    BY DEF Render
  <2>2. p = InitialPlan \/ p = q
    BY DEF PlanInv
  <2> HIDE DEF q
  <2>3. CASE p = q
    BY <2>1, <2>3
  <2>4. CASE p = InitialPlan
    BY <2>4, InitialPlanType
  <2> QED
    BY <2>2, <2>3, <2>4
<1>3. CASE t = "vlan"
  BY <1>1, <1>2, <1>3 DEF PlanInv, Vlans
<1>4. CASE t = "native"
  BY <1>1, <1>2, <1>4 DEF PlanInv
<1>5. CASE t = "wifi"
  BY <1>1, <1>2, <1>5 DEF PlanInv
<1> QED
  BY <1>1, <1>3, <1>4, <1>5

LEMMA NetworkInvStep ==
  ASSUME TypeOK, NetworkInv, Next
  PROVE  NetworkInv'
<1> USE DEF NetworkInv, network, checks
<1> DEFINE own == running.own
           brings == running.brings
<1>0. /\ running.dhcp = {own}
      /\ own \in brings
      /\ brings \subseteq {own, Trunk}
      /\ Trunk \in brings => own = Trunk \/ own \in Vlans
      /\ own \in Vlans => brings = {own, Trunk}
  BY PlanShape DEF TypeOK
<1>a. ASSUME UNCHANGED <<netplan, running>>
      PROVE  PlanInv(netplan)' /\ PlanInv(running)'
  BY <1>a DEF PlanInv
<1>1. ASSUME NEW i \in Iface, BringUp(i)
      PROVE  NetworkInv'
  BY <1>1, <1>a DEF BringUp
<1>2. ASSUME NEW i \in Iface, GainCarrier(i)
      PROVE  NetworkInv'
  <2>1. i \in brings /\ linked' = linked \cup {i}
        /\ (i \in Vlans => Trunk \in linked) /\ UNCHANGED <<netplan, running, up, ip4, ip6>>
    BY <1>2 DEF GainCarrier
  <2>2. own \in linked' => brings \subseteq linked'
    BY <2>1, <1>0
  <2> QED
    BY <1>2, <2>1, <2>2, <1>a DEF GainCarrier
<1>3. ASSUME NEW i \in Iface, LoseCarrier(i)
      PROVE  NetworkInv'
  <2> DEFINE gone == {i} \cup (IF i = Trunk THEN Vlans ELSE {})
  <2>1. /\ linked' = linked \ gone /\ UNCHANGED <<netplan, running, up>>
        /\ ip4' \subseteq ip4 /\ ip6' \subseteq ip6
    BY <1>3 DEF LoseCarrier
  <2>2. own \in linked' => brings \subseteq linked'
    BY <2>1, <1>0
  <2> QED
    BY <2>1, <2>2, <1>a
<1>4. ASSUME NEW i \in Iface, Lease(i) \/ Advertise(i)
      PROVE  NetworkInv'
  BY <1>4, <1>0, <1>a DEF Lease, Advertise
<1>5. ASSUME NEW r \in Radio, Scan(r) \/ Bind(r)
      PROVE  NetworkInv'
  BY <1>5, <1>a DEF Scan, Bind
<1>6. CASE Attempt \/ Wait
  BY <1>6, <1>a DEF Attempt, Wait
<1>7. CASE WriteNetplan
  <2>1. PICK s \in Segment : IfaceName(s) # NoIface /\ netplan' = Render(s, IfaceName(s))
    BY <1>7 DEF WriteNetplan
  <2>2. PlanInv(netplan')
    BY <2>1, RenderIsPlan
  <2> QED
    BY <1>7, <2>2 DEF WriteNetplan, PlanInv
<1>8. CASE Boot
  BY <1>8 DEF Boot, PlanInv
<1> QED
  BY <1>1, <1>2, <1>3, <1>4, <1>5, <1>6, <1>7, <1>8 DEF Next, Environment

LEMMA NetworkInvInit ==
  ASSUME Init
  PROVE  NetworkInv
<1>1. PlanInv(InitialPlan)
  BY InitialPlanType DEF PlanInv
<1> QED
  BY <1>1 DEF Init, NetworkInv

LEMMA NetworkInvHolds == Spec => [](TypeOK /\ NetworkInv)
<1>1. NetworkInv /\ UNCHANGED vars => NetworkInv'
  BY DEF NetworkInv, PlanInv, vars, network, checks
<1> QED
  BY <1>1, NetworkInvInit, NetworkInvStep, SegmentCheckTypeCorrect, PTL DEF Spec

-----------------------------------------------------------------------------
(* The properties.                                                         *)

\* A result that passes was measured on the segment's own interface: with
\* NetworkInv nothing else ever has an address.
THEOREM PassMeansOwnHolds == Spec => []PassMeansOwn
<1>1. Init => PassMeansOwn
  BY DEF Init, PassMeansOwn
<1>2. ASSUME NetworkInv, PassMeansOwn, Next
      PROVE  PassMeansOwn'
  <2> USE DEF PassMeansOwn, network, checks
  <2>1. CASE Environment
    BY <1>2, <2>1
      DEF Environment, BringUp, GainCarrier, LoseCarrier, Lease, Advertise, Scan, Bind
  <2>2. CASE Attempt
    <3>1. pass' => measured' \in ip4
      BY <2>2 DEF Attempt
    <3> QED
      BY <1>2, <2>2, <3>1 DEF Attempt, NetworkInv
  <2>3. CASE Wait \/ WriteNetplan
    BY <1>2, <2>3 DEF Wait, WriteNetplan
  <2>4. CASE Boot
    BY <2>4 DEF Boot
  <2> QED
    BY <1>2, <2>1, <2>2, <2>3, <2>4 DEF Next
<1>3. PassMeansOwn /\ UNCHANGED vars => PassMeansOwn'
  BY DEF PassMeansOwn, vars, checks
<1> QED
  BY <1>1, <1>2, <1>3, NetworkInvHolds, PTL DEF Spec

\* A pinned radio that is there is found, whatever other radios are.
THEOREM PinnedFoundHolds == Spec => []PinnedFound
<1>1. ASSUME TypeOK, NetworkInv
      PROVE  PinnedFound
  <2> DEFINE s == running.segment
  <2> SUFFICES ASSUME Type[s] = "wifi", Pin[s] # AutoRadio, running.own \in present
               PROVE  Discover(s) = running.own
    BY DEF PinnedFound, Wired
  <2>1. Pin[s] = running.own
    BY <1>1 DEF NetworkInv, PlanInv
  <2>2. ResolveIfName(s) = running.own
    BY <2>1 DEF ResolveIfName
  <2> QED
    BY <2>2 DEF Discover, FindByName
<1> QED
  BY <1>1, NetworkInvHolds, PTL

\* When a wired segment is live, exactly its interfaces are counted: the
\* trunk alone, or the trunk and the sub-interface on it.
THEOREM WiredFoundHolds == Spec => []WiredFound
<1>1. ASSUME TypeOK, NetworkInv
      PROVE  WiredFound
  <2> DEFINE s == running.segment
             own == running.own
  <2> SUFFICES ASSUME Type[s] # "wifi", own \in linked
               PROVE  FindByCount = own
    BY DEF WiredFound, Wired, Discover
  <2>1. s \in Segment /\ running.brings = IF Type[s] = "vlan" THEN {Trunk, own} ELSE {own}
    BY <1>1, PlanShape DEF TypeOK, Plan, NetworkInv
  <2>2. linked = running.brings
    BY <1>1 DEF NetworkInv
  <2>3. Counted = linked
    BY <1>1 DEF Counted, TypeOK, Port
  <2>4. CASE Type[s] = "native"
    <3>1. Counted = {own}
      BY <2>1, <2>2, <2>3, <2>4
    <3>2. Cardinality(Counted) = 1
      BY <3>1, FS_Singleton
    <3> QED
      BY <3>1, <3>2 DEF FindByCount
  <2>5. CASE Type[s] = "vlan"
    <3>1. own \in Vlans /\ Trunk \notin Vlans
      BY <1>1, <2>1, <2>5 DEF NetworkInv, PlanInv, Vlans
    <3>2. Counted = {Trunk} \cup {own}
      BY <2>1, <2>2, <2>3, <2>5
    <3>3. Cardinality(Counted) = 2
      <4>1. IsFiniteSet({Trunk}) /\ Cardinality({Trunk}) = 1
        BY FS_Singleton
      <4>2. own \notin {Trunk}
        BY <3>1
      <4>3. Cardinality({Trunk} \cup {own}) = Cardinality({Trunk}) + 1
        BY <4>1, <4>2, FS_AddElement
      <4>4. Cardinality({Trunk} \cup {own}) = 2
        BY <4>1, <4>3
      <4> QED
        BY <3>2, <4>4
    <3>4. Counted \cap Vlans = {own}
      BY <3>1, <3>2
    <3> DEFINE tagged == Counted \cap Vlans
    <3>5. tagged # {} /\ (CHOOSE i \in tagged : TRUE) = own
      BY <3>4
    <3>6. FindByCount = CHOOSE i \in tagged : TRUE
      BY <3>3, <3>5 DEF FindByCount
    <3> QED
      BY <3>5, <3>6
  <2> QED
    BY <2>1, <2>4, <2>5
<1> QED
  BY <1>1, NetworkInvHolds, PTL

\* Detection names a segment of the live interface; no two wired segments
\* share one.
THEOREM DetectionSoundHolds == Spec => []DetectionSound
<1>1. ASSUME TypeOK, NetworkInv
      PROVE  DetectionSound
  <2> DEFINE s == running.segment
             hits == {k \in DOMAIN Order : IfaceName(Order[k]) \in up \cap (ip4 \cup ip6)}
  <2> SUFFICES ASSUME running # InitialPlan, Match # NoSegment
               PROVE  /\ IfaceName(Match) = running.own
                      /\ Type[s] # "wifi" => Match = s
    BY DEF DetectionSound, Wired
  <2>1. PICK k \in DOMAIN Order : Match = Order[k] /\ IfaceName(Order[k]) \in ip4 \cup ip6
    <3>1. hits # {}
      BY DEF Match
    <3>2. hits \in SUBSET Nat
      OBVIOUS
    <3>3. Min(hits) \in hits
      BY <3>1, <3>2, MinExists
    <3> QED
      BY <3>1, <3>3 DEF Match
  <2>2. Match \in Segment /\ s \in Segment
    BY <1>1, <2>1 DEF TypeOK, Plan
  <2>3. IfaceName(Match) = running.own
    <3>1. ip4 \cup ip6 \subseteq {running.own}
      BY <1>1, PlanShape DEF NetworkInv, TypeOK
    <3> QED
      BY <2>1, <3>1
  <2>4. running.own \in Port
    BY <1>1 DEF TypeOK, Plan
  <2>5. running.own # NoIface
    BY <2>4 DEF Port
  <2>6. ASSUME Type[s] = "native"
        PROVE  Match = s
    <3>1. running.own = Trunk
      BY <1>1, <2>6 DEF NetworkInv, PlanInv
    <3>2. Type[Match] = "native"
      BY <2>2, <2>3, <3>1, <2>5, IfaceNameType DEF Vlans
    <3> QED
      BY <2>2, <2>6, <3>2
  <2>7. ASSUME Type[s] = "vlan"
        PROVE  Match = s
    <3>1. running.own = Vlan(s) /\ Vlan(s) \in Vlans
      BY <1>1, <2>2, <2>7 DEF NetworkInv, PlanInv, Vlans
    <3>2. Type[Match] = "vlan"
      BY <2>2, <2>3, <3>1, <2>5, IfaceNameType
    <3>3. Vlan(Match) = Vlan(s)
      BY <2>2, <2>3, <3>1, <3>2, IfaceNameType
    <3> QED
      BY <3>3 DEF Vlan
  <2> QED
    BY <2>2, <2>3, <2>6, <2>7
<1> QED
  BY <1>1, NetworkInvHolds, PTL
=============================================================================
