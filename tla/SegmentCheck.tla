----------------------------- MODULE SegmentCheck -----------------------------
(***************************************************************************)
(* How a segment's checks find the network they are about.  netplan.Render *)
(* names an interface in one boot; in the next, networkd, drivers and      *)
(* wpa_supplicant bring interfaces up in their own time, and checks.Run    *)
(* picks one from `ip a` by rules that know nothing of that netplan:       *)
(* counting for a wired segment, a new look at the hardware for a wifi     *)
(* one.  detectActiveSegment looks the other way round, from a live        *)
(* interface to a segment.  RebootCycle abstracts all of this to `live`.   *)
(***************************************************************************)
EXTENDS Integers, Sequences, FiniteSets, FiniteSetsExt

CONSTANTS
  Segment,      \* segment names
  UpdateSegment,
  Order,        \* config.yaml's segments, in order
  Type,         \* Segment -> "native", "vlan" or "wifi"
  Named,        \* the wifi segments with a literal ifname
  Pin,          \* wifi segment -> the radio its ifname, MAC or PCI IDs name
  Radio,        \* interface names of radios
  Sorted,       \* the same, in the lexical order of their names
  Trunk, Lo,    \* interfaces there always are
  MaxAttempts,  \* checkAttempts
  AutoRadio,    \* Pin of a segment that names none
  NoIface, NoSegment

ASSUME SegmentAssumption ==
  /\ Order \in Seq(Segment) /\ NoSegment \notin Segment
  /\ Type \in [Segment -> {"native", "vlan", "wifi"}]
  /\ UpdateSegment \in Segment /\ Type[UpdateSegment] = "vlan"
  /\ \A s, t \in Segment : Type[s] = "native" /\ Type[t] = "native" => s = t
  /\ Named \subseteq {s \in Segment : Type[s] = "wifi"}
  /\ Pin \in [Segment -> Radio \cup {AutoRadio}]
  /\ \A s \in Named : Pin[s] # AutoRadio
  /\ MaxAttempts \in Nat \ {0}

\* A tagged segment's sub-interface, "<trunk>.<segment>@<trunk>".
Vlan(s) == <<"vlan", s>>
Vlans == {Vlan(s) : s \in Segment}

Iface == {Trunk, Lo} \cup Radio \cup Vlans
Port == Iface \ {Lo}

ASSUME IfaceAssumption ==
  /\ Sorted \in Seq(Radio) /\ \A r \in Radio : \E i \in DOMAIN Sorted : Sorted[i] = r
  /\ Trunk \notin {Lo} \cup Radio \cup Vlans
  /\ Lo \notin Radio \cup Vlans
  /\ Radio \cap Vlans = {}
  /\ AutoRadio \notin Radio /\ NoIface \notin Iface

VARIABLES
  netplan,    \* the installed netplan: whose it is and what it does
  running,    \* the netplan this boot came up with
  present,    \* radios whose driver has bound
  up,         \* interfaces flagged UP
  linked,     \* interfaces flagged LOWER_UP
  ip4, ip6,   \* interfaces with an address that is not link-local
  pc,         \* where run() is
  attempt,    \* checks.Run: batches done
  pass,       \* the last batch's outcome
  measured    \* the interface its dhcp check looked at; for properties only

network == <<present, up, linked, ip4, ip6>>
checks == <<attempt, pass, measured>>
vars == <<netplan, running, network, pc, checks>>

\* What a netplan says, as far as addresses go: the segment, the interface
\* that carries it, those brought up, those with dhcp4 and with accept-ra.
Plan == [segment : Segment, own : Port, brings : SUBSET Port,
         dhcp : SUBSET Port, ra : SUBSET Port]

TypeOK ==
  /\ netplan \in Plan /\ running \in Plan
  /\ present \subseteq Radio
  /\ up \subseteq Port /\ linked \subseteq up /\ ip4 \cup ip6 \subseteq Port
  /\ pc \in {"attempt", "wait", "recorded", "written"}
  /\ attempt \in 0 .. MaxAttempts
  /\ pc \in {"attempt", "wait"} => attempt < MaxAttempts
  /\ pass \in BOOLEAN
  /\ measured \in Port \cup {NoIface}

-----------------------------------------------------------------------------
(* Naming an interface.                                                    *)

\* ifdiscover.Find in "auto" mode: the first radio by name.
FirstPresent ==
  LET found == {i \in DOMAIN Sorted : Sorted[i] \in present}
  IN  IF found = {} THEN NoIface ELSE Sorted[Min(found)]

\* Bug: MAC address and PCI IDs are not handed on.
ResolveFirst(s) == IF s \in Named THEN Pin[s] ELSE FirstPresent

\* ifdiscover.ResolveIfName: a literal name is believed; a MAC address or a
\* pair of PCI IDs has to be there.
ResolveIfName(s) ==
  IF s \in Named THEN Pin[s]
  ELSE IF Pin[s] = AutoRadio THEN FirstPresent
  ELSE IF Pin[s] \in present THEN Pin[s] ELSE NoIface

\* resolveIfName and netplan.IfaceName: where the segment's traffic is to be.
IfaceName(s) ==
  IF Type[s] = "native" THEN Trunk
  ELSE IF Type[s] = "vlan" THEN Vlan(s)
  ELSE ResolveIfName(s)

\* netplan.Render: the trunk is up but address-less below a tagged segment,
\* off beside a wifi one.
Render(s, own) ==
  [segment |-> s, own |-> own,
   brings  |-> IF Type[s] = "vlan" THEN {Trunk, own} ELSE {own},
   dhcp |-> {own}, ra |-> {own}]

\* cloud-init's netplan, there until the first write: it says nothing about
\* accept-ra and link-local of the trunk, and so leaves both on.
InitialPlan ==
  LET own == Vlan(UpdateSegment)
  IN  [Render(UpdateSegment, own) EXCEPT !.ra = {Trunk, own}]

-----------------------------------------------------------------------------
(* Finding it again.                                                       *)

\* Bug, once real: the administrative flag is believed.
CountedIfUp == {i \in up : i # Lo}

\* The interfaces ifaces.Find counts.
Counted == {i \in up : i # Lo /\ i \in linked}

\* ifaces.Find without a name: one interface is the trunk of a native
\* segment, of two the one with a parent is a tagged segment's.
FindByCount ==
  LET tagged == Counted \cap Vlans IN
  IF Cardinality(Counted) = 1 THEN CHOOSE i \in Counted : TRUE
  ELSE IF Cardinality(Counted) = 2 /\ tagged # {} THEN CHOOSE i \in tagged : TRUE
  ELSE NoIface

\* ifaces.Find with a name, which need only be listed.
FindByName(i) == IF i \in present THEN i ELSE NoIface

\* checks.discoverIface
Discover(s) == IF Type[s] = "wifi" THEN FindByName(ResolveIfName(s)) ELSE FindByCount

\* Bug: an interface that is up is taken for one that is live.
MatchUp ==
  LET hits == {k \in DOMAIN Order : IfaceName(Order[k]) \in up}
  IN  IF hits = {} THEN NoSegment ELSE Order[Min(hits)]

\* matchActiveSegment: the first declared segment whose interface is up and
\* has an address.
Match ==
  LET hits == {k \in DOMAIN Order : IfaceName(Order[k]) \in up \cap (ip4 \cup ip6)}
  IN  IF hits = {} THEN NoSegment ELSE Order[Min(hits)]

-----------------------------------------------------------------------------
(* The network: networkd, drivers, wpa_supplicant, cables.                 *)

\* systemd-networkd brings up an interface the netplan names.  A VLAN needs
\* its trunk, a radio its driver.
BringUp(i) ==
  /\ i \in running.brings \ up
  /\ i \in Vlans => Trunk \in up
  /\ i \in Radio => i \in present
  /\ up' = up \cup {i}
  /\ UNCHANGED <<netplan, running, present, linked, ip4, ip6, pc, checks>>

\* wpa_supplicant brings up any radio, to scan.
Scan(r) ==
  /\ r \in present \ up
  /\ up' = up \cup {r}
  /\ UNCHANGED <<netplan, running, present, linked, ip4, ip6, pc, checks>>

\* A cable is in, or a radio has associated: it only knows an access point
\* for the segment's own.
GainCarrier(i) ==
  /\ i \in (up \cap running.brings) \ linked
  /\ i \in Vlans => Trunk \in linked
  /\ linked' = linked \cup {i}
  /\ UNCHANGED <<netplan, running, present, up, ip4, ip6, pc, checks>>

\* Carrier is lost, with or without the addresses.
LoseCarrier(i) ==
  LET gone == {i} \cup (IF i = Trunk THEN Vlans ELSE {}) IN
  /\ i \in linked
  /\ linked' = linked \ gone
  /\ ip4' \in {ip4, ip4 \ gone} /\ ip6' \in {ip6, ip6 \ gone}
  /\ UNCHANGED <<netplan, running, present, up, pc, checks>>

\* The DHCP server answers.
Lease(i) ==
  /\ i \in (linked \cap running.dhcp) \ ip4
  /\ ip4' = ip4 \cup {i}
  /\ UNCHANGED <<netplan, running, present, up, linked, ip6, pc, checks>>

\* A router advertisement, on the trunk the native segment's.
Advertise(i) ==
  /\ i \in (linked \cap running.ra) \ ip6
  /\ ip6' = ip6 \cup {i}
  /\ UNCHANGED <<netplan, running, present, up, linked, ip4, pc, checks>>

\* A radio's driver binds late.
Bind(r) ==
  /\ r \in Radio \ present
  /\ present' = present \cup {r}
  /\ UNCHANGED <<netplan, running, up, linked, ip4, ip6, pc, checks>>

-----------------------------------------------------------------------------
(* checks.Run, and what follows it.                                        *)

\* Bug: one address family is enough.
AttemptEither ==
  LET i == Discover(running.segment) IN
  /\ pc = "attempt"
  /\ pass' \in BOOLEAN /\ (pass' => i \in ip4 \cup ip6)
  /\ measured' = i
  /\ attempt' = attempt + 1
  /\ pc' = IF pass' \/ attempt' = MaxAttempts THEN "recorded" ELSE "wait"
  /\ UNCHANGED <<netplan, running, network>>

\* One batch: it passes if dhcp and dhcp6 find an address on the discovered
\* interface and all the other checks pass, too.
\* The code looks for the interface of active.yaml's segment, which is that
\* of the running netplan unless an advance was torn: RebootCycle has that.
Attempt ==
  LET i == Discover(running.segment) IN
  /\ pc = "attempt"
  /\ pass' \in BOOLEAN /\ (pass' => i \in ip4 \cap ip6)
  /\ measured' = i
  /\ attempt' = attempt + 1
  /\ pc' = IF pass' \/ attempt' = MaxAttempts THEN "recorded" ELSE "wait"
  /\ UNCHANGED <<netplan, running, network>>

\* Sleep for checkRetryDelay.
Wait ==
  /\ pc = "wait"
  /\ pc' = "attempt"
  /\ UNCHANGED <<netplan, running, network, checks>>

\* Bug: the error of resolveIfName is ignored.
WriteUnresolved ==
  /\ pc = "recorded"
  /\ \E s \in Segment : netplan' = Render(s, IfaceName(s))
  /\ pc' = "written"
  /\ UNCHANGED <<running, network, checks>>

\* run() writes the netplan of some segment whose interface resolves now.
WriteNetplan ==
  /\ pc = "recorded"
  /\ \E s \in Segment :
       /\ IfaceName(s) # NoIface
       /\ netplan' = Render(s, IfaceName(s))
  /\ pc' = "written"
  /\ UNCHANGED <<running, network, checks>>

\* The unit starts After=network-online.target, which may also time out:
\* nothing needs to be up.
Boot ==
  /\ pc = "written"
  /\ running' = netplan
  /\ present' \in SUBSET Radio
  /\ up' = {} /\ linked' = {} /\ ip4' = {} /\ ip6' = {}
  /\ pc' = "attempt" /\ attempt' = 0 /\ pass' = FALSE /\ measured' = NoIface
  /\ UNCHANGED netplan

-----------------------------------------------------------------------------

\* The box has come up with cloud-init's netplan.
Init ==
  /\ present \in SUBSET Radio
  /\ netplan = InitialPlan /\ running = InitialPlan
  /\ up = {} /\ linked = {} /\ ip4 = {} /\ ip6 = {}
  /\ pc = "attempt" /\ attempt = 0 /\ pass = FALSE /\ measured = NoIface

Environment ==
  \/ \E i \in Iface : \/ BringUp(i) \/ GainCarrier(i) \/ LoseCarrier(i)
                      \/ Lease(i) \/ Advertise(i)
  \/ \E r \in Radio : Scan(r) \/ Bind(r)

Next == Environment \/ Attempt \/ Wait \/ WriteNetplan \/ Boot

Spec == Init /\ [][Next]_vars

-----------------------------------------------------------------------------
(* Properties.                                                             *)

Wired(s) == Type[s] # "wifi"

\* A result that passes was measured on the interface that carries the
\* segment's own traffic, never on a radio or a trunk that happens to have
\* an address.
PassMeansOwn ==
  pass => measured = running.own

\* Why: a netplan names an interface of the segment's own kind, ...
PlanInv(p) ==
  /\ p = InitialPlan \/ p = Render(p.segment, p.own)
  /\ Type[p.segment] = "native" => p.own = Trunk
  /\ Type[p.segment] = "vlan" => p.own = Vlan(p.segment)
  /\ Type[p.segment] = "wifi" => p.own \in Radio /\ Pin[p.segment] \in {AutoRadio, p.own}

\* ... nothing but that interface gets a lease, and only it and the trunk
\* below it have carrier.
NetworkInv ==
  /\ PlanInv(netplan) /\ PlanInv(running)
  /\ ip4 \subseteq {running.own} /\ ip6 \subseteq running.ra
  /\ linked \subseteq up \cap running.brings
  /\ running.own \in linked => running.brings \subseteq linked

\* When a wired segment's interface has carrier, counting finds it: radios
\* that are present, late, or up for a scan do not confuse it.
WiredFound ==
  Wired(running.segment) /\ running.own \in linked
    => Discover(running.segment) = running.own

\* A radio named by hand, or by MAC address or PCI IDs, is found as soon as
\* its driver has bound.  (In auto mode it is whatever sorts first now.)
PinnedFound ==
  ~Wired(running.segment) /\ Pin[running.segment] # AutoRadio /\ running.own \in present
    => Discover(running.segment) = running.own

\* Detection when active.yaml was lost: once the binary has written a netplan
\* it names a segment only on the interface that is live, and a wired one
\* exactly.
DetectionSound ==
  running # InitialPlan /\ Match # NoSegment =>
    /\ IfaceName(Match) = running.own
    /\ Wired(running.segment) => Match = running.segment

\* main.go: "the common case (a truly fresh VM, or any "native"/"vlan"
\* segment) is unambiguous".
FreshVmUnambiguous ==
  running = InitialPlan /\ running.own \in ip4 \cap ip6 => Match = UpdateSegment
=============================================================================
