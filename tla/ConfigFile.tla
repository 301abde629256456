------------------------------ MODULE ConfigFile ------------------------------
(***************************************************************************)
(* config.yaml: what config.Load accepts, and what the rest of the code    *)
(* derives from it.  A config is the sequence of its segments; text is     *)
(* reduced to whether a value is there and which values are the same.      *)
(***************************************************************************)
EXTENDS Integers, Sequences, FiniteSets, Functions

CONSTANTS
  Usable,  \* entries of a servers list that are "system" or an IP address
  None     \* a value that is left out

\* The segment names a radio by its PCI IDs.
HasIds(s) == s.type = "wifi" /\ s.vendor # None /\ s.device # None

Ids(s) == <<s.vendor, s.device>>

-----------------------------------------------------------------------------
(* DNS tests.                                                              *)

FixedName == {"A", "AAAA", "A-PTR", "AAAA-PTR"}
OwnName == {"Hostname4", "Hostname6"}

\* One turn of validateDNSCheck's loop over the tests.
TestOK(t, default) ==
  /\ Range(t.servers) \subseteq Usable
  /\ t.servers # <<>> \/ default # <<>>
  /\ \/ t.type \in FixedName /\ t.host # None
     \/ t.type \in OwnName /\ t.domain # None

\* validateDNSCheck; a segment without dnsCheck has None.
DnsOK(dns) ==
  dns # None =>
    /\ Range(dns.servers) \subseteq Usable
    /\ \A i \in DOMAIN dns.tests : TestOK(dns.tests[i], dns.servers)

-----------------------------------------------------------------------------
(* The whole file.                                                         *)

SegmentOK(s) ==
  /\ s.type \in {"native", "vlan", "wifi"}
  /\ s.type = "wifi" => /\ (s.vendor = None) = (s.device = None)
                        /\ s.ssid # None /\ s.psk # None
  /\ DnsOK(s.dns)

\* config.Load returns without an error.
Accepted(c) ==
  /\ c # <<>>
  /\ \A i \in DOMAIN c : SegmentOK(c[i])
  /\ \A i, j \in DOMAIN c : c[i].type = "native" /\ c[j].type = "native" => i = j

\* The names in VLANSegmentNames: all segments on the trunk.
VLANSegmentNames(c) == {c[i].name : i \in {i \in DOMAIN c : c[i].type # "wifi"}}

\* NativeSegmentName, or None.
NativeSegmentName(c) ==
  IF \E i \in DOMAIN c : c[i].type = "native"
  THEN (CHOOSE s \in Range(c) : s.type = "native").name
  ELSE None

\* Bug: no deduplication.
EveryWifiDevice(c) == {i \in DOMAIN c : HasIds(c[i])}

\* The elements of WifiPCIDevices, as the positions of the segments that
\* name a device first.  Two spellings of an ID are two IDs.
WifiPCIDevices(c) ==
  {i \in DOMAIN c :
     HasIds(c[i]) /\ \A j \in 1 .. i - 1 : HasIds(c[j]) => Ids(c[j]) # Ids(c[i])}
=============================================================================
