------------------------------- MODULE MC_Batch -------------------------------
(***************************************************************************)
(* The system resolver and one server by address, the gateway's and this   *)
(* host's own name, and four networks: a good one, one where the gateway   *)
(* was renumbered, one where its address has two names, and one that       *)
(* misses a reverse record and a route.                                    *)
(***************************************************************************)
EXTENDS CheckBatch, TLC

CONSTANTS system, dns1, bogus, gw, gwBare, self, domain, a4, b4, a6

MCFamily == (a4 :> 4) @@ (b4 :> 4) @@ (a6 :> 6)
MCAbsolute == (gw :> gw) @@ (gwBare :> gw) @@ (self :> self)
MCSelfFQDN == domain :> self

Kinds == {"dhcp", "dhcp6", "geo", "routing", "routing6"}

\* A network where both servers give the same answers.
Net(fwd, rev, up) ==
  [fwd |-> {<<v, f[1], f[2]>> : v \in {system, dns1}, f \in fwd},
   rev |-> {<<v, r[1], r[2]>> : v \in {system, dns1}, r \in rev},
   up |-> up]

Good == Net({<<gw, a4>>, <<gw, a6>>, <<self, a4>>},
                {<<a4, gw>>, <<a4, self>>, <<a6, gw>>}, Kinds)
Renumbered == Net({<<gw, b4>>, <<gw, a6>>, <<self, a4>>},
                      {<<b4, gw>>, <<a4, self>>, <<a6, gw>>}, Kinds)
OneServerDown == [Good EXCEPT !.fwd = {f \in @ : f[1] = system},
                              !.rev = {r \in @ : r[1] = system}]
Broken == Net({<<gw, a4>>, <<gw, b4>>}, {<<a4, gw>>}, Kinds \ {"dhcp6", "routing"})

MCWorlds == {Good, Renumbered, OneServerDown, Broken}

T(type, host, dom, servers) == [type |-> type, host |-> host, domain |-> dom, servers |-> servers]
S(dns, extra) == [name |-> "s", type |-> "vlan", dns |-> dns, geo |-> extra, routing6 |-> extra]

MCSegments ==
  {S(None, TRUE),
   S([servers |-> <<system>>,
      tests |-> <<T("A-PTR", gw, None, <<>>), T("A", gwBare, None, <<dns1>>)>>], FALSE),
   S([servers |-> <<>>,
      tests |-> <<T("Hostname4", None, domain, <<system, dns1>>)>>], FALSE),
   S([servers |-> <<dns1>>,
      tests |-> <<T("AAAA", gw, None, <<>>), T("A-PTR", gwBare, None, <<>>)>>], FALSE),
   \* rejected: an entry that is no address, no server at all, a test
   \* without its name
   S([servers |-> <<system>>, tests |-> <<T("A", gw, None, <<bogus>>)>>], FALSE),
   S([servers |-> <<>>, tests |-> <<T("A", gw, None, <<>>)>>], FALSE),
   S([servers |-> <<system>>, tests |-> <<T("Hostname4", gw, None, <<>>)>>], FALSE)}
=============================================================================
