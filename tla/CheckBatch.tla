------------------------------ MODULE CheckBatch ------------------------------
(***************************************************************************)
(* internal/checks: checks.Run runs a batch of checks one after the other, *)
(* and again as a whole if any of them failed.  The network under test     *)
(* does not hold still: between two queries, even the two of one round     *)
(* trip, names are registered and renumbered and servers come and go.      *)
(***************************************************************************)
EXTENDS ConfigFile, SequencesExt

CONSTANTS
  Segments,     \* the segments config.yaml may declare
  Worlds,       \* what the network may look like
  Family,       \* address -> 4 or 6
  Absolute,     \* a name as written in config.yaml -> the name with its final dot
  SelfFQDN,     \* domain -> this host's own name in it
  MaxAttempts   \* checkAttempts

ASSUME AttemptsAssumption == MaxAttempts \in Nat \ {0}

\* The lists of a config are sequences.
ASSUME SegmentsAssumption ==
  \A s \in {s \in Segments : s.dns # None} :
    /\ s.dns.servers \in Seq(Range(s.dns.servers))
    /\ s.dns.tests \in Seq(Range(s.dns.tests))
    /\ \A t \in Range(s.dns.tests) : t.servers \in Seq(Range(t.servers))

VARIABLES
  world,    \* [fwd : {<<server, name, address>>}, rev : {<<server, address, name>>},
            \*  up : the other checks that would pass]
  seg,      \* the segment under test
  pc,       \* "check", "reverse", "wait", "done"
  attempt,
  todo,     \* the checks this batch has left
  answer,   \* the address a round trip goes on with
  results,  \* this batch's results
  seen      \* history: the worlds there were since this batch began

vars == <<world, seg, pc, attempt, todo, answer, results, seen>>

-----------------------------------------------------------------------------
(* The checks of a segment.                                                *)

Simple(kind) == [kind |-> kind, test |-> 0, server |-> None]

Servers(s, t) == IF t.servers = <<>> THEN s.dns.servers ELSE t.servers

\* dnsChecks: every test once per server.
DnsPlan(s) ==
  IF s.dns = None THEN <<>>
  ELSE FlattenSeq([i \in DOMAIN s.dns.tests |->
         LET servers == Servers(s, s.dns.tests[i])
         IN  [j \in DOMAIN servers |-> [kind |-> "dns", test |-> i, server |-> servers[j]]]])

\* The order of runOnce.
Plan(s) ==
  <<Simple("dhcp"), Simple("dhcp6")>> \o DnsPlan(s)
  \o (IF s.geo THEN <<Simple("geo")>> ELSE <<>>) \o <<Simple("routing")>>
  \o (IF s.routing6 THEN <<Simple("routing6")>> ELSE <<>>)

RoundTrip(t) == t.type \in {"A-PTR", "AAAA-PTR", "Hostname4", "Hostname6"}

Network(t) == IF t.type \in {"A", "A-PTR", "Hostname4"} THEN 4 ELSE 6

\* The name a test resolves.
Target(t) == IF t.type \in OwnName THEN SelfFQDN[t.domain] ELSE t.host

\* Bug: whichever family answers.
LookupAny(w, v, t) == {a \in DOMAIN Family : <<v, Absolute[Target(t)], a>> \in w.fwd}

\* Resolver.LookupIP of a test's name.
LookupIP(w, v, t) ==
  {a \in DOMAIN Family : Family[a] = Network(t) /\ <<v, Absolute[Target(t)], a>> \in w.fwd}

\* Resolver.LookupAddr: names come with their final dot.
LookupAddr(w, v, a) == {n \in Range(Absolute) : <<v, a, n>> \in w.rev}

-----------------------------------------------------------------------------
(* checks.Run.                                                             *)

Check == Head(todo)
Test == seg.dns.tests[Check.test]

Record(pass) ==
  /\ results' = Append(results, [check |-> Check, pass |-> pass])
  /\ todo' = Tail(todo)
  /\ pc' = "check"
  /\ UNCHANGED <<world, seg, attempt, answer, seen>>

Checking(kinds) == pc = "check" /\ todo # <<>> /\ Check.kind \in kinds

\* dhcp, dhcp6, geo, routing and routing6 ask one thing.
SimpleCheck ==
  /\ Checking({"dhcp", "dhcp6", "geo", "routing", "routing6"})
  /\ Record(Check.kind \in world.up)

\* A round trip's forward lookup has an answer: go on with the first.
RoundTripGoesOn ==
  /\ Checking({"dns"})
  /\ Check.server \in Usable /\ RoundTrip(Test)
  /\ answer' \in LookupIP(world, Check.server, Test)
  /\ pc' = "reverse"
  /\ UNCHANGED <<world, seg, attempt, todo, results, seen>>

\* Any other outcome of the forward lookup is the test's outcome.  A server
\* that is not usable is skipped and counts as passed.
ForwardDecides ==
  /\ Checking({"dns"})
  /\ LET found == LookupIP(world, Check.server, Test)
     IN  /\ Check.server \in Usable /\ RoundTrip(Test) => found = {}
         /\ Record(\/ Check.server \notin Usable
                   \/ Test.type \in {"A", "AAAA"} /\ found # {})

\* Bug: only one of the names counts.
ReverseOnly ==
  /\ pc = "reverse"
  /\ Record(LookupAddr(world, Check.server, answer) = {Target(Test)})

\* The reverse lookup, with a timeout of its own; any name may match.
ReverseLookup ==
  /\ pc = "reverse"
  /\ Record(Target(Test) \in LookupAddr(world, Check.server, answer))

AllPass == \A k \in DOMAIN results : results[k].pass

\* The batch is over: allPass, or the last attempt, ends the run.
EndBatch ==
  /\ pc = "check" /\ todo = <<>>
  /\ pc' = IF AllPass \/ attempt >= MaxAttempts THEN "done" ELSE "wait"
  /\ UNCHANGED <<world, seg, attempt, todo, answer, results, seen>>

\* Bug: run only what failed again, and keep the rest.
RetryFailed ==
  /\ pc = "wait"
  /\ attempt' = attempt + 1
  /\ todo' = SelectSeq(Plan(seg), LAMBDA c : [check |-> c, pass |-> FALSE] \in Range(results))
  /\ results' = SelectSeq(results, LAMBDA r : r.pass)
  /\ seen' = {world}
  /\ pc' = "check"
  /\ UNCHANGED <<world, seg, answer>>

\* Bug: the attempts are not counted.
RetryForever ==
  /\ pc = "wait"
  /\ todo' = Plan(seg) /\ results' = <<>>
  /\ seen' = {world}
  /\ pc' = "check"
  /\ UNCHANGED <<world, seg, attempt, answer>>

\* After checkRetryDelay the whole batch runs again.
Retry ==
  /\ pc = "wait"
  /\ attempt' = attempt + 1
  /\ todo' = Plan(seg) /\ results' = <<>>
  /\ seen' = {world}
  /\ pc' = "check"
  /\ UNCHANGED <<world, seg, answer>>

-----------------------------------------------------------------------------

\* A run for a segment of a config that was loaded.
Init ==
  /\ world \in Worlds
  /\ seg \in {s \in Segments : SegmentOK(s)}
  /\ pc = "check" /\ attempt = 1
  /\ todo = Plan(seg) /\ results = <<>> /\ answer = None
  /\ seen = {world}

\* The next boot's run.
NextRun ==
  /\ pc = "done"
  /\ seg' \in {s \in Segments : SegmentOK(s)}
  /\ pc' = "check" /\ attempt' = 1
  /\ todo' = Plan(seg') /\ results' = <<>> /\ answer' = None
  /\ seen' = {world}
  /\ UNCHANGED world

Change ==
  /\ world' \in Worlds \ {world}
  /\ seen' = IF pc = "done" THEN seen ELSE seen \cup {world'}
  /\ UNCHANGED <<seg, pc, attempt, todo, answer, results>>

Run == SimpleCheck \/ RoundTripGoesOn \/ ForwardDecides \/ ReverseLookup \/ EndBatch \/ Retry

Next == Run \/ NextRun \/ Change

\* Every query has a timeout, and the delay between batches ends.
Spec == Init /\ [][Next]_vars /\ WF_vars(Run)

-----------------------------------------------------------------------------
(* Properties.                                                             *)

\* The variables have their types, and a round trip goes on only with an
\* address of the family its test forces.
TypeOK ==
  /\ world \in Worlds /\ seen \subseteq Worlds
  /\ seg \in Segments
  /\ pc \in {"check", "reverse", "wait", "done"}
  /\ attempt \in 1 .. MaxAttempts
  /\ answer \in DOMAIN Family \cup {None}
  /\ pc = "reverse" => Family[answer] = Network(Test)
  /\ \A k \in DOMAIN results : results[k].pass \in BOOLEAN

DnsTests == IF seg.dns = None THEN {} ELSE Range(seg.dns.tests)

\* A recorded pass is evidence, all of it from one batch: every server
\* configured for a test did give the test's name an address of the right
\* family while that batch ran, and for a round trip named the address back.
\* No pass of an earlier attempt, another server or a skipped entry counts.
PassIsEvidence ==
  pc = "done" /\ AllPass =>
    /\ \A k \in {"dhcp", "dhcp6", "routing"} : \E w \in seen : k \in w.up
    /\ \A t \in DnsTests :
         \A v \in Range(IF t.servers = <<>> THEN seg.dns.servers ELSE t.servers) :
           \E w1 \in seen : \E a \in LookupIP(w1, v, t) :
             RoundTrip(t) => \E w2 \in seen : Target(t) \in LookupAddr(w2, v, a)

\* The name a round trip looks for is written with its final dot: without it
\* no PTR record matches.
Dotted(t) == Absolute[Target(t)] = Target(t)

\* What a check asks for is there in w, whichever answer comes first.
Works(w, c) ==
  IF c.kind # "dns" THEN c.kind \in w.up
  ELSE LET t == seg.dns.tests[c.test]
           found == LookupIP(w, c.server, t)
           Confirmed(a) == Absolute[Target(t)] \in LookupAddr(w, c.server, a)
       IN  found # {} /\ (RoundTrip(t) => Dotted(t) /\ \A a \in found : Confirmed(a))

\* A failure is recorded only after the last attempt, and if the network held
\* still during that one, what failed is what is broken.
NoFalseAlarm ==
  pc = "done" /\ ~AllPass =>
    /\ attempt = MaxAttempts
    /\ seen = {world} =>
         \A k \in DOMAIN results : results[k].pass \/ ~Works(world, results[k].check)

\* Every run ends with results, however the network changes.
RunEnds == pc = "check" ~> pc = "done"

\* Why: what a run may still have to do.  A check of the plan takes two steps
\* at most, the end of a batch and the retry one each.
Work ==
  (MaxAttempts - attempt) * (2 * Len(Plan(seg)) + 2)
  + (CASE pc = "check" -> 2 * Len(todo) + 1
       [] pc = "reverse" -> 2 * Len(todo)
       [] OTHER -> 0)

\* Each step of a run leaves less of it, and no change of the network adds any.
WorkShrinks ==
  [][pc # "done" => Work \in Nat /\ IF UNCHANGED world THEN Work' < Work ELSE Work' = Work]_vars

-----------------------------------------------------------------------------
(* Why the two about results hold.                                         *)

\* What dnsChecks has to ask: each test of each server.
DnsItems(s) ==
  IF s.dns = None THEN {}
  ELSE UNION {{[kind |-> "dns", test |-> i, server |-> v] : v \in Range(Servers(s, s.dns.tests[i]))}
                : i \in DOMAIN s.dns.tests}

\* A check is what was asked for, in worlds there were while this batch ran.
Evidence(c) ==
  IF c.kind # "dns" THEN \E w \in seen : c.kind \in w.up
  ELSE LET t == seg.dns.tests[c.test] IN
       \E w1 \in seen : \E a \in LookupIP(w1, c.server, t) :
         RoundTrip(t) => \E w2 \in seen : Target(t) \in LookupAddr(w2, c.server, a)

\* Every check of the plan is still to come or has a result, a pass has its
\* evidence, and a failure in a network that held still is one of that
\* network.
ResultInv ==
  /\ results \in Seq(Range(results)) /\ todo \in Seq(Range(Plan(seg)))
  /\ \A c \in Range(Plan(seg)) :
       c \in Range(todo) \/ \E k \in DOMAIN results : results[k].check = c
  /\ \A k \in DOMAIN results :
       IF results[k].pass THEN Evidence(results[k].check)
       ELSE \A w \in Worlds : seen = {w} => ~Works(w, results[k].check)

\* What each step relies on.
BatchInv ==
  /\ SegmentOK(seg)
  /\ pc # "done" => world \in seen
  /\ pc = "wait" => attempt < MaxAttempts
  /\ pc = "done" => todo = <<>> /\ (AllPass \/ attempt = MaxAttempts)
  /\ pc = "reverse" =>
       /\ todo # <<>> /\ Check.kind = "dns" /\ RoundTrip(Test)
       /\ \E w \in seen : answer \in LookupIP(w, Check.server, Test)
=============================================================================
