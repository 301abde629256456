-------------------------- MODULE CheckBatch_proofs --------------------------
(***************************************************************************)
(* Theorems about CheckBatch, for every segment, network, change of the    *)
(* network and number of attempts.                                         *)
(***************************************************************************)
EXTENDS CheckBatch, WellFoundedInduction, TLAPS

USE AttemptsAssumption

-----------------------------------------------------------------------------
(* Sequences.                                                              *)

\* Induction over the naturals: a set of them has a least element.
LEMMA LeastExists ==
  ASSUME NEW T, T \subseteq Nat, T # {}
  PROVE  \E m \in T : \A k \in T : m <= k
<1> DEFINE R == OpToRel(<, Nat)
<1>1. IsWellFoundedOn(R, Nat)
  BY NatLessThanWellFounded
<1> HIDE DEF R
<1>2. PICK m \in T : \A k \in T : <<k, m>> \notin R
  BY <1>1, WFMin
<1>3. m \in Nat /\ \A k \in T : k \in Nat
  OBVIOUS
<1>4. \A k \in Nat : k < m => <<k, m>> \in R
  BY <1>3 DEF R, OpToRel
<1>5. \A k \in T : ~(k < m)
  BY <1>2, <1>3, <1>4
<1> QED
  BY <1>3, <1>5

LEMMA Appended ==
  ASSUME NEW s, s \in Seq(Range(s)), NEW r
  PROVE  /\ Append(s, r) \in Seq(Range(Append(s, r)))
         /\ DOMAIN Append(s, r) = DOMAIN s \cup {Len(s) + 1}
         /\ Append(s, r)[Len(s) + 1] = r
         /\ \A k \in DOMAIN s : k # Len(s) + 1 /\ Append(s, r)[k] = s[k]
<1> DEFINE S == Range(s) \cup {r}
           t == Append(s, r)
<1>1. s \in Seq(S) /\ r \in S
  OBVIOUS
<1> HIDE DEF S
<1>2. /\ t \in Seq(S) /\ Len(t) = Len(s) + 1 /\ t[Len(s) + 1] = r
      /\ \A k \in 1 .. Len(s) : t[k] = s[k]
  BY <1>1
<1>3. DOMAIN s = 1 .. Len(s) /\ DOMAIN t = 1 .. Len(s) + 1 /\ Len(s) \in Nat
  BY <1>1, <1>2
<1>4. t \in Seq(Range(t))
  BY <1>2 DEF Range
<1> QED
  BY <1>2, <1>3, <1>4

LEMMA HeadAndTail ==
  ASSUME NEW S, NEW q \in Seq(S), q # <<>>
  PROVE  /\ Head(q) \in S /\ Tail(q) \in Seq(S)
         /\ \A x \in Range(q) : x = Head(q) \/ x \in Range(Tail(q))
<1>1. Head(q) \in S /\ Tail(q) \in Seq(S) /\ Len(q) \in Nat \ {0}
  OBVIOUS
<1>2. ASSUME NEW i \in DOMAIN q, i # 1
      PROVE  q[i] \in Range(Tail(q))
  <2>1. i - 1 \in DOMAIN Tail(q) /\ Tail(q)[i - 1] = q[i]
    BY <1>2
  <2> QED
    BY <2>1 DEF Range
<1>3. Head(q) = q[1]
  OBVIOUS
<1> QED
  BY <1>1, <1>2, <1>3 DEF Range

LEMMA Joined ==
  ASSUME NEW S, NEW a \in Seq(S), NEW b \in Seq(S)
  PROVE  a \o b \in Seq(S) /\ Range(a \o b) = Range(a) \cup Range(b)
<1>1. /\ a \o b \in Seq(S) /\ DOMAIN (a \o b) = 1 .. Len(a) + Len(b)
      /\ \A i \in 1 .. Len(a) : (a \o b)[i] = a[i]
      /\ \A i \in 1 .. Len(b) : (a \o b)[Len(a) + i] = b[i]
      /\ Len(a) \in Nat /\ Len(b) \in Nat /\ DOMAIN a = 1 .. Len(a) /\ DOMAIN b = 1 .. Len(b)
  OBVIOUS
<1>2. ASSUME NEW i \in 1 .. Len(a) + Len(b)
      PROVE  (a \o b)[i] \in Range(a) \cup Range(b)
  <2>1. CASE i <= Len(a)
    BY <1>1, <2>1 DEF Range
  <2>2. CASE i > Len(a)
    <3>1. i - Len(a) \in 1 .. Len(b) /\ Len(a) + (i - Len(a)) = i
      BY <1>1, <2>2
    <3> QED
      BY <1>1, <3>1 DEF Range
  <2> QED
    BY <1>1, <2>1, <2>2
<1>3. \A i \in 1 .. Len(a) : a[i] \in Range(a \o b)
  BY <1>1 DEF Range
<1>4. ASSUME NEW i \in 1 .. Len(b)
      PROVE  b[i] \in Range(a \o b)
  <2>1. Len(a) + i \in DOMAIN (a \o b) /\ (a \o b)[Len(a) + i] = b[i]
    BY <1>1
  <2> QED
    BY <2>1 DEF Range
<1>5. Range(a \o b) \subseteq Range(a) \cup Range(b)
  <2> SUFFICES ASSUME NEW i \in DOMAIN (a \o b)
               PROVE  (a \o b)[i] \in Range(a) \cup Range(b)
    BY DEF Range
  <2> QED
    BY <1>1, <1>2
<1>6. Range(a) \cup Range(b) \subseteq Range(a \o b)
  <2>1. ASSUME NEW i \in DOMAIN a
        PROVE  a[i] \in Range(a \o b)
    BY <1>1, <1>3
  <2>2. ASSUME NEW i \in DOMAIN b
        PROVE  b[i] \in Range(a \o b)
    BY <1>1, <1>4
  <2> QED
    BY <2>1, <2>2 DEF Range
<1> QED
  BY <1>1, <1>5, <1>6

\* The function that FlattenSeq defines by recursion exists.
LEMMA FlattenExists ==
  ASSUME NEW ss, NEW n \in Nat \ {0}
  PROVE  \E f : f = [i \in 1 .. n |-> IF i = 1 THEN ss[i] ELSE f[i - 1] \o ss[i]]
<1> DEFINE P(f, k) == f = [i \in 1 .. k |-> IF i = 1 THEN ss[i] ELSE f[i - 1] \o ss[i]]
           Defined(k) == \E f : P(f, k)
           T == {k \in 1 .. n : ~Defined(k)}
<1> SUFFICES Defined(n)
  OBVIOUS
<1> HIDE DEF Defined
<1> SUFFICES ASSUME T # {}
             PROVE  FALSE
  OBVIOUS
<1>2. PICK m \in T : \A k \in T : m <= k
  <2>1. T \subseteq Nat
    OBVIOUS
  <2> HIDE DEF T
  <2> QED
    BY <2>1, LeastExists
<1>3. CASE m = 1
  <2>1. P([i \in 1 .. 1 |-> ss[i]], 1)
    OBVIOUS
  <2> QED
    BY <1>3, <2>1 DEF Defined
<1>4. CASE m # 1
  <2>1. m - 1 \in 1 .. n /\ m - 1 \notin T /\ m \in 1 .. n
    <3>1. m \in 1 .. n /\ m - 1 \in 1 .. n
      BY <1>4
    <3>2. ~(m <= m - 1)
      BY <3>1
    <3> HIDE DEF T
    <3> QED
      BY <1>2, <3>1, <3>2
  <2>2. PICK f : P(f, m - 1)
    BY <2>1 DEF Defined
  <2> DEFINE g == [i \in 1 .. m |-> IF i = m THEN f[m - 1] \o ss[m] ELSE f[i]]
  <2>3. \A i \in 1 .. m - 1 : f[i] = IF i = 1 THEN ss[i] ELSE f[i - 1] \o ss[i]
    <3>1. f = [i \in 1 .. m - 1 |-> IF i = 1 THEN ss[i] ELSE f[i - 1] \o ss[i]]
      BY <2>2
    <3> QED
      BY ONLY <3>1
  <2>4. \A i \in 1 .. m : g[i] = IF i = 1 THEN ss[i] ELSE g[i - 1] \o ss[i]
    <3> SUFFICES ASSUME NEW i \in 1 .. m
                 PROVE  g[i] = IF i = 1 THEN ss[i] ELSE g[i - 1] \o ss[i]
      OBVIOUS
    <3>1. CASE i = m
      <4>1. g[m] = f[m - 1] \o ss[m] /\ g[m - 1] = f[m - 1]
        <5>1. m \in 1 .. m /\ m - 1 \in 1 .. m /\ m - 1 # m
          BY <1>4, <2>1
        <5> QED
          BY ONLY <5>1
      <4> QED
        BY <1>4, <3>1, <4>1
    <3>2. CASE i # m
      <4>1. g[i] = f[i] /\ (i # 1 => g[i - 1] = f[i - 1])
        BY <2>1, <3>2
      <4> QED
        BY <2>1, <2>3, <3>2, <4>1
    <3> QED
      BY <3>1, <3>2
  <2>5. P(g, m)
    <3>1. g = [i \in 1 .. m |-> g[i]]
      OBVIOUS
    <3> HIDE DEF g
    <3> QED
      BY <2>4, <3>1
  <2> HIDE DEF P
  <2>6. Defined(m)
    BY <2>5 DEF Defined
  <2> QED
    BY <2>6
<1> QED
  BY <1>3, <1>4

\* FlattenSeq returns what is in its sequences.
LEMMA Flattened ==
  ASSUME NEW S, NEW ss \in Seq(Seq(S))
  PROVE  /\ FlattenSeq(ss) \in Seq(S)
         /\ Range(FlattenSeq(ss)) = UNION {Range(ss[i]) : i \in DOMAIN ss}
<1> DEFINE n == Len(ss)
<1>1. n \in Nat /\ DOMAIN ss = 1 .. n /\ \A i \in 1 .. n : ss[i] \in Seq(S)
  OBVIOUS
<1>2. CASE n = 0
  <2>1. FlattenSeq(ss) = ss /\ ss = <<>> /\ DOMAIN ss = {}
    BY <1>2 DEF FlattenSeq
  <2> QED
    BY <2>1 DEF Range
<1>3. CASE n # 0
  <2> DEFINE F(g) == [i \in 1 .. n |-> IF i = 1 THEN ss[i] ELSE g[i - 1] \o ss[i]]
             f == CHOOSE g : g = F(g)
             Upto(k) == UNION {Range(ss[i]) : i \in 1 .. k}
             Good(k) == f[k] \in Seq(S) /\ Range(f[k]) = Upto(k)
             T == {k \in 1 .. n : ~Good(k)}
  <2>1. FlattenSeq(ss) = f[n]
    BY <1>3 DEF FlattenSeq
  <2>2. f = F(f)
    <3>1. \E g : g = F(g)
      <4>1. n \in Nat \ {0}
        BY <1>1, <1>3
      <4> HIDE DEF n
      <4> QED
        BY <4>1, FlattenExists
    <3> HIDE DEF F
    <3> QED
      BY <3>1
  <2> HIDE DEF f
  <2>3. \A i \in 1 .. n : f[i] = IF i = 1 THEN ss[i] ELSE f[i - 1] \o ss[i]
    BY ONLY <2>2
  <2>4. T = {}
    <3> SUFFICES ASSUME T # {}
                 PROVE  FALSE
      OBVIOUS
    <3>1. PICK m \in T : \A k \in T : m <= k
      <4>1. T \subseteq Nat
        OBVIOUS
      <4> HIDE DEF T
      <4> QED
        BY <4>1, LeastExists
    <3>2. m \in 1 .. n /\ ~Good(m)
      OBVIOUS
    <3>3. CASE m = 1
      <4>1. f[1] = ss[1]
        BY <2>3, <3>2, <3>3
      <4>2. Upto(1) = Range(ss[1])
        <5>1. 1 .. 1 = {1}
          OBVIOUS
        <5> QED
          BY ONLY <5>1
      <4> QED
        BY <1>1, <3>2, <3>3, <4>1, <4>2
    <3>4. CASE m # 1
      <4>1. m - 1 \in 1 .. n /\ m - 1 \notin T
        <5>1. m - 1 \in 1 .. n /\ ~(m <= m - 1)
          BY <1>1, <3>2, <3>4
        <5> HIDE DEF T
        <5> QED
          BY <3>1, <5>1
      <4>2. Good(m - 1) /\ f[m] = f[m - 1] \o ss[m]
        BY <2>3, <3>2, <3>4, <4>1
      <4>3. Upto(m) = Upto(m - 1) \cup Range(ss[m])
        <5>1. 1 .. m = (1 .. m - 1) \cup {m}
          BY <1>1, <3>2, <3>4
        <5> QED
          BY <5>1
      <4> HIDE DEF Upto
      <4>4. Good(m)
        BY <1>1, <3>2, <4>2, <4>3, Joined
      <4> QED
        BY <3>2, <4>4
    <3> QED
      BY <3>3, <3>4
  <2>5. Good(n)
    <3> HIDE DEF Good
    <3>1. n \in 1 .. n
      BY <1>1, <1>3
    <3> QED
      BY <2>4, <3>1
  <2> QED
    BY <1>1, <2>1, <2>5
<1> QED
  BY <1>2, <1>3
-----------------------------------------------------------------------------
(* The plan.                                                               *)

SimpleKinds == {"dhcp", "dhcp6", "geo", "routing", "routing6"}

\* A check of segment s.
Items(s) == DnsItems(s) \cup {Simple(k) : k \in SimpleKinds}

\* dnsChecks asks every test of every server that is configured for it, and
\* nothing else.
THEOREM LoopsAskAll ==
  ASSUME NEW s \in Segments
  PROVE  DnsPlan(s) \in Seq(DnsItems(s)) /\ Range(DnsPlan(s)) = DnsItems(s)
<1>1. CASE s.dns = None
  BY <1>1 DEF DnsPlan, DnsItems, Range
<1>2. CASE s.dns # None
  <2> DEFINE tests == s.dns.tests
             Ask(i, v) == [kind |-> "dns", test |-> i, server |-> v]
             Inner(i) == [j \in DOMAIN Servers(s, tests[i]) |-> Ask(i, Servers(s, tests[i])[j])]
             plan == [i \in DOMAIN tests |-> Inner(i)]
             Items1(i) == {Ask(i, v) : v \in Range(Servers(s, tests[i]))}
             S == DnsItems(s)
  <2>1. S = UNION {Items1(i) : i \in DOMAIN tests}
    BY <1>2 DEF DnsItems
  <2>2. DnsPlan(s) = FlattenSeq(plan)
    BY <1>2 DEF DnsPlan
  <2>3. /\ tests \in Seq(Range(tests)) /\ DOMAIN tests = 1 .. Len(tests) /\ Len(tests) \in Nat
        /\ \A i \in DOMAIN tests : tests[i] \in Range(tests)
    <3>1. tests \in Seq(Range(tests))
      BY <1>2, SegmentsAssumption
    <3>2. \A i \in DOMAIN tests : tests[i] \in Range(tests)
      BY DEF Range
    <3> HIDE DEF tests
    <3> QED
      BY <3>1, <3>2
  <2>4. ASSUME NEW i \in DOMAIN tests
        PROVE  Servers(s, tests[i]) \in Seq(Range(Servers(s, tests[i])))
    BY <1>2, <2>3, SegmentsAssumption DEF Servers
  <2>5. ASSUME NEW i \in DOMAIN tests
        PROVE  Inner(i) \in Seq(S) /\ Range(Inner(i)) = Items1(i)
    <3> DEFINE q == Servers(s, tests[i])
    <3>1. DOMAIN q = 1 .. Len(q) /\ Len(q) \in Nat
      BY <2>4
    <3>2. \A j \in DOMAIN q : Inner(i)[j] = Ask(i, q[j]) /\ Ask(i, q[j]) \in Items1(i)
      BY DEF Range
    <3>3. DOMAIN Inner(i) = 1 .. Len(q)
      BY <3>1
    <3>4. Range(Inner(i)) = Items1(i)
      BY DEF Range
    <3>5. Items1(i) \subseteq S
      BY <2>1
    <3> HIDE DEF Inner, Items1, S, q
    <3>6. \A j \in 1 .. Len(q) : Inner(i)[j] \in S
      BY <3>3, <3>4, <3>5 DEF Range
    <3>7. Inner(i) = [j \in 1 .. Len(q) |-> Inner(i)[j]]
      BY <3>1 DEF Inner, q
    <3> QED
      BY <3>1, <3>4, <3>6, <3>7
  <2>6. plan \in Seq(Seq(S)) /\ DOMAIN plan = DOMAIN tests
    <3> HIDE DEF Inner, S, tests
    <3> QED
      BY <2>3, <2>5
  <2>7. /\ FlattenSeq(plan) \in Seq(S)
        /\ Range(FlattenSeq(plan)) = UNION {Range(plan[i]) : i \in DOMAIN plan}
    <3> HIDE DEF plan, S
    <3> QED
      BY <2>6, Flattened
  <2>8. \A i \in DOMAIN tests : Range(plan[i]) = Items1(i)
    BY <2>5
  <2> HIDE DEF plan, Items1, S, tests
  <2> QED
    BY <2>1, <2>2, <2>6, <2>7, <2>8 DEF S
<1> QED
  BY <1>1, <1>2

LEMMA PlanContents ==
  ASSUME NEW s \in Segments, SegmentOK(s)
  PROVE  /\ Plan(s) \in Seq(Items(s)) /\ Plan(s) \in Seq(Range(Plan(s)))
         /\ Range(Plan(s)) \subseteq Items(s)
         /\ DnsItems(s) \subseteq Range(Plan(s))
         /\ \A k \in {"dhcp", "dhcp6", "routing"} : Simple(k) \in Range(Plan(s))
<1> DEFINE first == <<Simple("dhcp"), Simple("dhcp6")>>
           geo == IF s.geo THEN <<Simple("geo")>> ELSE <<>>
           routing == <<Simple("routing")>>
           routing6 == IF s.routing6 THEN <<Simple("routing6")>> ELSE <<>>
           I == Items(s)
<1>1. DnsPlan(s) \in Seq(I) /\ Range(DnsPlan(s)) = DnsItems(s)
  BY LoopsAskAll DEF Items
<1>2. /\ first \in Seq(I) /\ geo \in Seq(I) /\ routing \in Seq(I) /\ routing6 \in Seq(I)
      /\ Simple("dhcp") \in Range(first) /\ Simple("dhcp6") \in Range(first)
      /\ Simple("routing") \in Range(routing)
  <2>1. \A k \in SimpleKinds : Simple(k) \in I
    BY DEF Items
  <2>2. DOMAIN first = {1, 2} /\ first[1] = Simple("dhcp") /\ first[2] = Simple("dhcp6")
        /\ DOMAIN routing = {1} /\ routing[1] = Simple("routing")
    OBVIOUS
  <2> HIDE DEF I
  <2>3. first \in Seq(I) /\ geo \in Seq(I) /\ routing \in Seq(I) /\ routing6 \in Seq(I)
    BY <2>1 DEF SimpleKinds
  <2> QED
    BY <2>2, <2>3 DEF Range
<1> HIDE DEF first, geo, routing, routing6, I
<1>3. Plan(s) = first \o DnsPlan(s) \o geo \o routing \o routing6
  BY DEF Plan, first, geo, routing, routing6
<1> DEFINE a == first \o DnsPlan(s)
           b == a \o geo
           c == b \o routing
<1>4. a \in Seq(I) /\ Range(a) = Range(first) \cup DnsItems(s)
  BY <1>1, <1>2, Joined
<1> HIDE DEF a
<1>5. b \in Seq(I) /\ Range(b) = Range(a) \cup Range(geo)
  BY <1>2, <1>4, Joined
<1> HIDE DEF b
<1>6. c \in Seq(I) /\ Range(c) = Range(b) \cup Range(routing)
  BY <1>2, <1>5, Joined
<1>7. Plan(s) \in Seq(I) /\ Range(Plan(s)) = Range(c) \cup Range(routing6)
  <2>1. Plan(s) = c \o routing6
    BY <1>3 DEF a, b
  <2> HIDE DEF c
  <2> QED
    BY <1>2, <1>6, <2>1, Joined
<1>8. Range(Plan(s)) \subseteq I /\ Plan(s) \in Seq(Range(Plan(s)))
  BY <1>7 DEF Range
<1> QED
  BY <1>2, <1>4, <1>5, <1>6, <1>7, <1>8 DEF I

\* A DNS check of the plan is a test of the file, on a server Load accepted.
LEMMA DnsItemOK ==
  ASSUME NEW s, SegmentOK(s), NEW c \in Items(s), c.kind = "dns"
  PROVE  /\ s.dns # None /\ c.test \in DOMAIN s.dns.tests
         /\ c.server \in Usable
         /\ s.dns.tests[c.test].type \in FixedName \cup OwnName
<1>1. c \in DnsItems(s)
  BY DEF Items, Simple, SimpleKinds
<1>2. s.dns # None
  BY <1>1 DEF DnsItems
<1>3. PICK i \in DOMAIN s.dns.tests : \E v \in Range(Servers(s, s.dns.tests[i])) :
        c = [kind |-> "dns", test |-> i, server |-> v]
  BY <1>1, <1>2 DEF DnsItems
<1>4. TestOK(s.dns.tests[i], s.dns.servers) /\ Range(s.dns.servers) \subseteq Usable
  BY <1>2 DEF SegmentOK, DnsOK
<1>5. Range(Servers(s, s.dns.tests[i])) \subseteq Usable
  BY <1>4 DEF Servers, TestOK
<1> QED
  BY <1>2, <1>3, <1>4, <1>5 DEF TestOK

-----------------------------------------------------------------------------
(* What a run relies on.                                                   *)

\* The check at hand is one of the segment's.
LEMMA CheckIsItem ==
  ASSUME TypeOK, ResultInv, BatchInv, todo # <<>>
  PROVE  /\ Check \in Items(seg) /\ Check \in Range(Plan(seg))
         /\ Tail(todo) \in Seq(Range(Plan(seg)))
         /\ \A c \in Range(todo) : c = Check \/ c \in Range(Tail(todo))
<1>1. Range(Plan(seg)) \subseteq Items(seg)
  BY PlanContents DEF TypeOK, BatchInv
<1> QED
  BY <1>1, HeadAndTail DEF ResultInv, Check

\* A lookup only returns addresses.
LEMMA LookupFamily ==
  ASSUME NEW w, NEW v, NEW t, NEW a \in LookupIP(w, v, t)
  PROVE  a \in DOMAIN Family /\ Family[a] = Network(t)
BY DEF LookupIP

\* The steps that record a result.
RecordStep == SimpleCheck \/ ForwardDecides \/ ReverseLookup

\* What is recorded is true: a pass of the network there was, a failure of one
\* that held still.
LEMMA Recorded ==
  ASSUME TypeOK, ResultInv, BatchInv, RecordStep
  PROVE  /\ todo # <<>> /\ pc # "done"
         /\ \E pass \in BOOLEAN :
              /\ Record(pass)
              /\ pass => Evidence(Check)
              /\ ~pass => \A w \in Worlds : seen = {w} => ~Works(w, Check)
<1>1. todo # <<>> /\ pc \in {"check", "reverse"}
  BY DEF RecordStep, SimpleCheck, ForwardDecides, ReverseLookup, Checking, BatchInv
<1>2. world \in seen /\ Check \in Items(seg)
  BY <1>1, CheckIsItem DEF BatchInv
<1>3. CASE SimpleCheck
  <2> DEFINE pass == Check.kind \in world.up
  <2>1. pass \in BOOLEAN /\ Record(pass) /\ Check.kind # "dns"
    BY <1>3 DEF SimpleCheck, Checking
  <2>2. pass => Evidence(Check)
    BY <1>2, <2>1 DEF Evidence
  <2>3. ASSUME ~pass, NEW w \in Worlds, seen = {w}
        PROVE  ~Works(w, Check)
    BY <1>2, <2>1, <2>3 DEF Works
  <2> HIDE DEF pass
  <2> QED
    BY <1>1, <2>1, <2>2, <2>3
<1>4. ASSUME Check.kind = "dns"
      PROVE  /\ Check.server \in Usable /\ Test = seg.dns.tests[Check.test]
             /\ RoundTrip(Test) <=> Test.type \notin {"A", "AAAA"}
  <2>1. Check.server \in Usable /\ Test.type \in FixedName \cup OwnName
    BY <1>2, <1>4, DnsItemOK DEF Test, BatchInv
  <2>2. Test = seg.dns.tests[Check.test]
    BY DEF Test
  <2> QED
    BY <2>1, <2>2 DEF RoundTrip, FixedName, OwnName
<1>5. CASE ForwardDecides
  <2> DEFINE found == LookupIP(world, Check.server, Test)
             pass == \/ Check.server \notin Usable
                     \/ Test.type \in {"A", "AAAA"} /\ found # {}
  <2>1. /\ Check.kind = "dns" /\ pass \in BOOLEAN /\ Record(pass)
        /\ Check.server \in Usable /\ RoundTrip(Test) => found = {}
    BY <1>5 DEF ForwardDecides, Checking
  <2>2. (pass => ~RoundTrip(Test) /\ found # {}) /\ (~pass => found = {})
    BY <1>4, <2>1
  <2> HIDE DEF pass
  <2>3. pass => Evidence(Check)
    BY <1>2, <1>4, <2>1, <2>2 DEF Evidence
  <2>4. ASSUME ~pass, NEW w \in Worlds, seen = {w}
        PROVE  ~Works(w, Check)
    <3>1. w = world /\ found = {}
      BY <1>2, <2>2, <2>4
    <3> QED
      BY <1>4, <2>1, <3>1 DEF Works
  <2> QED
    BY <1>1, <2>1, <2>3, <2>4
<1>6. CASE ReverseLookup
  <2> DEFINE pass == Target(Test) \in LookupAddr(world, Check.server, answer)
  <2>1. pass \in BOOLEAN /\ Record(pass) /\ Check.kind = "dns" /\ RoundTrip(Test)
    BY <1>6 DEF ReverseLookup, BatchInv
  <2>2. PICK w1 \in seen : answer \in LookupIP(w1, Check.server, Test)
    BY <1>6 DEF ReverseLookup, BatchInv
  <2>3. pass => Evidence(Check)
    BY <1>2, <1>4, <2>1, <2>2 DEF Evidence
  <2>4. ASSUME ~pass, NEW w \in Worlds, seen = {w}
        PROVE  ~Works(w, Check)
    <3>1. w = world /\ w1 = world
      BY <1>2, <2>2, <2>4
    <3> QED
      BY <1>4, <2>1, <2>2, <2>4, <3>1 DEF Works, Dotted
  <2> HIDE DEF pass
  <2> QED
    BY <1>1, <2>1, <2>3, <2>4
<1> QED
  BY <1>3, <1>5, <1>6 DEF RecordStep

LEMMA TypeStep ==
  ASSUME TypeOK, ResultInv, BatchInv, Next
  PROVE  TypeOK'
<1>1. CASE RecordStep
  <2>1. PICK pass \in BOOLEAN : Record(pass)
    BY <1>1, Recorded
  <2>2. \A k \in DOMAIN results' : results'[k].pass \in BOOLEAN
    <3> DEFINE r == [check |-> Check, pass |-> pass]
    <3>1. results' = Append(results, r) /\ r.pass \in BOOLEAN
      BY <2>1 DEF Record
    <3> HIDE DEF r
    <3> QED
      BY <3>1, Appended DEF TypeOK, ResultInv
  <2> QED
    BY <2>1, <2>2 DEF Record, TypeOK
<1>2. CASE RoundTripGoesOn
  <2>1. /\ UNCHANGED <<world, seg, attempt, todo, results, seen>> /\ pc' = "reverse"
        /\ answer' \in LookupIP(world, Check.server, Test)
    BY <1>2 DEF RoundTripGoesOn
  <2>2. answer' \in DOMAIN Family /\ Family[answer'] = Network(Test)
    BY <2>1, LookupFamily
  <2>3. Test' = Test
    BY <2>1 DEF Test, Check
  <2> QED
    BY <2>1, <2>2, <2>3 DEF TypeOK
<1>3. CASE EndBatch
  BY <1>3 DEF EndBatch, TypeOK
<1>4. CASE Retry
  BY <1>4 DEF Retry, TypeOK, BatchInv
<1>5. CASE NextRun
  BY <1>5 DEF NextRun, TypeOK
<1>6. CASE Change
  <2>1. Test' = Test
    BY <1>6 DEF Change, Test, Check
  <2> QED
    BY <1>6, <2>1 DEF Change, TypeOK
<1> QED
  BY <1>1, <1>2, <1>3, <1>4, <1>5, <1>6 DEF Next, Run, RecordStep

LEMMA BatchStep ==
  ASSUME TypeOK, BatchInv, Next
  PROVE  BatchInv'
<1> USE DEF BatchInv
<1>1. CASE RecordStep
  <2>1. /\ pc' = "check" /\ UNCHANGED <<world, seg, seen>> /\ pc # "done"
    BY <1>1 DEF RecordStep, SimpleCheck, ForwardDecides, ReverseLookup, Checking, Record
  <2> QED
    BY <2>1
<1>2. CASE RoundTripGoesOn
  <2>1. /\ UNCHANGED <<world, seg, todo, seen>> /\ pc = "check" /\ pc' = "reverse"
        /\ todo # <<>> /\ Check.kind = "dns" /\ RoundTrip(Test)
        /\ answer' \in LookupIP(world, Check.server, Test)
    BY <1>2 DEF RoundTripGoesOn, Checking
  <2>2. Check' = Check /\ Test' = Test
    BY <2>1 DEF Test, Check
  <2> QED
    BY <2>1, <2>2
<1>3. CASE EndBatch
  <2>1. AllPass' <=> AllPass
    BY <1>3 DEF EndBatch, AllPass
  <2> QED
    BY <1>3, <2>1 DEF EndBatch, TypeOK
<1>4. CASE Retry
  BY <1>4 DEF Retry
<1>5. CASE NextRun
  BY <1>5 DEF NextRun
<1>6. CASE Change
  <2>1. Check' = Check /\ Test' = Test /\ (AllPass' <=> AllPass)
    BY <1>6 DEF Change, Test, Check, AllPass
  <2>2. seen \subseteq seen' /\ (pc # "done" => world' \in seen')
    BY <1>6 DEF Change
  <2>3. pc' = "reverse" => \E w \in seen' : answer' \in LookupIP(w, Check'.server, Test')
    BY <1>6, <2>1, <2>2 DEF Change
  <2> QED
    BY <1>6, <2>1, <2>2, <2>3 DEF Change
<1> QED
  BY <1>1, <1>2, <1>3, <1>4, <1>5, <1>6 DEF Next, Run, RecordStep

LEMMA ResultStep ==
  ASSUME TypeOK, ResultInv, BatchInv, Next
  PROVE  ResultInv'
<1>1. ASSUME UNCHANGED <<seg, todo, results>>, seen \subseteq seen', world \in Worlds,
             \A w \in Worlds : seen' = {w} => seen = {w} \/ results = <<>>
      PROVE  ResultInv'
  <2>1. \A c : Evidence(c) => Evidence(c)'
    BY <1>1 DEF Evidence
  <2>2. \A w \in Worlds : \A c : Works(w, c)' <=> Works(w, c)
    BY <1>1 DEF Works
  <2>3. Plan(seg)' = Plan(seg)
    BY <1>1
  <2> QED
    BY <1>1, <2>1, <2>2, <2>3 DEF ResultInv
<1>2. CASE RecordStep
  <2>1. todo # <<>>
    BY <1>2, Recorded
  <2>2. PICK pass \in BOOLEAN :
          /\ Record(pass)
          /\ pass => Evidence(Check)
          /\ ~pass => \A w \in Worlds : seen = {w} => ~Works(w, Check)
    BY <1>2, Recorded
  <2> DEFINE r == [check |-> Check, pass |-> pass]
  <2>3. /\ results' = Append(results, r) /\ todo' = Tail(todo) /\ UNCHANGED <<seg, seen>>
        /\ r.check = Check /\ r.pass = pass
    BY <2>2 DEF Record
  <2>4. /\ Tail(todo) \in Seq(Range(Plan(seg)))
        /\ \A c \in Range(todo) : c = Check \/ c \in Range(Tail(todo))
    BY <2>1, CheckIsItem
  <2>5. (\A c : Evidence(c)' <=> Evidence(c)) /\ \A w, c : Works(w, c)' <=> Works(w, c)
    BY <2>3 DEF Evidence, Works
  <2> HIDE DEF r
  <2>6. /\ results' \in Seq(Range(results'))
        /\ DOMAIN results' = DOMAIN results \cup {Len(results) + 1}
        /\ results'[Len(results) + 1] = r
        /\ \A k \in DOMAIN results : results'[k] = results[k]
    BY <2>3, Appended DEF ResultInv
  <2>7. \A c \in Range(Plan(seg)) :
          c \in Range(todo') \/ \E k \in DOMAIN results' : results'[k].check = c
    <3> SUFFICES ASSUME NEW c \in Range(Plan(seg))
                 PROVE  c \in Range(todo') \/ \E k \in DOMAIN results' : results'[k].check = c
      OBVIOUS
    <3>1. CASE c \in Range(todo)
      BY <2>3, <2>4, <2>6, <3>1
    <3>2. CASE \E k \in DOMAIN results : results[k].check = c
      BY <2>6, <3>2
    <3> QED
      BY <3>1, <3>2 DEF ResultInv
  <2>8. ASSUME NEW k \in DOMAIN results'
        PROVE  IF results'[k].pass THEN Evidence(results'[k].check)
               ELSE \A w \in Worlds : seen = {w} => ~Works(w, results'[k].check)
    <3>1. CASE k = Len(results) + 1
      BY <2>2, <2>3, <2>6, <3>1
    <3>2. CASE k \in DOMAIN results
      BY <2>6, <3>2 DEF ResultInv
    <3> QED
      BY <2>6, <2>8, <3>1, <3>2
  <2> QED
    BY <2>3, <2>4, <2>5, <2>6, <2>7, <2>8 DEF ResultInv
<1>3. CASE RoundTripGoesOn \/ EndBatch
  BY <1>1, <1>3 DEF RoundTripGoesOn, EndBatch, TypeOK
<1>4. CASE Retry \/ NextRun
  <2>1. todo' = Plan(seg') /\ results' = <<>> /\ seg' \in Segments /\ SegmentOK(seg')
    BY <1>4 DEF Retry, NextRun, TypeOK, BatchInv
  <2>2. Plan(seg') \in Seq(Range(Plan(seg')))
    BY <2>1, PlanContents
  <2> QED
    BY <2>1, <2>2 DEF ResultInv
<1>5. CASE Change
  <2>1. CASE pc = "done"
    BY <1>1, <1>5, <2>1 DEF Change, TypeOK
  <2>2. CASE pc # "done"
    BY <1>1, <1>5, <2>2 DEF Change, TypeOK, BatchInv
  <2> QED
    BY <2>1, <2>2
<1> QED
  BY <1>2, <1>3, <1>4, <1>5 DEF Next, Run, RecordStep

-----------------------------------------------------------------------------
(* The theorems.                                                           *)

LEMMA RunInv == Spec => [](TypeOK /\ ResultInv /\ BatchInv)
<1> DEFINE Inv == TypeOK /\ ResultInv /\ BatchInv
<1>1. Init => Inv
  <2> SUFFICES ASSUME Init
               PROVE  Inv
    OBVIOUS
  <2>1. Plan(seg) \in Seq(Range(Plan(seg)))
    BY PlanContents DEF Init
  <2> QED
    BY <2>1 DEF Init, TypeOK, ResultInv, BatchInv
<1>2. Inv /\ [Next]_vars => Inv'
  <2>1. CASE Next
    BY <2>1, TypeStep, BatchStep, ResultStep
  <2>2. CASE UNCHANGED vars
    <3>1. TypeOK => TypeOK'
      BY <2>2 DEF vars, TypeOK, Test, Check
    <3>2. BatchInv => BatchInv'
      BY <2>2 DEF vars, BatchInv, Test, Check, AllPass
    <3>3. ResultInv => ResultInv'
      BY <2>2 DEF vars, ResultInv, Evidence, Works
    <3> QED
      BY <3>1, <3>2, <3>3
  <2> QED
    BY <2>1, <2>2
<1> QED
  BY <1>1, <1>2, PTL DEF Spec

\* The variables have their types in every run.
THEOREM BatchTypeCorrect == Spec => []TypeOK
BY RunInv, PTL

\* A run whose results all passed has asked for everything configured, and had
\* the answer while its last batch ran.
THEOREM PassHasEvidence == Spec => []PassIsEvidence
<1>1. TypeOK /\ ResultInv /\ BatchInv => PassIsEvidence
  <2> SUFFICES ASSUME TypeOK, ResultInv, BatchInv, pc = "done", AllPass
               PROVE  /\ \A k \in {"dhcp", "dhcp6", "routing"} : \E w \in seen : k \in w.up
                      /\ \A t \in DnsTests : \A v \in Range(Servers(seg, t)) :
                           \E w1 \in seen : \E a \in LookupIP(w1, v, t) :
                             RoundTrip(t) => \E w2 \in seen : Target(t) \in LookupAddr(w2, v, a)
    BY DEF PassIsEvidence, Servers
  <2>1. \A c \in Range(Plan(seg)) : Evidence(c)
    <3>1. Range(todo) = {}
      BY DEF BatchInv, Range
    <3> QED
      BY <3>1 DEF ResultInv, AllPass
  <2>2. /\ \A k \in {"dhcp", "dhcp6", "routing"} : Simple(k) \in Range(Plan(seg))
        /\ DnsItems(seg) \subseteq Range(Plan(seg))
    BY PlanContents DEF TypeOK, BatchInv
  <2>3. ASSUME NEW k \in {"dhcp", "dhcp6", "routing"}
        PROVE  \E w \in seen : k \in w.up
    <3>1. Evidence(Simple(k)) /\ Simple(k).kind = k
      BY <2>1, <2>2 DEF Simple
    <3> QED
      BY <3>1 DEF Evidence
  <2>4. ASSUME NEW t \in DnsTests, NEW v \in Range(Servers(seg, t))
        PROVE  \E w1 \in seen : \E a \in LookupIP(w1, v, t) :
                 RoundTrip(t) => \E w2 \in seen : Target(t) \in LookupAddr(w2, v, a)
    <3>1. PICK i \in DOMAIN seg.dns.tests : seg.dns # None /\ t = seg.dns.tests[i]
      BY DEF DnsTests, Range
    <3> DEFINE c == [kind |-> "dns", test |-> i, server |-> v]
    <3>2. c \in DnsItems(seg)
      BY <3>1 DEF DnsItems
    <3>3. Evidence(c) /\ c.kind = "dns" /\ c.test = i /\ c.server = v
      BY <2>1, <2>2, <3>2
    <3> HIDE DEF c
    <3> QED
      BY <3>1, <3>3 DEF Evidence
  <2> QED
    BY <2>3, <2>4
<1> QED
  BY <1>1, RunInv, PTL

\* A failure is reported after the last attempt only, and if the network held
\* still during that attempt, of something that is broken.
THEOREM FailureIsReal == Spec => []NoFalseAlarm
<1>1. TypeOK /\ ResultInv /\ BatchInv => NoFalseAlarm
  BY DEF NoFalseAlarm, TypeOK, ResultInv, BatchInv
<1> QED
  BY <1>1, RunInv, PTL

-----------------------------------------------------------------------------
(* Runs are finite.                                                        *)

LEMMA OneLess ==
  ASSUME NEW d \in Nat, d > 0, NEW k \in Nat
  PROVE  (d - 1) * k = d * k - k /\ d * k \in Nat
OBVIOUS

LEMMA WorkStep ==
  ASSUME TypeOK, ResultInv, BatchInv, Next, pc # "done"
  PROVE  Work \in Nat /\ IF UNCHANGED world THEN Work' < Work ELSE Work' = Work
<1> DEFINE d == MaxAttempts - attempt
           n == Len(Plan(seg))
           k == 2 * n + 2
           dk == d * k
<1>1. /\ n \in Nat /\ Plan(seg) \in Seq(Range(Plan(seg)))
      /\ todo \in Seq(Range(Plan(seg))) /\ Len(todo) \in Nat
  BY PlanContents DEF TypeOK, BatchInv, ResultInv
<1>2. d \in Nat /\ k \in Nat /\ dk \in Nat
  <2>1. d \in Nat /\ k \in Nat
    BY <1>1 DEF TypeOK
  <2> HIDE DEF d, k
  <2> QED
    BY <2>1, OneLess
<1>3. Work = dk + (IF pc = "check" THEN 2 * Len(todo) + 1
                    ELSE IF pc = "reverse" THEN 2 * Len(todo) ELSE 0)
  BY DEF Work
<1>4. Work \in Nat
  <2> HIDE DEF dk
  <2> QED
    BY <1>1, <1>2, <1>3
<1>5. ASSUME UNCHANGED <<seg, attempt>>
      PROVE  Work' = dk + (IF pc' = "check" THEN 2 * Len(todo') + 1
                              ELSE IF pc' = "reverse" THEN 2 * Len(todo') ELSE 0)
  BY <1>5 DEF Work
<1>6. CASE RecordStep
  <2>1. /\ todo # <<>> /\ pc \in {"check", "reverse"} /\ pc' = "check"
        /\ todo' = Tail(todo) /\ UNCHANGED <<seg, attempt, world>>
    BY <1>6 DEF RecordStep, SimpleCheck, ForwardDecides, ReverseLookup, Checking, BatchInv, Record
  <2>2. Len(todo') = Len(todo) - 1 /\ Len(todo') \in Nat
    BY <1>1, <2>1
  <2> HIDE DEF dk
  <2> QED
    BY <1>1, <1>2, <1>3, <1>4, <1>5, <2>1, <2>2
<1>7. CASE RoundTripGoesOn
  <2>1. pc = "check" /\ pc' = "reverse" /\ UNCHANGED <<todo, seg, attempt, world>>
    BY <1>7 DEF RoundTripGoesOn, Checking
  <2> HIDE DEF dk
  <2> QED
    BY <1>1, <1>2, <1>3, <1>4, <1>5, <2>1
<1>8. CASE EndBatch
  <2>1. pc = "check" /\ pc' \in {"done", "wait"} /\ UNCHANGED <<todo, seg, attempt, world>>
    BY <1>8 DEF EndBatch
  <2> HIDE DEF dk
  <2> QED
    BY <1>1, <1>2, <1>3, <1>4, <1>5, <2>1
<1>9. CASE Retry
  <2>1. /\ pc = "wait" /\ pc' = "check" /\ todo' = Plan(seg) /\ UNCHANGED <<seg, world>>
        /\ attempt' = attempt + 1 /\ d > 0
    BY <1>9 DEF Retry, BatchInv, TypeOK
  <2>2. Work' = (d - 1) * k + (2 * n + 1)
    <3>1. MaxAttempts - attempt' = d - 1
      BY <2>1 DEF TypeOK
    <3>2. Plan(seg)' = Plan(seg)
      BY <2>1
    <3> HIDE DEF d
    <3> QED
      BY <2>1, <3>1, <3>2 DEF Work
  <2>3. Work = dk
    BY <1>2, <1>3, <2>1
  <2>4. (d - 1) * k = d * k - k
    <3> HIDE DEF d, k
    <3> QED
      BY <1>2, <2>1, OneLess
  <2>5. (d - 1) * k + (2 * n + 1) < dk
    <3> DEFINE ek == (d - 1) * k
    <3>1. ek = dk - k /\ dk \in Nat /\ k = 2 * n + 2
      BY <1>2, <2>4
    <3> HIDE DEF dk, ek, k, n
    <3>2. ek + (2 * n + 1) < dk
      BY <1>1, <3>1
    <3> QED
      BY <3>2 DEF ek
  <2> HIDE DEF dk
  <2> QED
    BY <1>4, <2>1, <2>2, <2>3, <2>5
<1>10. CASE Change
  <2>1. UNCHANGED <<pc, todo, seg, attempt>> /\ world' # world
    BY <1>10 DEF Change
  <2> QED
    BY <1>3, <1>4, <1>5, <2>1
<1> QED
  BY <1>6, <1>7, <1>8, <1>9, <1>10 DEF Next, Run, NextRun, RecordStep

\* Each step of a run leaves less to do, so however the network changes, the
\* run is over after as many steps as the first batch's work allows.
THEOREM RunsAreFinite == Spec => WorkShrinks
<1>1. TypeOK /\ ResultInv /\ BatchInv /\ [Next]_vars
        => [pc # "done" => Work \in Nat /\ IF UNCHANGED world THEN Work' < Work ELSE Work' = Work]_vars
  BY WorkStep
<1> QED
  BY <1>1, RunInv, PTL DEF Spec, WorkShrinks
=============================================================================
