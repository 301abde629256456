------------------------- MODULE RebootCycle_proofs -------------------------
(***************************************************************************)
(* What the walk round a cycle returns, for every sequence, and theorems   *)
(* about RebootCycle, for every set of segments, configs and faults.       *)
(***************************************************************************)
EXTENDS RebootCycle, WellFoundedInduction, TLAPS

-----------------------------------------------------------------------------
(* The operators of Cycles.                                                *)

\* The loop of state.Active.Next stops: a name of the cycle has a first index.
LEMMA FirstIndexExists ==
  ASSUME NEW S, NEW cycle \in Seq(S), NEW s \in Range(cycle)
  PROVE  /\ FirstIndex(cycle, s) \in 1 .. Len(cycle)
         /\ cycle[FirstIndex(cycle, s)] = s
<1> DEFINE Match == {i \in DOMAIN cycle : cycle[i] = s}
<1>1. PICK i \in DOMAIN cycle : cycle[i] = s
  BY DEF Range
<1>2. Match \subseteq Nat /\ i \in Match
  BY <1>1
<1>3. \E m \in Match : \A j \in Match : m <= j
  <2> DEFINE R == OpToRel(<, Nat)
  <2>1. PICK m \in Match : \A j \in Match : <<j, m>> \notin R
    <3>1. IsWellFoundedOn(R, Nat)
      BY NatLessThanWellFounded
    <3> HIDE DEF R, Match
    <3> QED
      BY <3>1, <1>2, WFMin
  <2>2. \A j \in Match : ~(j < m)
    BY <2>1, <1>2 DEF OpToRel
  <2> QED
    BY <2>2, <1>2
<1>4. \E m \in DOMAIN cycle : cycle[m] = s /\ \A j \in DOMAIN cycle : cycle[j] = s => m <= j
  BY <1>3
<1>5. /\ FirstIndex(cycle, s) \in DOMAIN cycle
      /\ cycle[FirstIndex(cycle, s)] = s
  BY <1>4 DEF FirstIndex
<1> QED
  BY <1>5

\* Advancing never leaves the cycle.
LEMMA NextInCycleInRange ==
  ASSUME NEW S, NEW cycle \in Seq(S), NEW s \in Range(cycle)
  PROVE  NextInCycle(cycle, s) \in Range(cycle) /\ NextInCycle(cycle, s) \in S
<1> DEFINE i == FirstIndex(cycle, s)
           n == Len(cycle)
<1>1. i \in 1 .. n /\ n \in Nat
  BY FirstIndexExists
<1> HIDE DEF i, n
<1>2. (i % n) + 1 \in 1 .. n
  BY <1>1
<1> QED
  BY <1>2 DEF NextInCycle, Range, i, n

-----------------------------------------------------------------------------
(* Places relative to a segment, in a cycle without a name that occurs     *)
(* twice.                                                                  *)

\* A name that occurs once is found where it is.
LEMMA FirstIndexOfPlace ==
  ASSUME NEW S, NEW cycle \in Seq(S), IsInjective(cycle), NEW i \in 1 .. Len(cycle)
  PROVE  FirstIndex(cycle, cycle[i]) = i /\ cycle[i] \in Range(cycle)
<1>1. cycle[i] \in Range(cycle)
  BY DEF Range
<1>2. /\ FirstIndex(cycle, cycle[i]) \in DOMAIN cycle
      /\ cycle[FirstIndex(cycle, cycle[i])] = cycle[i]
  BY <1>1, FirstIndexExists
<1> QED
  BY <1>1, <1>2 DEF IsInjective

\* The remainders that a walk of at most a lap meets.
LEMMA ShortRemainders ==
  ASSUME NEW n \in Nat \ {0}, NEW x \in Nat, x < 2 * n
  PROVE  /\ x % n \in 0 .. n - 1
         /\ x % n = IF x < n THEN x ELSE x - n
         /\ ((x % n) + 1) % n = (x + 1) % n
OBVIOUS

\* The index of the segment k places ahead, less one.
Place(cycle, s, k) ==
  LET x == FirstIndex(cycle, s) - 1 + k
  IN  IF x < Len(cycle) THEN x ELSE x - Len(cycle)

\* The segment k places ahead is in the cycle, where its index says.
LEMMA AheadPlace ==
  ASSUME NEW S, NEW cycle \in Seq(S), NEW s \in Range(cycle), NEW k \in 0 .. Len(cycle)
  PROVE  /\ Place(cycle, s, k) \in 0 .. Len(cycle) - 1
         /\ Ahead(cycle, s, k) = cycle[Place(cycle, s, k) + 1]
         /\ Ahead(cycle, s, k) \in Range(cycle)
<1> DEFINE n == Len(cycle)
           f == FirstIndex(cycle, s)
           x == f - 1 + k
<1>1. f \in 1 .. n /\ n \in Nat \ {0}
  BY FirstIndexExists
<1>2. Ahead(cycle, s, k) = cycle[(x % n) + 1]
  BY DEF Ahead
<1>3. Place(cycle, s, k) = IF x < n THEN x ELSE x - n
  BY DEF Place
<1> HIDE DEF f
<1>4. x \in Nat /\ x < 2 * n
  BY <1>1
<1>5. x % n \in 0 .. n - 1 /\ x % n = IF x < n THEN x ELSE x - n
  BY <1>1, <1>4, ShortRemainders
<1>6. cycle[(x % n) + 1] \in Range(cycle)
  BY <1>1, <1>5 DEF Range
<1> QED
  BY <1>2, <1>3, <1>5, <1>6

\* No place ahead is the segment itself.
LEMMA AheadZero ==
  ASSUME NEW S, NEW cycle \in Seq(S), NEW s \in Range(cycle)
  PROVE  Ahead(cycle, s, 0) = s
<1>1. /\ cycle[FirstIndex(cycle, s)] = s /\ FirstIndex(cycle, s) \in 1 .. Len(cycle)
      /\ Len(cycle) \in Nat \ {0}
  BY FirstIndexExists
<1>2. Ahead(cycle, s, 0) = cycle[Place(cycle, s, 0) + 1]
  BY <1>1, AheadPlace
<1>3. Place(cycle, s, 0) + 1 = FirstIndex(cycle, s)
  BY <1>1 DEF Place
<1> QED
  BY <1>1, <1>2, <1>3

\* A search that moves its cursor on with Next looks at the places ahead one
\* after the other.
LEMMA NextIsAhead ==
  ASSUME NEW S, NEW cycle \in Seq(S), IsInjective(cycle), NEW s \in Range(cycle),
         NEW k \in Nat, k < Len(cycle)
  PROVE  NextInCycle(cycle, Ahead(cycle, s, k)) = Ahead(cycle, s, k + 1)
<1> DEFINE n == Len(cycle)
           x == FirstIndex(cycle, s) - 1 + k
           i == (x % n) + 1
<1>1. FirstIndex(cycle, s) \in 1 .. n /\ n \in Nat \ {0}
  BY FirstIndexExists
<1>2. /\ Ahead(cycle, s, k) = cycle[i]
      /\ Ahead(cycle, s, k + 1) = cycle[((FirstIndex(cycle, s) - 1 + (k + 1)) % n) + 1]
  BY DEF Ahead
<1>3. x \in Nat /\ x < 2 * n /\ FirstIndex(cycle, s) - 1 + (k + 1) = x + 1
  BY <1>1
<1> HIDE DEF x
<1>4. i \in 1 .. n /\ i % n = (x + 1) % n
  <2> HIDE DEF n
  <2>1. x % n \in 0 .. n - 1 /\ ((x % n) + 1) % n = (x + 1) % n
    BY <1>1, <1>3, ShortRemainders
  <2> QED
    BY <1>1, <2>1
<1> HIDE DEF i
<1>5. FirstIndex(cycle, cycle[i]) = i
  BY <1>4, FirstIndexOfPlace
<1>6. NextInCycle(cycle, cycle[i]) = cycle[(i % n) + 1]
  BY <1>5 DEF NextInCycle
<1> QED
  BY <1>2, <1>3, <1>4, <1>6

\* A lap comes past every segment.
LEMMA AheadCovers ==
  ASSUME NEW S, NEW cycle \in Seq(S), NEW s \in Range(cycle), NEW t \in Range(cycle)
  PROVE  \E k \in 1 .. Len(cycle) : t = Ahead(cycle, s, k)
<1> DEFINE n == Len(cycle)
           f == FirstIndex(cycle, s)
<1>1. f \in 1 .. n /\ n \in Nat \ {0}
  BY FirstIndexExists
<1>2. PICK i \in 1 .. n : t = cycle[i]
  BY DEF Range
<1> DEFINE k == IF f < i THEN i - f ELSE i - f + n
<1>3. k \in 1 .. n /\ k \in 0 .. n
  BY <1>1, <1>2
<1>4. Place(cycle, s, k) + 1 = i
  BY <1>1, <1>2 DEF Place
<1>5. Ahead(cycle, s, k) = cycle[Place(cycle, s, k) + 1]
  <2> HIDE DEF k
  <2> QED
    BY <1>3, AheadPlace
<1> QED
  BY <1>2, <1>3, <1>4, <1>5

\* Within a lap no segment is met twice.
LEMMA AheadOnce ==
  ASSUME NEW S, NEW cycle \in Seq(S), IsInjective(cycle), NEW s \in Range(cycle),
         NEW i \in 0 .. Len(cycle) - 1, NEW j \in 0 .. Len(cycle) - 1,
         Ahead(cycle, s, i) = Ahead(cycle, s, j)
  PROVE  i = j
<1> DEFINE n == Len(cycle)
<1>1. FirstIndex(cycle, s) \in 1 .. n /\ n \in Nat \ {0}
  BY FirstIndexExists
<1>2. i \in 0 .. n /\ j \in 0 .. n
  BY <1>1
<1>3. Place(cycle, s, i) \in 0 .. n - 1 /\ Ahead(cycle, s, i) = cycle[Place(cycle, s, i) + 1]
  BY <1>2, AheadPlace
<1>4. Place(cycle, s, j) \in 0 .. n - 1 /\ Ahead(cycle, s, j) = cycle[Place(cycle, s, j) + 1]
  BY <1>2, AheadPlace
<1>5. Place(cycle, s, i) + 1 \in DOMAIN cycle /\ Place(cycle, s, j) + 1 \in DOMAIN cycle
  BY <1>1, <1>3, <1>4
<1>6. Place(cycle, s, i) + 1 = Place(cycle, s, j) + 1
  BY <1>3, <1>4, <1>5 DEF IsInjective
<1>7. Place(cycle, s, i) = Place(cycle, s, j)
  BY <1>1, <1>3, <1>4, <1>6
<1> QED
  BY <1>1, <1>7 DEF Place

\* A walk that is back where it began has gone all the way round.
LEMMA BackAfterLap ==
  ASSUME NEW S, NEW cycle \in Seq(S), IsInjective(cycle), NEW s \in Range(cycle),
         NEW k \in 1 .. Len(cycle), Ahead(cycle, s, k) = s
  PROVE  k = Len(cycle)
<1>1. Ahead(cycle, s, 0) = s
  BY AheadZero
<1>2. ASSUME k # Len(cycle)
      PROVE  FALSE
  <2>1. k \in 0 .. Len(cycle) - 1 /\ 0 \in 0 .. Len(cycle) - 1
    BY <1>2
  <2>2. k = 0
    BY <1>1, <2>1, AheadOnce
  <2> QED
    BY <2>2
<1> QED
  BY <1>2

\* state.Active.Next goes through a cycle without duplicates, of any length
\* and from any of its segments: one place at a time, and within one lap every
\* segment comes up exactly once, the one it started from last.
THEOREM NextVisitsEachOnce ==
  ASSUME NEW S, NEW cycle \in Seq(S), IsInjective(cycle), NEW s \in Range(cycle)
  PROVE  /\ Ahead(cycle, s, 0) = s
         /\ \A k \in 0 .. Len(cycle) - 1 :
              NextInCycle(cycle, Ahead(cycle, s, k)) = Ahead(cycle, s, k + 1)
         /\ \A t \in Range(cycle) : \E k \in 1 .. Len(cycle) :
              /\ t = Ahead(cycle, s, k)
              /\ \A j \in 1 .. Len(cycle) : t = Ahead(cycle, s, j) => j = k
         /\ Ahead(cycle, s, Len(cycle)) = s
<1> DEFINE n == Len(cycle)
<1>1. n \in Nat \ {0} /\ Ahead(cycle, s, 0) = s
  BY FirstIndexExists, AheadZero
<1>2. ASSUME NEW k \in 0 .. n - 1
      PROVE  NextInCycle(cycle, Ahead(cycle, s, k)) = Ahead(cycle, s, k + 1)
  BY <1>1, <1>2, NextIsAhead
<1>3. Ahead(cycle, s, n) = s
  <2>1. PICK k \in 1 .. n : s = Ahead(cycle, s, k)
    BY AheadCovers
  <2> QED
    BY <2>1, BackAfterLap
<1>4. ASSUME NEW i \in 1 .. n, NEW j \in 1 .. n, Ahead(cycle, s, i) = Ahead(cycle, s, j)
      PROVE  i = j
  <2>1. CASE i = n
    <3>1. Ahead(cycle, s, j) = s
      BY <1>3, <1>4, <2>1
    <3> QED
      BY <2>1, <3>1, BackAfterLap
  <2>2. CASE j = n
    <3>1. Ahead(cycle, s, i) = s
      BY <1>3, <1>4, <2>2
    <3> QED
      BY <2>2, <3>1, BackAfterLap
  <2>3. CASE i # n /\ j # n
    <3>1. i \in 0 .. n - 1 /\ j \in 0 .. n - 1
      BY <1>1, <2>3
    <3> QED
      BY <1>4, <3>1, AheadOnce
  <2> QED
    BY <2>1, <2>2, <2>3
<1>5. ASSUME NEW t \in Range(cycle)
      PROVE  \E k \in 1 .. n : /\ t = Ahead(cycle, s, k)
                               /\ \A j \in 1 .. n : t = Ahead(cycle, s, j) => j = k
  <2>1. PICK k \in 1 .. n : t = Ahead(cycle, s, k)
    BY AheadCovers
  <2> QED
    BY <1>4, <2>1
<1> QED
  BY <1>1, <1>2, <1>3, <1>5

LEMMA PlacesAdd ==
  ASSUME NEW n \in Nat \ {0}, NEW f \in 1 .. n, NEW i \in 0 .. n - 1, NEW k \in 0 .. n,
         NEW p, p = IF f - 1 + i < n THEN f - 1 + i ELSE f - 1 + i - n,
         NEW m, m = IF i + k < n THEN i + k ELSE i + k - n,
         NEW g, g = p + 1
  PROVE  (IF g - 1 + k < n THEN g - 1 + k ELSE g - 1 + k - n) =
         (IF f - 1 + m < n THEN f - 1 + m ELSE f - 1 + m - n)
OBVIOUS

\* Places add up, round the end of the lap.
LEMMA AheadAdd ==
  ASSUME NEW S, NEW cycle \in Seq(S), IsInjective(cycle), NEW s \in Range(cycle),
         NEW i \in 0 .. Len(cycle) - 1, NEW k \in 0 .. Len(cycle)
  PROVE  Ahead(cycle, Ahead(cycle, s, i), k) =
           Ahead(cycle, s, IF i + k < Len(cycle) THEN i + k ELSE i + k - Len(cycle))
<1> DEFINE n == Len(cycle)
           m == IF i + k < n THEN i + k ELSE i + k - n
           t == Ahead(cycle, s, i)
<1>1. FirstIndex(cycle, s) \in 1 .. n /\ n \in Nat \ {0}
  BY FirstIndexExists
<1>2. i \in 0 .. n /\ m \in 0 .. n
  BY <1>1
<1>3. Place(cycle, s, i) \in 0 .. n - 1 /\ t = cycle[Place(cycle, s, i) + 1] /\ t \in Range(cycle)
  BY <1>2, AheadPlace
<1>4. Place(cycle, s, i) + 1 \in 1 .. n
  BY <1>1, <1>3
<1>5. FirstIndex(cycle, t) = Place(cycle, s, i) + 1
  BY <1>3, <1>4, FirstIndexOfPlace
<1> HIDE DEF t
<1>6. Ahead(cycle, t, k) = cycle[Place(cycle, t, k) + 1]
  BY <1>3, AheadPlace
<1>7. Place(cycle, t, k) = Place(cycle, s, m)
  <2> DEFINE f == FirstIndex(cycle, s)
             g == FirstIndex(cycle, t)
             p == Place(cycle, s, i)
  <2>1. p = IF f - 1 + i < n THEN f - 1 + i ELSE f - 1 + i - n
    BY <1>1 DEF Place
  <2>2. Place(cycle, t, k) = IF g - 1 + k < n THEN g - 1 + k ELSE g - 1 + k - n
    BY <1>1, <1>3, <1>5 DEF Place
  <2>3. Place(cycle, s, m) = IF f - 1 + m < n THEN f - 1 + m ELSE f - 1 + m - n
    <3> HIDE DEF m
    <3> QED
      BY <1>1, <1>2 DEF Place
  <2>4. /\ f \in 1 .. n /\ n \in Nat \ {0} /\ g = p + 1
        /\ i \in 0 .. n - 1 /\ k \in 0 .. n
        /\ m = IF i + k < n THEN i + k ELSE i + k - n
    BY <1>1, <1>5
  <2> HIDE DEF f, g, p, m, n
  <2> QED
    BY <2>1, <2>2, <2>3, <2>4, PlacesAdd
<1> HIDE DEF m
<1>8. Ahead(cycle, s, m) = cycle[Place(cycle, s, m) + 1]
  BY <1>2, AheadPlace
<1> QED
  BY <1>6, <1>7, <1>8 DEF t, m

\* Every segment has a place within the lap.
LEMMA PlaceInLap ==
  ASSUME NEW S, NEW cycle \in Seq(S), IsInjective(cycle), NEW s \in Range(cycle), NEW t \in Range(cycle)
  PROVE  \E k \in 0 .. Len(cycle) - 1 : t = Ahead(cycle, s, k)
<1> DEFINE n == Len(cycle)
<1>1. n \in Nat \ {0}
  BY FirstIndexExists
<1>2. PICK k \in 1 .. n : t = Ahead(cycle, s, k)
  BY AheadCovers
<1>3. CASE k < n
  BY <1>1, <1>2, <1>3
<1>4. CASE k = n
  <2>1. 0 \in 0 .. n - 1 /\ n \in 0 .. n /\ ~(0 + n < n) /\ 0 + n - n = 0
    BY <1>1
  <2>2. Ahead(cycle, Ahead(cycle, s, 0), n) = Ahead(cycle, s, 0)
    BY <2>1, AheadAdd
  <2>3. Ahead(cycle, s, n) = Ahead(cycle, s, 0)
    BY <2>2, AheadZero
  <2> QED
    BY <1>2, <1>4, <2>1, <2>3
<1> QED
  BY <1>1, <1>2, <1>3, <1>4

\* A hop over segments of F, from a segment of F up to which the lap from u
\* is in F, keeps it so; a hop back to u completes it.
LEMMA HopFillsLap ==
  ASSUME NEW S, NEW cycle \in Seq(S), IsInjective(cycle), NEW u \in Range(cycle), NEW F,
         NEW k \in 0 .. Len(cycle) - 1, Ahead(cycle, u, k) \in F,
         \A j \in 0 .. k - 1 : Ahead(cycle, u, j) \in F,
         NEW t, HopsTo(cycle, Ahead(cycle, u, k), t, F)
  PROVE  /\ \E m \in 0 .. Len(cycle) - 1 :
              t = Ahead(cycle, u, m) /\ \A j \in 0 .. m - 1 : Ahead(cycle, u, j) \in F
         /\ t = u /\ Ahead(cycle, u, k) # u => Range(cycle) \subseteq F
<1> DEFINE n == Len(cycle)
           At(j) == Ahead(cycle, u, j)
<1>1. n \in Nat \ {0} /\ At(0) = u /\ k \in Nat /\ k < n
  BY FirstIndexExists, AheadZero
<1>2. PICK h \in 1 .. n : /\ t = Ahead(cycle, At(k), h)
                          /\ \A j \in 1 .. h - 1 : Ahead(cycle, At(k), j) \in F
  BY DEF HopsTo
<1>3. ASSUME NEW j \in 0 .. n
      PROVE  Ahead(cycle, At(k), j) = At(IF k + j < n THEN k + j ELSE k + j - n)
  BY <1>3, AheadAdd
<1> HIDE DEF At
<1>4. t = At(IF k + h < n THEN k + h ELSE k + h - n)
  BY <1>1, <1>2, <1>3
\* The places hopped over, by their distance from u.
<1>5. ASSUME NEW i \in 0 .. n - 1, k < i, i < k + h
      PROVE  At(i) \in F
  <2>1. i - k \in 1 .. h - 1 /\ i - k \in 0 .. n /\ k + (i - k) = i /\ i < n
    BY <1>1, <1>2, <1>5
  <2>2. Ahead(cycle, At(k), i - k) = At(i)
    BY <1>3, <2>1
  <2> QED
    BY <1>2, <2>1, <2>2
<1>6. ASSUME NEW i \in 0 .. n - 1, i + n < k + h
      PROVE  At(i) \in F
  <2>1. /\ i + n - k \in 1 .. h - 1 /\ i + n - k \in 0 .. n
        /\ ~(k + (i + n - k) < n) /\ k + (i + n - k) - n = i
    BY <1>1, <1>2, <1>6
  <2>2. Ahead(cycle, At(k), i + n - k) = At(i)
    BY <1>3, <2>1
  <2> QED
    BY <1>2, <2>1, <2>2
<1>7. \A i \in 0 .. k : At(i) \in F
  BY <1>1 DEF At
<1>8. CASE k + h < n
  <2>1. k + h \in 0 .. n - 1 /\ t = At(k + h)
    BY <1>1, <1>2, <1>4, <1>8
  <2>2. ASSUME NEW j \in 0 .. k + h - 1
        PROVE  At(j) \in F
    <3>1. j \in 0 .. n - 1 /\ (j \in 0 .. k \/ (k < j /\ j < k + h))
      BY <1>1, <1>2, <1>8, <2>2
    <3> QED
      BY <1>5, <1>7, <3>1
  <2>3. t # u
    <3> SUFFICES ASSUME t = u PROVE FALSE
      OBVIOUS
    <3>1. 0 \in 0 .. n - 1 /\ At(0) = At(k + h)
      BY <1>1, <2>1
    <3>2. k + h = 0
      BY <2>1, <3>1, AheadOnce DEF At
    <3> QED
      BY <1>1, <1>2, <3>2
  <2> QED
    BY <2>1, <2>2, <2>3 DEF At
<1>9. CASE ~(k + h < n)
  <2> DEFINE m == k + h - n
  <2>1. m \in 0 .. n - 1 /\ t = At(m)
    BY <1>1, <1>2, <1>4, <1>9
  <2>2. ASSUME NEW j \in 0 .. m - 1
        PROVE  At(j) \in F
    <3>1. j \in 0 .. n - 1 /\ j + n < k + h
      BY <1>1, <1>2, <2>1, <2>2
    <3> QED
      BY <1>6, <3>1
  <2>3. ASSUME t = u, NEW x \in Range(cycle)
        PROVE  x \in F
    <3>1. PICK i \in 0 .. n - 1 : x = At(i)
      BY PlaceInLap DEF At
    <3>2. 0 \in 0 .. n - 1 /\ At(0) = At(m)
      BY <1>1, <2>1, <2>3
    <3>3. m = 0
      <4> HIDE DEF m
      <4> QED
        BY <2>1, <3>2, AheadOnce DEF At
    <3>4. i \in 0 .. k \/ (k < i /\ i < k + h)
      BY <1>1, <1>2, <3>1, <3>3
    <3> QED
      BY <1>5, <1>7, <3>1, <3>4
  <2> HIDE DEF m
  <2> QED
    BY <2>1, <2>2, <2>3 DEF At
<1> QED
  BY <1>8, <1>9

-----------------------------------------------------------------------------
(* From here on the constants are what RebootCycle assumes.                *)

USE NameAssumption, MissingAssumption, ConfigAssumption, RunAssumption

-----------------------------------------------------------------------------
(* Types.                                                                  *)

\* Detection only ever names a declared segment or the update segment.
LEMMA DetectableIsName ==
  ASSUME NEW c \in Config
  PROVE  Detectable(c) \subseteq Range(Declared[c]) \cup {UpdateSegment} /\ Detectable(c) \subseteq Name
<1>1. Declared[c] \in Seq(Name)
  OBVIOUS
<1>2. \A i \in DOMAIN Declared[c] : Declared[c][i] \in Name /\ Declared[c][i] \in Range(Declared[c])
  BY <1>1 DEF Range
<1> QED
  BY <1>2 DEF Detectable

\* The candidate of a search is a segment name and again in the cycle.
LEMMA CandidateInCycle ==
  ASSUME active \in Active, HasSuccessor
  PROVE  Candidate \in Range(active.cycle) /\ Candidate \in Name
<1>1. active.cycle \in Seq(Name)
  BY DEF Active
<1> QED
  BY <1>1, NextInCycleInRange DEF Candidate, HasSuccessor

\* The two fields run() and the operator write keep active.yaml well-formed.
LEMMA ActiveUpdated ==
  ASSUME NEW a \in Active
  PROVE  /\ \A s \in Name : [a EXCEPT !.segment = s] \in Active
         /\ \A s \in Name \cup {NoSegment} : [a EXCEPT !.stopOn = s] \in Active
BY DEF Active

LEMMA TypeInvInit == Init => TypeInv
BY DEF Init, TypeInv, TypeOK, MemoryOK, PC, Active, Outcome

LEMMA TypeInvPrepare ==
  ASSUME TypeInv, Prepare
  PROVE  TypeInv'
<1> USE DEF TypeInv, TypeOK, MemoryOK, PC, Outcome, disk, machine, memory, world, history
<1>1. CASE LoadActive
  BY <1>1 DEF LoadActive
<1>2. CASE SyncSucceeds
  BY <1>2 DEF SyncSucceeds
<1>3. CASE SyncFails
  BY <1>3 DEF SyncFails
<1>4. CASE LoadConfig
  BY <1>4 DEF LoadConfig
<1>5. CASE ConfigRejected
  BY <1>5 DEF ConfigRejected
<1>6. CASE SeedActive
  BY <1>6, DetectableIsName DEF SeedActive, Active, Range
<1> QED
  BY <1>1, <1>2, <1>3, <1>4, <1>5, <1>6 DEF Prepare

LEMMA TypeInvTest ==
  ASSUME TypeInv, Test
  PROVE  TypeInv'
<1> USE DEF TypeInv, TypeOK, MemoryOK, PC, Outcome, disk, machine, memory, world, history
<1>1. CASE ActiveUndeclared
  BY <1>1 DEF ActiveUndeclared
<1>2. CASE Check
  BY <1>2 DEF Check, Active, Carries
<1>3. CASE ReportSucceeds
  BY <1>3 DEF ReportSucceeds
<1>4. CASE ReportFails
  BY <1>4 DEF ReportFails
<1>5. CASE ParkHere
  BY <1>5 DEF ParkHere
<1>6. CASE GoOn
  BY <1>6 DEF GoOn, Active
<1> QED
  BY <1>1, <1>2, <1>3, <1>4, <1>5, <1>6 DEF Test

LEMMA TypeInvAdvance ==
  ASSUME TypeInv, Advance
  PROVE  TypeInv'
<1> USE DEF TypeInv, TypeOK, MemoryOK, PC, Outcome, disk, machine, memory, world, history
<1>1. CASE NextPanics
  BY <1>1 DEF NextPanics
<1>2. CASE CandidateUndeclared
  BY <1>2 DEF CandidateUndeclared
<1>3. CASE TakeCandidate
  <2>1. Candidate \in Name
    BY <1>3, CandidateInCycle DEF TakeCandidate, MaySearch
  <2> QED
    BY <1>3, <2>1 DEF TakeCandidate, MaySearch
<1>4. CASE SkipCandidate
  <2>1. Candidate \in Name
    BY <1>4, CandidateInCycle DEF SkipCandidate, MaySearch
  <2>2. TypeOK'
    <3>1. results' \in [Name -> Outcome] /\ fresh' \subseteq Name
      BY <1>4, <2>1 DEF SkipCandidate
    <3>2. tries' \in Nat /\ next' \in Name \cup {NoSegment}
      BY <1>4, <2>1 DEF SkipCandidate
    <3> QED
      BY <1>4, <3>1, <3>2 DEF SkipCandidate
  <2>3. MemoryOK'
    BY <1>4, <2>1 DEF SkipCandidate, MaySearch
  <2> QED
    BY <2>2, <2>3
<1>5. CASE NoneResolvable
  BY <1>5 DEF NoneResolvable
<1>6. CASE WriteNetplan
  BY <1>6 DEF WriteNetplan
<1>7. CASE AdvanceActive
  <2>1. activeYaml' \in Active
    BY <1>7, ActiveUpdated DEF AdvanceActive
  <2>2. TypeOK'
    BY <1>7, <2>1 DEF AdvanceActive
  <2>3. MemoryOK'
    BY <1>7 DEF AdvanceActive
  <2> QED
    BY <2>2, <2>3
<1> QED
  BY <1>1, <1>2, <1>3, <1>4, <1>5, <1>6, <1>7 DEF Advance

LEMMA TypeInvEnvironment ==
  ASSUME TypeInv,
         \/ UpdateHangs \/ IoFails
         \/ Reboot \/ Crash \/ OperatorReboot \/ EditStopOn \/ WipeState \/ Commit
  PROVE  TypeInv'
<1> USE DEF TypeInv, TypeOK, MemoryOK, PC, Outcome, disk, machine, memory, world, history
<1>1. CASE UpdateHangs \/ IoFails
  <2>2. CASE UpdateHangs
    BY <2>2 DEF UpdateHangs
  <2>3. CASE IoFails
    BY <2>3 DEF IoFails
  <2> QED
    BY <1>1, <2>2, <2>3
<1>2. CASE Reboot \/ OperatorReboot \/ Crash
  <2>1. Boot /\ crashes' \in 0 .. MaxCrashes
    BY <1>2 DEF Reboot, OperatorReboot, Crash
  <2>2. pc' = "load"
    BY <2>1 DEF Boot
  <2>3. TypeOK'
    BY <2>1 DEF Boot
  <2>4. MemoryOK'
    BY <2>2
  <2> QED
    BY <2>3, <2>4
<1>4. CASE EditStopOn
  <2>1. activeYaml' \in Active /\ wanted' \in Name \cup {NoSegment}
    BY <1>4, ActiveUpdated DEF EditStopOn
  <2> QED
    BY <1>4, <2>1 DEF EditStopOn
<1>5. CASE WipeState
  BY <1>5 DEF WipeState
<1>6. CASE Commit
  BY <1>6 DEF Commit
<1> QED
  BY <1>1, <1>2, <1>4, <1>5, <1>6

LEMMA TypeInvStutter ==
  ASSUME TypeInv, UNCHANGED vars
  PROVE  TypeInv'
BY DEF TypeInv, TypeOK, MemoryOK, vars, disk, machine, memory, world, history

LEMMA TypeInvHolds == Spec => []TypeInv
<1>1. TypeInv /\ [Next]_vars => TypeInv'
  BY TypeInvPrepare, TypeInvTest, TypeInvAdvance, TypeInvEnvironment, TypeInvStutter
     DEF Next, Step
<1> QED
  BY <1>1, TypeInvInit, PTL DEF Spec

\* Every variable keeps its type and every run has loaded what it uses:
\* run() never checks, searches or saves with an Active or a Config it has
\* not read.
THEOREM TypeCorrect == Spec => [](TypeOK /\ MemoryOK)
<1>1. TypeInv => TypeOK /\ MemoryOK
  BY DEF TypeInv
<1> QED
  BY <1>1, TypeInvHolds, PTL

-----------------------------------------------------------------------------
(* state.Active.Next never panics.                                         *)

LEMMA ActiveInCyclePrepare ==
  ASSUME UpdateAlwaysDeclared, TypeInv, ActiveInCycle, Prepare
  PROVE  ActiveInCycle'
<1> USE DEF TypeInv, TypeOK, ActiveInCycle, Seeded, PC, disk, machine, memory, world, history
<1>1. CASE LoadActive
  BY <1>1 DEF LoadActive
<1>2. CASE SyncSucceeds \/ SyncFails
  <2>1. /\ UNCHANGED <<activeYaml, active, next>>
        /\ pc' = pc \/ pc' = "config"
    BY <1>2 DEF SyncSucceeds, SyncFails
  <2> QED
    BY <2>1
<1>3. CASE LoadConfig
  BY <1>3 DEF LoadConfig
<1>4. CASE ConfigRejected
  BY <1>4 DEF ConfigRejected
<1>5. CASE SeedActive
  <2>1. cfg \in Loadable
    BY <1>5 DEF SeedActive, MemoryOK
  <2>2. PICK s \in Detectable(cfg) :
          LET first == [segment |-> s, cycle |-> Declared[cfg], stopOn |-> NoSegment]
          IN  activeYaml' = first /\ active' = first
    BY <1>5 DEF SeedActive
  <2>3. s \in Range(Declared[cfg])
    BY <2>1, <2>2, DetectableIsName DEF UpdateAlwaysDeclared
  <2>4. pc' = "check" /\ next' = next
    BY <1>5 DEF SeedActive
  <2> QED
    BY <2>2, <2>3, <2>4
<1> QED
  BY <1>1, <1>2, <1>3, <1>4, <1>5 DEF Prepare

LEMMA ActiveInCycleTest ==
  ASSUME TypeInv, ActiveInCycle, Test
  PROVE  ActiveInCycle'
<1> USE DEF TypeInv, TypeOK, ActiveInCycle, Seeded, PC, disk, machine, memory, world, history
<1>1. CASE ActiveUndeclared \/ ParkHere
  <2>1. /\ UNCHANGED <<activeYaml, active, next>>
        /\ pc' = pc \/ pc' \in {"halted", "parked"}
    BY <1>1 DEF ActiveUndeclared, ParkHere
  <2> QED
    BY <2>1
<1>2. CASE Check \/ ReportSucceeds \/ ReportFails
  <2>1. /\ UNCHANGED <<activeYaml, active, next>>
        /\ pc' = pc \/ pc' \in {"report", "park"}
    BY <1>2 DEF Check, ReportSucceeds, ReportFails
  <2> QED
    BY <2>1
<1>3. CASE GoOn
  <2>1. active # Missing
    BY <1>3 DEF GoOn, MemoryOK
  <2> QED
    BY <1>3, <2>1 DEF GoOn
<1> QED
  BY <1>1, <1>2, <1>3 DEF Test

LEMMA ActiveInCycleAdvance ==
  ASSUME TypeInv, ActiveInCycle, Advance
  PROVE  ActiveInCycle'
<1> USE DEF TypeInv, TypeOK, ActiveInCycle, Seeded, PC, disk, machine, memory, world, history
<1>1. CASE NextPanics \/ CandidateUndeclared \/ NoneResolvable
  <2>1. /\ UNCHANGED <<activeYaml, active, next>>
        /\ pc' = pc \/ pc' \in {"halted"}
    BY <1>1 DEF NextPanics, CandidateUndeclared, NoneResolvable
  <2> QED
    BY <2>1
<1>2. CASE TakeCandidate
  <2>1. Candidate \in Range(active.cycle)
    BY <1>2, CandidateInCycle DEF TakeCandidate, MaySearch, MemoryOK
  <2> QED
    BY <1>2, <2>1 DEF TakeCandidate
<1>3. CASE SkipCandidate
  <2>1. Candidate \in Range(active.cycle)
    BY <1>3, CandidateInCycle DEF SkipCandidate, MaySearch, MemoryOK
  <2> QED
    BY <1>3, <2>1 DEF SkipCandidate
<1>4. CASE WriteNetplan
  BY <1>4 DEF WriteNetplan
<1>5. CASE AdvanceActive
  <2>1. active \in Active /\ next \in Range(active.cycle)
    BY <1>5 DEF AdvanceActive, MemoryOK
  <2>2. activeYaml'.segment = next /\ activeYaml'.cycle = active.cycle
    BY <1>5, <2>1 DEF AdvanceActive, Active
  <2> QED
    BY <1>5, <2>1, <2>2 DEF AdvanceActive
<1> QED
  BY <1>1, <1>2, <1>3, <1>4, <1>5 DEF Advance

LEMMA ActiveInCycleEnvironment ==
  ASSUME TypeInv, ActiveInCycle,
         \/ UpdateHangs \/ IoFails
         \/ Reboot \/ Crash \/ OperatorReboot \/ EditStopOn \/ WipeState \/ Commit
  PROVE  ActiveInCycle'
<1> USE DEF TypeInv, TypeOK, ActiveInCycle, Seeded, PC, disk, machine, memory, world, history
<1>1. CASE UpdateHangs \/ IoFails
  <2>1. /\ UNCHANGED <<activeYaml, active, next>>
        /\ pc' = pc \/ pc' \in {"hung", "halted"}
    BY <1>1 DEF UpdateHangs, IoFails
  <2> QED
    BY <2>1
<1>2. CASE Reboot \/ OperatorReboot \/ Crash
  <2>1. Boot
    BY <1>2 DEF Reboot, OperatorReboot, Crash
  <2> QED
    BY <2>1 DEF Boot
<1>3. CASE EditStopOn
  <2>1. /\ activeYaml # Missing
        /\ activeYaml'.segment = activeYaml.segment
        /\ activeYaml'.cycle = activeYaml.cycle
    BY <1>3 DEF EditStopOn, Active
  <2> QED
    BY <1>3, <2>1 DEF EditStopOn
<1>4. CASE WipeState
  BY <1>4 DEF WipeState
<1>5. CASE Commit
  BY <1>5 DEF Commit
<1> QED
  BY <1>1, <1>2, <1>3, <1>4, <1>5

\* state.Active.Next, which panics on a segment outside its cycle, never gets
\* one -- for any cycle, and every crash, hang, wipe and detection fallback --
\* unless a commit drops the update segment.
THEOREM NextNeverPanics ==
  ASSUME UpdateAlwaysDeclared
  PROVE  Spec => []ActiveInCycle
<1>1. Init => ActiveInCycle
  BY DEF Init, ActiveInCycle, Seeded
<1>2. TypeInv /\ ActiveInCycle /\ [Next]_vars => ActiveInCycle'
  <2>1. ASSUME ActiveInCycle, UNCHANGED vars
        PROVE  ActiveInCycle'
    BY <2>1 DEF ActiveInCycle, Seeded, vars, disk, memory
  <2> QED
    BY <2>1, ActiveInCyclePrepare, ActiveInCycleTest, ActiveInCycleAdvance, ActiveInCycleEnvironment
       DEF Next, Step
<1> QED
  BY <1>1, <1>2, TypeInvHolds, PTL DEF Spec

-----------------------------------------------------------------------------
(* The operator's stopOn.                                                  *)

LEMMA StopOnStep ==
  ASSUME OperatorWaits, TypeInv, StopOnKept, MemoryIsFile, Next
  PROVE  StopOnKept' /\ MemoryIsFile'
<1> USE DEF TypeInv, TypeOK, StopOnKept, MemoryIsFile, Seeded, PC,
            disk, machine, memory, world, history
<1>1. CASE LoadActive
  BY <1>1 DEF LoadActive
<1>2. CASE SeedActive
  <2>1. /\ activeYaml' = active' /\ pc' = "check"
        /\ activeYaml'.stopOn = NoSegment /\ wanted' = NoSegment
    BY <1>2 DEF SeedActive
  <2> QED
    BY <2>1
<1>3. CASE AdvanceActive
  <2>1. activeYaml # Missing /\ activeYaml'.stopOn = activeYaml.stopOn /\ wanted' = wanted
    BY <1>3 DEF AdvanceActive, MemoryOK, Active
  <2>2. pc' = "delay"
    BY <1>3 DEF AdvanceActive
  <2> QED
    BY <2>1, <2>2
<1>4. CASE EditStopOn
  <2>1. /\ activeYaml'.stopOn = wanted'
        /\ pc' = pc /\ pc \in {"delay", "parked", "halted"}
    BY <1>4 DEF EditStopOn, OperatorWaits, Active
  <2> QED
    BY <2>1
<1>5. CASE WipeState
  <2>1. activeYaml' = Missing /\ pc' = pc /\ pc \in {"delay", "parked", "halted"}
    BY <1>5 DEF WipeState, OperatorWaits
  <2> QED
    BY <2>1
<1>6. CASE Reboot \/ Crash \/ OperatorReboot
  <2>1. UNCHANGED <<activeYaml, wanted>> /\ pc' = "load"
    BY <1>6 DEF Reboot, Crash, OperatorReboot, Boot
  <2> QED
    BY <2>1
<1>7. CASE \/ SyncSucceeds \/ SyncFails \/ LoadConfig
           \/ ConfigRejected
  BY <1>7 DEF SyncSucceeds, SyncFails, LoadConfig, ConfigRejected
<1>8. CASE Test
  BY <1>8 DEF Test, ActiveUndeclared, Check, ReportSucceeds, ReportFails, ParkHere, GoOn
<1>9. CASE \/ NextPanics \/ CandidateUndeclared \/ TakeCandidate
           \/ SkipCandidate \/ NoneResolvable \/ WriteNetplan
  BY <1>9 DEF NextPanics, CandidateUndeclared, TakeCandidate, SkipCandidate, NoneResolvable,
              WriteNetplan, MaySearch
<1>10. CASE UpdateHangs \/ IoFails \/ Commit
  BY <1>10 DEF UpdateHangs, IoFails, Commit
<1> QED
  BY <1>1, <1>2, <1>3, <1>4, <1>5, <1>6, <1>7, <1>8, <1>9, <1>10
     DEF Next, Step, Prepare, Advance

LEMMA StopOnInvHolds ==
  ASSUME OperatorWaits
  PROVE  Spec => [](StopOnKept /\ MemoryIsFile)
<1>1. Init => StopOnKept /\ MemoryIsFile
  BY DEF Init, StopOnKept, MemoryIsFile, Seeded
<1>2. TypeInv /\ StopOnKept /\ MemoryIsFile /\ [Next]_vars => (StopOnKept /\ MemoryIsFile)'
  <2>1. ASSUME StopOnKept, MemoryIsFile, UNCHANGED vars
        PROVE  StopOnKept' /\ MemoryIsFile'
    BY <2>1 DEF StopOnKept, MemoryIsFile, Seeded, vars, disk, memory, history
  <2> QED
    BY <2>1, StopOnStep
<1> QED
  BY <1>1, <1>2, TypeInvHolds, PTL DEF Spec

\* No write of run() undoes an edit of stopOn, if the edit does not come
\* between the load and the save of a run.
THEOREM StopOnSurvives ==
  ASSUME OperatorWaits
  PROVE  Spec => []StopOnKept
BY StopOnInvHolds, PTL

-----------------------------------------------------------------------------
(* A bad commit.                                                           *)

LEMMA SyncInvInit == Init => SyncInv
BY DEF Init, SyncInv, BadCommitRecoverable, Seeded, Carries

LEMMA SyncInvPrepare ==
  ASSUME TypeInv, SyncInv, Prepare
  PROVE  SyncInv'
<1> USE DEF TypeInv, TypeOK, SyncInv, BadCommitRecoverable, Seeded, PC,
            disk, machine, memory, world, history
<1>1. CASE LoadActive
  BY <1>1 DEF LoadActive
<1>2. CASE SyncSucceeds
  BY <1>2 DEF SyncSucceeds, Online
<1>3. CASE SyncFails
  BY <1>3 DEF SyncFails
<1>4. CASE LoadConfig
  BY <1>4 DEF LoadConfig
<1>5. CASE ConfigRejected
  BY <1>5 DEF ConfigRejected
<1>6. CASE SeedActive
  BY <1>6 DEF SeedActive
<1> QED
  BY <1>1, <1>2, <1>3, <1>4, <1>5, <1>6 DEF Prepare

LEMMA SyncInvTest ==
  ASSUME TypeInv, SyncInv, Test
  PROVE  SyncInv'
<1>1. /\ UNCHANGED <<activeYaml, configYaml, netplan, live>>
      /\ pc \in {"check", "report", "park"}
      /\ pc' \in {"report", "park", "advance", "halted", "parked"}
  BY DEF Test, ActiveUndeclared, Check, ReportSucceeds, ReportFails, ParkHere, GoOn,
         TypeInv, TypeOK, disk, machine, memory, world, history
<1> QED
  BY <1>1 DEF SyncInv, BadCommitRecoverable, Seeded

LEMMA SyncInvAdvance ==
  ASSUME TypeInv, SyncInv, Advance
  PROVE  SyncInv'
<1> USE DEF TypeInv, TypeOK, SyncInv, BadCommitRecoverable, Seeded, PC,
            disk, machine, memory, world, history
<1>1. CASE \/ NextPanics \/ CandidateUndeclared \/ NoneResolvable
           \/ TakeCandidate \/ SkipCandidate
  <2>1. /\ UNCHANGED <<activeYaml, configYaml, netplan, live>>
        /\ pc = "advance" /\ pc' \in {"advance", "write", "halted"}
    BY <1>1 DEF NextPanics, CandidateUndeclared, NoneResolvable, TakeCandidate, SkipCandidate, MaySearch
  <2> QED
    BY <2>1
<1>2. CASE WriteNetplan
  BY <1>2 DEF WriteNetplan
<1>3. CASE AdvanceActive
  BY <1>3 DEF AdvanceActive
<1> QED
  BY <1>1, <1>2, <1>3 DEF Advance

LEMMA SyncInvEnvironment ==
  ASSUME TypeInv, SyncInv,
         \/ UpdateHangs \/ IoFails
         \/ Reboot \/ Crash \/ OperatorReboot \/ EditStopOn \/ WipeState \/ Commit
  PROVE  SyncInv'
<1> USE DEF TypeInv, TypeOK, SyncInv, BadCommitRecoverable, Seeded, PC,
            disk, machine, memory, world, history
<1>1. CASE UpdateHangs \/ IoFails
  BY <1>1 DEF UpdateHangs, IoFails
<1>2. CASE Reboot \/ Crash \/ OperatorReboot
  <2>1. /\ UNCHANGED <<activeYaml, configYaml, netplan>>
        /\ live' = netplan /\ pc' = "load"
    BY <1>2 DEF Reboot, Crash, OperatorReboot, Boot
  <2> QED
    BY <2>1
<1>3. CASE EditStopOn
  <2>1. /\ activeYaml # Missing /\ activeYaml'.segment = activeYaml.segment
        /\ UNCHANGED <<configYaml, netplan, live, pc>>
    BY <1>3 DEF EditStopOn, Active
  <2> QED
    BY <2>1
<1>4. CASE WipeState
  BY <1>4 DEF WipeState
<1>5. CASE Commit
  BY <1>5 DEF Commit
<1> QED
  BY <1>1, <1>2, <1>3, <1>4, <1>5

LEMMA SyncInvHolds == Spec => []SyncInv
<1>1. TypeInv /\ SyncInv /\ [Next]_vars => SyncInv'
  <2>1. ASSUME SyncInv, UNCHANGED vars
        PROVE  SyncInv'
    BY <2>1 DEF SyncInv, BadCommitRecoverable, Seeded, vars, disk, machine
  <2> QED
    BY <2>1, SyncInvPrepare, SyncInvTest, SyncInvAdvance, SyncInvEnvironment
       DEF Next, Step
<1> QED
  BY <1>1, SyncInvInit, TypeInvHolds, PTL DEF Spec

\* Whatever the config repo holds, and whenever power is lost, the state
\* directory wiped or a write fails: a box whose config.yaml is invalid boots
\* on the update segment and syncs before it loads, so a later commit reaches
\* it.
THEOREM BadCommitsRecoverable == Spec => []BadCommitRecoverable
<1>1. SyncInv => BadCommitRecoverable
  BY DEF SyncInv
<1> QED
  BY <1>1, SyncInvHolds, PTL
=============================================================================
