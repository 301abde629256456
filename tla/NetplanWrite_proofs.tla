------------------------- MODULE NetplanWrite_proofs -------------------------
(***************************************************************************)
(* Theorems about NetplanWrite, for any number of writers, renders and     *)
(* inodes, any crashes and any failing calls.                              *)
(***************************************************************************)
EXTENDS NetplanWrite, TLAPS

\* The directory entries are what their names say: four kinds, and one file
\* and one temporary file for each segment.
LEMMA EntriesDiffer ==
  /\ Path # LinkTmp
  /\ \A s : /\ SegFile(s) # Path /\ SegFile(s) # LinkTmp
            /\ SegTmp(s) # Path /\ SegTmp(s) # LinkTmp
  /\ \A s, t : /\ SegFile(s) # SegTmp(t)
               /\ SegFile(s) = SegFile(t) => s = t
               /\ SegTmp(s) = SegTmp(t) => s = t
BY DEF Path, LinkTmp, SegFile, SegTmp

LEMMA EntriesThere ==
  /\ Path \in Entry /\ LinkTmp \in Entry
  /\ \A s \in Segment : SegFile(s) \in Entry /\ SegTmp(s) \in Entry
BY DEF Entry

LEMMA CallsHaveEntries ==
  ASSUME TypeOK, NEW w \in Writer, pc[w] # "idle"
  PROVE  /\ call[w] \in Render /\ call[w].segment \in Segment
         /\ Own(w) \in Entry /\ Tmp(w) \in Entry
<1>1. call[w] \in Render
  BY DEF TypeOK
<1>2. call[w].segment \in Segment
  BY <1>1 DEF Segment
<1> QED
  BY <1>1, <1>2, EntriesThere DEF Own, Tmp

LEMMA RenamedType ==
  ASSUME TypeOK, NEW from \in Entry, NEW to \in Entry
  PROVE  /\ Renamed(from, to) \in [Entry -> Inode \cup {Nothing}]
         /\ \A e \in Entry \ {from, to} : Renamed(from, to)[e] = dir[e]
         /\ Renamed(from, to)[to] = dir[from]
         /\ Renamed(from, to)[from] \in {Nothing, dir[from]}
         /\ Renamed(from, to)[from] # Nothing => dir[from] = dir[to]
BY DEF Renamed, TypeOK

LEMMA RelinkType ==
  ASSUME TypeOK, NEW d \in [Entry -> Inode \cup {Nothing}], Relink(d)
  PROVE  /\ dir' = d
         /\ content' \in [Inode -> Render \cup {Partial, Nothing}]
         /\ \A e \in Entry : d[e] # Nothing => content'[d[e]] = content[d[e]]
<1>1. dir' = d
  BY DEF Relink
<1>2. content' = [i \in Inode |->
         IF (\E e \in Entry : i = d[e]) \/ (\E w \in Writer : i = fd[w])
         THEN content[i] ELSE Nothing]
  BY DEF Relink
<1>3. content' \in [Inode -> Render \cup {Partial, Nothing}]
  BY <1>2 DEF TypeOK
<1>4. ASSUME NEW e \in Entry, d[e] # Nothing
      PROVE  content'[d[e]] = content[d[e]]
  BY <1>2, <1>4
<1> QED
  BY <1>1, <1>3, <1>4

-----------------------------------------------------------------------------
(* Types.                                                                  *)

LEMMA TypeOKStep ==
  ASSUME TypeOK, Next
  PROVE  TypeOK'
<1> SUFFICES ASSUME NEW w \in Writer, Step(w) \/ Crash
             PROVE  TypeOK'
  <2>1. CASE Writer = {}
    BY <2>1 DEF Next, Crash, TypeOK, PC
  <2> QED
    BY <2>1 DEF Next
<1>1. CASE Call(w)
  BY <1>1 DEF Call, Meets, Goto, TypeOK, PC
<1>2. CASE OpenTmp(w)
  <2>1. PICK i \in Opened(SegTmp(call[w].segment)) :
          /\ dir' = [dir EXCEPT ![SegTmp(call[w].segment)] = i]
          /\ content' = [content EXCEPT ![i] = Partial]
          /\ fd' = [fd EXCEPT ![w] = i]
    BY <1>2 DEF OpenTmp
  <2>2. Tmp(w) \in Entry
    BY <1>2, CallsHaveEntries DEF OpenTmp
  <2>3. i \in Inode
    BY <2>2 DEF Opened, Free, TypeOK, Tmp
  <2> QED
    BY <1>2, <2>1, <2>3 DEF OpenTmp, Goto, TypeOK, PC
<1>3. CASE WriteTmp(w)
  <2>1. call[w] \in Render
    BY <1>3, CallsHaveEntries DEF WriteTmp
  <2> QED
    BY <1>3, <2>1 DEF WriteTmp, Goto, TypeOK, PC
<1>4. CASE RenameTmp(w) \/ RemoveStaleLink(w) \/ RenameLink(w)
  <2>1. PICK d \in [Entry -> Inode \cup {Nothing}] : Relink(d)
    <3>1. Own(w) \in Entry /\ Tmp(w) \in Entry
      BY <1>4, CallsHaveEntries DEF RenameTmp, RemoveStaleLink, RenameLink
    <3>2. CASE RenameTmp(w)
      BY <3>1, <3>2, RenamedType DEF RenameTmp, Own, Tmp
    <3>3. CASE RemoveStaleLink(w)
      <4>1. [dir EXCEPT ![LinkTmp] = Nothing] \in [Entry -> Inode \cup {Nothing}]
        BY DEF TypeOK
      <4> QED
        BY <3>3, <4>1 DEF RemoveStaleLink
    <3>4. CASE RenameLink(w)
      BY <3>4, EntriesThere, RenamedType DEF RenameLink
    <3> QED
      BY <1>4, <3>2, <3>3, <3>4
  <2>2. /\ dir' \in [Entry -> Inode \cup {Nothing}]
        /\ content' \in [Inode -> Render \cup {Partial, Nothing}]
    BY <2>1, RelinkType
  <2>3. UNCHANGED <<call, fd, overlap>> /\ pc[w] # "idle"
    BY <1>4 DEF RenameTmp, RemoveStaleLink, RenameLink
  <2>4. PICK l \in {"unlink", "link", "written"} : pc' = [pc EXCEPT ![w] = l]
    BY <1>4 DEF RenameTmp, RemoveStaleLink, RenameLink, Goto
  <2>5. pc' \in [Writer -> PC]
    BY <2>4 DEF TypeOK, PC
  <2>6. \A o \in Writer : (pc'[o] # "idle" => pc[o] # "idle") /\ (pc'[o] = "write" => pc[o] = "write")
    BY <2>3, <2>4 DEF TypeOK
  <2> QED
    BY <2>2, <2>3, <2>5, <2>6 DEF TypeOK
<1>5. CASE Link(w)
  <2>1. Own(w) \in Entry
    BY <1>5, CallsHaveEntries DEF Link
  <2> QED
    BY <1>5, <2>1 DEF Link, Goto, TypeOK, PC, Own
<1>6. CASE CallFails(w)
  BY <1>6 DEF CallFails, Goto, TypeOK, PC
<1>7. CASE Leave(w)
  BY <1>7 DEF Leave, Goto, TypeOK, PC
<1>8. CASE Crash
  BY <1>8 DEF Crash, TypeOK, PC
<1> QED
  BY <1>1, <1>2, <1>3, <1>4, <1>5, <1>6, <1>7, <1>8 DEF Step

\* Every variable keeps its type; a writer that writes has a file open.
THEOREM NetplanTypeCorrect == Spec => []TypeOK
<1>1. Init => TypeOK
  BY DEF Init, TypeOK, PC
<1>2. TypeOK /\ UNCHANGED vars => TypeOK'
  BY DEF TypeOK, vars
<1> QED
  BY <1>1, <1>2, TypeOKStep, PTL DEF Spec

-----------------------------------------------------------------------------
(* The installed file is always there, whoever writes what.                *)

LEMMA PathStaysStep ==
  ASSUME TypeOK, PathStays, Next
  PROVE  PathStays'
<1> USE DEF PathStays
<1>1. CASE Crash
  BY <1>1 DEF Crash
<1> SUFFICES ASSUME NEW w \in Writer, Step(w)
             PROVE  PathStays'
  BY <1>1 DEF Next
<1>2. CASE Call(w) \/ WriteTmp(w) \/ CallFails(w) \/ Leave(w)
  BY <1>2 DEF Call, WriteTmp, CallFails, Leave
<1>3. CASE OpenTmp(w)
  BY <1>3, CallsHaveEntries, EntriesThere, EntriesDiffer DEF OpenTmp, TypeOK, Tmp
<1>4. CASE RenameTmp(w)
  <2>1. /\ Own(w) \in Entry /\ Tmp(w) \in Entry
        /\ Relink(Renamed(Tmp(w), Own(w)))
    BY <1>4, CallsHaveEntries DEF RenameTmp, Own, Tmp
  <2>2. Path \in Entry \ {Tmp(w), Own(w)}
    BY EntriesThere, EntriesDiffer DEF Own, Tmp
  <2>3. /\ Renamed(Tmp(w), Own(w)) \in [Entry -> Inode \cup {Nothing}]
        /\ Renamed(Tmp(w), Own(w))[Path] = dir[Path]
    BY <2>1, <2>2, RenamedType
  <2>4. dir' = Renamed(Tmp(w), Own(w))
    BY <2>1, <2>3, RelinkType
  <2> QED
    BY <2>3, <2>4
<1>5. CASE RemoveStaleLink(w)
  BY <1>5, EntriesThere, EntriesDiffer DEF RemoveStaleLink, Relink, TypeOK
<1>6. CASE Link(w)
  BY <1>6, EntriesThere, EntriesDiffer DEF Link, TypeOK
<1>7. CASE RenameLink(w)
  <2>1. Relink(Renamed(LinkTmp, Path)) /\ dir[LinkTmp] # Nothing
    BY <1>7 DEF RenameLink
  <2> QED
    BY <2>1, EntriesThere, RenamedType, RelinkType
<1> QED
  BY <1>2, <1>3, <1>4, <1>5, <1>6, <1>7 DEF Step

-----------------------------------------------------------------------------
(* One lemma for each step of Write, for writers of different segments.    *)

\* What a reader gets after a Relink.
LEMMA RelinkReads ==
  ASSUME TypeOK, NEW d \in [Entry -> Inode \cup {Nothing}], Relink(d)
  PROVE  \A e \in Entry : /\ dir'[e] = d[e]
                          /\ Reads(e)' = (IF d[e] = Nothing THEN Nothing ELSE content[d[e]])
                          /\ d[e] # Nothing => content'[d[e]] = content[d[e]]
BY RelinkType DEF Reads

\* A step of w that leaves every other writer's render where it was.
LEMMA OthersProgress ==
  ASSUME TypeOK, Apart, ProgressInv, NEW w \in Writer, pc[w] # "idle",
         call' = call,
         \A o \in Writer \ {w} : pc'[o] = pc[o] /\ fd'[o] = fd[o],
         \A e \in Entry \ {LinkTmp, Path, Own(w), Tmp(w)} :
           dir'[e] = dir[e] /\ Reads(e)' = Reads(e),
         /\ pc'[w] = "write" => fd'[w] = dir'[Tmp(w)]
         /\ pc'[w] = "rename" => Reads(Tmp(w))' = call[w]
         /\ pc'[w] \in {"unlink", "link", "install", "written"} => Reads(Own(w))' = call[w]
  PROVE  ProgressInv'
<1>1. ASSUME NEW o \in Writer \ {w}, pc[o] # "idle"
      PROVE  {Tmp(o), Own(o)} \subseteq Entry \ {LinkTmp, Path, Own(w), Tmp(w)}
  BY <1>1, CallsHaveEntries, EntriesDiffer DEF Own, Tmp, Apart, Active
<1>2. ASSUME NEW o \in Writer \ {w}, pc[o] # "idle"
      PROVE  /\ Tmp(o)' = Tmp(o) /\ Own(o)' = Own(o)
             /\ dir'[Tmp(o)] = dir[Tmp(o)]
             /\ Reads(Tmp(o))' = Reads(Tmp(o)) /\ Reads(Own(o))' = Reads(Own(o))
  BY <1>1, <1>2 DEF Own, Tmp
<1> QED
  BY <1>1, <1>2 DEF ProgressInv, Own, Tmp

LEMMA OpenTmpStep ==
  ASSUME TypeOK, DisjointInv, NEW w \in Writer, OpenTmp(w)
  PROVE  DisjointInv' /\ Reads(Path)' = Reads(Path) /\ Reads(LinkTmp)' = Reads(LinkTmp)
<1> DEFINE t == Tmp(w)
<1>1. /\ pc[w] = "open" /\ t \in Entry /\ Own(w) \in Entry /\ t # Own(w)
      /\ pc' = [pc EXCEPT ![w] = "write"]
      /\ call' = call /\ overlap' = overlap
  BY CallsHaveEntries, EntriesDiffer DEF OpenTmp, Goto, Own, Tmp
<1>2. PICK i \in Opened(t) :
        /\ dir' = [dir EXCEPT ![t] = i]
        /\ content' = [content EXCEPT ![i] = Partial]
        /\ fd' = [fd EXCEPT ![w] = i]
  BY DEF OpenTmp, Tmp
<1>4. i \in Inode
  BY <1>1 DEF Opened, Free, TypeOK
<1>3. ASSUME NEW e \in Entry \ {t}, dir[e] = i
      PROVE  FALSE
  <2>1. dir[e] # Nothing /\ content[dir[e]] # Nothing
    BY <1>3, <1>4, CallAssumption DEF DisjointInv, LinksInv
  <2>2. dir[t] # Nothing /\ i = dir[t]
    BY <1>3, <2>1 DEF Opened, Free
  <2> QED
    BY <1>1, <1>3, <2>2, CallsHaveEntries DEF DisjointInv, LinksInv, Tmp
<1>5. /\ dir'[t] = i /\ content'[i] = Partial /\ fd'[w] = i
      /\ \A e \in Entry \ {t} : /\ dir'[e] = dir[e]
                                /\ Reads(e)' = Reads(e)
                                /\ dir[e] # Nothing => content'[dir[e]] = content[dir[e]]
  <2>1. dir'[t] = i /\ content'[i] = Partial /\ fd'[w] = i
    BY <1>1, <1>2, <1>4 DEF TypeOK
  <2>2. ASSUME NEW e \in Entry \ {t}
        PROVE  /\ dir'[e] = dir[e]
               /\ dir[e] # Nothing => content'[dir[e]] = content[dir[e]]
    BY <1>1, <1>2, <1>3, <1>4 DEF TypeOK
  <2> QED
    BY <2>1, <2>2 DEF Reads
<1>6. Apart' /\ (overlap' = "none" => Alone')
  BY <1>1 DEF DisjointInv, Apart, Alone, Active, TypeOK
<1>7. LinksInv'
  <2>1. ASSUME NEW s \in Segment, NEW e \in Entry \ {SegTmp(s)}, dir'[SegTmp(s)] # Nothing
        PROVE  dir'[e] # dir'[SegTmp(s)]
    BY <1>3, <1>5, <2>1, EntriesThere DEF DisjointInv, LinksInv
  <2>2. ASSUME NEW e \in Entry, dir'[e] # Nothing
        PROVE  content'[dir'[e]] # Nothing
    BY <1>5, <2>2, CallAssumption DEF DisjointInv, LinksInv
  <2> QED
    BY <2>1, <2>2 DEF LinksInv
<1>8. WholeInv'
  BY <1>5, EntriesThere, EntriesDiffer DEF DisjointInv, WholeInv, Tmp
<1>9. ProgressInv'
  BY <1>1, <1>2, <1>5, OthersProgress DEF DisjointInv, TypeOK
<1>10. overlap' = "none" => AloneInv'
  <2>1. ASSUME overlap = "none", NEW o \in Writer \ {w}
        PROVE  pc[o] = "idle" /\ pc'[o] = "idle"
    BY <1>1, <2>1 DEF DisjointInv, Alone, Active
  <2> QED
    BY <1>1, <2>1 DEF AloneInv, TypeOK
<1> QED
  BY <1>6, <1>7, <1>8, <1>9, <1>10, <1>5, EntriesThere, EntriesDiffer DEF DisjointInv, Tmp

LEMMA WriteTmpStep ==
  ASSUME TypeOK, DisjointInv, NEW w \in Writer, WriteTmp(w)
  PROVE  DisjointInv' /\ Reads(Path)' = Reads(Path) /\ Reads(LinkTmp)' = Reads(LinkTmp)
<1> DEFINE t == Tmp(w)
<1>1. /\ pc[w] = "write" /\ t \in Entry /\ Own(w) \in Entry /\ t # Own(w)
      /\ call[w] \in Render
      /\ pc' = [pc EXCEPT ![w] = "rename"]
      /\ dir' = dir /\ call' = call /\ overlap' = overlap
      /\ content' = [content EXCEPT ![fd[w]] = call[w]]
      /\ fd' = [fd EXCEPT ![w] = Nothing]
  BY CallsHaveEntries, EntriesDiffer DEF WriteTmp, Goto, Own, Tmp
<1>2. fd[w] \in Inode /\ fd[w] = dir[t] /\ dir[t] # Nothing
  BY <1>1, CallAssumption DEF TypeOK, DisjointInv, ProgressInv
<1>3. \A e \in Entry \ {t} : dir[e] # fd[w]
  BY <1>1, <1>2, CallsHaveEntries DEF DisjointInv, LinksInv, Tmp
<1>4. /\ Reads(t)' = call[w]
      /\ \A e \in Entry \ {t} : /\ Reads(e)' = Reads(e)
                                /\ dir[e] # Nothing => content'[dir[e]] = content[dir[e]]
  <2>1. content'[dir[t]] = call[w]
    BY <1>1, <1>2 DEF TypeOK
  <2>2. ASSUME NEW e \in Entry \ {t}, dir[e] # Nothing
        PROVE  content'[dir[e]] = content[dir[e]]
    <3>1. dir[e] \in Inode
      BY <2>2 DEF TypeOK
    <3> QED
      BY <1>1, <1>2, <1>3, <3>1 DEF TypeOK
  <2>3. ASSUME NEW e \in Entry \ {t}
        PROVE  Reads(e)' = Reads(e)
    BY <1>1, <2>2 DEF Reads
  <2>4. Reads(t)' = call[w]
    BY <1>1, <1>2, <2>1 DEF Reads, Tmp
  <2> QED
    BY <2>2, <2>3, <2>4
<1>5. Apart' /\ (overlap' = "none" => Alone')
  BY <1>1 DEF DisjointInv, Apart, Alone, Active, TypeOK
<1>6. LinksInv'
  <2>1. ASSUME NEW e \in Entry, dir[e] # Nothing
        PROVE  content'[dir[e]] # Nothing
    BY <1>1, <1>2, <1>4, <2>1, CallAssumption DEF DisjointInv, LinksInv, TypeOK
  <2> QED
    BY <1>1, <2>1 DEF DisjointInv, LinksInv
<1>7. WholeInv'
  BY <1>4, EntriesThere, EntriesDiffer DEF DisjointInv, WholeInv, Tmp
<1>8. ProgressInv'
  BY <1>1, <1>4, OthersProgress DEF DisjointInv, TypeOK
<1>9. overlap' = "none" => AloneInv'
  <2>1. ASSUME overlap = "none", NEW o \in Writer \ {w}
        PROVE  pc[o] = "idle" /\ pc'[o] = "idle"
    BY <1>1, <2>1 DEF DisjointInv, Alone, Active
  <2> QED
    BY <1>1, <2>1 DEF AloneInv, TypeOK
<1> QED
  BY <1>5, <1>6, <1>7, <1>8, <1>9, <1>4, EntriesThere, EntriesDiffer DEF DisjointInv, Tmp

LEMMA RenameTmpStep ==
  ASSUME TypeOK, DisjointInv, NEW w \in Writer, RenameTmp(w)
  PROVE  DisjointInv' /\ Reads(Path)' = Reads(Path) /\ Reads(LinkTmp)' = Reads(LinkTmp)
<1> DEFINE t == Tmp(w)
           f == Own(w)
           d == [dir EXCEPT ![f] = dir[t], ![t] = Nothing]
<1>1. /\ pc[w] = "rename" /\ t \in Entry /\ f \in Entry /\ t # f
      /\ call[w] \in Render /\ dir[t] # Nothing /\ Reads(t) = call[w]
      /\ pc' = [pc EXCEPT ![w] = "unlink"]
      /\ call' = call /\ overlap' = overlap /\ fd' = fd
  BY CallsHaveEntries, EntriesDiffer DEF RenameTmp, Goto, Own, Tmp, DisjointInv, ProgressInv
<1>2. \A e \in Entry \ {t} : dir[e] # dir[t]
  BY <1>1, CallsHaveEntries DEF DisjointInv, LinksInv, Tmp
<1>3. d \in [Entry -> Inode \cup {Nothing}] /\ Relink(d)
  BY <1>1, <1>2 DEF RenameTmp, Renamed, Own, Tmp, TypeOK
<1>4. /\ d[t] = Nothing /\ d[f] = dir[t]
      /\ \A e \in Entry \ {t, f} : d[e] = dir[e]
  BY <1>1 DEF TypeOK
<1>5. /\ dir' = d
      /\ \A e \in Entry : dir'[e] # Nothing => content'[dir'[e]] = content[dir'[e]]
  BY <1>3, RelinkType
<1>6. /\ Reads(f)' = call[w]
      /\ \A e \in Entry \ {t, f} : dir'[e] = dir[e] /\ Reads(e)' = Reads(e)
  <2>1. Reads(f)' = call[w]
    BY <1>1, <1>4, <1>5 DEF Reads, Own
  <2>2. ASSUME NEW e \in Entry \ {t, f}
        PROVE  dir'[e] = dir[e] /\ Reads(e)' = Reads(e)
    <3>1. dir'[e] = dir[e]
      BY <1>4, <1>5
    <3>2. dir[e] # Nothing => content'[dir[e]] = content[dir[e]]
      BY <1>5, <3>1
    <3> QED
      BY <3>1, <3>2 DEF Reads
  <2> QED
    BY <2>1, <2>2
<1>7. Apart' /\ (overlap' = "none" => Alone')
  BY <1>1 DEF DisjointInv, Apart, Alone, Active, TypeOK
<1>8. LinksInv'
  <2>1. ASSUME NEW s \in Segment, NEW e \in Entry \ {SegTmp(s)}, dir'[SegTmp(s)] # Nothing
        PROVE  dir'[e] # dir'[SegTmp(s)]
    <3>1. SegTmp(s) \in Entry \ {t, f} /\ dir'[SegTmp(s)] = dir[SegTmp(s)]
      BY <1>4, <1>5, <2>1, EntriesThere, EntriesDiffer DEF Own
    <3>2. dir'[e] \in {Nothing, dir[t], dir[e]}
      BY <1>4, <1>5, <2>1
    <3> QED
      BY <1>1, <1>2, <2>1, <3>1, <3>2 DEF DisjointInv, LinksInv
  <2>2. ASSUME NEW e \in Entry, dir'[e] # Nothing
        PROVE  content'[dir'[e]] # Nothing
    <3>1. dir'[e] \in {dir[t], dir[e]}
      BY <1>4, <1>5, <2>2
    <3> QED
      BY <1>1, <1>5, <2>2, <3>1 DEF DisjointInv, LinksInv
  <2> QED
    BY <2>1, <2>2 DEF LinksInv
<1>9. WholeInv'
  <2>1. ASSUME NEW s \in Segment
        PROVE  Reads(SegFile(s))' \in {Nothing} \cup {r \in Render : r.segment = s}
    <3>1. CASE SegFile(s) = f
      BY <1>1, <1>6, <3>1, EntriesDiffer DEF Own
    <3>2. CASE SegFile(s) # f
      BY <1>6, <3>2, EntriesThere, EntriesDiffer DEF DisjointInv, WholeInv, Tmp
    <3> QED
      BY <3>1, <3>2
  <2> QED
    BY <1>6, <2>1, EntriesThere, EntriesDiffer DEF DisjointInv, WholeInv, Tmp, Own
<1>10. ProgressInv'
  BY <1>1, <1>6, OthersProgress DEF DisjointInv, TypeOK
<1>11. overlap' = "none" => AloneInv'
  <2>1. ASSUME overlap = "none", NEW o \in Writer \ {w}
        PROVE  pc[o] = "idle" /\ pc'[o] = "idle"
    BY <1>1, <2>1 DEF DisjointInv, Alone, Active
  <2> QED
    BY <1>1, <2>1 DEF AloneInv, TypeOK
<1> QED
  BY <1>7, <1>8, <1>9, <1>10, <1>11, <1>6, EntriesThere, EntriesDiffer DEF DisjointInv, Tmp, Own

LEMMA RemoveStaleLinkStep ==
  ASSUME TypeOK, DisjointInv, NEW w \in Writer, RemoveStaleLink(w)
  PROVE  DisjointInv' /\ Reads(Path)' = Reads(Path) /\ Reads(LinkTmp)' = Nothing
<1> DEFINE d == [dir EXCEPT ![LinkTmp] = Nothing]
<1>1. /\ pc[w] = "unlink" /\ Reads(Own(w)) = call[w]
      /\ Own(w) \in Entry \ {LinkTmp} /\ Tmp(w) \in Entry \ {LinkTmp}
      /\ pc' = [pc EXCEPT ![w] = "link"]
      /\ call' = call /\ overlap' = overlap /\ fd' = fd
  BY CallsHaveEntries, EntriesDiffer
     DEF RemoveStaleLink, Goto, Own, Tmp, DisjointInv, ProgressInv
<1>2. d \in [Entry -> Inode \cup {Nothing}] /\ Relink(d)
  BY DEF RemoveStaleLink, TypeOK
<1>3. /\ dir' = d /\ d[LinkTmp] = Nothing
      /\ \A e \in Entry \ {LinkTmp} : d[e] = dir[e]
      /\ \A e \in Entry : dir'[e] # Nothing => content'[dir'[e]] = content[dir'[e]]
  BY <1>2, EntriesThere, RelinkType DEF TypeOK
<1>4. /\ Reads(LinkTmp)' = Nothing
      /\ \A e \in Entry \ {LinkTmp} : dir'[e] = dir[e] /\ Reads(e)' = Reads(e)
  <2>1. ASSUME NEW e \in Entry \ {LinkTmp}
        PROVE  dir'[e] = dir[e] /\ Reads(e)' = Reads(e)
    BY <1>3 DEF Reads
  <2> QED
    BY <1>3, <2>1 DEF Reads, LinkTmp
<1>5. Apart' /\ (overlap' = "none" => Alone')
  BY <1>1 DEF DisjointInv, Apart, Alone, Active, TypeOK
<1>6. LinksInv'
  BY <1>3, <1>4, EntriesThere, EntriesDiffer DEF DisjointInv, LinksInv
<1>7. WholeInv'
  BY <1>4, EntriesThere, EntriesDiffer DEF DisjointInv, WholeInv
<1>8. ProgressInv'
  <2>1. Reads(Own(w))' = call[w]
    BY <1>1, <1>4 DEF Own
  <2> QED
    BY <1>1, <1>4, <2>1, OthersProgress DEF DisjointInv, TypeOK
<1>9. overlap' = "none" => AloneInv'
  <2>1. ASSUME overlap = "none", NEW o \in Writer \ {w}
        PROVE  pc[o] = "idle" /\ pc'[o] = "idle"
    BY <1>1, <2>1 DEF DisjointInv, Alone, Active
  <2> QED
    BY <1>1, <1>3, <2>1 DEF AloneInv, TypeOK
<1> QED
  BY <1>5, <1>6, <1>7, <1>8, <1>9, <1>4, EntriesThere, EntriesDiffer DEF DisjointInv

LEMMA LinkStep ==
  ASSUME TypeOK, DisjointInv, NEW w \in Writer, Link(w)
  PROVE  DisjointInv' /\ Reads(Path)' = Reads(Path) /\ Reads(LinkTmp)' = call[w]
<1> DEFINE f == Own(w)
<1>1. /\ pc[w] = "link" /\ Reads(f) = call[w] /\ dir[f] # Nothing
      /\ call[w] \in Render
      /\ f \in Entry \ {LinkTmp} /\ Tmp(w) \in Entry \ {LinkTmp}
      /\ pc' = [pc EXCEPT ![w] = "install"]
      /\ dir' = [dir EXCEPT ![LinkTmp] = dir[f]]
      /\ content' = content /\ call' = call /\ overlap' = overlap /\ fd' = fd
  BY CallsHaveEntries, EntriesDiffer DEF Link, Goto, Own, Tmp, DisjointInv, ProgressInv
<1>2. dir'[LinkTmp] = dir[f] /\ \A e \in Entry \ {LinkTmp} : dir'[e] = dir[e]
  BY <1>1, EntriesThere DEF TypeOK
<1>3. /\ Reads(LinkTmp)' = call[w]
      /\ \A e \in Entry \ {LinkTmp} : Reads(e)' = Reads(e)
  <2>1. Reads(LinkTmp)' = call[w]
    BY <1>1, <1>2 DEF Reads, LinkTmp
  <2>2. ASSUME NEW e \in Entry \ {LinkTmp}
        PROVE  Reads(e)' = Reads(e)
    BY <1>1, <1>2 DEF Reads
  <2> QED
    BY <2>1, <2>2
<1>4. Apart' /\ (overlap' = "none" => Alone')
  BY <1>1 DEF DisjointInv, Apart, Alone, Active, TypeOK
<1>5. LinksInv'
  <2>1. ASSUME NEW s \in Segment
        PROVE  SegTmp(s) \in Entry \ {f, LinkTmp}
    BY EntriesThere, EntriesDiffer DEF Own
  <2> QED
    BY <1>1, <1>2, <2>1 DEF DisjointInv, LinksInv
<1>6. WholeInv'
  BY <1>1, <1>3, EntriesThere, EntriesDiffer DEF DisjointInv, WholeInv
<1>7. ProgressInv'
  <2>1. Reads(f)' = call[w]
    BY <1>1, <1>3 DEF Own
  <2> QED
    BY <1>1, <1>2, <1>3, <2>1, OthersProgress DEF DisjointInv, TypeOK
<1>8. overlap' = "none" => AloneInv'
  <2>1. ASSUME overlap = "none", NEW o \in Writer \ {w}
        PROVE  pc[o] = "idle" /\ pc'[o] = "idle"
    BY <1>1, <2>1 DEF DisjointInv, Alone, Active
  <2> QED
    BY <1>1, <1>2, <2>1 DEF AloneInv, TypeOK, Own
<1> QED
  BY <1>4, <1>5, <1>6, <1>7, <1>8, <1>3, EntriesThere, EntriesDiffer DEF DisjointInv

LEMMA RenameLinkStep ==
  ASSUME TypeOK, DisjointInv, NEW w \in Writer, RenameLink(w)
  PROVE  DisjointInv' /\ Reads(Path)' = Reads(LinkTmp) /\ Reads(LinkTmp)' \in {Nothing, Reads(LinkTmp)}
<1> DEFINE d == Renamed(LinkTmp, Path)
<1>1. /\ pc[w] = "install" /\ Reads(Own(w)) = call[w] /\ dir[LinkTmp] # Nothing
      /\ Own(w) \in Entry \ {LinkTmp, Path} /\ Tmp(w) \in Entry \ {LinkTmp, Path}
      /\ pc' = [pc EXCEPT ![w] = "written"]
      /\ call' = call /\ overlap' = overlap /\ fd' = fd
  BY CallsHaveEntries, EntriesDiffer DEF RenameLink, Goto, Own, Tmp, DisjointInv, ProgressInv
<1>2. /\ d \in [Entry -> Inode \cup {Nothing}]
      /\ d[Path] = dir[LinkTmp] /\ d[LinkTmp] \in {Nothing, dir[LinkTmp]}
      /\ \A e \in Entry \ {LinkTmp, Path} : d[e] = dir[e]
  BY EntriesThere, RenamedType
<1>3. /\ dir' = d
      /\ \A e \in Entry : dir'[e] # Nothing => content'[dir'[e]] = content[dir'[e]]
  BY <1>2, RelinkType DEF RenameLink
<1>4. /\ Reads(Path)' = Reads(LinkTmp) /\ Reads(LinkTmp)' \in {Nothing, Reads(LinkTmp)}
      /\ \A e \in Entry \ {LinkTmp, Path} : dir'[e] = dir[e] /\ Reads(e)' = Reads(e)
  <2>1. Reads(Path)' = Reads(LinkTmp)
    BY <1>1, <1>2, <1>3, EntriesThere DEF Reads, Path
  <2>2. Reads(LinkTmp)' \in {Nothing, Reads(LinkTmp)}
    BY <1>1, <1>2, <1>3, EntriesThere DEF Reads, LinkTmp
  <2>3. ASSUME NEW e \in Entry \ {LinkTmp, Path}
        PROVE  dir'[e] = dir[e] /\ Reads(e)' = Reads(e)
    <3>1. dir'[e] = dir[e]
      BY <1>2, <1>3
    <3>2. dir[e] # Nothing => content'[dir[e]] = content[dir[e]]
      BY <1>3, <3>1
    <3> QED
      BY <3>1, <3>2 DEF Reads
  <2> QED
    BY <2>1, <2>2, <2>3
<1>5. Apart' /\ (overlap' = "none" => Alone')
  BY <1>1 DEF DisjointInv, Apart, Alone, Active, TypeOK
<1>6. LinksInv'
  <2>1. ASSUME NEW s \in Segment, NEW e \in Entry \ {SegTmp(s)}, dir'[SegTmp(s)] # Nothing
        PROVE  dir'[e] # dir'[SegTmp(s)]
    <3>1. SegTmp(s) \in Entry \ {LinkTmp, Path} /\ dir'[SegTmp(s)] = dir[SegTmp(s)]
      BY <1>2, <1>3, EntriesThere, EntriesDiffer
    <3>2. dir'[e] \in {Nothing, dir[LinkTmp], dir[e]}
      BY <1>2, <1>3, <2>1
    <3> QED
      BY <2>1, <3>1, <3>2, EntriesThere DEF DisjointInv, LinksInv
  <2>2. ASSUME NEW e \in Entry, dir'[e] # Nothing
        PROVE  content'[dir'[e]] # Nothing
    <3>1. dir'[e] \in {dir[LinkTmp], dir[e]}
      BY <1>2, <1>3, <2>2
    <3> QED
      BY <1>1, <1>3, <2>2, <3>1, EntriesThere DEF DisjointInv, LinksInv
  <2> QED
    BY <2>1, <2>2 DEF LinksInv
<1>7. WholeInv'
  <2>1. Reads(LinkTmp) \in Render
    BY <1>1, EntriesThere DEF DisjointInv, LinksInv, WholeInv, Reads
  <2> QED
    BY <1>4, <2>1, EntriesThere, EntriesDiffer DEF DisjointInv, WholeInv
<1>8. ProgressInv'
  <2>1. Reads(Own(w))' = call[w]
    BY <1>1, <1>4 DEF Own
  <2> QED
    BY <1>1, <1>4, <2>1, OthersProgress DEF DisjointInv, TypeOK
<1>9. overlap' = "none" => AloneInv'
  <2>1. ASSUME overlap = "none", NEW o \in Writer \ {w}
        PROVE  pc[o] = "idle" /\ pc'[o] = "idle"
    BY <1>1, <2>1 DEF DisjointInv, Alone, Active
  <2>2. overlap = "none" => dir'[Path] = dir'[Own(w)] /\ Own(w)' = Own(w)
    BY <1>1, <1>2, <1>3, <1>4 DEF DisjointInv, AloneInv, Own
  <2> QED
    BY <1>1, <2>1, <2>2 DEF AloneInv, TypeOK
<1> QED
  BY <1>5, <1>6, <1>7, <1>8, <1>9, <1>4, EntriesThere, EntriesDiffer DEF DisjointInv

\* A writer that enters Write finds nobody at the file it is to write.
LEMMA CallStep ==
  ASSUME TypeOK, overlap # "file" => DisjointInv, NEW w \in Writer, Call(w), overlap' # "file"
  PROVE  DisjointInv'
<1>1. PICK r \in Render : call' = [call EXCEPT ![w] = r] /\ overlap' = Meets(w, r)
  BY DEF Call
<1>2. /\ pc[w] = "idle" /\ pc' = [pc EXCEPT ![w] = "open"]
      /\ UNCHANGED <<dir, content, fd>>
  BY DEF Call, Goto
<1>3. /\ overlap # "file"
      /\ \A o \in Writer \ {w} : pc[o] # "idle" => call[o].segment # r.segment
      /\ overlap' = "none" => \A o \in Writer \ {w} : pc[o] = "idle"
  BY <1>1 DEF Meets
<1>4. \A o \in Writer \ {w} : pc'[o] = pc[o] /\ call'[o] = call[o]
  BY <1>1, <1>2 DEF TypeOK
<1>5. pc'[w] = "open" /\ call'[w] = r
  BY <1>1, <1>2 DEF TypeOK
<1>6. Apart' /\ (overlap' = "none" => Alone')
  BY <1>3, <1>4, <1>5 DEF DisjointInv, Apart, Alone, Active
<1>7. LinksInv' /\ WholeInv'
  BY <1>2, <1>3 DEF DisjointInv, LinksInv, WholeInv, Reads
<1>8. ProgressInv'
  BY <1>2, <1>3, <1>4, <1>5 DEF DisjointInv, ProgressInv, Reads, Own, Tmp
<1>9. overlap' = "none" => AloneInv'
  BY <1>3, <1>4, <1>5 DEF AloneInv
<1> QED
  BY <1>6, <1>7, <1>8, <1>9 DEF DisjointInv

\* Failing, leaving and crashing change no file.
LEMMA EndStep ==
  ASSUME TypeOK, DisjointInv, Crash \/ \E w \in Writer : CallFails(w) \/ Leave(w)
  PROVE  DisjointInv' /\ Reads(Path)' = Reads(Path) /\ Reads(LinkTmp)' = Reads(LinkTmp)
<1>1. UNCHANGED <<dir, content, overlap>>
  BY DEF Crash, CallFails, Leave
<1>2. ASSUME NEW o \in Writer
      PROVE  \/ pc'[o] \in {"idle", "failed"} /\ (pc'[o] # "idle" => pc[o] # "idle" /\ call'[o] = call[o])
             \/ pc'[o] = pc[o] /\ call'[o] = call[o] /\ fd'[o] = fd[o]
  BY DEF Crash, CallFails, Leave, Goto, TypeOK
<1>3. Apart' /\ (overlap' = "none" => Alone')
  BY <1>1, <1>2 DEF DisjointInv, Apart, Alone, Active
<1>4. LinksInv' /\ WholeInv'
  BY <1>1 DEF DisjointInv, LinksInv, WholeInv, Reads
<1>5. ProgressInv'
  BY <1>1, <1>2 DEF DisjointInv, ProgressInv, Reads, Own, Tmp
<1>6. overlap' = "none" => AloneInv'
  BY <1>1, <1>2 DEF DisjointInv, AloneInv, Own
<1> QED
  BY <1>3, <1>4, <1>5, <1>6, <1>1 DEF DisjointInv, Reads

-----------------------------------------------------------------------------
(* The invariant and what follows from it.                                 *)

LEMMA WriteInvStep ==
  ASSUME TypeOK, WriteInv, Next
  PROVE  WriteInv'
<1>1. PathStays'
  BY PathStaysStep DEF WriteInv
<1>2. ASSUME overlap' # "file"
      PROVE  DisjointInv'
  <2>1. CASE \E w \in Writer : Call(w)
    BY <1>2, <2>1, CallStep DEF WriteInv
  <2>2. CASE Crash \/ \E w \in Writer : CallFails(w) \/ Leave(w)
    <3>1. overlap # "file"
      BY <1>2, <2>2 DEF Crash, CallFails, Leave
    <3> QED
      BY <2>2, <3>1, EndStep DEF WriteInv
  <2>3. ASSUME NEW w \in Writer,
               \/ OpenTmp(w) \/ WriteTmp(w) \/ RenameTmp(w)
               \/ RemoveStaleLink(w) \/ Link(w) \/ RenameLink(w)
        PROVE  DisjointInv'
    <3>1. DisjointInv
      BY <1>2, <2>3
         DEF WriteInv, OpenTmp, WriteTmp, RenameTmp, RemoveStaleLink, Link, RenameLink
    <3> QED
      BY <2>3, <3>1, OpenTmpStep, WriteTmpStep, RenameTmpStep, RemoveStaleLinkStep,
         LinkStep, RenameLinkStep
  <2> QED
    BY <2>1, <2>2, <2>3 DEF Next, Step
<1> QED
  BY <1>1, <1>2 DEF WriteInv

LEMMA WriteInvInit ==
  ASSUME Init
  PROVE  WriteInv
<1>1. PICK i \in Inode, r \in Render :
        /\ dir = [e \in Entry |-> IF e = Path THEN i ELSE Nothing]
        /\ content = [j \in Inode |-> IF j = i THEN r ELSE Nothing]
  BY DEF Init
<1>2. i # Nothing /\ r # Nothing
  BY CallAssumption
<1>3. dir[Path] = i /\ content[i] = r /\ \A e \in Entry \ {Path} : dir[e] = Nothing
  BY <1>1, EntriesThere
<1>4. PathStays
  BY <1>2, <1>3 DEF PathStays
<1>5. \A w \in Writer : pc[w] = "idle"
  BY DEF Init
<1>6. LinksInv /\ WholeInv
  BY <1>2, <1>3, EntriesThere, EntriesDiffer DEF LinksInv, WholeInv, Reads
<1> QED
  BY <1>4, <1>5, <1>6 DEF WriteInv, DisjointInv, Apart, Alone, Active, ProgressInv, AloneInv

LEMMA WriteInvHolds == Spec => [](TypeOK /\ WriteInv)
<1>1. WriteInv /\ UNCHANGED vars => WriteInv'
  BY DEF vars, WriteInv, PathStays, DisjointInv, Apart, Alone, Active, LinksInv, WholeInv,
         ProgressInv, AloneInv, Reads, Own, Tmp
<1> QED
  BY <1>1, WriteInvInit, WriteInvStep, NetplanTypeCorrect, PTL DEF Spec

\* However many runs write, for whatever segments, and wherever they are cut
\* off: there is a netplan file at every moment.
THEOREM PathAlwaysThere == Spec => []PathStays
BY WriteInvHolds, PTL DEF WriteInv

\* A Write that met no other and returns without an error has installed what
\* it was asked for, as a link to the segment's own file.
THEOREM WrittenInstalled == Spec => []WrittenIsInstalled
<1>1. TypeOK /\ WriteInv => WrittenIsInstalled
  BY CallAssumption DEF WriteInv, DisjointInv, ProgressInv, AloneInv, WrittenIsInstalled, Reads, Own,
     TypeOK
<1> QED
  BY <1>1, WriteInvHolds, PTL

\* Segments' own files hold complete renders of their segment, for any number
\* of runs that write different segments.
THEOREM OwnFilesWhole == Spec => []OwnFilesComplete
<1>1. WriteInv => OwnFilesComplete
  BY DEF WriteInv, DisjointInv, WholeInv, OwnFilesComplete
<1> QED
  BY <1>1, WriteInvHolds, PTL

\* Nothing that a crash, a failure or a meeting left behind makes a Write
\* fail that meets no other.
THEOREM LeftoversNeverRefuse == Spec => []LeftoversHarmless
<1>1. TypeOK /\ WriteInv => LeftoversHarmless
  <2> SUFFICES ASSUME TypeOK, WriteInv, overlap = "none", NEW w \in Writer
               PROVE  ~Refused(w)
    BY DEF LeftoversHarmless
  <2>1. pc[w] # "idle" => call[w] # Nothing
    BY CallAssumption DEF TypeOK
  <2> QED
    BY <2>1 DEF WriteInv, DisjointInv, ProgressInv, AloneInv, Refused, Reads, Own, Tmp
<1> QED
  BY <1>1, WriteInvHolds, PTL

-----------------------------------------------------------------------------
(* NetplanWrite implements AtomicFile.                                     *)

LEMMA AtomicInit ==
  ASSUME Init
  PROVE  AtomicPath!Init
<1>1. Reads(Path) \in Render
  BY WriteInvInit DEF WriteInv, DisjointInv, WholeInv, Init
<1>2. Pending = {}
  BY DEF Init, Pending
<1>3. overlap # "file"
  BY DEF Init
<1> QED
  BY <1>1, <1>2, <1>3 DEF AtomicPath!Init

LEMMA AtomicStep ==
  ASSUME TypeOK, WriteInv, Next, overlap # "file"
  PROVE  AtomicPath!Next
<1>1. CASE overlap' = "file"
  BY <1>1 DEF AtomicPath!Next
<1>2. CASE Crash \/ \E w \in Writer : CallFails(w) \/ Leave(w)
  <2>1. Reads(Path)' = Reads(Path) /\ Reads(LinkTmp)' = Reads(LinkTmp)
    BY <1>2, EndStep DEF WriteInv
  <2>2. ASSUME NEW o \in Writer, pc'[o] # "idle"
        PROVE  pc[o] # "idle" /\ call'[o] = call[o] /\ (pc'[o] = "install" => pc[o] = "install")
    BY <1>2, <2>2 DEF Crash, CallFails, Leave, Goto, TypeOK
  <2>3. Pending' \subseteq Pending
    BY <2>1, <2>2 DEF Pending
  <2> QED
    BY <2>1, <2>3 DEF AtomicPath!Next, AtomicPath!GiveUp
<1>3. ASSUME NEW w \in Writer, Call(w)
      PROVE  AtomicPath!Next
  <2>1. PICK r \in Render : call' = [call EXCEPT ![w] = r]
    BY <1>3 DEF Call
  <2>2. /\ pc[w] = "idle" /\ pc' = [pc EXCEPT ![w] = "open"]
        /\ Reads(Path)' = Reads(Path) /\ Reads(LinkTmp)' = Reads(LinkTmp)
    BY <1>3 DEF Call, Goto, Reads
  <2>3. Pending' = Pending \cup {r}
    BY <2>1, <2>2 DEF Pending, TypeOK
  <2> QED
    BY <2>2, <2>3 DEF AtomicPath!Next, AtomicPath!Ask
<1>4. ASSUME NEW w \in Writer,
             OpenTmp(w) \/ WriteTmp(w) \/ RenameTmp(w) \/ RemoveStaleLink(w)
      PROVE  AtomicPath!Next
  <2>1. Reads(Path)' = Reads(Path) /\ Reads(LinkTmp)' \in {Nothing, Reads(LinkTmp)}
    BY <1>4, OpenTmpStep, WriteTmpStep, RenameTmpStep, RemoveStaleLinkStep DEF WriteInv
  <2>2. call' = call /\ pc[w] # "idle"
    BY <1>4 DEF OpenTmp, WriteTmp, RenameTmp, RemoveStaleLink
  <2>3. \A o \in Writer : (pc'[o] # "idle" <=> pc[o] # "idle") /\ (pc'[o] = "install" => pc[o] = "install")
    BY <1>4 DEF OpenTmp, WriteTmp, RenameTmp, RemoveStaleLink, Goto, TypeOK
  <2>4. Pending' \subseteq Pending
    BY <2>1, <2>2, <2>3 DEF Pending
  <2> QED
    BY <2>1, <2>4 DEF AtomicPath!Next, AtomicPath!GiveUp
<1>5. ASSUME NEW w \in Writer, Link(w)
      PROVE  AtomicPath!Next
  <2>1. Reads(Path)' = Reads(Path) /\ Reads(LinkTmp)' = call[w]
    BY <1>5, LinkStep DEF WriteInv
  <2>2. call' = call /\ pc[w] # "idle"
    BY <1>5 DEF Link
  <2>3. \A o \in Writer : pc'[o] # "idle" <=> pc[o] # "idle"
    BY <1>5 DEF Link, Goto, TypeOK
  <2>4. Pending' \subseteq Pending
    BY <2>1, <2>2, <2>3 DEF Pending
  <2> QED
    BY <2>1, <2>4 DEF AtomicPath!Next, AtomicPath!GiveUp
<1>6. ASSUME NEW w \in Writer, RenameLink(w)
      PROVE  AtomicPath!Next
  <2>1. Reads(Path)' = Reads(LinkTmp) /\ Reads(LinkTmp)' \in {Nothing, Reads(LinkTmp)}
    BY <1>6, RenameLinkStep DEF WriteInv
  <2>2. call' = call /\ pc[w] = "install"
    BY <1>6 DEF RenameLink
  <2>3. \A o \in Writer : (pc'[o] # "idle" <=> pc[o] # "idle") /\ (pc'[o] = "install" => pc[o] = "install")
    BY <1>6 DEF RenameLink, Goto, TypeOK
  <2>4. Pending' \subseteq Pending
    BY <2>1, <2>2, <2>3 DEF Pending
  <2>5. Reads(LinkTmp) # Nothing
    BY <1>6, EntriesThere DEF WriteInv, DisjointInv, LinksInv, RenameLink, Reads
  <2>6. Reads(LinkTmp) \in Pending
    BY <2>2, <2>5 DEF Pending
  <2> QED
    BY <2>1, <2>4, <2>6 DEF AtomicPath!Next, AtomicPath!Replace
<1> QED
  BY <1>2, <1>3, <1>4, <1>5, <1>6 DEF Next, Step

\* What netplan.Write does to the file is what "atomically" promises, for any
\* number of runs that write different segments, any crashes and failures.
THEOREM WriteIsAtomic == Spec => ImplementsAtomicFile
<1>1. ASSUME UNCHANGED vars
      PROVE  UNCHANGED AtomicPath!vars
  <2>1. Reads(Path)' = Reads(Path) /\ Pending' = Pending
    BY <1>1 DEF vars, Reads, Pending
  <2> QED
    BY <1>1, <2>1 DEF vars, AtomicPath!vars
<1>2. TypeOK /\ WriteInv /\ [Next]_vars =>
        [overlap = "file" \/ AtomicPath!Next]_(AtomicPath!vars)
  BY <1>1, AtomicStep
<1> QED
  BY <1>2, AtomicInit, WriteInvHolds, PTL DEF Spec, ImplementsAtomicFile, AtomicPath!Spec
=============================================================================
