-------------------------- MODULE StateWrite_proofs --------------------------
(***************************************************************************)
(* Theorems about StateWrite, for any number of runs, contents and inodes, *)
(* any crashes and any failing calls.                                      *)
(***************************************************************************)
EXTENDS StateWrite, TLAPS

USE ContentAssumption

LEMMA EntriesDiffer == Path # Tmp /\ Entry = {Path, Tmp}
BY DEF Path, Tmp, Entry

\* Files and memory have the contents their names say.
LEMMA TypeOKHolds == Spec => []TypeOK
<1>1. Init => TypeOK
  BY DEF Init, TypeOK, PC
<1>2. TypeOK /\ [Next]_vars => TypeOK'
  <2> SUFFICES ASSUME TypeOK, [Next]_vars
               PROVE  TypeOK'
    OBVIOUS
  <2> USE DEF TypeOK, PC, Goto
  <2>1. ASSUME NEW r \in Run, Load(r) \/ LoadFails(r)
        PROVE  TypeOK'
    BY <2>1 DEF Load, LoadFails
  <2>2. ASSUME NEW r \in Run, Save(r)
        PROVE  TypeOK'
    BY <2>2 DEF Save
  <2>3. ASSUME NEW r \in Run, OpenTmp(r)
        PROVE  TypeOK'
    <3>1. PICK i \in Inode :
            /\ dir' = [dir EXCEPT ![Tmp] = i]
            /\ content' = [content EXCEPT ![i] = Empty]
            /\ fd' = [fd EXCEPT ![r] = i]
      BY <2>3, EntriesDiffer DEF OpenTmp, Opened
    <3>2. met' \subseteq Run /\ overlap' \in BOOLEAN
      BY <2>3 DEF OpenTmp, MeetsAtOpen, Saving
    <3> QED
      BY <2>3, <3>1, <3>2 DEF OpenTmp
  <2>4. ASSUME NEW r \in Run, WriteTmp(r)
        PROVE  TypeOK'
    BY <2>4 DEF WriteTmp, Over, Kept
  <2>5. ASSUME NEW r \in Run, RenameTmp(r)
        PROVE  TypeOK'
    BY <2>5, EntriesDiffer DEF RenameTmp, Kept
  <2>6. ASSUME NEW r \in Run, SaveFails(r)
        PROVE  TypeOK'
    <3>1. content' \in [Inode -> Content \cup {Empty, Torn, Nothing}]
      BY <2>6 DEF SaveFails, Kept
    <3> QED
      BY <2>6, <3>1 DEF SaveFails
  <2>7. ASSUME NEW r \in Run, Leave(r)
        PROVE  TypeOK'
    BY <2>7 DEF Leave
  <2>8. CASE Crash
    BY <2>8 DEF Crash, Kept
  <2>9. CASE UNCHANGED vars
    BY <2>9 DEF vars
  <2> QED
    BY <2>1, <2>2, <2>3, <2>4, <2>5, <2>6, <2>7, <2>8, <2>9 DEF Next, Step
<1> QED
  BY <1>1, <1>2, PTL DEF Spec

-----------------------------------------------------------------------------
(* What the steps leave alone.                                             *)

\* Freeing inodes changes no file that is linked or open.
LEMMA KeptLinked ==
  ASSUME NEW c, NEW d, NEW f, NEW i \in Inode,
         (\E e \in Entry : d[e] = i) \/ (\E r \in Run : f[r] = i)
  PROVE  Kept(c, d, f)[i] = c[i]
BY DEF Kept

\* A step that changes neither directory nor contents.
Quiet == UNCHANGED <<dir, content>>

LEMMA QuietStep ==
  ASSUME TypeOK, SaveInv, NEW r \in Run,
         Load(r) \/ LoadFails(r) \/ Save(r) \/ Leave(r)
  PROVE  SaveInv'
<1>1. /\ Quiet /\ fd' = fd /\ overlap' = overlap /\ met' \subseteq met
      /\ r \notin Saving /\ Saving' = Saving /\ Saving' \ met' = Saving \ met
      /\ \A o \in Saving : call'[o] = call[o] /\ pc'[o] = pc[o]
      /\ \A o \in Run : pc[o] = "write" <=> pc'[o] = "write"
  BY DEF Load, LoadFails, Save, Leave, Quiet, Saving, Goto, TypeOK, SaveInv, FilesInv
<1>2. Reads(Path)' = Reads(Path) /\ Reads(Tmp)' = Reads(Tmp)
  BY <1>1 DEF Quiet, Reads
<1>3. FilesInv'
  BY <1>1 DEF Quiet, SaveInv, FilesInv
<1>4. LoneInv'
  <2> SUFFICES ASSUME NEW o \in Saving \ met
               PROVE  /\ Saving' = {o}
                      /\ pc'[o] = "write" => fd'[o] = dir'[Tmp] /\ Reads(Tmp)' = Empty
                      /\ pc'[o] = "rename" => Reads(Tmp)' = call'[o]
    BY <1>1 DEF LoneInv
  <2> QED
    BY <1>1, <1>2 DEF Quiet, SaveInv, LoneInv
<1>5. WholeInv'
  BY <1>1, <1>2 DEF SaveInv, WholeInv
<1> QED
  BY <1>3, <1>4, <1>5 DEF SaveInv

\* Opening the temporary file leaves active.yaml alone, and makes every other
\* save that is under way one that met this one.
LEMMA OpenStep ==
  ASSUME TypeOK, SaveInv, NEW r \in Run, OpenTmp(r)
  PROVE  SaveInv' /\ Reads(Path)' = Reads(Path)
<1>1. PICK i \in Opened(Tmp) :
        /\ dir' = [dir EXCEPT ![Tmp] = i]
        /\ content' = [content EXCEPT ![i] = Empty]
        /\ fd' = [fd EXCEPT ![r] = i]
  BY DEF OpenTmp
<1>2. i \in Inode /\ i # Nothing /\ i # dir[Path]
  BY <1>1, EntriesDiffer DEF Opened, TypeOK, SaveInv, FilesInv
<1>3. /\ dir'[Tmp] = i /\ dir'[Path] = dir[Path]
      /\ content'[i] = Empty /\ \A j \in Inode \ {i} : content'[j] = content[j]
  BY <1>1, <1>2, EntriesDiffer DEF TypeOK
<1>4. Reads(Path)' = Reads(Path) /\ Reads(Tmp)' = Empty
  BY <1>2, <1>3, EntriesDiffer DEF Reads, TypeOK
<1>5. /\ pc[r] = "open" /\ pc' = [pc EXCEPT ![r] = "write"] /\ call' = call
      /\ Saving' = Saving \cup {r} /\ r \notin Saving
  BY DEF OpenTmp, Goto, Saving, TypeOK
<1>6. FilesInv'
  <2>1. \A e \in Entry : dir'[e] # Nothing => content'[dir'[e]] # Nothing
    BY <1>2, <1>3, EntriesDiffer DEF TypeOK, SaveInv, FilesInv
  <2>2. \A o \in Run : fd'[o] # Nothing => pc'[o] = "write"
    BY <1>1, <1>5 DEF TypeOK, SaveInv, FilesInv
  <2> QED
    BY <1>2, <1>3, <2>1, <2>2 DEF FilesInv
<1>7. LoneInv'
  <2>1. CASE Saving = {}
    <3>1. Saving' = {r} /\ pc'[r] = "write" /\ fd'[r] = i
      BY <1>1, <1>5, <2>1 DEF TypeOK
    <3> QED
      BY <1>3, <1>4, <3>1 DEF LoneInv
  <2>2. CASE Saving # {}
    <3>1. Saving' \ met' = {}
      BY <1>5, <2>2 DEF OpenTmp, MeetsAtOpen
    <3> QED
      BY <3>1 DEF LoneInv
  <2> QED
    BY <2>1, <2>2
<1>8. WholeInv'
  BY <1>4 DEF OpenTmp, MeetsAtOpen, SaveInv, WholeInv
<1> QED
  BY <1>4, <1>6, <1>7, <1>8 DEF SaveInv

\* The runs that are saving besides r, which leaves its save, have all met it.
LEMMA OthersHaveMet ==
  ASSUME TypeOK, SaveInv, NEW r \in Saving,
         Saving' \subseteq Saving, met' = met
  PROVE  Saving' \ met' \subseteq {r}
BY DEF SaveInv, LoneInv

LEMMA WriteStep ==
  ASSUME TypeOK, SaveInv, NEW r \in Run, WriteTmp(r)
  PROVE  /\ SaveInv'
         /\ r \notin met => Reads(Path)' = Reads(Path)
<1> DEFINE i == fd[r]
<1>1. PICK c \in Over(content[i], call[r]) : content' = Kept([content EXCEPT ![i] = c], dir, fd')
  BY DEF WriteTmp
<1>2. /\ i \in Inode /\ i # Nothing /\ pc[r] = "write" /\ r \in Saving
      /\ pc' = [pc EXCEPT ![r] = "rename"] /\ fd' = [fd EXCEPT ![r] = Nothing]
      /\ UNCHANGED <<dir, call, met, overlap>> /\ Saving' = Saving
  BY DEF WriteTmp, TypeOK, Goto, Saving
<1>3. \A e \in Entry : dir[e] # Nothing =>
        content'[dir[e]] = IF dir[e] = i THEN c ELSE content[dir[e]]
  BY <1>1, <1>2 DEF Kept, TypeOK
<1>4. c # Nothing
  BY <1>1, <1>2 DEF Over, TypeOK
<1>5. FilesInv'
  <2>1. \A o \in Run : fd'[o] # Nothing => pc'[o] = "write"
    BY <1>2 DEF TypeOK, SaveInv, FilesInv
  <2>2. \A e \in Entry : dir[e] # Nothing => content'[dir[e]] # Nothing
    BY <1>3, <1>4 DEF SaveInv, FilesInv
  <2> QED
    BY <1>2, <2>1, <2>2 DEF SaveInv, FilesInv
<1>6. ASSUME r \notin met
      PROVE  /\ Saving = {r} /\ i = dir[Tmp] /\ c = call[r]
             /\ Reads(Path)' = Reads(Path) /\ Reads(Tmp)' = call[r]
  <2>1. Saving = {r} /\ i = dir[Tmp] /\ Reads(Tmp) = Empty
    BY <1>2, <1>6 DEF SaveInv, LoneInv
  <2>2. c = call[r]
    BY <1>1, <1>2, <2>1 DEF Over, Reads
  <2>3. dir[Path] # i
    BY <1>2, <2>1 DEF SaveInv, FilesInv
  <2> QED
    BY <1>2, <1>3, <2>1, <2>2, <2>3, EntriesDiffer DEF Reads
<1>7. LoneInv'
  <2>1. Saving' \ met' \subseteq {r}
    BY <1>2, OthersHaveMet
  <2> QED
    BY <1>2, <1>6, <2>1 DEF LoneInv, TypeOK
<1>8. WholeInv'
  BY <1>2, <1>6 DEF SaveInv, WholeInv
<1> QED
  BY <1>5, <1>6, <1>7, <1>8 DEF SaveInv

\* The rename of a save that met no other installs what it was called with.
LEMMA RenameStep ==
  ASSUME TypeOK, SaveInv, NEW r \in Run, RenameTmp(r)
  PROVE  /\ SaveInv'
         /\ r \notin met => Reads(Path)' = call[r]
<1>1. /\ pc[r] = "rename" /\ pc' = [pc EXCEPT ![r] = "saved"]
      /\ UNCHANGED <<call, fd, met, overlap>> /\ r \in Saving /\ Saving' = Saving \ {r}
  BY DEF RenameTmp, Goto, Saving, TypeOK
<1>2. /\ dir[Tmp] # Nothing /\ dir[Tmp] \in Inode
      /\ dir'[Path] = dir[Tmp] /\ dir'[Tmp] = Nothing
  BY EntriesDiffer DEF RenameTmp, TypeOK
<1>3. content'[dir[Tmp]] = content[dir[Tmp]]
  <2>1. content' = Kept(content, dir', fd)
    BY DEF RenameTmp
  <2> QED
    BY <1>2, <2>1, KeptLinked, EntriesDiffer
<1>4. Reads(Path)' = Reads(Tmp)
  BY <1>2, <1>3 DEF Reads
<1>5. FilesInv'
  <2>1. \A e \in Entry : dir'[e] # Nothing => content'[dir'[e]] # Nothing
    BY <1>2, <1>3, EntriesDiffer DEF SaveInv, FilesInv
  <2>2. \A o \in Run : fd'[o] # Nothing => pc'[o] = "write"
    BY <1>1 DEF TypeOK, SaveInv, FilesInv
  <2> QED
    BY <1>2, <2>1, <2>2 DEF FilesInv
<1>6. LoneInv'
  <2>1. Saving' \ met' \subseteq {r}
    BY <1>1, OthersHaveMet
  <2> QED
    BY <1>1, <2>1 DEF LoneInv
<1>7. r \notin met => Reads(Path)' = call[r]
  BY <1>1, <1>4 DEF SaveInv, LoneInv
<1>8. WholeInv'
  <2>1. call[r] \in Content
    BY <1>1 DEF TypeOK
  <2> QED
    BY <1>1, <1>7, <2>1 DEF SaveInv, WholeInv
<1> QED
  BY <1>5, <1>6, <1>7, <1>8 DEF SaveInv

LEMMA FailStep ==
  ASSUME TypeOK, SaveInv, NEW r \in Run, SaveFails(r)
  PROVE  /\ SaveInv'
         /\ ~overlap => Reads(Path)' = Reads(Path)
<1>1. /\ pc[r] \in {"open", "write", "rename"} /\ pc' = [pc EXCEPT ![r] = "failed"]
      /\ fd' = [fd EXCEPT ![r] = Nothing] /\ UNCHANGED <<dir, call, met, overlap>>
      /\ Saving' = Saving \ {r}
  BY DEF SaveFails, Goto, Saving, TypeOK
<1>2. CASE pc[r] # "write"
  <2>1. content' = content /\ fd' = fd
    BY <1>1, <1>2 DEF SaveFails, TypeOK, SaveInv, FilesInv
  <2>2. Reads(Path)' = Reads(Path) /\ Reads(Tmp)' = Reads(Tmp)
    BY <1>1, <2>1 DEF Reads
  <2>3. FilesInv'
    BY <1>1, <1>2, <2>1 DEF TypeOK, SaveInv, FilesInv
  <2>4. LoneInv'
    <3>1. CASE r \in Saving
      BY <1>1, <3>1, OthersHaveMet DEF LoneInv
    <3>2. CASE r \notin Saving
      BY <1>1, <2>1, <2>2, <3>2 DEF SaveInv, LoneInv, TypeOK, Saving
    <3> QED
      BY <3>1, <3>2
  <2> QED
    BY <1>1, <2>2, <2>3, <2>4 DEF SaveInv, WholeInv
<1>3. CASE pc[r] = "write"
  <2> DEFINE i == fd[r]
  <2>1. PICK c \in {content[i], Torn} : content' = Kept([content EXCEPT ![i] = c], dir, fd')
    BY <1>3 DEF SaveFails
  <2>2. i \in Inode /\ i # Nothing /\ r \in Saving
    BY <1>3 DEF TypeOK, Saving
  <2>3. \A e \in Entry : dir[e] # Nothing =>
          content'[dir[e]] = IF dir[e] = i THEN c ELSE content[dir[e]]
    BY <2>1, <2>2 DEF Kept, TypeOK
  <2>4. FilesInv'
    <3>1. \A e \in Entry : dir[e] # Nothing => content'[dir[e]] # Nothing
      BY <2>1, <2>3 DEF SaveInv, FilesInv
    <3>2. \A o \in Run : fd'[o] # Nothing => pc'[o] = "write"
      BY <1>1 DEF TypeOK, SaveInv, FilesInv
    <3> QED
      BY <1>1, <3>1, <3>2 DEF SaveInv, FilesInv
  <2>5. LoneInv'
    BY <1>1, <2>2, OthersHaveMet DEF LoneInv
  <2>6. ASSUME ~overlap
        PROVE  Reads(Path)' = Reads(Path)
    <3>1. i = dir[Tmp]
      BY <1>3, <2>2, <2>6 DEF SaveInv, WholeInv, LoneInv
    <3>2. dir[Path] # i
      BY <2>2, <3>1 DEF SaveInv, FilesInv
    <3> QED
      BY <1>1, <2>3, <3>2, EntriesDiffer DEF Reads
  <2>7. WholeInv'
    BY <1>1, <2>6 DEF SaveInv, WholeInv
  <2> QED
    BY <2>4, <2>5, <2>6, <2>7 DEF SaveInv
<1> QED
  BY <1>1, <1>2, <1>3

LEMMA CrashStep ==
  ASSUME TypeOK, SaveInv, Crash
  PROVE  SaveInv' /\ Reads(Path)' = Reads(Path)
<1>1. /\ dir' = dir /\ overlap' = overlap /\ met' = {} /\ Saving' = {}
      /\ \A r \in Run : fd'[r] = Nothing
      /\ content' = Kept(content, dir, fd')
  BY DEF Crash, Saving
<1>2. \A e \in Entry : dir[e] # Nothing => content'[dir[e]] = content[dir[e]]
  <2> SUFFICES ASSUME NEW e \in Entry, dir[e] # Nothing
               PROVE  content'[dir[e]] = content[dir[e]]
    OBVIOUS
  <2>1. dir[e] \in Inode
    BY DEF TypeOK
  <2> QED
    BY <1>1, <2>1, KeptLinked
<1>3. Reads(Path)' = Reads(Path)
  BY <1>1, <1>2, EntriesDiffer DEF Reads
<1> QED
  BY <1>1, <1>2, <1>3 DEF SaveInv, FilesInv, LoneInv, WholeInv

LEMMA SaveInvHolds == Spec => []SaveInv
<1>1. Init => SaveInv
  BY EntriesDiffer DEF Init, SaveInv, FilesInv, LoneInv, WholeInv, Saving, Reads
<1>2. TypeOK /\ SaveInv /\ [Next]_vars => SaveInv'
  <2>1. ASSUME SaveInv, UNCHANGED vars
        PROVE  SaveInv'
    BY <2>1 DEF SaveInv, FilesInv, LoneInv, WholeInv, Saving, Reads, vars
  <2> QED
    BY <2>1, QuietStep, OpenStep, WriteStep, RenameStep, FailStep, CrashStep DEF Next, Step
<1> QED
  BY <1>1, <1>2, TypeOKHolds, PTL DEF Spec

-----------------------------------------------------------------------------
(* The theorems.                                                           *)

\* However many runs there are and whatever earlier ones left behind, a run
\* whose save no other overlaps finds the file it is about to rename, and
\* while no two have overlapped active.yaml is whole.
THEOREM LoneRunsGoOn == Spec => []LoneRunGoesOn
<1>1. TypeOK /\ SaveInv => LoneRunGoesOn
  <2> SUFFICES ASSUME TypeOK, SaveInv
               PROVE  LoneRunGoesOn
    OBVIOUS
  <2>1. ASSUME NEW r \in Run \ met, pc[r] = "rename"
        PROVE  dir[Tmp] # Nothing
    <3>1. Reads(Tmp) = call[r] /\ call[r] \in Content
      BY <2>1 DEF SaveInv, LoneInv, Saving, TypeOK
    <3> QED
      BY <3>1 DEF Reads
  <2> QED
    BY <2>1 DEF LoneRunGoesOn, Refused, SaveInv, WholeInv
<1> QED
  BY <1>1, TypeOKHolds, SaveInvHolds, PTL

\* And when such a save is through, active.yaml is what it saved.
THEOREM LoneSavesInstall == Spec => LoneSaveInstalls
<1>1. TypeOK /\ SaveInv /\ [Next]_vars =>
        [ \A r \in Run : pc[r] = "rename" /\ pc'[r] = "saved" /\ r \notin met
            => Reads(Path)' = call[r] ]_vars
  <2> SUFFICES ASSUME TypeOK, SaveInv, Next,
                      NEW r \in Run, pc[r] = "rename", pc'[r] = "saved", r \notin met
               PROVE  Reads(Path)' = call[r]
    OBVIOUS
  <2>1. RenameTmp(r)
    BY DEF Next, Step, Load, LoadFails, Save, OpenTmp, WriteTmp, RenameTmp, SaveFails, Leave,
           Crash, Goto, TypeOK
  <2> QED
    BY <2>1, RenameStep
<1> QED
  BY <1>1, TypeOKHolds, SaveInvHolds, PTL DEF Spec, LoneSaveInstalls

LEMMA AtomicStep ==
  ASSUME TypeOK, SaveInv, Next, ~overlap
  PROVE  AtomicActive!Next
<1>1. met = {}
  BY DEF SaveInv, WholeInv
<1>2. ASSUME NEW r \in Run, Save(r)
      PROVE  AtomicActive!Next
  <2>1. PICK c \in Content : call' = [call EXCEPT ![r] = c]
    BY <1>2 DEF Save
  <2>2. pc[r] \notin {"open", "write", "rename"} /\ pc' = [pc EXCEPT ![r] = "open"]
        /\ Reads(Path)' = Reads(Path)
    BY <1>2 DEF Save, Goto, Reads
  <2>3. Pending' = Pending \cup {c}
    BY <2>1, <2>2 DEF Pending, TypeOK
  <2> QED
    BY <2>2, <2>3 DEF AtomicActive!Next, AtomicActive!Ask
<1>3. ASSUME NEW r \in Run, RenameTmp(r)
      PROVE  AtomicActive!Next
  <2>1. Reads(Path)' = call[r]
    BY <1>1, <1>3, RenameStep
  <2>2. call[r] \in Pending
    BY <1>3 DEF RenameTmp, Pending
  <2>3. Pending' \subseteq Pending
    BY <1>3 DEF RenameTmp, Goto, Pending, TypeOK
  <2> QED
    BY <2>1, <2>2, <2>3 DEF AtomicActive!Next, AtomicActive!Replace
<1>4. ASSUME NEW r \in Run, Load(r) \/ LoadFails(r) \/ OpenTmp(r) \/ WriteTmp(r)
                                    \/ SaveFails(r) \/ Leave(r)
      PROVE  AtomicActive!Next
  <2>1. Reads(Path)' = Reads(Path)
    <3>1. CASE Load(r) \/ LoadFails(r) \/ Leave(r)
      BY <3>1 DEF Load, LoadFails, Leave, Reads
    <3>2. CASE OpenTmp(r) \/ WriteTmp(r) \/ SaveFails(r)
      BY <1>1, <3>2, OpenStep, WriteStep, FailStep
    <3> QED
      BY <1>4, <3>1, <3>2
  <2>2. \A o \in Run : pc'[o] \in {"open", "write", "rename"} =>
          pc[o] \in {"open", "write", "rename"} /\ call'[o] = call[o]
    BY <1>4 DEF Load, LoadFails, OpenTmp, WriteTmp, SaveFails, Leave, Goto, TypeOK
  <2>3. Pending' \subseteq Pending
    BY <2>2 DEF Pending
  <2> QED
    BY <2>1, <2>3 DEF AtomicActive!Next, AtomicActive!GiveUp
<1>5. CASE Crash
  <2>1. Pending' = {}
    BY <1>5 DEF Crash, Pending
  <2> QED
    BY <1>5, <2>1, CrashStep DEF AtomicActive!Next, AtomicActive!GiveUp
<1> QED
  BY <1>2, <1>3, <1>4, <1>5 DEF Next, Step

\* writeAtomic is what its name and state.go's package comment say, for any
\* number of runs, crashes and failures, until two saves overlap.
THEOREM SaveIsAtomic == Spec => ImplementsAtomicFile
<1>1. Init => AtomicActive!Init
  <2> SUFFICES ASSUME Init
               PROVE  AtomicActive!Init
    OBVIOUS
  <2>1. Reads(Path) = Nothing /\ Pending = {} /\ overlap = FALSE
    BY EntriesDiffer DEF Init, Reads, Pending
  <2> QED
    BY <2>1 DEF AtomicActive!Init
<1>2. TypeOK /\ SaveInv /\ [Next]_vars =>
        [overlap \/ AtomicActive!Next]_(AtomicActive!vars)
  <2>1. ASSUME UNCHANGED vars
        PROVE  UNCHANGED AtomicActive!vars
    <3>1. Reads(Path)' = Reads(Path) /\ Pending' = Pending
      BY <2>1 DEF vars, Reads, Pending
    <3> QED
      BY <2>1, <3>1 DEF vars, AtomicActive!vars
  <2> QED
    BY <2>1, AtomicStep
<1> QED
  BY <1>1, <1>2, TypeOKHolds, SaveInvHolds, PTL DEF Spec, ImplementsAtomicFile, AtomicActive!Spec
=============================================================================
