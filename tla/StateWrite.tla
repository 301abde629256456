----------------------------- MODULE StateWrite -----------------------------
(***************************************************************************)
(* state.LoadActive and SaveActive, opened up: the system calls with which *)
(* a run reads active.yaml and writeAtomic replaces it, on the two         *)
(* directory entries and inodes.  RebootCycle's LoadActive, SeedActive and *)
(* AdvanceActive are the unit's run alone, each in one step.  Here any     *)
(* number of runs are at it: nothing keeps one started by hand away from   *)
(* the unit's, and all of them write through one active.yaml.tmp.          *)
(* SaveResult writes each result file through the same writeAtomic.        *)
(***************************************************************************)
EXTENDS FiniteSets

CONSTANTS
  Content,     \* what a run may save: a marshalled state.Active
  Run,         \* the runs there may be at a time
  Inode,
  IoMayFail,   \* system calls fail for reasons of their own
  Empty,       \* the content of a file just truncated
  Torn,        \* a part of one content, or one written over another
  Nothing

Path == "active.yaml"
Tmp == "active.yaml.tmp"
Entry == {Path, Tmp}

PC == {"idle", "loaded", "open", "write", "rename", "saved", "failed"}

ASSUME ContentAssumption ==
  /\ IoMayFail \in BOOLEAN
  /\ Empty \notin Content /\ Torn \notin Content /\ Empty # Torn
  /\ Nothing \notin Content \cup Inode \cup {Empty, Torn}

VARIABLES
  dir,      \* Entry -> inode, or Nothing
  content,  \* inode -> what it holds; Nothing if the inode is free
  pc,       \* where each run is
  call,     \* what each run saves
  fd,       \* the inode each run has open
  met,      \* history: the runs whose present save overlapped another's
  overlap   \* history: some saves have overlapped

vars == <<dir, content, pc, call, fd, met, overlap>>

TypeOK ==
  /\ dir \in [Entry -> Inode \cup {Nothing}]
  /\ content \in [Inode -> Content \cup {Empty, Torn, Nothing}]
  /\ pc \in [Run -> PC]
  /\ call \in [Run -> Content \cup {Nothing}]
  /\ fd \in [Run -> Inode \cup {Nothing}]
  /\ met \subseteq Run
  /\ overlap \in BOOLEAN
  /\ \A r \in Run :
       /\ pc[r] \in {"open", "write", "rename"} => call[r] \in Content
       /\ pc[r] = "write" => fd[r] \in Inode

-----------------------------------------------------------------------------
(* The directory.                                                          *)

\* What a reader of the entry e gets.
Reads(e) == IF dir[e] = Nothing THEN Nothing ELSE content[dir[e]]

\* The inode an open with O_CREATE gets: the existing one or a free one.
Opened(e) ==
  IF dir[e] # Nothing THEN {dir[e]} ELSE {i \in Inode : content[i] = Nothing}

\* What inodes with the contents c hold once d is the directory and f the
\* files open: an inode neither linked nor open is freed.
Kept(c, d, f) ==
  [i \in Inode |-> IF (\E e \in Entry : d[e] = i) \/ (\E r \in Run : f[r] = i)
                   THEN c[i] ELSE Nothing]

\* What a write at the start of a file that holds c leaves of it: another
\* run may have written there since this one's open truncated it, and more.
Over(c, new) == {new} \cup (IF c \in {Empty, new} THEN {} ELSE {Torn})

Goto(r, label) == pc' = [pc EXCEPT ![r] = label]

-----------------------------------------------------------------------------
(* The steps of a run.                                                     *)

\* Bug: a run starts by removing what an interrupted one left.
LoadCleansUp(r) ==
  /\ pc[r] = "idle"
  /\ Reads(Path) \in Content \cup {Nothing, Torn}
  /\ dir' = [dir EXCEPT ![Tmp] = Nothing]
  /\ content' = Kept(content, dir', fd)
  /\ Goto(r, "loaded")
  /\ UNCHANGED <<call, fd, met, overlap>>

\* state.LoadActive: a complete content, or none, which means first boot.  A
\* torn one may still parse, and name a segment.
Load(r) ==
  /\ pc[r] = "idle"
  /\ Reads(Path) \in Content \cup {Nothing, Torn}
  /\ Goto(r, "loaded")
  /\ UNCHANGED <<dir, content, call, fd, met, overlap>>

\* An empty file parses, as the zero Active, whose segment no config declares;
\* a torn one may not parse or name anything.
LoadFails(r) ==
  /\ pc[r] = "idle"
  /\ Reads(Path) \in {Empty, Torn} \/ IoMayFail
  /\ Goto(r, "failed")
  /\ UNCHANGED <<dir, content, call, fd, met, overlap>>

\* The runs that are between the open and the rename of a save.
Saving == {o \in Run : pc[o] \in {"write", "rename"}}

\* SaveActive.  The run of a first boot comes here twice, to seed active.yaml
\* and to advance it; any other once.
Save(r) ==
  /\ pc[r] \in {"loaded", "saved"}
  /\ \E c \in Content : call' = [call EXCEPT ![r] = c]
  /\ Goto(r, "open")
  /\ met' = met \ {r}
  /\ UNCHANGED <<dir, content, fd, overlap>>

\* Whom r meets when it opens the temporary file.
MeetsAtOpen(r) ==
  /\ met' = IF Saving = {} THEN met ELSE met \cup Saving \cup {r}
  /\ overlap' = (overlap \/ Saving # {})

\* Bug: the file is written in place.
OpenInPlace(r) ==
  /\ pc[r] = "open"
  /\ \E i \in Opened(Path) :
       /\ dir' = [dir EXCEPT ![Path] = i]
       /\ content' = [content EXCEPT ![i] = Empty]
       /\ fd' = [fd EXCEPT ![r] = i]
  /\ MeetsAtOpen(r)
  /\ Goto(r, "write")
  /\ UNCHANGED call

\* Bug: a leftover is written over, not emptied.
OpenKeepsOld(r) ==
  /\ pc[r] = "open"
  /\ \E i \in Opened(Tmp) :
       /\ dir' = [dir EXCEPT ![Tmp] = i]
       /\ content' = [content EXCEPT ![i] = IF @ = Nothing THEN Empty ELSE @]
       /\ fd' = [fd EXCEPT ![r] = i]
  /\ MeetsAtOpen(r)
  /\ Goto(r, "write")
  /\ UNCHANGED call

\* Bug: the open file is not kept.
OpenLosesFile(r) ==
  /\ pc[r] = "open"
  /\ \E i \in Opened(Tmp) :
       /\ dir' = [dir EXCEPT ![Tmp] = i]
       /\ content' = [content EXCEPT ![i] = Empty]
  /\ MeetsAtOpen(r)
  /\ Goto(r, "write")
  /\ UNCHANGED <<call, fd>>

\* os.WriteFile opens with O_CREATE and O_TRUNC: a leftover, or the file
\* another run is about to rename, is emptied in place.
OpenTmp(r) ==
  /\ pc[r] = "open"
  /\ \E i \in Opened(Tmp) :
       /\ dir' = [dir EXCEPT ![Tmp] = i]
       /\ content' = [content EXCEPT ![i] = Empty]
       /\ fd' = [fd EXCEPT ![r] = i]
  /\ MeetsAtOpen(r)
  /\ Goto(r, "write")
  /\ UNCHANGED call

\* The file r has open may be active.yaml itself by now.
WriteTmp(r) ==
  /\ pc[r] = "write"
  /\ fd' = [fd EXCEPT ![r] = Nothing]
  /\ \E c \in Over(content[fd[r]], call[r]) :
       content' = Kept([content EXCEPT ![fd[r]] = c], dir, fd')
  /\ Goto(r, "rename")
  /\ UNCHANGED <<dir, call, met, overlap>>

\* os.Rename, onto active.yaml.
RenameTmp(r) ==
  /\ pc[r] = "rename"
  /\ dir[Tmp] # Nothing
  /\ dir' = [dir EXCEPT ![Path] = dir[Tmp], ![Tmp] = Nothing]
  /\ content' = Kept(content, dir', fd)
  /\ Goto(r, "saved")
  /\ UNCHANGED <<call, fd, met, overlap>>

\* Another run has renamed the file r wants to rename.
Refused(r) == pc[r] = "rename" /\ dir[Tmp] = Nothing

\* writeAtomic returns an error, and run() with it: the unit has failed.  A
\* write that fails may have written a part.
SaveFails(r) ==
  /\ pc[r] \in {"open", "write", "rename"}
  /\ IoMayFail \/ Refused(r)
  /\ fd' = [fd EXCEPT ![r] = Nothing]
  /\ IF pc[r] = "write"
     THEN \E c \in {content[fd[r]], Torn} :
            content' = Kept([content EXCEPT ![fd[r]] = c], dir, fd')
     ELSE UNCHANGED content
  /\ Goto(r, "failed")
  /\ UNCHANGED <<dir, call, met, overlap>>

\* The process ends, and a later one loads.  A run that parks, or fails for
\* another reason, ends without a save, or without its second one.
Leave(r) ==
  /\ pc[r] \in {"loaded", "saved", "failed"}
  /\ Goto(r, "idle")
  /\ call' = [call EXCEPT ![r] = Nothing]
  /\ met' = met \ {r}
  /\ UNCHANGED <<dir, content, fd, overlap>>

\* Power loss or a reboot: processes are gone, files stay as they are.
Crash ==
  /\ pc' = [r \in Run |-> "idle"]
  /\ call' = [r \in Run |-> Nothing]
  /\ fd' = [r \in Run |-> Nothing]
  /\ met' = {}
  /\ content' = Kept(content, dir, fd')
  /\ UNCHANGED <<dir, overlap>>

-----------------------------------------------------------------------------

\* A fresh box has no active.yaml.
Init ==
  /\ dir = [e \in Entry |-> Nothing]
  /\ content = [i \in Inode |-> Nothing]
  /\ pc = [r \in Run |-> "idle"]
  /\ call = [r \in Run |-> Nothing]
  /\ fd = [r \in Run |-> Nothing]
  /\ met = {}
  /\ overlap = FALSE

Step(r) == Load(r) \/ LoadFails(r) \/ Save(r) \/ OpenTmp(r) \/ WriteTmp(r)
           \/ RenameTmp(r) \/ SaveFails(r) \/ Leave(r)

Next == (\E r \in Run : Step(r)) \/ Crash

Spec == Init /\ [][Next]_vars

-----------------------------------------------------------------------------
(* Properties.                                                             *)

\* What may still be installed.
Pending == {call[r] : r \in {o \in Run : pc[o] \in {"open", "write", "rename"}}}

\* "A power loss mid-write never leaves a half-written, unparseable file
\* behind", and active.yaml changes at once, to what some run is saving --
\* as long as no two saves overlap: the code does not promise more, although
\* the comment has no such exception.
AtomicActive == INSTANCE AtomicFile
  WITH Content <- Content \cup {Nothing},
       file <- Reads(Path),
       asked <- Pending,
       void <- overlap

ImplementsAtomicFile == AtomicActive!Spec

\* A save that no other overlaps installs what it was called with, whatever
\* earlier runs that met, failed or lost power have left in the directory.
LoneSaveInstalls ==
  [][ \A r \in Run : pc[r] = "rename" /\ pc'[r] = "saved" /\ r \notin met
        => Reads(Path)' = call[r] ]_vars

\* And it is not refused, and finds nobody else's file under its name: only
\* a run that another one met ends in an error with nothing wrong with the
\* disk.
LoneRunGoesOn ==
  /\ \A r \in Run \ met : ~Refused(r)
  /\ ~overlap => Reads(Path) \in Content \cup {Nothing}

-----------------------------------------------------------------------------
(* Why, as an inductive invariant.                                         *)

\* Files are open only between open and write, the two entries are never one
\* file, and what is linked is in use.
FilesInv ==
  /\ \A r \in Run : fd[r] # Nothing => pc[r] = "write"
  /\ dir[Tmp] # Nothing => dir[Path] # dir[Tmp]
  /\ \A e \in Entry : dir[e] # Nothing => content[dir[e]] # Nothing

\* A save that met no other is the only one, and has its temporary file as it
\* left it.
LoneInv ==
  \A r \in Saving \ met :
    /\ Saving = {r}
    /\ pc[r] = "write" => fd[r] = dir[Tmp] /\ Reads(Tmp) = Empty
    /\ pc[r] = "rename" => Reads(Tmp) = call[r]

WholeInv == ~overlap => met = {} /\ Reads(Path) \in Content \cup {Nothing}

SaveInv == FilesInv /\ LoneInv /\ WholeInv
=============================================================================
