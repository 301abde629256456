---------------------------- MODULE NetplanWrite ----------------------------
(***************************************************************************)
(* netplan.Write, opened up: the system calls with which it replaces       *)
(* /etc/netplan/90-mseg-tester.yaml, on directory entries and inodes.  The *)
(* render goes into <path>.<segment>.tmp, is renamed to <path>.<segment>,  *)
(* hard-linked as <path>.link-tmp and renamed over <path>, which the next  *)
(* boot reads.  Power can go at every step and leaves the directory as it  *)
(* is; RebootCycle's WriteNetplan is the whole of it in one step.  Nothing *)
(* keeps a run started by hand from being in Write beside the unit's.      *)
(***************************************************************************)
EXTENDS FiniteSets

CONSTANTS
  Render,      \* Render's results: a segment, and a variant for what else it
               \* depends on, the config and the radios to disable
  Writer,      \* the runs that may be in Write at a time
  Inode,
  IoMayFail,   \* system calls fail for reasons of their own
  Partial,     \* the content of a file being written
  Nothing

Segment == {r.segment : r \in Render}

\* Directory entries.
Path == <<"90-mseg-tester.yaml">>
LinkTmp == <<"90-mseg-tester.yaml.link-tmp">>
SegFile(s) == <<s, "file">>

\* Bug: one temporary file for all segments.
OneTmp(s) == <<"90-mseg-tester.yaml.tmp">>
SegTmp(s) == <<s, "tmp">>

Entry == {Path, LinkTmp} \cup {SegFile(s) : s \in Segment} \cup {SegTmp(s) : s \in Segment}

PC == {"idle", "open", "write", "rename", "unlink", "link", "install", "written", "failed"}

ASSUME CallAssumption ==
  /\ IoMayFail \in BOOLEAN
  /\ Partial \notin Render /\ Nothing \notin Render \cup Inode \cup {Partial}

VARIABLES
  dir,      \* Entry -> inode, or Nothing
  content,  \* inode -> what it holds; Nothing if the inode is free
  pc,       \* where each writer is in Write
  call,     \* the render each writer was called with
  fd,       \* the inode each writer has open
  overlap   \* history: whether writers met in Write, see Meets

vars == <<dir, content, pc, call, fd, overlap>>

TypeOK ==
  /\ dir \in [Entry -> Inode \cup {Nothing}]
  /\ content \in [Inode -> Render \cup {Partial, Nothing}]
  /\ pc \in [Writer -> PC]
  /\ call \in [Writer -> Render \cup {Nothing}]
  /\ fd \in [Writer -> Inode \cup {Nothing}]
  /\ overlap \in {"none", "segments", "file"}
  /\ \A w \in Writer :
       /\ pc[w] # "idle" => call[w] \in Render
       /\ pc[w] = "write" => fd[w] \in Inode

-----------------------------------------------------------------------------
(* The system calls.                                                       *)

Free == {i \in Inode : content[i] = Nothing}

\* The inode an open with O_CREATE gets: the existing one or a free one.
Opened(e) ==
  IF dir[e] # Nothing THEN {dir[e]} ELSE Free

\* The directory becomes d: an inode neither linked nor open is freed.
Relink(d) ==
  /\ dir' = d
  /\ content' = [i \in Inode |->
       IF (\E e \in Entry : i = d[e]) \/ (\E w \in Writer : i = fd[w])
       THEN content[i] ELSE Nothing]

\* rename(2) moves an entry over another; if both are links to one inode it
\* does nothing.
Renamed(from, to) ==
  IF dir[from] = dir[to] THEN dir
  ELSE [dir EXCEPT ![to] = dir[from], ![from] = Nothing]

Goto(w, label) == pc' = [pc EXCEPT ![w] = label]

-----------------------------------------------------------------------------
(* The steps of Write.                                                     *)

\* What of overlap is left when w asks for r: writers of two segments only
\* meet for as long as one is in Write, writers of one segment share its
\* temporary file, and may leave what they made of it behind.
Meets(w, r) ==
  LET others == {o \in Writer \ {w} : pc[o] # "idle"} IN
  IF overlap = "file" \/ \E o \in others : call[o].segment = r.segment THEN "file"
  ELSE IF others = {} THEN "none" ELSE "segments"

Call(w) ==
  /\ pc[w] = "idle"
  /\ \E r \in Render :
       /\ call' = [call EXCEPT ![w] = r]
       /\ overlap' = Meets(w, r)
  /\ Goto(w, "open")
  /\ UNCHANGED <<dir, content, fd>>

\* Bug: the segment's own file is written in place.
OpenInPlace(w) ==
  LET own == SegFile(call[w].segment) IN
  /\ pc[w] = "open"
  /\ \E i \in Opened(own) :
       /\ dir' = [dir EXCEPT ![own] = i]
       /\ content' = [content EXCEPT ![i] = Partial]
       /\ fd' = [fd EXCEPT ![w] = i]
  /\ Goto(w, "write")
  /\ UNCHANGED <<call, overlap>>

\* Bug: the open file is not kept.
OpenLosesFile(w) ==
  LET tmp == SegTmp(call[w].segment) IN
  /\ pc[w] = "open"
  /\ \E i \in Opened(tmp) :
       /\ dir' = [dir EXCEPT ![tmp] = i]
       /\ content' = [content EXCEPT ![i] = Partial]
  /\ Goto(w, "write")
  /\ UNCHANGED <<call, fd, overlap>>

\* os.WriteFile opens with O_CREATE and O_TRUNC: a file left by an earlier
\* run is emptied in place.
OpenTmp(w) ==
  LET tmp == SegTmp(call[w].segment) IN
  /\ pc[w] = "open"
  /\ \E i \in Opened(tmp) :
       /\ dir' = [dir EXCEPT ![tmp] = i]
       /\ content' = [content EXCEPT ![i] = Partial]
       /\ fd' = [fd EXCEPT ![w] = i]
  /\ Goto(w, "write")
  /\ UNCHANGED <<call, overlap>>

WriteTmp(w) ==
  /\ pc[w] = "write"
  /\ content' = [content EXCEPT ![fd[w]] = call[w]]
  /\ fd' = [fd EXCEPT ![w] = Nothing]
  /\ Goto(w, "rename")
  /\ UNCHANGED <<dir, call, overlap>>

RenameTmp(w) ==
  LET s == call[w].segment IN
  /\ pc[w] = "rename"
  /\ dir[SegTmp(s)] # Nothing
  /\ Relink(Renamed(SegTmp(s), SegFile(s)))
  /\ Goto(w, "unlink")
  /\ UNCHANGED <<call, fd, overlap>>

\* Bug: the stale link of an interrupted run is not looked for.
KeepStaleLink(w) ==
  /\ pc[w] = "unlink"
  /\ Goto(w, "link")
  /\ UNCHANGED <<dir, content, call, fd, overlap>>

\* `_ = os.Remove(linkTmp)`: the leftover of an interrupted run, if any.
RemoveStaleLink(w) ==
  /\ pc[w] = "unlink"
  /\ Relink([dir EXCEPT ![LinkTmp] = Nothing])
  /\ Goto(w, "link")
  /\ UNCHANGED <<call, fd, overlap>>

Link(w) ==
  LET s == call[w].segment IN
  /\ pc[w] = "link"
  /\ dir[SegFile(s)] # Nothing /\ dir[LinkTmp] = Nothing
  /\ dir' = [dir EXCEPT ![LinkTmp] = dir[SegFile(s)]]
  /\ Goto(w, "install")
  /\ UNCHANGED <<content, call, fd, overlap>>

\* Bug: an existing path is taken for the link to make.
KeepPath(w) ==
  /\ pc[w] = "install"
  /\ dir[LinkTmp] # Nothing
  /\ Relink(IF dir[Path] = Nothing THEN Renamed(LinkTmp, Path) ELSE dir)
  /\ Goto(w, "written")
  /\ UNCHANGED <<call, fd, overlap>>

RenameLink(w) ==
  /\ pc[w] = "install"
  /\ dir[LinkTmp] # Nothing
  /\ Relink(Renamed(LinkTmp, Path))
  /\ Goto(w, "written")
  /\ UNCHANGED <<call, fd, overlap>>

\* The name to rename is gone, or the link to create is there already.
Refused(w) ==
  \/ pc[w] = "rename" /\ dir[SegTmp(call[w].segment)] = Nothing
  \/ pc[w] = "link" /\ (dir[SegFile(call[w].segment)] = Nothing \/ dir[LinkTmp] # Nothing)
  \/ pc[w] = "install" /\ dir[LinkTmp] = Nothing

\* Write returns an error, and run() with it.  An os.Remove that fails is
\* ignored: what it left in the way makes os.Link fail next.
CallFails(w) ==
  /\ pc[w] \in {"open", "write", "rename", "link", "install"}
  /\ IoMayFail \/ Refused(w)
  /\ Goto(w, "failed")
  /\ fd' = [fd EXCEPT ![w] = Nothing]
  /\ UNCHANGED <<dir, content, call, overlap>>

\* The writer's process ends, and a later one calls Write again.
Leave(w) ==
  /\ pc[w] \in {"written", "failed"}
  /\ Goto(w, "idle")
  /\ call' = [call EXCEPT ![w] = Nothing]
  /\ UNCHANGED <<dir, content, fd, overlap>>

\* Power loss: processes are gone, files stay as they are.
Crash ==
  /\ pc' = [w \in Writer |-> "idle"]
  /\ call' = [w \in Writer |-> Nothing]
  /\ fd' = [w \in Writer |-> Nothing]
  /\ UNCHANGED <<dir, content, overlap>>

-----------------------------------------------------------------------------

\* cloud-init wrote the first file by hand, for some segment.
Init ==
  /\ \E i \in Inode, r \in Render :
       /\ dir = [e \in Entry |-> IF e = Path THEN i ELSE Nothing]
       /\ content = [j \in Inode |-> IF j = i THEN r ELSE Nothing]
  /\ pc = [w \in Writer |-> "idle"]
  /\ call = [w \in Writer |-> Nothing]
  /\ fd = [w \in Writer |-> Nothing]
  /\ overlap = "none"

Step(w) == Call(w) \/ OpenTmp(w) \/ WriteTmp(w) \/ RenameTmp(w) \/ RemoveStaleLink(w)
           \/ Link(w) \/ RenameLink(w) \/ CallFails(w) \/ Leave(w)

Next == (\E w \in Writer : Step(w)) \/ Crash

Spec == Init /\ [][Next]_vars

-----------------------------------------------------------------------------
(* Properties.                                                             *)

\* What a reader of the entry e gets.
Reads(e) == IF dir[e] = Nothing THEN Nothing ELSE content[dir[e]]

\* What may still be installed: what writers were called with, and a link
\* that waits to be renamed, even if its writer has failed since.
Pending ==
  {call[w] : w \in {v \in Writer : pc[v] # "idle"}} \cup
  IF \E w \in Writer : pc[w] = "install" THEN {Reads(LinkTmp)} \ {Nothing} ELSE {}

\* "There's never a moment path is missing or points at a half-written
\* file", and the render changes at once, to one asked for: also when runs
\* for two segments are in Write at the same time.
AtomicPath == INSTANCE AtomicFile
  WITH Content <- Render, file <- Reads(Path), asked <- Pending, void <- overlap = "file"

ImplementsAtomicFile == AtomicPath!Spec

\* However many runs are in Write, even for one segment, the next boot finds
\* a netplan file.
PathStays == dir[Path] # Nothing

\* When a Write that met no other returns without an error, the next boot's
\* netplan is the one asked for, shared with the segment's own file.
WrittenIsInstalled ==
  overlap = "none" => \A w \in Writer : pc[w] = "written" =>
    /\ Reads(Path) = call[w]
    /\ dir[Path] = dir[SegFile(call[w].segment)]

\* Unless two runs wrote one segment's file at the same time, it holds a
\* complete render of that segment, whatever was interrupted: no write to
\* one segment's file shows up in another's, although files share inodes.
OwnFilesComplete ==
  overlap # "file" => \A s \in Segment :
    Reads(SegFile(s)) \in {Nothing} \cup {r \in Render : r.segment = s}

\* What an interrupted Write, or two that met, leave behind never makes a
\* later one fail.
LeftoversHarmless == overlap = "none" => \A w \in Writer : ~Refused(w)

-----------------------------------------------------------------------------
(* Why, as an inductive invariant.                                         *)

Active(w) == pc[w] # "idle"
Own(w) == SegFile(call[w].segment)
Tmp(w) == SegTmp(call[w].segment)

\* No inode of a temporary file has a second link, and every link is to an
\* inode in use.
LinksInv ==
  /\ \A s \in Segment : \A e \in Entry \ {SegTmp(s)} :
       dir[SegTmp(s)] # Nothing => dir[e] # dir[SegTmp(s)]
  /\ \A e \in Entry : dir[e] # Nothing => content[dir[e]] # Nothing

\* Outside temporary files there are only complete renders.
WholeInv ==
  /\ Reads(Path) \in Render
  /\ Reads(LinkTmp) \in Render \cup {Nothing}
  /\ \A s \in Segment : Reads(SegFile(s)) \in {Nothing} \cup {r \in Render : r.segment = s}

\* Where each writer's render is.
ProgressInv ==
  \A w \in Writer :
    /\ pc[w] = "write" => fd[w] = dir[Tmp(w)]
    /\ pc[w] = "rename" => Reads(Tmp(w)) = call[w]
    /\ pc[w] \in {"unlink", "link", "install", "written"} => Reads(Own(w)) = call[w]

\* A writer that meets no other finds its link as it left it.
AloneInv ==
  \A w \in Writer :
    /\ pc[w] = "link" => dir[LinkTmp] = Nothing
    /\ pc[w] = "install" => dir[LinkTmp] = dir[Own(w)]
    /\ pc[w] = "written" => dir[Path] = dir[Own(w)]

\* Writers that are in Write write different segments; there is one only.
Apart ==
  \A w, o \in Writer :
    Active(w) /\ Active(o) /\ call[w].segment = call[o].segment => w = o
Alone == \A w, o \in Writer : Active(w) /\ Active(o) => w = o

DisjointInv ==
  /\ Apart /\ LinksInv /\ WholeInv /\ ProgressInv
  /\ overlap = "none" => Alone /\ AloneInv

WriteInv == PathStays /\ (overlap # "file" => DisjointInv)
=============================================================================
