----------------------------- MODULE AtomicFile -----------------------------
(***************************************************************************)
(* What "written atomically" promises of a file, to whoever reads it at    *)
(* any moment: it always has one complete content, which only changes, in  *)
(* one step, to a content somebody has asked for and that was not given up *)
(* since.  The promise is void once two writers shared a temporary file.   *)
(***************************************************************************)
CONSTANT Content

VARIABLES file,   \* the content a reader gets
          asked,  \* the contents that may still be put there
          void    \* no promise any more

vars == <<file, asked, void>>

TypeOK == file \in Content /\ asked \subseteq Content /\ void \in BOOLEAN

Init == file \in Content /\ asked = {} /\ void = FALSE

Ask ==
  /\ \E c \in Content : asked' = asked \cup {c}
  /\ UNCHANGED file

Replace ==
  /\ file' \in asked
  /\ asked' \subseteq asked

\* Done, failed, or killed: before or after the replacement, never halfway.
GiveUp ==
  /\ asked' \subseteq asked
  /\ UNCHANGED file

Next == ~void /\ (void' \/ Ask \/ Replace \/ GiveUp)

Spec == Init /\ [][void \/ Next]_vars
=============================================================================
