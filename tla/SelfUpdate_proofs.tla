-------------------------- MODULE SelfUpdate_proofs --------------------------
(***************************************************************************)
(* Theorems about SelfUpdate, for every set of commits, every schedule of  *)
(* pushes and every choice of what crashes, hangs and fails.               *)
(***************************************************************************)
EXTENDS SelfUpdate, TLAPS

USE RevisionAssumption

LEMMA TypeOKStep ==
  ASSUME TypeOK, Next
  PROVE  TypeOK'
<1> USE DEF TypeOK, disk, PC, Caller
<1>1. CASE Clone \/ Fetch \/ Compare
  BY <1>1 DEF Clone, Fetch, Compare, UpToDate
<1>2. CASE Build \/ Replace \/ WriteUnit \/ Enable
  BY <1>2 DEF Build, Replace, WriteUnit, Enable
<1>3. CASE FetchOrBuildFails \/ InstallFails \/ CommandHangs \/ RemoveCheckout
  BY <1>3 DEF FetchOrBuildFails, InstallFails, CommandHangs, RemoveCheckout
<1>4. CASE Reboot \/ Crash \/ SwitchOff
  <2>1. Boot /\ events' \in 0 .. MaxEvents /\ checkout' \in Revision \cup {NoFile, Broken}
    BY <1>4 DEF Reboot, Crash, SwitchOff, Interrupted
  <2> QED
    BY <2>1 DEF Boot
<1>5. CASE Push
  BY <1>5 DEF Push
<1>6. CASE DeployByHand
  <2>1. built' \in Revision /\ pc' = "replace" /\ caller' = "hand" /\ updated' = FALSE
    BY <1>6 DEF DeployByHand
  <2>2. events' \in 0 .. MaxEvents
    BY <1>6 DEF DeployByHand
  <2>3. UNCHANGED <<remote, checkout, binary, unit, enabled, running>>
    BY <1>6 DEF DeployByHand
  <2> QED
    BY <2>1, <2>2, <2>3
<1> QED
  BY <1>1, <1>2, <1>3, <1>4, <1>5, <1>6 DEF Next, Step

\* Every variable keeps its type, and what is installed has been built.
THEOREM SelfUpdateTypeCorrect == Spec => []TypeOK
<1>1. Init => TypeOK
  <2>1. Init => events \in 0 .. MaxEvents
    BY DEF Init
  <2> QED
    BY <2>1 DEF Init, TypeOK, PC, Caller
<1>2. TypeOK /\ UNCHANGED vars => TypeOK'
  BY DEF TypeOK, vars, disk
<1> QED
  BY <1>1, <1>2, TypeOKStep, PTL DEF Spec

LEMMA InstallInvStep ==
  ASSUME TypeOK, InstallInv, Next
  PROVE  InstallInv'
<1> USE DEF InstallInv, UpdatedMeansDeployed, disk
<1>1. CASE Clone \/ Fetch \/ Compare
  BY <1>1 DEF Clone, Fetch, Compare
<1>2. CASE Build \/ Replace \/ WriteUnit
  BY <1>2 DEF Build, Replace, WriteUnit
<1>3. CASE Enable
  BY <1>3 DEF Enable
<1>4. CASE FetchOrBuildFails \/ InstallFails \/ CommandHangs
  BY <1>4 DEF FetchOrBuildFails, InstallFails, CommandHangs
<1>5. CASE Reboot \/ Crash \/ SwitchOff
  BY <1>5 DEF Reboot, Crash, SwitchOff, Boot
<1>6. CASE Push
  BY <1>6 DEF Push
<1>7. CASE DeployByHand
  BY <1>7 DEF DeployByHand
<1>8. CASE RemoveCheckout
  BY <1>8 DEF RemoveCheckout, TypeOK
<1> QED
  BY <1>1, <1>2, <1>3, <1>4, <1>5, <1>6, <1>7, <1>8 DEF Next, Step

\* A result that says Updated is never recorded for a half-finished update:
\* binary and unit file both come from the checkout, whatever is pushed,
\* fails or crashes.
THEOREM UpdatedIsDeployed == Spec => []UpdatedMeansDeployed
<1>1. Init => InstallInv
  BY DEF Init, InstallInv, UpdatedMeansDeployed
<1>2. InstallInv /\ UNCHANGED vars => InstallInv'
  BY DEF InstallInv, UpdatedMeansDeployed, vars, disk
<1>3. InstallInv => UpdatedMeansDeployed
  BY DEF InstallInv
<1> QED
  BY <1>1, <1>2, <1>3, InstallInvStep, SelfUpdateTypeCorrect, PTL DEF Spec

LEMMA DeployInvStep ==
  ASSUME TypeOK, DeployInv, Next
  PROVE  DeployInv' /\ (enabled => enabled')
<1> USE DEF DeployInv, disk
<1>1. CASE Clone \/ Fetch \/ Compare
  BY <1>1 DEF Clone, Fetch, Compare
<1>2. CASE Build
  BY <1>2 DEF Build
<1>3. CASE Replace \/ WriteUnit \/ Enable
  BY <1>3 DEF Replace, WriteUnit, Enable, TypeOK
<1>4. CASE FetchOrBuildFails \/ InstallFails \/ CommandHangs
  BY <1>4 DEF FetchOrBuildFails, InstallFails, CommandHangs
<1>5. CASE Reboot \/ Crash \/ SwitchOff
  BY <1>5 DEF Reboot, Crash, SwitchOff, Boot
<1>6. CASE Push
  BY <1>6 DEF Push
<1>7. CASE DeployByHand
  BY <1>7 DEF DeployByHand
<1>8. CASE RemoveCheckout
  BY <1>8 DEF RemoveCheckout, TypeOK
<1> QED
  BY <1>1, <1>2, <1>3, <1>4, <1>5, <1>6, <1>7, <1>8 DEF Next, Step

\* Once deploy has enabled the unit, no power loss, failed update or deploy
\* by hand ever leaves a box on which nothing starts.
THEOREM DeployedAlwaysStarts == Spec => OnceDeployedAlwaysStarts
<1>1. Init => DeployInv
  BY DEF Init, DeployInv
<1>2. TypeOK /\ DeployInv /\ [Next]_vars => DeployInv' /\ (enabled => enabled')
  BY DeployInvStep DEF DeployInv, vars, disk
<1>3. DeployInv => (enabled => pc # "dead")
  BY DEF DeployInv
<1> QED
  BY <1>1, <1>2, <1>3, SelfUpdateTypeCorrect, PTL DEF Spec, OnceDeployedAlwaysStarts
=============================================================================
