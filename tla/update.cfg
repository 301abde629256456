SPECIFICATION FairSpec
CONSTANTS
  good = good
  broken = broken
  unstamped = unstamped
  NoFile = NoFile
  Broken = Broken
  Revision <- MCRevision
  Buildable <- MCBuildable
  Unstamped <- MCUnstamped
  CrashIn = {"bootstrap", "update", "hand"}
  FailIn = {"bootstrap", "update", "hand"}
  MaxEvents = 3
INVARIANTS
  TypeOK
  UpdatedMeansDeployed
PROPERTIES
  OnceDeployedAlwaysStarts
  LastPushArrives
  RebuildsStop
