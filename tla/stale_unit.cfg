SPECIFICATION FairSpec
CONSTANTS
  good = good
  broken = broken
  unstamped = unstamped
  NoFile = NoFile
  Broken = Broken
  Revision <- MCRevision
  Buildable <- MCBuildable
  Unstamped <- MCUnstamped
  CrashIn = {"update"}
  FailIn = {}
  MaxEvents = 1
PROPERTY
  UnitFollows
