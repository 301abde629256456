SPECIFICATION FairSpec
CONSTANTS
  u = u
  a = a
  w = w
  original = original
  reordered = reordered
  NoSegment = NoSegment
  Initial = Initial
  Missing = Missing
  NoConfig = NoConfig
  NoResult = NoResult
  Skipped = Skipped
  UpdateSegment = u
  Name <- MCName
  Config <- MCConfig
  Declared <- MCDeclared
  Wireless <- MCWireless
  Native <- MCNative
  Loadable <- MCConfig
  Reporting <- MCConfig
  IfaceName <- MCIfaceName
  Outages <- MCOutages
  OperatorPoints = {}
  StopOnChoices = {}
  Faults = {"skipSave"}
  MaxCrashes = 2
INVARIANTS
  NeverHalted
  NetplanOneAdvanceAhead
  MisfiledIsNear
PROPERTIES
  WiredSegmentsTested
  MisattributionHeals
  LastCommitArrives
