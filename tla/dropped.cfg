SPECIFICATION Spec
CONSTANTS
  u = u
  a = a
  w = w
  good = good
  dropped = dropped
  NoSegment = NoSegment
  Initial = Initial
  Missing = Missing
  NoConfig = NoConfig
  NoResult = NoResult
  Skipped = Skipped
  UpdateSegment = u
  Name <- MCName
  Config <- MCConfig
  Declared <- MCDeclared
  Wireless <- MCWireless
  Native <- MCNative
  Loadable <- MCConfig
  Reporting = {}
  IfaceName <- MCIfaceName
  Outages <- MCOutages
  OperatorPoints = {"delay", "parked", "halted"}
  StopOnChoices = {}
  Faults = {}
  MaxCrashes = 0
INVARIANT
  HaltedWhereCommitsReach
