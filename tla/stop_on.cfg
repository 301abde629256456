SPECIFICATION Spec
CONSTANTS
  u = u
  a = a
  w = w
  original = original
  reordered = reordered
  NoSegment = NoSegment
  Initial = Initial
  Missing = Missing
  NoConfig = NoConfig
  NoResult = NoResult
  Skipped = Skipped
  UpdateSegment = u
  Name <- MCName
  Config <- MCConfig
  Declared <- MCDeclared
  Wireless <- MCWireless
  Native <- MCNative
  Loadable <- MCConfig
  Reporting = {}
  IfaceName <- MCIfaceName
  Outages <- MCOutages
  OperatorPoints = {"check", "delay", "parked", "halted"}
  StopOnChoices = {a, NoSegment}
  Faults = {}
  MaxCrashes = 0
INVARIANT
  StopOnKept
