SPECIFICATION Spec
CONSTANTS
  u = u
  a = a
  b = b
  w = w
  original = original
  radios = radios
  rejected = rejected
  noUpdate = noUpdate
  NoSegment = NoSegment
  Initial = Initial
  Missing = Missing
  NoConfig = NoConfig
  NoResult = NoResult
  Skipped = Skipped
  UpdateSegment = u
  Name <- MCName
  Config <- MCConfig
  Declared <- MCDeclared
  Wireless <- MCWireless
  Native <- MCNative
  Loadable <- MCLoadable
  Reporting = {}
  IfaceName <- MCIfaceName
  Outages <- MCOutages
  OperatorPoints = {"delay", "parked", "halted"}
  StopOnChoices = {b, NoSegment}
  Faults = {"io", "wipe"}
  MaxCrashes = 1
INVARIANTS
  TypeOK
  BadCommitRecoverable
PROPERTIES
  LapComplete
  MeasurementKept
  ImplementsSegmentCycle
