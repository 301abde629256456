SPECIFICATION Spec
CONSTANTS
  system = system
  dns1 = dns1
  bogus = bogus
  gw = gw
  gwBare = gwBare
  self = self
  domain = domain
  a4 = a4
  b4 = b4
  a6 = a6
  None = None
  Usable = {system, dns1}
  Family <- MCFamily
  Absolute <- MCAbsolute
  SelfFQDN <- MCSelfFQDN
  Worlds <- MCWorlds
  Segments <- MCSegments
  MaxAttempts = 3
INVARIANTS
  TypeOK
  PassIsEvidence
  NoFalseAlarm
PROPERTY
  RunEnds
