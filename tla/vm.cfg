SPECIFICATION FairSpec
CONSTANTS
  first = first
  second = second
  hex14c3 = hex14c3
  hex0x14c3 = hex0x14c3
  hex0616 = hex0616
  hex7925 = hex7925
  pass = pass
  None = None
  NoVm = NoVm
  Other = Other
  Altered = Altered
  Everything = Everything
  Missing = Missing
  Partial = Partial
  Disabled = Disabled
  Usable = {}
  Vmid = {first, second}
  Options <- MCOptions
  Files <- MCFiles
  UpdateSegment = "129"
  Address <- MCAddress
  ContentType = {"iso", "snippets"}
  MaxFaults = 1
INVARIANTS
  TypeOK
  StartAccepted
  ContentKept
PROPERTIES
  DoneMeansDone
  NeverStartsHalfMade
  MadeInTheEnd
