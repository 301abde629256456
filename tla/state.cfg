SPECIFICATION Spec
CONSTANTS
  c1 = c1
  c2 = c2
  i1 = i1
  i2 = i2
  i3 = i3
  i4 = i4
  i5 = i5
  unit = unit
  hand = hand
  hand2 = hand2
  Empty = Empty
  Torn = Torn
  Nothing = Nothing
  Content <- MCContent
  Run <- MCRun
  Inode <- MCInode
  IoMayFail = TRUE
SYMMETRY MCSymmetry
INVARIANTS
  TypeOK
  LoneRunGoesOn
PROPERTIES
  LoneSaveInstalls
  ImplementsAtomicFile
