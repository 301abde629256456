SPECIFICATION Spec
CONSTANTS
  u = u
  unit = unit
  hand = hand
  a = a
  v1 = v1
  v2 = v2
  i1 = i1
  i2 = i2
  i3 = i3
  i4 = i4
  i5 = i5
  Partial = Partial
  Nothing = Nothing
  Render <- MCRender
  Inode <- MCInode
  Writer <- MCWriter
  IoMayFail = TRUE
SYMMETRY MCSymmetry
INVARIANTS
  TypeOK
  WrittenIsInstalled
  OwnFilesComplete
  LeftoversHarmless
PROPERTY
  ImplementsAtomicFile
