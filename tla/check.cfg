SPECIFICATION Spec
CONSTANTS
  n = n
  v = v
  w = w
  x = x
  y = y
  r1 = r1
  r2 = r2
  Trunk = Trunk
  Lo = Lo
  UpdateSegment = v
  AutoRadio = AutoRadio
  NoIface = NoIface
  NoSegment = NoSegment
  Segment <- MCSegment
  Order <- MCOrder
  Type <- MCType
  Named = {y}
  Pin <- MCPin
  Radio <- MCRadio
  Sorted <- MCSorted
  MaxAttempts = 2
INVARIANTS
  TypeOK
  PassMeansOwn
  WiredFound
  PinnedFound
  DetectionSound
