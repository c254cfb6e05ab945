CONSTANTS
  QLen = 3
  Half = 4
  SetValues = {2}
SPECIFICATION Spec
INVARIANTS
  TypeOK
  DirectionUnlessRaced
  DescriptorNotShared
PROPERTIES
  CountUnlessRaced
