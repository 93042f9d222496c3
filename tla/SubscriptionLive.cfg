SPECIFICATION Spec
CONSTANTS
  r1 = r1
  s1 = s1
  d1 = d1
  o1 = o1
  NoRef = NoRef
  Free = Free
PROPERTIES   GraceEnds OwedCancelDone
