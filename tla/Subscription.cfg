SPECIFICATION SceneSpec
CONSTANTS
  r1 = r1
  d1 = d1
  s1 = s1
  s2 = s2
  Refs = {r1, r2}
  NoRef = NoRef
  MaxCycle = 2
  Syncers = {s1}
  Dunners = {}
  Owners = {o1}
  Free = Free
  GRACE = 4
  DUNNING_STAGES = {1, 3}
  MaxFaults = 1
SYMMETRY RefSymmetry
INVARIANTS EntitledIsPaid OneLive EndingIsAsked  GraceEpisode
PROPERTIES ExpiredOnlyAfterGrace GraceNotRestarted
