SPECIFICATION Spec
CONSTANTS
  Refs = {r1}
  NoRef = NoRef
  MaxCycle = 2
  Syncers = {s1}
  Dunners = {d1}
  Owners = {o1}
  Free = Free
  GRACE = 2
  DUNNING_STAGES = {1}
  MaxFaults = 1
PROPERTIES OwedCancelSparesPaid
