SPECIFICATION Spec
CONSTANTS
  Users = {u1, u2}
  Founder = u1
  Locations = {l1}
  Requests = {r1, r2}
  Free = Free
  MaxInvites = 2
PROPERTIES NoAssignmentCarriesOver
