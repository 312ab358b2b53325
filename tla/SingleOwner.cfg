SPECIFICATION MembershipSpec
CONSTANTS
  u1 = u1
  u2 = u2
  u3 = u3
  c1 = c1
  c2 = c2
  c3 = c3
  Users <- MCUsers
  Founder = u1
  Acts <- MCActs
  MaxUses = 1
INVARIANT SingleOwner
CHECK_DEADLOCK FALSE
