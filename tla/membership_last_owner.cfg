SPECIFICATION MemberSpec
CONSTANTS
  Users = {u1, u2}
  Invitations = {i1}
  Managers = {m1, m2}
  Guests = {g1}
  OtherRoles = {"VIEWER"}
  KeyRoles = {"OWNER"}
  None = None
SYMMETRY Symmetry
INVARIANTS OwnerRetained
CHECK_DEADLOCK FALSE
