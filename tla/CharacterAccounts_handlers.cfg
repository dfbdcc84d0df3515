CONSTANTS
  c1 = c1
  c2 = c2
  u1 = u1
  u2 = u2
  h1 = h1
  h2 = h2
  None = None
  Chars <- MCChars
  Users <- MCUsers
  Slots <- MCSlots
  MaxEvents = 3
  MaxAlone = 3
SPECIFICATION Spec
SYMMETRY Alike
CHECK_DEADLOCK FALSE
INVARIANTS AccountsAreInOrder ValidMarkHasACause RevokedStayAway
