\* Two requests at a time, two accounts at most, three emails.
SPECIFICATION Spec
CONSTANTS
  None = None
  Requests = {r1, r2}
  MaxUsers = 2
  MaxTokens = 1
  Emails = {e1, e2, e3}
  Passwords = {p1, p2}
SYMMETRY Symmetry
INVARIANTS
  TypeOK
  UsersBounded
  TokenFindsItsUser
  ActsForItself
PROPERTIES
  PasswordChangesPersist
  ChangedByOneWhoKnew
