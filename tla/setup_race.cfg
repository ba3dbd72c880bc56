\* Two set-ups at the same time.
SPECIFICATION Spec
CONSTANTS
  None = None
  Requests = {r1, r2}
  MaxUsers = 2
  MaxTokens = 1
  Emails = {e1, e2}
  Passwords = {p1}
SYMMETRY Symmetry
INVARIANTS
  AtMostOneUser
