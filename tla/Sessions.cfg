SPECIFICATION Spec
CONSTANTS
  Clients = {c1, c2}
  Names = {n1, n2}
  Passwords = {p1, p2}
  Nobody = Nobody
  MaxTokens = 3
  MaxChanges = 2
  MaxExpired = 1
  MaxErrors = 1
INVARIANTS
  TypeOK
  OneUser
  OldLoginsEnd
PROPERTY LoginsEndForAReason
CHECK_DEADLOCK FALSE
SYMMETRY Interchangeable
