SPECIFICATION Spec
CONSTANTS
  Pollers = {q1, q2}
  MaxSessions = 2
  Interval = 1
  Lifetime = 3
  MaxRestarts = 1
INVARIANT CredentialsBelong
PROPERTIES
  PollsAreSpaced
  CredentialsKept
CHECK_DEADLOCK FALSE
