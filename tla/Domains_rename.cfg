SPECIFICATION Spec
CONSTANTS
  Users = {u1}
  Fqdns = {mine, theirs}
  Controlled = {mine}
  Handlers = {}
  Workers = {w1}
  MaxAttempts = 1
  MaxTransfers = 0
  MaxTokens = 2
CHECK_DEADLOCK FALSE
INVARIANT VerifiedIsControlled
