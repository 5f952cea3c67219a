SPECIFICATION Spec
CONSTANTS
  Users = {u1, u2, u3}
  Fqdns = {mine}
  Controlled = {mine}
  Handlers = {h1, h2}
  Workers = {}
  MaxAttempts = 0
  MaxTransfers = 2
  MaxTokens = 1
CHECK_DEADLOCK FALSE
SYMMETRY Symmetric
PROPERTY TransfersHold
