SPECIFICATION Spec
CONSTANTS
  GrantIds = {g1, g2}
  Hosts = {i1, i2}
  BlastRadius = 2
  MaxBreaks = 2
  MaxRestores = 1
CHECK_DEADLOCK FALSE
PROPERTY OrphansGo
