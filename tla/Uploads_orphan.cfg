SPECIFICATION Spec
CONSTANTS
  UploadIds = {u1}
  Images = {u1}
  Contents = {"raw"}
  Completers = {c1}
  Collectors = {k1}
  MaxUpsets = 0
CHECK_DEADLOCK FALSE
PROPERTY OrphansGo
