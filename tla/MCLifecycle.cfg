CONSTANTS
  HasWs = FALSE
  HasWriter = TRUE
  OutCap = 1
SPECIFICATION Spec
PROPERTY CleanShutdown
CHECK_DEADLOCK FALSE
