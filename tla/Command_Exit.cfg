SPECIFICATION CommandSpec
CONSTANTS
  Severities = {"high"}
  Gates = {"none"}
  Dependencies <- MCDependencies
  MaxInputs = 1
INVARIANT CleanOnlyWhenRun
CHECK_DEADLOCK FALSE
