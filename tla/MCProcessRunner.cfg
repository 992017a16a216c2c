CONSTANTS
  Runner = {"captured", "exec_argv", "windows"}
  GraceTicks = 2
  MaxWrites = 2
SPECIFICATION FairSpec
INVARIANT NothingLeftBehind
INVARIANT OutputComplete
PROPERTY NoSignalAfterReaping
PROPERTY DeadlineEndsRun
