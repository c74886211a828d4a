CONSTANTS
  Cmds = {"read", "write", "ping", "quit", "set_level", "unknown"}
  MaxLines = 2
  Sizes = {2, 3, 5}
  MAX_STDIN_LINE = 2
  SERVE_BUSY_RETRIES = 3
SPECIFICATION Spec
INVARIANTS OneAnswerEach ExecutedOnce
PROPERTY SessionEnds
CHECK_DEADLOCK FALSE
