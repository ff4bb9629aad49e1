SPECIFICATION Spec
CONSTANTS
  None = None
  NoFile = NoFile
  Nothing = Nothing
  Unset = Unset
  Absent = Absent
  Parts = {"reading", "options", "scanner", "tex", "tools", "toolchains", "time", "paths"}
INVARIANTS
  StartupSafe
  ToolsSafe
CHECK_DEADLOCK FALSE
