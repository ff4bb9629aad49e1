SPECIFICATION Spec
CONSTANTS
  None = None
  NoFile = NoFile
  Nothing = Nothing
  Unset = Unset
  Absent = Absent
  Parts = {"environment", "files", "subst", "interactive", "declarations", "entries"}
INVARIANTS
  ReadsCurrent
  WordsAgreeUnlessEmpty
  GraphSafe
PROPERTIES
  EnvironmentsApart
  OnlyCopiesWritten
CHECK_DEADLOCK FALSE
