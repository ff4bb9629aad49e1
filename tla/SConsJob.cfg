SPECIFICATION Spec
CONSTANTS
  Unscanned = Unscanned
  NoNode = NoNode
  Idle = Idle
  Gone = Gone
  Nodes <- MCNodes
  Graphs <- MCGraphs
  OptionSets <- MCOptions
  Workers = {w1, w2}
INVARIANTS
  RefCountExact
  WalkSound
  CyclesExact
  ExitZeroTrue
PROPERTIES
  ImplementsSchedule
  Termination
