SPECIFICATION Spec
CONSTANTS
  Unscanned = Unscanned
  NoNode = NoNode
  Idle = Idle
  Gone = Gone
  Nodes <- MCNodes
  Graphs <- KeepGoing
  OptionSets <- KeepGoingOptions
  Workers = {w1, w2}
INVARIANTS
  NoFalseCycle
