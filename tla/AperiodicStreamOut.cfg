\* States of three values in two chunks, three cycles: every state is replaced
\* at every point of a pass; the poll limit is reached and not reached.
SPECIFICATION FairSpec
CONSTANTS
  StateSize = 3
  MaxSamples = 2
  NumCycles = 3
  PollLimit = 3
  StatusReserve = 1
  MaxBacklog = 6
  NumOuts = 2
INVARIANTS
  OutsInStep
  NothingLost
PROPERTIES
  Termination
