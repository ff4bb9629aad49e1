\* Three reads of three scans: gaps may start and end inside a read, span two
\* reads and come twice in one stream (the buffer holds two scans).
SPECIFICATION FairSpec
CONSTANTS
  ScansPerRead = 3
  DeviceBufferScans = 2
  MaxScans = 12
  NumChannels = 2
  NumReads = 3
INVARIANTS
  SkipTotalExact
  LeftoverStreamRefused
PROPERTIES
  Termination
  ImplementsLedger
