\* Three reads of two scans, a device buffer of two; the others may end the
\* stream, and start their own, at any time.
SPECIFICATION FairSpec
CONSTANTS
  ScansPerRead = 2
  DeviceBufferScans = 2
  MaxScans = 8
  NumChannels = 1
  NumReads = 3
INVARIANTS
  NoScanBeforeEdge
  NormalExitComplete
PROPERTIES
  Termination
