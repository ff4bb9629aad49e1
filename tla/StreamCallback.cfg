\* Three scans of one-scan reads: the callback runs up to three times, and a
\* scan may be lost, before, during and after the stop.
SPECIFICATION FairSpec
CONSTANTS
  ScansPerRead = 1
  DeviceBufferScans = 1
  MaxScans = 3
  NumChannels = 1
  StopWaitsForCallback = TRUE
INVARIANTS
  NoUseAfterRelease
  AtMostOneLateIteration
  TwoStopsExplained
PROPERTY
  Termination
