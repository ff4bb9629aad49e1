\* The comment on the validity of the data, against the code.
SPECIFICATION Spec
CONSTANTS
  ScansPerRead = 1
  DeviceBufferScans = 1
  MaxScans = 2
  NumChannels = 1
  StopWaitsForCallback = TRUE
INVARIANT
  PrintedDataValid
