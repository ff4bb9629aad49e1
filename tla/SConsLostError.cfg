SPECIFICATION Spec
CONSTANTS
  Absent = Absent
  Machines = {"actions"}
  NumRounds = 5
  MaxBytes = 3
  ClockScansPerRead = 2
  ClockBufferScans = 2
  ClockMaxScans = 6
  NumAttempts = 3
  ExamplePulses = 7
  TestPulses = 3
  OutScansPerRead = 1
  OutBufferScans = 1
  OutMaxScans = 4
  OutChannels = 2
  NumReads = 3
  LoopSizes <- TwoOutputs
  Procs = {1, 2}
  pid <- OwnNumbers
  Outputs <- TwoTargets
  NoFile = NoFile
  MaxBuilds = 2
  Dirs = {"/", "/d"}
  Root = "/"
  CardFiles <- Namesakes
  Empty <- EmptyFile
  CardNames = {"f", "z"}
  Unknown = "?"
  MaxSdRuns = 3
  Leases = {"lease1", "lease2", "lease3"}
  Static = "static"
  DHCP = "DHCP"
  Zero = "0.0.0.0"
  MaxPolls = 2
  Period = 2
  TimedReads = 3
  Chunk = 3
  TimedScansPerRead = 2
  NumWrites = 2
  RunTime = 3
  Wrap = 8
  MaxTime = 16
  Scripts <- TestScripts
  Headers = {1, 2}
  Flags = {1, 2}
  Includes <- TestIncludes
  Works <- TestWorks
  Nothing = Nothing
  MaxTests = 3
  MaxRuns = 3
  MaxEdits = 2
  Threads = {1, 2}
  Lists <- ActionLists
  Top = "top"
  None = None
  Builders = {"cc", "cp", "lib", "cl"}
  Action <- BuilderAction
  Multi = {"lib"}
  Batching = {"cl"}
  Envs <- BuilderEnvs
  Contents <- BuilderContents
  TargetLists <- OneOrTwo
  SourceLists <- OneSource
  NewSuffixes = {"xyz"}
  Unset = Unset
  MaxCalls = 3
INVARIANTS
  ErrorsCount
