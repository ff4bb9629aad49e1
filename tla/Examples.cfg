\* Five rounds of the Lua programs, so that every loop number is written and the
\* first two again; pulses for the whole of the example's stream and for one and
\* a half reads of the test's; two outputs with loops of two values and of one;
\* two processes that make two targets twice each; three configure runs with two
\* edits between them; two threads with lists of commands and functions.
SPECIFICATION FairSpec
CONSTANTS
  Absent = Absent
  Machines = {"lua", "clock", "outs", "cache", "sd", "tcp", "registers", "timed", "configure", "actions", "builders"}
  NumRounds = 5
  MaxBytes = 3
  ClockScansPerRead = 2
  ClockBufferScans = 2
  ClockMaxScans = 6
  NumAttempts = 3
  ExamplePulses = 7
  TestPulses = 3
  OutScansPerRead = 1
  OutBufferScans = 1
  OutMaxScans = 4
  OutChannels = 2
  NumReads = 3
  LoopSizes <- TwoOutputs
  Procs = {1, 2}
  pid <- OwnNumbers
  Outputs <- TwoTargets
  NoFile = NoFile
  MaxBuilds = 2
  Dirs = {"/", "/d"}
  Root = "/"
  CardFiles <- Namesakes
  Empty <- EmptyFile
  CardNames = {"f", "z"}
  Unknown = "?"
  MaxSdRuns = 3
  Leases = {"lease1", "lease2", "lease3"}
  Static = "static"
  DHCP = "DHCP"
  Zero = "0.0.0.0"
  MaxPolls = 2
  Period = 2
  TimedReads = 3
  Chunk = 3
  TimedScansPerRead = 2
  NumWrites = 2
  RunTime = 3
  Wrap = 8
  MaxTime = 16
  Scripts <- TestScripts
  Headers = {1, 2}
  Flags = {1, 2}
  Includes <- TestIncludes
  Works <- TestWorks
  Nothing = Nothing
  MaxTests = 3
  MaxRuns = 3
  MaxEdits = 2
  Threads = {1, 2}
  Lists <- ActionLists
  Top = "top"
  Builders = {"cc", "cp", "lib", "cl"}
  Action <- BuilderAction
  Multi = {"lib"}
  Batching = {"cl"}
  Envs <- BuilderEnvs
  Contents <- BuilderContents
  TargetLists <- OneOrTwo
  SourceLists <- OneSource
  NewSuffixes = {"xyz"}
  Unset = Unset
  MaxCalls = 3
  None = None
INVARIANTS
  LuaSafe
  ExternalClockSafe
  StreamOutSafe
  CacheSound
  UtilitiesSafe
  RegisterExamplesSafe
  AnswersExplained
  ActionsSound
  OneRecipe
PROPERTIES
  Termination
