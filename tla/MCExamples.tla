----------------------------- MODULE MCExamples -----------------------------
(* The smaller examples, and of SCons the cache that several builds share,   *)
(* the configure checks, the actions of the worker threads and the calls of  *)
(* builders, in one run: the initial state picks one of Machines, which then *)
(* runs alone, with constants of its own; the variables of the others keep   *)
(* the value Absent.                                                         *)
EXTENDS Integers, Sequences

CONSTANTS
  Absent,
  Machines,                                               \* the machines of this run
  NumRounds, MaxBytes,                                    \* LuaScript
  ClockScansPerRead, ClockBufferScans, ClockMaxScans,     \* StreamExternalClock
  NumAttempts, ExamplePulses, TestPulses,
  OutScansPerRead, OutBufferScans, OutMaxScans,           \* StreamOutAndIn
  OutChannels, NumReads, LoopSizes,
  Procs, pid, Outputs, NoFile, MaxBuilds,                 \* SConsCacheDir
  Dirs, Root, CardFiles, Empty, CardNames, Unknown, MaxSdRuns, \* SdFiles
  Leases, Static, DHCP, Zero, MaxPolls,                   \* TcpConfigure
  Period, TimedReads, Chunk, TimedScansPerRead,           \* TimedPrograms
  NumWrites, RunTime, Wrap, MaxTime,
  Scripts, Headers, Flags, Includes(_), Works(_, _, _, _), \* SConsConfigure
  Nothing, MaxTests, MaxRuns, MaxEdits,
  Threads, Lists, Top, None,                              \* SConsAction
  Builders, Action, Multi, Batching, Envs, Contents,      \* SConsBuilder
  TargetLists, SourceLists, NewSuffixes, Unset, MaxCalls

\* two outputs, with loops of two values and of one
TwoOutputs == <<2, 1>>
TwoTargets == <<"a", "b">>
OwnNumbers == [p \in Procs |-> p]
\* a file of one name in both directories, and an empty one
Namesakes == {<<"/", "f">>, <<"/d", "f">>, <<"/d", "z">>}
EmptyFile == {<<"/d", "z">>}

\* tests of a header and of libraries, in one and in two contexts
ATest(text, lib) == [text |-> text, lib |-> lib]
TestScripts ==
  {<<<<ATest("hdr", Nothing), ATest("lib", "m")>>, <<ATest("lib", "z")>>>>,
   <<<<ATest("lib", "m")>>, <<ATest("hdr", Nothing)>>>>}
TestIncludes(text) == text = "hdr"
TestWorks(text, flag, lib, hdr) ==
  IF text = "hdr" THEN hdr = 1 ELSE flag = 2 \/ lib = <<"m">>

CommandIn(directory, ignore) == [kind |-> "command", chdir |-> directory, ignore |-> ignore]
FunctionIn(directory) == [kind |-> "function", chdir |-> directory, ignore |-> FALSE]
ActionLists == {<<CommandIn(None, FALSE)>>, <<CommandIn("sub", TRUE), FunctionIn(None)>>,
                <<FunctionIn("sub"), CommandIn(None, FALSE)>>}

BuilderAction == [cc |-> "cc", cp |-> "cp", lib |-> "lib", cl |-> "cl"]
BuilderEnvs == {[subject |-> 1, overrides |-> "none"], [subject |-> 1, overrides |-> "dbg"],
                [subject |-> 2, overrides |-> "none"]}
BuilderContents ==
  [p \in {"cc", "cp", "lib", "cl"} \X BuilderEnvs |->
     <<p[1], IF p[1] = "cc" THEN p[2].overrides ELSE "">>]
OneOrTwo == {<<"a">>, <<"b">>, <<"a", "b">>}
OneSource == {<<"x">>, <<"y">>}

VARIABLE part   \* the machine that runs

VARIABLES luaHandle, luaExit, luaPc, luaProgram, luaRound, numBytes, vm, luaSource,
          luaScript, booted, userRam, debugBytes, lastWrite
luaVars == <<luaHandle, luaExit, luaPc, luaProgram, luaRound, numBytes, vm, luaSource,
    luaScript, booted, userRam, debugBytes, lastWrite>>

VARIABLES clockHandle, clockExit, clockPc, clockProgram, streamRead, clockSource,
          clockStarted, efEnabled, settings, pulsesLeft, strayScan, clockStreaming,
          clockScans, clockLost, clockRecovering, clockSent, clockTaken
clockVars == <<clockHandle, clockExit, clockPc, clockProgram, streamRead, clockSource,
    clockStarted, efEnabled, settings, pulsesLeft, strayScan, clockStreaming, clockScans,
    clockLost, clockRecovering, clockSent, clockTaken>>

VARIABLES outHandle, outExit, outPc, buffer, loopSize, loop, outTurn, outStarted, aData,
          iteration, totalSkippedScans, updatePc, alone, outStreaming, outScans, outLost,
          outRecovering, outSent, outTaken
outsVars == <<outHandle, outExit, outPc, buffer, loopSize, loop, outTurn, outStarted, aData,
    iteration, totalSkippedScans, updatePc, alone, outStreaming, outScans, outLost,
    outRecovering, outSent, outTaken>>

VARIABLES config, files, temp, local, at, turn, reading, cached, builds, kept
cacheVars == <<config, files, temp, local, at, turn, reading, cached, builds, kept>>

VARIABLES sdHandle, sdExit, sdPc, sdTodo, cwd, path, unlisted, opened, card, request, start,
          dir, sdRuns, userDir, excused, shown
sdVars == <<sdHandle, sdExit, sdPc, sdTodo, cwd, path, unlisted, opened, card, request,
    start, dir, sdRuns, userDir, excused, shown>>

VARIABLES tcpHandle, tcpExit, tcpPc, connType, test, update, IPAddress, polls, link,
          address, ipDefault, neighbour, tested, unread, early
tcpVars == <<tcpHandle, tcpExit, tcpPc, connType, test, update, IPAddress, polls, link,
    address, ipDefault, neighbour, tested, unread, early>>

VARIABLES regHandle, regExit, regPc, regTodo, device, wifi, regs, rom, example, own,
          exampleRuns, unclean
registersVars == <<regHandle, regExit, regPc, regTodo, device, wifi, regs, rom, example,
    own, exampleRuns, unclean>>

VARIABLES timedHandle, timedExit, timedPc, timedProgram, timedRound, now, beganAt, t0, wake,
          timedStreaming, heldScans, startedAt, scansOut, scansRead, queuedValues,
          devicePower, hitReconnectError, lastReading, readingOffset, overran, starved
timedVars == <<timedHandle, timedExit, timedPc, timedProgram, timedRound, now, beganAt, t0,
    wake, timedStreaming, heldScans, startedAt, scansOut, scansRead, queuedValues,
    devicePower, hitReconnectError, lastReading, readingOffset, overran, starved>>

VARIABLES header, flags, script, sources, database, mainTarget, stage, mode, context, place,
          entries, recorded, headerSig, counter, libs, answers, config_h_text, config_hs,
          confRuns, confEdits
configureVars == <<header, flags, script, sources, database, mainTarget, stage, mode,
    context, place, entries, recorded, headerSig, counter, libs, answers, config_h_text,
    config_hs, confRuns, confEdits>>

VARIABLES actionCwd, thread, ran, overlap, misplaced
actionsVars == <<actionCwd, thread, ran, overlap, misplaced>>

VARIABLES node, executors, batchOf, actions, memo, linked, replaced, builderCalls
buildersVars == <<node, executors, batchOf, actions, memo, linked, replaced, builderCalls>>

Lua == INSTANCE LuaScript WITH handle <- luaHandle, exit <- luaExit, pc <- luaPc, program
    <- luaProgram, i <- luaRound, source <- luaSource, script <- luaScript

Clock == INSTANCE StreamExternalClock WITH ScansPerRead <- ClockScansPerRead,
    DeviceBufferScans <- ClockBufferScans, MaxScans <- ClockMaxScans, NumChannels <- 1,
    handle <- clockHandle, exit <- clockExit, pc <- clockPc, program <- clockProgram,
    started <- clockStarted, streaming <- clockStreaming, clock <- clockScans, lost <-
    clockLost, recovering <- clockRecovering, sent <- clockSent, taken <- clockTaken

Outs == INSTANCE StreamOutAndIn WITH ScansPerRead <- OutScansPerRead, DeviceBufferScans <-
    OutBufferScans, MaxScans <- OutMaxScans, NumChannels <- OutChannels, handle <- outHandle,
    exit <- outExit, pc <- outPc, out <- outTurn, started <- outStarted, streaming <- outStreaming,
    clock <- outScans, lost <- outLost, recovering <- outRecovering, sent <- outSent, taken
    <- outTaken

Cache == INSTANCE SConsCacheDir

Sd == INSTANCE SdFiles WITH Files <- CardFiles, Names <- CardNames, MaxRuns <- MaxSdRuns,
    handle <- sdHandle, exit <- sdExit, pc <- sdPc, todo <- sdTodo

Tcp == INSTANCE TcpConfigure WITH handle <- tcpHandle, exit <- tcpExit, pc <- tcpPc

Registers == INSTANCE RegisterExamples WITH Types <- {"T4", "T7", "T8", "other"}, Programs
    <- {"i2c", "spi", "uart", "1-wire", "dio_ef", "watchdog", "wifi", "ethernet", "power",
    "ain"}, MaxRuns <- 2, handle <- regHandle, exit <- regExit, pc <- regPc, todo <- regTodo

Timed == INSTANCE TimedPrograms WITH Programs <- {"only", "periodic", "aperiodic", "burst",
    "reboot"}, NumReads <- TimedReads, ScansPerRead <- TimedScansPerRead, handle <-
    timedHandle, exit <- timedExit, pc <- timedPc, program <- timedProgram, i <- timedRound, began <- beganAt, streaming <-
    timedStreaming, held <- heldScans, started <- startedAt, scans <- scansOut, taken <-
    scansRead, queued <- queuedValues, power <- devicePower, reading <- lastReading, offset
    <- readingOffset

Configure == INSTANCE SConsConfigure

Actions == INSTANCE SConsAction WITH cwd <- actionCwd

Calls == INSTANCE SConsBuilder WITH calls <- builderCalls

ASSUME PartsAssumption ==
  /\ Lua!LuaScriptAssumption
  /\ Clock!ExternalClockAssumption
  /\ {ClockScansPerRead, ClockBufferScans, ClockMaxScans} \subseteq Nat \ {0}
  /\ Outs!StreamOutAssumption
  /\ {OutScansPerRead, OutBufferScans, OutMaxScans, OutChannels} \subseteq Nat \ {0}
  /\ Cache!CacheAssumption
  /\ Sd!SdAssumption
  /\ Tcp!TcpAssumption
  /\ Registers!RegisterAssumption
  /\ Timed!TimedAssumption
  /\ Configure!ConfigureAssumption
  /\ Actions!ActionAssumption
  /\ Calls!BuilderAssumption

Init ==
  /\ part \in Machines
  /\ IF part = "lua" THEN Lua!Init
     ELSE luaHandle = Absent /\ luaExit = Absent /\ luaPc = Absent /\ luaProgram = Absent /\
          luaRound = Absent /\ numBytes = Absent /\ vm = Absent /\ luaSource = Absent /\
          luaScript = Absent /\ booted = Absent /\ userRam = Absent /\ debugBytes = Absent
          /\ lastWrite = Absent
  /\ IF part = "clock" THEN Clock!Init
     ELSE clockHandle = Absent /\ clockExit = Absent /\ clockPc = Absent /\ clockProgram =
          Absent /\ streamRead = Absent /\ clockSource = Absent /\ clockStarted = Absent /\
          efEnabled = Absent /\ settings = Absent /\ pulsesLeft = Absent /\ strayScan =
          Absent /\ clockStreaming = Absent /\ clockScans = Absent /\ clockLost = Absent /\
          clockRecovering = Absent /\ clockSent = Absent /\ clockTaken = Absent
  /\ IF part = "outs" THEN Outs!Init
     ELSE outHandle = Absent /\ outExit = Absent /\ outPc = Absent /\ buffer = Absent /\
          loopSize = Absent /\ loop = Absent /\ outTurn = Absent /\ outStarted = Absent /\
          aData = Absent /\ iteration = Absent /\ totalSkippedScans = Absent /\ updatePc =
          Absent /\ alone = Absent /\ outStreaming = Absent /\ outScans = Absent /\ outLost
          = Absent /\ outRecovering = Absent /\ outSent = Absent /\ outTaken = Absent
  /\ IF part = "cache" THEN Cache!CacheInit
     ELSE config = Absent /\ files = Absent /\ temp = Absent /\ local = Absent /\ at =
          Absent /\ turn = Absent /\ reading = Absent /\ cached = Absent /\ builds = Absent
          /\ kept = Absent
  /\ IF part = "sd" THEN Sd!Init
     ELSE sdHandle = Absent /\ sdExit = Absent /\ sdPc = Absent /\ sdTodo = Absent /\ cwd =
          Absent /\ path = Absent /\ unlisted = Absent /\ opened = Absent /\ card = Absent
          /\ request = Absent /\ start = Absent /\ dir = Absent /\ sdRuns = Absent /\
          userDir = Absent /\ excused = Absent /\ shown = Absent
  /\ IF part = "tcp" THEN Tcp!Init
     ELSE tcpHandle = Absent /\ tcpExit = Absent /\ tcpPc = Absent /\ connType = Absent /\
          test = Absent /\ update = Absent /\ IPAddress = Absent /\ polls = Absent /\ link =
          Absent /\ address = Absent /\ ipDefault = Absent /\ neighbour = Absent /\ tested =
          Absent /\ unread = Absent /\ early = Absent
  /\ IF part = "registers" THEN Registers!Init
     ELSE regHandle = Absent /\ regExit = Absent /\ regPc = Absent /\ regTodo = Absent /\
          device = Absent /\ wifi = Absent /\ regs = Absent /\ rom = Absent /\ example =
          Absent /\ own = Absent /\ exampleRuns = Absent /\ unclean = Absent
  /\ IF part = "timed" THEN Timed!Init
     ELSE timedHandle = Absent /\ timedExit = Absent /\ timedPc = Absent /\ timedProgram =
          Absent /\ timedRound = Absent /\ now = Absent /\ beganAt = Absent /\ t0 = Absent
          /\ wake = Absent /\ timedStreaming = Absent /\ heldScans = Absent /\ startedAt =
          Absent /\ scansOut = Absent /\ scansRead = Absent /\ queuedValues = Absent /\
          devicePower = Absent /\ hitReconnectError = Absent /\ lastReading = Absent /\
          readingOffset = Absent /\ overran = Absent /\ starved = Absent
  /\ IF part = "configure" THEN Configure!ConfInit
     ELSE header = Absent /\ flags = Absent /\ script = Absent /\ sources = Absent /\
          database = Absent /\ mainTarget = Absent /\ stage = Absent /\ mode = Absent /\
          context = Absent /\ place = Absent /\ entries = Absent /\ recorded = Absent /\
          headerSig = Absent /\ counter = Absent /\ libs = Absent /\ answers = Absent /\
          config_h_text = Absent /\ config_hs = Absent /\ confRuns = Absent /\ confEdits =
          Absent
  /\ IF part = "actions" THEN Actions!ActionInit
     ELSE actionCwd = Absent /\ thread = Absent /\ ran = Absent /\ overlap = Absent /\ misplaced =
          Absent
  /\ IF part = "builders" THEN Calls!BuilderInit
     ELSE node = Absent /\ executors = Absent /\ batchOf = Absent /\ actions = Absent /\
          memo = Absent /\ linked = Absent /\ replaced = Absent /\ builderCalls = Absent

Next ==
  /\ UNCHANGED part
  /\ IF part = "lua" THEN Lua!Next ELSE UNCHANGED luaVars
  /\ IF part = "clock" THEN Clock!Next ELSE UNCHANGED clockVars
  /\ IF part = "outs" THEN Outs!Next ELSE UNCHANGED outsVars
  /\ IF part = "cache" THEN Cache!CacheNext ELSE UNCHANGED cacheVars
  /\ IF part = "sd" THEN Sd!Next ELSE UNCHANGED sdVars
  /\ IF part = "tcp" THEN Tcp!Next ELSE UNCHANGED tcpVars
  /\ IF part = "registers" THEN Registers!Next ELSE UNCHANGED registersVars
  /\ IF part = "timed" THEN Timed!Next ELSE UNCHANGED timedVars
  /\ IF part = "configure" THEN Configure!ConfNext ELSE UNCHANGED configureVars
  /\ IF part = "actions" THEN Actions!ActionNext ELSE UNCHANGED actionsVars
  /\ IF part = "builders" THEN Calls!BuilderNext ELSE UNCHANGED buildersVars

vars == <<part, luaVars, clockVars, outsVars, cacheVars, sdVars, tcpVars, registersVars,
          timedVars, configureVars, actionsVars, buildersVars>>

Spec == Init /\ [][Next]_vars

\* the fairness of each machine, as its own module states it
FairSpec ==
  /\ Spec
  /\ WF_luaVars(part = "lua" /\ Lua!Program)
  /\ WF_luaVars(part = "lua" /\ Lua!ScriptBoots)
  /\ WF_luaVars(part = "lua" /\ Lua!VMHalts)
  /\ WF_clockVars(part = "clock" /\ Clock!Program /\ (clockPc = "read" => clockExit' = "none"))
  /\ WF_tcpVars(part = "tcp" /\ Tcp!Program)
  /\ WF_timedVars(part = "timed" /\ Timed!Program)
  /\ WF_timedVars(part = "timed" /\ Timed!Tick)
  /\ WF_timedVars(part = "timed" /\ Timed!GoesDown)
  /\ WF_timedVars(part = "timed" /\ Timed!ComesBack)
  /\ WF_timedVars(part = "timed" /\ Timed!Answers)

-----------------------------------------------------------------------------
\* Lua scripts: ReadLuaInfo reads the output of the script this program loaded,
\* and a script that boots late never takes back a loop number it was given.
LuaSafe == part = "lua" => Lua!LuaSafe

\* External clock: the scans of the example are clocked by its own pulses, and
\* a return from main leaves the stream off however many reads found no scans.
ExternalClockSafe == part = "clock" => Clock!ExternalClockSafe

\* Stream out: an update leaves the new values and nothing else in the loop,
\* unless the other program wrote in between; no output is more than one update
\* behind another; and the skipped samples add up exactly.
StreamOutSafe ==
  part = "outs" => /\ Outs!UpdateReplacesLoop
                   /\ Outs!OutputsAtMostOneApart
                   /\ Outs!SkippedSamplesExact

\* CacheDir: what a build retrieves is what some finished build of the same
\* signature pushed, whole, whatever processes push and retrieve beside it.
CacheSound == part = "cache" => Cache!CacheSound

\* SD card: a listing is the whole directory, read_file prints the file that was
\* asked for, and a relative path means what the user left it to mean, unless a
\* program was cut short, read a file, or could not read the directory's name.
\* t7_tcp_configure: the test talks to the device that was configured, and the
\* handle is closed at the end, unless the address could not be read or was read
\* before the interface was up.  The programs paced by the host's clock: readings
\* keep in step with the output, a return from main means that the output ran,
\* and a reboot is only announced after one.
UtilitiesSafe ==
  /\ part = "sd" => Sd!SdSafe
  /\ part = "tcp" => Tcp!TcpSafe
  /\ part = "timed" => Timed!TimedSafe

\* Register sequences: every transaction on a bus uses settings its own run has
\* made, whatever runs before left behind, and lines no other feature drives.
RegisterExamplesSafe == part = "registers" => Registers!RegisterExamplesSafe

\* SConf: every answer of a check is what the check would say today, unless one
\* of the recorded reasons explains it.
AnswersExplained == part = "configure" => Configure!AnswersExplained

\* Action: an action that asks for a directory runs in it, one that does not
\* runs at the top, unless two threads overlapped; and a target that counts as
\* built was made by all its actions, none of which failed without an excuse.
ActionsSound == part = "actions" => Actions!RunsInPlace /\ Actions!MadeByAll

\* Builder and Executor: a target has one recipe, whatever calls name it.
OneRecipe == part = "builders" => Calls!OneRecipe

\* BuildError's docstring: a failed action has a status that is not zero.
ErrorsCount == part = "actions" => Actions!ErrorsCount

\* Lua scripts, external clock, network configuration and the programs paced by
\* the clock end, whatever fails, also when no pulse ever comes and the interface
\* never starts; system_reboot_test unless no poll met the device while it was
\* away.
Termination ==
  part \in {"lua", "clock", "tcp", "timed"} =>
    <>(~Lua!Running /\ ~Clock!Running /\ ~Tcp!Running /\ Timed!Over)
=============================================================================
