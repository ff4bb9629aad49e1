# A TLA+ model of the LJM example programs and of the tool that builds them

This directory models two programs that live in one repository. The first is
the set of C and C++ examples for LabJack's LJM library, with the device they
talk to and the library between the two, as far as the examples depend on
them. The second is SCons 3.1.1, whose copy under `src/scons-local-3.1.1`
builds the examples: every directory's `SConstruct` is read by it, and most of
the code of the repository, with most of its hard state, is there. The modules
are checked with TLC; the theorems are checked with TLAPS.

## 1. The systems

### The examples

The examples are small programs, each a `main` built on two headers. They keep
nothing on disk. All lasting state is in the *device* (registers, stream
buffers, SD card) and in the LJM *library* (handles, receive thread,
callbacks), both external; the interesting behaviour is the one between a
program and a device that does not wait for it and does not forget.

| Component | State | Operations | Interacts with |
|---|---|---|---|
| error and handle helpers, `LJM_Utilities.h` | the handle, the exit code | `OpenOrDie`, `CloseOrDie`, `ErrorCheck`, `WriteNameOrDie` | every program; `LJM_CloseAll` |
| stream helpers, `LJM_StreamUtilities.h` | none | `DisableStreamIfEnabled`, `CountAndOutputNumSkippedScans` | the device's stream |
| device and library (external) | stream, scan clock, buffer, auto-recovery, backlogs, stream-out loops | `LJM_eStreamStart/Read/Stop`, register writes | all stream programs |
| `stream_basic.c`, `stream_sequential_ain.c` | iteration, total of skipped scans | start, N reads, stop | scan clock |
| `stream_callback.c` | `StreamInfo` of two threads: `done`, `aData` | main and the library's callback | two threads, one stream |
| `stream_basic_with_stream_out.c`, `stream_out_update.c` | iteration, total; loop registers | three register writes per output and update | two processes, same registers |
| `advanced_aperiodic_stream_out.cpp` | per output: state, buffer position | poll, write chunks, hand over, read | two outputs synchronised by `SET_LOOP` |
| `stream_triggered.c` | reads; trigger and DIO0 registers | arm, start, poll, stop | edge, scan clock, resets, other programs |
| `stream_external_clock.c`, `externally_clocked_stream_test.c` | attempts; clock source, pulse generator | configure, start, attempt reads, stop | the generator that clocks the scans |
| programs paced by the host's clock | iteration, times; values queued | sleep, write, read, poll | host clock, scan clock, a rebooting device |
| `lua_execution_control.c`, `lua_script_basic.c` | rounds; script, run flag, `USER_RAM0` | stop, load, run, tell, read | Lua VM and script |
| SD card, `more/sd` | device's current directory, path, open file | change, list, read, delete | programs one after the other |
| `t7_tcp_configure.c` | settings, address, poll counters | write, restart, wait, read back, test | network interface, neighbours |
| register sequences: buses, DIO extended features, watchdog, power, WiFi, Ethernet, AIN | registers | fixed sequences | what earlier programs left |

What is hard, and where:

* *Two clocks.* The scan clock runs beside the program. Buffers overflow, the
  device enters auto-recovery, gaps arrive later as placeholder samples
  anywhere in a read. Correct: skipped scans are counted exactly, once.
* *Two threads.* `MyStreamReadCallback` and `main` share `done` and `aData`
  without a lock, and both stop the stream. Correct: nothing is used after it was
  freed, at most one iteration runs late, no deadlock, each failed stop is
  explained.
* *Two processes or two outputs.* Loops are updated by several register writes,
  by two programs, or for two outputs one after the other. Correct: a complete
  update replaces whatever was there; outputs stay in step; nothing is
  overwritten, skipped or repeated.
* *Leftovers and strangers.* Any setting, stream, generator, directory, bus line
  or script may be left by an earlier program, above all by one that was cut
  short; a reset or another program may end a stream that is being polled.
  Correct: what a run uses it has set itself, and no poll loop waits for what
  has ended.
* *Time.* Sleeps stand for conditions: a reboot, an interface that comes up, a
  period that one iteration may exceed. Correct: what is announced has happened.
* *Failure at any call.* Correct: a normal exit means that the whole job was done.

### SCons

| Component | State | Hard because |
|---|---|---|
| Taskmaster, jobs (`Taskmaster.py`, `Job.py`, `Script/Main.py`) | node states, reference counts, stack, pending children, queues | workers and the walk interleave; failures, interrupts, cycles |
| nodes, executors (`Node/__init__.py`, `Executor.py`) | children, waiting parents, side effects, sources | memos; many targets of one command |
| decisions, database (`Node/FS.py`, `SConsign.py`, `dblite.py`) | NodeInfo, BuildInfo, `.sconsign.dblite` | a record is merged from two moments of a run; runs are killed |
| file system nodes (`Node/FS.py`) | lookup memos, variant directories, repositories, classes of nodes | everything is remembered, scripts change the disk |
| cache (`CacheDir.py`) | shared directory, temporary files | several processes |
| configure checks (`SConf.py`) | stored results, signatures of headers | results outlive what they were made of |
| environments, builders, actions, substitution | dictionaries with shared lists, builder attributes, working directory | aliasing; threads with one working directory; two expansions of one text |
| reading, options, declarations | stack of scripts, option layers, what was declared | exceptions in the middle; order of declarations |
| scanners, LaTeX, tools, search paths | preprocessor tables, rerun flag, links, loaded modules | module-level state shared by builds |
| interactive mode | what nodes keep between commands | incomplete clearing |
| `scons-time.py` | logs, temporary directories | two runs at once |

`PROJECT.json` lists the hazards at their lines with the properties that cover
them.

## 2. Modules

### Examples

| Module | Models |
|---|---|
| `Utilities` | `LJM_Utilities.h`: handle, exit code, the two ways a failed call ends a process |
| `StreamUtilities` | device and library (external): scan clock, buffer, auto-recovery, start, read, stop; and `LJM_StreamUtilities.h`: dummy samples, skipped scans, disabling a stream |
| `StreamBasic` | `stream_basic.c` beside the device |
| `ScanLedger` | (abstract) what a stream program promises its reader; `StreamBasic` implements it |
| `StreamCallback` | both threads of `stream_callback.c` beside the device |
| `StreamOutAndIn` | both processes beside the device |
| `AperiodicStreamOut` | `advanced_aperiodic_stream_out.cpp` beside the output buffers |
| `StreamTriggered` | `stream_triggered.c` beside the edge, the device, its resets and other programs |
| `StreamExternalClock` | either program beside its pulse generator |
| `TimedPrograms` | `stream_out_only.c`, `periodic_stream_out.cpp`, `stream_in_with_aperiodic_stream_out.cpp`, `stream_burst.c`, `system_reboot_test.c` beside the host's clock |
| `LuaScript` | either Lua program beside the VM |
| `SdFiles` | the programs of `more/sd`, several after one another on one card |
| `TcpConfigure` | `t7_tcp_configure.c` beside the interface and a neighbour |
| `RegisterExamples` | ten fixed register sequences, several after one another on one device |
| `MCExamples` | the seven of these that need no run of their own, and four of SCons: the shared cache, the configure checks, the lists of actions and the calls of builders; eleven machines, with constants for TLC |
| `StreamBasicProofs`, `StreamCallbackProofs`, `AperiodicStreamOutProofs`, `StreamTriggeredProofs`, `ExamplesProofs` | the theorems |

`StreamUtilities` extends `Utilities`; the modules of programs with stream-in extend
it, the others extend `Utilities` only.

### SCons

| Module | Models |
|---|---|
| `SConsTaskmaster` | the graph of a build, the fields of its nodes that the walk reads and writes, and the walk: `_find_next_ready_node`, `next_task`, `postprocess`, `cleanup`, `stop` |
| `SConsJob` | serial and parallel jobs, the tasks of build, clean and question, signals, the exit status |
| `BuildSchedule` | (abstract) what a build promises; `SConsJob` implements it |
| `SConsRebuild` | NodeInfo, BuildInfo and the four deciders; run after run with edits, kills, the database and the cache |
| `SConsFileSystem` | variant directories, repositories, duplication, directory memos |
| `SConsEntries` | the class of a node, Glob, `Execute` and the memos it leaves |
| `SConsCacheDir` | processes that share a cache |
| `SConsConfigure` | configure contexts run after run |
| `SConsEnvironment` | one construction variable in an environment, a clone and an override, with Python's heap; a second machine: `scons_subst` and `scons_subst_list` of one command |
| `SConsBuilder` | calls of builders, executors, batches, the refusals |
| `SConsAction` | lists of actions in threads, `convert_to_BuildError` |
| `SConsReading` | the stack of SConscript files and the choice of targets |
| `SConsDeclarations` | Alias, Depends, SideEffect, Clean, NoClean, ParseDepends and their like, and `-c` |
| `SConsOptions` | command line, `SetOption`, `AddOption`, `Variables` |
| `SConsScanner` | `cpp.py` and the classic scanner beside the compiler's preprocessor |
| `SConsTex` | LaTeX emitter, rerun loop, scanner |
| `SConsTools` | versioned libraries, installation, copies, `smart_link` |
| `SConsToolchains` | Visual C++, Intel, tool modules |
| `SConsSearchPaths` | search paths, flags, site directories, library names |
| `SConsInteractive` | a session of `--interactive` |
| `SConsTime` | `scons-time.py` |
| `MCSConsJob`, `MCSConsRebuild`, `MCSConsParts` | constants for TLC; the last composes fourteen machines: all from `SConsFileSystem` on but `SConsCacheDir`, `SConsConfigure`, `SConsBuilder` and `SConsAction`, which `MCExamples` has |
| `SConsJobProofs` | the theorem about `SConsTaskmaster` and `SConsJob` |
| `SConsRebuildProofs` | the theorems about `SConsRebuild` |

`SConsJob` extends `SConsTaskmaster`. The others meet only in what they stand for: `SConsJob` takes "out of date" as given, which `SConsRebuild` works out;
`SConsRebuild` visits files in any order the walk of `SConsJob` allows.

`MCExamples` and `MCSConsParts` hold machines that do not interact. The initial
state picks one of `part`; that machine then runs alone, with constants of its own,
and the variables of the others keep the value `Absent`. So a run explores the union
of the machines' states and not their product, and a property of a machine is
guarded by `part = ...`.

### Correspondence

*Examples.* Each program has a program counter (`pc`, declared in `Utilities`)
whose values name the next library call or access to shared memory; a program that
is a fixed sequence has the list `todo` of the calls it still has to make. A call is
one action `Call(e)`, where `e` is the outcome the library reports: `"ok"`,
`"warning"` (codes `LJME_WARNINGS_BEGIN` to `LJME_WARNINGS_END`) or `"error"`,
because `_ErrorCheckWithAddress` tells these three apart and nothing else does. A
warning has the effect of a success. `stream_callback` tells
`LJME_STREAM_NOT_RUNNING` apart too (`"notrunning"`). Steps between two calls that
no other actor can see belong to the next call or the previous one.

* `ErrorCheck(e, to)`: an error closes the handles and exits, a warning goes on to
  the call `to`. `WriteNameOrDie(e, to)` exits for warnings too and closes nothing
  (`BareExit`). In `StreamCallback` an exiting `main` first passes through
  `"dying"` and `"closing"`: `ErrorCheck` sleeps for 100 ms, closes the handles, then
  exits, and the callback may run between any two of these. In a program of one thread
  nothing can, and `CheckedExit` is one step.
* A scan is its position on the scan clock. `sent - taken` is the `LJMScanBacklog`
  and `clock - sent` the `deviceScanBacklog` of `LJM_eStreamRead`. A lost position
  travels like the others, as a placeholder; a gap becomes visible only when the
  buffer is empty and auto-recovery ends (`EndRecovery`), which is how the comments
  in `LJM_StreamUtilities.h` and the counting loops take it to be.
* `aData` is abstracted to the samples that equal `LJM_DUMMY_VALUE`.
* An output value of `StreamOutAndIn` is the number of the update that wrote it, a
  state of `AperiodicStreamOut` likewise; `pos` counts the values of the current
  pass, `written` those of the next state; `next` and `synched` are what `SET_LOOP` 2
  and 3 leave behind.
* `foreign` (StreamTriggered) says that the running stream is another program's;
  `OthersAct` is the reset, or the other program, of the comment beside the loop's
  `break`: from the disabling on, at any time, a reset ends the stream and gives the
  registers their defaults, another program ends or starts a stream or writes the
  registers of the trigger. `waiting` is what the device found in
  `STREAM_TRIGGER_INDEX` when the stream was started. The history `touched` says
  which registers others changed after the program's write of line 167 and before the
  start. `LJM_eStreamRead` returns a whole read or `LJME_NO_SCANS_RETURNED`.
* `vm` (LuaScript) is the two-step stop: one write of `LUA_RUN` asks a running
  script to end, a second one disables it.
* Time in `TimedPrograms` is the variable `now`: ticks come between any two calls,
  so a call may take any time; only a sleep ends exactly at `wake`. `sleepTimeMS` is
  an unsigned int, so what is left of the period is taken modulo `Wrap`.
* In `SdFiles`, `TcpConfigure` and `RegisterExamples` the device's variables survive
  the program; `StartNext` starts another one on what is there. A
  failed call cuts a run short at every place.

*SCons.* An action is one call of a script, one step of a runner between two
points where another thread or process may act, or one file operation; a function
that only one thread runs to its end is one step. Signatures stand for what they
sign; two contents with one MD5 are not considered. Memos (`@SCons.Memoize`, cached
attributes) are variables wherever something can change under them. Exceptions are
outcomes: a step either has its effect or stops where the code raises, with what was
done before left as it is. Python objects that are shared (`SConsEnvironment`, the
modules of `SConsToolchains`) are references into a heap. Variables that are the
state's history, for a property to compare with, are marked "history".

`PROJECT.json` maps each definition to its lines. A helper whose lines lie within those
of a listed operation is not listed again.

## 3. Runs

| Run | States | Question |
|---|---|---|
| `basic` | 115596 | are skipped scans counted exactly and step by step as a `ScanLedger` promises, other programs' streams refused, and does the program end? |
| `callback` | 19368 | do the two threads share the stream and the memory safely, without deadlock? |
| `aperiodic` | 8694 | do the outputs stay in step, and is nothing lost, while they are refilled? |
| `triggered` | 1094448 | what but a new edge can start the clock, and what does a return from `main` mean, when others may end the stream and write the registers? |
| `examples` | 774368 | what do the other examples, processes that share a cache, configure checks, lists of actions and calls of builders promise, whatever failed before, and do the programs end? |
| `scons_job` | 103049 | is the walk sound with workers, failures, interrupts and cycles, does it implement `BuildSchedule`, and does it end? |
| `scons_rebuild` | 1453911 | is what a run leaves alone what a clean build would make? |
| `scons_parts` | 698584 | are files, environments and what is declared of targets what they are taken for? |
| `scons_startup` | 845948 | does a run begin as it was asked to, with the tools that were asked for? |
| `callback_data`, `scons_keep_going`, `scons_lost_error` | | where a comment says something else than the code does (section 6) |

### Bounds, and why they are enough

* `basic`: three reads of three scans, a device buffer of two scans, twelve ticks. A
  gap can begin and end inside one read, cover a read, span two reads, and occur
  twice in one stream; two channels tell samples from scans. `MaxScans` lies beyond
  the nine scans that are read, so it never is what ends the program.
* `callback`: reads of one scan, three ticks: one callback can run before, one across
  and one after the stop. The history `late` is cut off at two, one more than the
  property allows.
* `aperiodic`: states of three values written in chunks of two and one, so the clock
  can tick between the two writes of a state; three cycles: each buffer half is
  reused. `PollLimit` 3 stands for the program's 200: it is reached in some
  behaviours and not in others. A read needs `StateSize` scans; more than
  `MaxBacklog` are not told apart.
* `triggered`: three reads of two scans, a buffer of two, eight ticks: a reset or
  another program can come before, between and after the writes and the reads, any
  number of times.
* `examples`: Lua: five rounds, so each loop number is written and the first two
  again. External clock: the example has seven pulses, one more than it can read,
  since pulses may come before its stream; the test's three stop after a read and a
  half. Stream out: two loops of different lengths, three updates: an update can
  meet values of the last one, of the one before and of the other program. SD card:
  two directories, a file of one name in both, an empty file, three programs: one
  leaves a directory behind, one lists, one reads. Network: three leases, a
  neighbour that may hold any address, two polls for each loop: success, failure and
  waiting on. Registers: every pair of ten examples on four device types; a leftover
  matters to the next program. Clock: a period of two ticks and a wrap of eight, so
  that an iteration may be shorter, longer, or so long that the rest wraps; the
  clock stops at sixteen. Cache: two processes that make the same two targets twice
  each, so that a process can find what the other pushed, or half of it. Configure:
  SConstructs of two contexts, three runs with two edits: an answer can be kept by one
  run, outdated by an edit and asked for again, also after an edit that undid it.
  Actions: two threads, lists of one and of two actions, with and without `chdir`.
  Builders: three calls for two targets, together or alone, in three environments, of
  two ordinary builders, one that may be called again and one that takes batches.
* `scons_job`: six nodes in five families of graphs (diamonds with stale, broken and
  missing nodes; a side effect shared by two commands; generated headers; several
  targets of one command with an order-only prerequisite; cycles and faults), one or
  two jobs, with and without `-k`, `-i`, `-q`, `-c` and random order. Two workers are
  the fewest that run beside one another; each family has the shape that one branch
  of `_find_next_ready_node` is about.
* `scons_rebuild`: two targets in a row, one of them generated, and a header that is
  included in one version of a source. Plans bound what happens: three runs and two
  changes; two runs, one killed; the cache; a change of the decider; a request for
  one target; an edit under a run; a cache that gives a target its older timestamp
  back before a run with `timestamp-newer`; a signature kept in the database for
  another timestamp; a clock of the file system that may give two edits one time. The
  last three are what exceptions of the properties are for. Under the coarse clock
  edits share a tick with what happened last; commands always take a tick of their own.
* `scons_parts`, `scons_startup`: the constants are the arguments of each `INSTANCE`
  in `MCSConsParts`. Every machine has two of what must be told apart (processes,
  environments, directories, names, threads, documents) and as many calls as a
  hazard of it takes, which is three or four, five for scripts and for lines of a
  source file, and seven for variables that are declared, updated and saved.

In the runs of examples and in `scons_job` the system may not stop: deadlock is checked,
and a finished system takes an explicit stuttering step. The machines of
`scons_rebuild`, `scons_parts` and `scons_startup` do stop,
when a session's bound of calls is reached: these have `CHECK_DEADLOCK FALSE`.

### What the properties say

Examples:

* `SkipTotalExact` (StreamBasic): the running total equals the scans lost among those
  read. It breaks when samples and scans are confused, when a gap is counted twice
  or not at all. `ImplementsLedger` says the same step by step.
* `LeftoverStreamRefused`: no scan of another program's stream is taken for the own.
* `NoUseAfterRelease` (StreamCallback): memory is not used after it was freed, nor the
  handle after it was closed, except between the `LJM_CloseAll` of an exiting `main` and
  its exit (section 6). It rests on the library: with
  `StopWaitsForCallback = FALSE` TLC finds `free` overtaking the callback's
  `printf`. The constant is the assumption, and the theorem states it.
* `TwoStopsExplained`: who may have stopped the stream when a thread finds it stopped.
* `OutsInStep`, `NothingLost` (AperiodicStreamOut): the hand-over. No overwriting
  depends on what `BUFFER_STATUS` counts: the code goes on at `stateSize - 1`, which
  is safe if the status is one less than the free values (`StatusReserve = 1`) and
  one value too early if it is not (TLC finds the violation with 0).
* `NoScanBeforeEdge` (StreamTriggered): whatever trigger settings were left and
  whichever write only half succeeded, no scan precedes an edge that came after the
  start, unless others changed `STREAM_TRIGGER_INDEX` between the program's write and the
  start. `NormalExitComplete`: the loop may be left by its `break`, and then
  `LJM_eStreamStop` fails, unless another program's stream is there to be stopped
  instead; the history `stoppedForeign` names the one exception.
* `LuaSafe`: no part of a script whose write failed, and no script left behind, is
  taken for the program's own; the script's own first write of the register is
  harmless, because the first round writes the same number.
* `ExternalClockSafe`: every scan of the example is clocked by its own pulses. The
  test starts the stream first, and a generator left running may clock its first
  scans; the property says so by speaking of the example only.
* `StreamOutSafe`: the three writes of an update leave exactly the new values,
  whatever half-done update they found, unless the other program wrote in between
  (`alone`); outputs are at most one update apart; skipped samples add up.
* `UtilitiesSafe`: a listing is the whole directory, `read_file` prints what was
  asked for, a relative path means what the user left it to mean; the connection test
  talks to the device that was configured; each with the exceptions that the
  histories `excused`, `unread` and `early` record. Of the programs paced by the
  clock: readings keep in step with the output, except after an iteration that was
  longer than its period; a return from `main` means that the output ran; a reboot is
  announced only after one.
* `RegisterExamplesSafe`: every bus transaction uses settings that its own run made.

SCons:

* `RefCountExact`, `WalkSound`, `CyclesExact`, `ExitZeroTrue` (SConsJob): a node is
  counted once for each child it waits for; the walk loses no pending node; a cycle is
  reported exactly when there is one, as long as nothing failed (`NoFalseCycle`
  fails without that); exit status 0 means that all that was asked for is there, unless
  a target failed by calling `Exit(0)` (section 6). `ImplementsSchedule`: a command runs
  once, after what it needs, never beside a common side effect, and nothing fails before
  what it needs is there or has failed. A command may fail for any reason of its own.
* `NothingStale`, `RecordDescribesTarget`, `NullBuild` (SConsRebuild). `Explained` is
  the set of targets whose record cannot be right: their last command was not
  recorded (`unrecorded`), a child was edited before the decision or under the command
  (`raced`), or what was compared or recorded of a child mixes two moments (`misled`):
  a signature of one and a timestamp of another, or a timestamp that the cache has set
  back. A NodeInfo is only excused (`mixed`) for a cause the code has: `merge` keeps an
  old signature for a new timestamp, a source is touched after it was visited, or the
  target's own record could not be right. So a decider that mixes moments for no such
  cause violates the properties. `blurred` holds the files of which two versions have had
  one timestamp: no decider that looks at timestamps, nor `max_drift`, can tell these
  apart, and a target with such a child is excepted from the first two.
* `CacheSound` (in the run `examples`): no name in the cache ever stands for a part of a
  file, and a build has all of its targets from the cache or all from its own command.
* `AnswersExplained` (in the run `examples`): what a test of a run without
  `--config=cache` answers is what compiling it now would say, unless it is marked as
  misread: the source file was deleted or is another run's, or the signature of the
  header is not that of its content (max_drift 0), now or when the object was made.
  `config.h` and `LIBS` follow the answers.
* `ActionsSound` (there too): an action runs in its own directory as long as no two
  threads are inside actions of which one moves, and a list that ends well has made
  every action.
* `OneRecipe` (there too): all batches of all executors that make a target have the same
  sources, which are the target's own, and the same command, unless a call in the same
  environment replaced the command: no call is refused for that.
* `WordsAgreeUnlessEmpty`: the words of a command are those of the text that is shown,
  and outside of `$( $)` they spell the text that is signed. Three exceptions: a value
  that is empty or ends with white space, which runs words together; a redirection
  (`<`, `>`, `|`), after which the words go on with a new word where the text has no
  space; and, for the signature, brackets within brackets, which `ListSubber` does not
  count.
* `ReadsCurrent`, `EnvironmentsApart`, `OnlyCopiesWritten`: what one machine promises each; the comment before each in
  `MCSConsParts` says it, with its exceptions.
* `GraphSafe` (interactive sessions, declarations, nodes of one path), `StartupSafe`
  (scripts, options and variables), `ToolsSafe` (scanners, LaTeX, tools, tool
  modules, search paths, scons-time) are conjunctions of named parts, defined in the
  machines' own modules. Parts with exceptions state them: what the code does in such
  a case is listed in section 6.

### Fairness

* A program is weakly fair: nothing in the code waits for another process.
  `LJM_eStreamRead` blocks, so it is only promised to return when its data is there
  (`WF(Read("ok"))`); no behaviour is forced to fail by a timeout.
* The device is weakly fair: the scan clock ticks, the buffer is emptied.
* In `StreamCallback` both threads are scheduled. Nothing is assumed of the device:
  no step of either thread waits for it.
* In `StreamTriggered` an edge comes if the device is armed for one. Nothing is
  assumed of the others, so `Termination` allows for two cases: that their
  streams keep `STREAM_ENABLE` set for ever (`[]<>foreign`), or that the program's own
  stream waits for an edge on a DIO0 whose feature they have disabled.
* In `StreamExternalClock` nothing is assumed of pulses or device: the attempts are
  counted whether they find scans or not. In `TcpConfigure` nothing is assumed of the
  interface: every poll loop is counted.
* In `LuaScript` a VM that is told to start or stop does so. Two sleeps are taken to
  be long enough, as guards: 600 ms for a script to shut down (`Wait`), and the two
  seconds of a round for a script to boot.
* In `TimedPrograms` time passes, a device that was asked to reboot goes down and comes
  back, and its answers arrive. The loop of `system_reboot_test.c` ends only after a
  poll met the device while it was away; `Over` excepts the behaviours
  without one, and those that reach the bound of the clock.
* In `SConsJob` the main thread and each worker are weakly fair: the queues are the only
  things they wait for, and a command ends. Signals are not assumed.
* The other SCons machines have no liveness property: each is driven by scripts,
  users or processes that may stop at any time.

## 4. Theorems

For all values of the constants, from the assumptions the modules name, which TLC
evaluates on every run:

| Theorem | States |
|---|---|
| `StreamBasicProofs!TypeCorrect` | `Spec => []TypeOK` |
| `StreamBasicProofs!SkipTotalCorrect` | `Spec => []SkipTotalExact` |
| `StreamBasicProofs!LeftoverCorrect` | `Spec => []LeftoverStreamRefused` |
| `StreamBasicProofs!ExitsCorrect` | `Spec => []ExitsExplained` |
| `StreamBasicProofs!RefinesLedger` | `Spec => ImplementsLedger` |
| `StreamCallbackProofs!TypeCorrect` | `Spec => []TypeOK` |
| `StreamCallbackProofs!ReleaseCorrect` | `StopWaitsForCallback` implies `Spec => []NoUseAfterRelease` |
| `StreamCallbackProofs!LateIterationCorrect` | `Spec => []AtMostOneLateIteration` |
| `StreamCallbackProofs!ToleratedErrorCorrect` | `Spec => []ToleratedErrorIsMains` |
| `StreamCallbackProofs!TwoStopsCorrect` | `Spec => []TwoStopsExplained` |
| `StreamCallbackProofs!DeviceIdleCorrect` | `Spec => []StartMeetsIdleDevice` |
| `AperiodicStreamOutProofs!TypeCorrect` | `Spec => []TypeOK` |
| `AperiodicStreamOutProofs!OutsInStepCorrect` | `StatusReserve = 1` implies `Spec => []OutsInStep` |
| `AperiodicStreamOutProofs!NothingLostCorrect` | `StatusReserve = 1` implies `Spec => []NothingLost` |
| `StreamTriggeredProofs!TypeCorrect` | `Spec => []TypeOK` |
| `StreamTriggeredProofs!TriggerCorrect` | `Spec => []NoScanBeforeEdge` |
| `StreamTriggeredProofs!ExitCorrect` | `Spec => []NormalExitComplete` |
| `StreamTriggeredProofs!FeatureCorrect` | `Spec => EFConfiguredWhileDisabled` |
| `ExamplesProofs!LuaSafeCorrect` | `Spec => []LuaSafe` |
| `ExamplesProofs!ExternalClockSafeCorrect` | `Spec => []ExternalClockSafe` |
| `ExamplesProofs!StreamOutSafeCorrect` | `Spec => []StreamOutSafe` |
| `ExamplesProofs!CacheSoundCorrect` | `Spec => []CacheSound` |
| `ExamplesProofs!UtilitiesSafeCorrect` | `Spec => []UtilitiesSafe` |
| `ExamplesProofs!AnswersExplainedCorrect` | `WorksType` implies `Spec => []AnswersExplained` |
| `ExamplesProofs!ActionsSoundCorrect` | `Spec => []ActionsSound` |
| `ExamplesProofs!OneRecipeCorrect` | `Spec => []OneRecipe` |
| `SConsJobProofs!RefCountExactCorrect` | `Spec => []RefCountExact` |
| `SConsJobProofs!WalkSoundCorrect` | `Spec => []WalkSound` |
| `SConsRebuildProofs!RecordDescribesTargetCorrect` | `ScannerType` and `FineClock` imply `Spec => []RecordDescribesTarget` |
| `SConsRebuildProofs!NothingStaleCorrect` | `ScannerType` and `FineClock` imply `Spec => []NothingStale` |
| `SConsRebuildProofs!NullBuildCorrect` | `ScannerType`, `FineClock` and `ContentsType` imply `Spec => []NullBuild` |

### The inductive invariants

*StreamBasic.* The total is only exact between iterations, and only because a
scan is lost as a whole before it is sent. The inductive invariant `IInv` adds to the
types: the pipeline order `taken <= sent <= clock`; that `lost` lies below the clock,
so no position that was already read can be lost later; where the program counter
stands for how many reads; that `aData` is the lost part of the last read between
`Read` and `Count`; and which program's stream is running. The counting lemma is
about cardinalities: the dummy samples of a window are `lost` times the channels, so
the division in `CountSkippedScans` is exact. The refinement maps a delivery to the
step that counts it; reads and device steps stutter.

*StreamCallback.* The step of one thread must preserve what the other relies on, so
`IInv` is a conjunction by owner: `MainProgress` (what main's program counter says of
handle, memory, `done`), `StreamLife` (whose stream it is), `CallbackStopRecord` (the
callback's stop remembered), `CallbackView` (what the callback may believe at each of
its steps), `Release` (memory outlives the callback). `Release` alone needs
`StopWaitsForCallback`.

*StreamTriggered.* That the scan clock waits for an edge rests on what the device found in
the trigger register *when the own stream was started*, so `IInv` adds whose stream runs
at each place (`StreamOwner`: before `LJM_eStreamStart` any running stream is another
program's, so no scan is clocked while the registers are being written), what the
register holds, or who changed it, from its write to the start, and that the own stream
waits or has seen its edge (`TriggerSet`), and that `taken` is the number of reads times their size (`Pipeline`).
From the last, a complete run has clocked scans, so there was an edge.

*AperiodicStreamOut.* The outputs are in step because the last one hands over for all:
`TakenUpTogether` says that every output plays the same state at the same position,
`HandedOver` which outputs wait for the synch at each place of the loop, `StatesCounted`
how many states each has been given by then, and `WritingInPlace` that what is being
written lies outside of what is being played. `StatusReserve = 1` is a hypothesis and
not an assumption of the module: it is what the documents of the device say of
`BUFFER_STATUS`, and with 0 TLC finds the violation of `NothingLost`. The module assumes
`StateSize > 1`: with states of one value, which the program's buffer never holds,
an output can take up two states within a scan and `OutsInStep` is false.

*MCExamples.* `ExamplesProofs` proves the machines of the composition one by one. Each
has an invariant of its own that its own steps keep, and the theorem is
`part = ... => IInv`: a step of the composition is a step of the one machine and leaves
the variables of the others.

* `LuaIInv`: from the write of the source on, what is in the buffer is the program's own
  script; before that script's first write, the program has written nothing but 0.
* `ClockIInv`: whose stream runs and what clocks it, place by place.
* `UpdatesIInv` and `SamplesIInv` (`StreamOutAndIn`): `ValuesRecent` says which updates
  the values within reach of a loop may come from, `ValuesExact` that while nobody else
  wrote (`alone`) they are those of this update, as far as the three writes have come;
  the skipped samples are those of the scans that were counted (`ScansCounted`).
* `CacheIInv`: `CacheWhole` (a name in the cache stands for a whole file, and so does
  every file that once was there), and `CacheProcess` for each process: what it has
  retrieved, what it has built, what it is about to rename. Two processes do not share
  a temporary file because their numbers differ (`CacheAssumption`).
* `SdIInv`: no call says which directory is current, so the invariant follows the list
  of calls: `SdKnown(k)` is what is known before the k-th call of each program
  (`SdPlans`), and a running program is at some k.
* `TcpIInv`: while the interface is up the address is nobody else's, and what was read
  then is this address or the static one.
* `TimedIInv`: the readings lie within one period of the scan that is being output
  (`TimedOnly`, which is arithmetic: a period of the clock is a product), what a sleep ends
  at, how many scans went out, and where the device is in its reboot.
* `ConfIInv`: `ConfResults` says that every object, in the database and in memory, is
  recorded with the result of the text, flags, libraries and header it was made of; so an
  object that is taken for current answers as compiling it again would, as far as what it
  was compared with is what is there. `ConfConfigH` and `LibsInOrder` keep `config.h` and
  `LIBS` equal to the answers of the run. The hypothesis `WorksType` says that whether a
  text compiles is a Boolean, and that a header which the text does not include has no
  say in it.
* `ActionIInv`: `ActsInTurn(t)` ties the outcomes of a thread's list to its place in it,
  `ActionsApart` says who holds the current directory and what it is restored to. Nothing
  is assumed of `overlap` but what it records.
* `CallIInv`: `OneRecipe` speaks of the executors that some target still has; to be kept, it
  is needed of all that were ever made (`MakersAgree`), since a call in a batch gives an old
  executor back to a target. A call of a builder that may be called again adds sources to
  its executor and to its targets, and to them alone: that executor has one batch, with
  just these targets (`MultiAlone`), and is none of those that take further batches
  (`BatchesApart`). What a node knows of its maker (`NodesKnow`) is what `_node_errors`
  compares a call with. `BuilderAssumption` says that a call has a target and names no
  source twice; the node of a source that is named twice has it once and its batch twice
  (`Node.add_source`, `Executor.add_batch`), and the property compares the two. That
  `Added`, the recursion of `add_source`, gives a list of nodes and leaves a list alone
  that has them is proved element by element (`AddedStepwise`).

*SConsJob.* `RefCountExact` is not inductive alone: that a count is reduced by the right
number needs that every task names nodes only, in the queues and at the workers
(`TasksTyped`), and a task that stops the build is given the current target of the
command line, so there has to be one whenever a task can fail (`TopTaken`). The counting
is about finite sets of parents; the graph is any family of finitely many nodes
(`GraphAssumption`), the workers finitely many (`WorkersAssumption`).

`WalkSound` says what the walk is at when it looks for the next task; its invariant `WInv`
says it at every step. A pending node is on the stack, or some child names it as a waiting
parent, or it waits for a side effect that is executing, or that the task in hand is about
to release (`PendingKept`). For the last case the invariant needs who can wait for a side
effect (`SideEffectsWaited`) and that no side effect is a task of its own while what makes
it is not done (`TasksUnderWay`): otherwise the post-processing of the wrong task would
release it. That needs in turn that the targets of an executor leave the walk together
(`PeersAgree`), and that only what has a builder fails (`FailuresBuilt`). The suspects of a
cycle get a conjunct of their own (`SuspectsKept`). None of this is kept once a command has
failed, since a failure gives nodes up, so `WInv` says that the walk was stopped, or there
is a failure that no later step takes back (`FailedForGood`: all targets of an executor
have failed and none is a side effect, the only kind of node that `postprocess` resets), or
nothing is lost (`Unharmed`). TLC found `WInv` true in every state of the run
`scons_job` before it was proved.

The assumption `GraphShape` is what the declarations make of a graph: the targets of an
executor share it and its builder (`Executor.__init__`, `Node.set_executor`); a node with a
builder cannot become a side effect (`Environment.SideEffect`, Environment.py:2161) nor a
side effect a target (Builder.py:291), and a side effect has what makes it among its
sources (Environment.py:2163); only what has a builder is scanned (`Node.scan`) or has a
command. The lists of children are recursive functions; that they are defined, and that
`UniqueList` and `Concat` keep every element, is proved from the well-foundedness of the
naturals (`RecursionExists`, `ConcatList`,
`UniqueElements`).

*SConsRebuild.* What a target was made from is told by timestamps: `VersionsOK` says that
a file and its mtime determine its content, among all that was ever there and in the
cache, and the invariant speaks of the contents *at the times* a list of NodeInfos gives
(`ContentsAt`, `ListAt`). With that, one form serves all the places where a target is
described: `MadeIn` says that the file is what its command makes of its children at given
times, and that a child with another timestamp since is newer than the target, which is
what `timestamp-newer` relies on. `RecordIn` says it of a record, in the database
(`DatabaseOK`) or as it was read (`StoredOK`); `DoneOK` of a target that was decided upon
or made in this run; `WaitingOK` of the children, from the decision to the end of the
command, unless one was touched. `EntriesOK` and the last parts of `VisitedOK` say that a
NodeInfo has its signature and its timestamp of one moment, unless it is in `dated` or
`mixed`. `Evaluate` is the step where the four deciders enter: each implies that no child
differs from the record. The hypothesis `ScannerType` says that the scanner finds files of
the project, whatever the contents; `FineClock`, that no plan has the coarse clock, since
without it a file and its mtime do not determine a content. Files, graph, contents, commands, plans and their
lengths are arbitrary.

`NullBuild` needs more, since `MadeIn` allows a child to differ from the record as long as
a decider would see it: a second run must see nothing. `NInv` adds what one undisturbed run
says of each file (`RunOK`: its signature is that of its content, the record names the
children it has, no child is newer), and what a settled project keeps from run to run
(`SettledOK`: the record has, for every target, the command and the NodeInfos of now, in the
database between runs and as it was read during one, and no target is remade).
`max_drift` enters here: a signature is taken from the database for the same files in
each run (`DriftOK`). `ContentsType` is needed because `None` stands for a file that is not
there: no command and no version of a source makes it, and it is neither the marker of a
part of a file nor a database. The instances of the runs satisfy it.

The attempt showed that the properties as they were checked before were false: with a
request for other targets, or a cache, a NodeInfo can mix two moments where no history
variable said so, and the plans that TLC had were too small to meet it. The histories
`mixed`, `dated` and `aged`, two plans, and the corrected exceptions came of it.

Where a proof needs the least of a set of numbers, or a maximum, it takes them from the
well-foundedness of the naturals (`NatMin`) and not from induction, which this prover
cannot do over an operator.

### What is only model-checked

* Everything under fairness (`Termination`), since liveness and `ENABLED` are beyond this
  prover.
* `CyclesExact`, `ExitZeroTrue` and `ImplementsSchedule` (`SConsJob`). They are about the whole
  graph (which nodes a build reaches, whether it has a cycle) where `WInv` is about the
  neighbours of a node; section 7 says what is missing.
* `RegisterExamplesSafe`: the sequences are fixed and the registers finitely many, so TLC
  covers every case but the number of programs that run one after the other.
* The properties of the runs `scons_parts` and `scons_startup`. `SConsEntries`,
  `SConsFileSystem` and `SConsOptions` use RECURSIVE operators, with which
  this prover cannot work, and neither can it in a module that instantiates them, such as
  `MCSConsParts`. `WordsAgreeUnlessEmpty` and the second half of `EnvironmentsApart` say what
  recursive definitions compute of any list, which would take induction over data.

## 5. What is not modelled, and why

Of the examples:

* *Connection tests* (`auto_reconnect_test.c`, `open_all_test.c`): print what one call
  returned; the reconnecting is inside the library. `system_reboot_test.c` is in
  `TimedPrograms`.
* *Speed tests* measure time; the order of their calls is that of the examples.
* *Listings* format the result of one call; *calibration, thermocouple and settings
  utilities* are floating-point conversions and formatting.
* *Generated project files and scripts*: configuration of other build systems.
* Within the modelled programs: what is printed, and the values of samples other than
  `LJM_DUMMY_VALUE`. In `StreamExternalClock` the stream trigger, which the example
  clears and the test leaves as it was: with one left set no scan comes, which the
  attempts already allow for. Of `LJM_Utilities.h` the printing helpers, `GetAndPrint`
  and the tables of constants.

Of SCons:

* *Platforms, ports, `Memoize`, `PathList`*: calls of the operating system and of the
  Python version, and memos of functions that do not change.
* *Project files (`msvs.py`) and packages*: text generators.
* *Documentation, translation and Java tools*: parsers of foreign languages behind a
  Builder.
* *Start scripts and wrappers* (`scons.py`, `sconsign.py`, `make_all.sh`).
* Within the modelled parts: the texts of messages, help, test programs and reports;
  regular expressions (a text is what they find in it); quoting; names of drives and
  the spelling of paths; the flags `Precious`, `Local` and `AlwaysBuild`; list, package
  and path variables; the emitters of the Windows linkers; the tool files that only
  set variables; the storage of node attributes. The notes of the components in
  `PROJECT.json` say it for each.

## 6. Where code and documents disagree

Three runs end in a violation, each of one sentence of the repository:

| Run | The document | The code |
|---|---|---|
| `callback_data` | "If LJM has called this callback, the data is valid" (`stream_callback.c:249`) | prints `aData` before it looks at the result of `LJM_eStreamRead`, which `main`'s stop may have made an error |
| `scons_keep_going` | "all the pending children nodes due to a diamond-shaped DAG will have been properly built (or will have failed to build)" (`Taskmaster.py:742`) | the branch at line 902 fails a node without removing the parents that wait for it; with `-k` and two jobs a cycle is reported that does not exist |
| `scons_lost_error` | "Must be set to a non-zero value even if the build error is not due to an action returning a non-zero returned code." (`Errors.py:49`) | `convert_to_BuildError` (line 195) takes the status of an `OSError` from its `errno`, which may be `None`, and the target counts as built |

Others were met while modelling; the models have the code's behaviour, and where a
property has an exception, it is one of these.

Examples:

* `LJM_Utilities.h:124` says that `ErrorCheck` exits when the error is not
  `LJME_NOERROR`; `_ErrorCheckWithAddress` (line 420) goes on after a warning.
* `stream_callback.c:238`: the test of `done` and the `printf` that announces the
  iteration are separate steps; `AtMostOneLateIteration` bounds what follows.
* `LJM_Utilities.h:435`: `ErrorCheck` closes all handles and then exits; after a failed
  stop the callback of `stream_callback.c` may still run between the two, with the closed
  handle.
* `stream_triggered.c:167`: the trigger is written once. A device that is reset before
  line 178 starts its stream without one, and scans at once; one that is reset, or whose
  DIO0 is reconfigured, later may wait for ever.
* `stream_out_update.c:4` may "run concurrently with stream_basic_with_stream_out", but
  the three writes of the two programs interleave to a loop with values of both.
* `stream_basic_with_stream_out.c:314` prints a "Total number of skipped scans" that
  counts samples.
* `advanced_aperiodic_stream_out.cpp:391` speaks of a status "greater or equal to" a
  whole state; line 406 goes on at `stateSize - 1`. The message at line 410 ("Buffer
  status doesn't appear to be updating") counts rounds, whatever their status.
* `lua_execution_control.c:112`: "LUA_RUN must be written to twice"; `ReadLuaInfo` stops
  the script with one write.
* `stream_out_only.c:132`: an iteration longer than the period makes the rest negative,
  which is stored in an unsigned int.
* `stream_in_with_aperiodic_stream_out.cpp:117, 157` measures from before the start, so
  values for the time the start took may not be output, although the comment at
  152-159 says that all are. It and `periodic_stream_out.cpp` clear neither a leftover
  trigger nor a leftover stream; the latter then ends normally with nothing output.
* `system_reboot_test.c:64` loops for ever if no poll meets `LJME_RECONNECT_FAILED`.
* `stream_out_only.c` and `stream_basic_with_stream_out.c` never write
  `STREAM_OUT#_ENABLE` 0 before they change a loop.
* Register examples: the write-read loops leave `DIO_INHIBIT` set; the UART example
  leaves `ASYNCH_ENABLE` on lines that the other buses use; on an unknown device
  `dio_ef` uses pins that were never set; the 1-Wire example goes on with a ROM that
  was never read.
* `more/sd`: `read_file` leaves the device in the file's directory, calls a file of
  size 0 not found, and exits without closing; `GetCurrentWorkingDirectory` ignores
  its last read's error; `sd_util.hpp:129` computes the disk size in 32 bits.

SCons:

* A command, or a scanner, that calls `Exit(0)` (or `sys.exit(0)`) fails its target with
  the status 0 (`Errors.py:158`), which becomes that of SCons (`Script/Main.py:306`).
  With `-k` the status of the last failure replaces those before it, so one such target
  hides the failure of others.
* NodeInfo (`FS.py:2836`) may mix the signature of one moment with the timestamp of
  another; a target from the cache gets its older timestamp back under `MD5`, and a later
  run with `timestamp-newer` then takes what depends on it for current; `set_max_drift(0)` of `SConf` makes stored answers stand for other headers.
* `Builder.add_action` (879) leaves the source suffixes as they were remembered: the added
  ones may not be built.
* `Environment`: `delete_existing` with a string removes substrings; `Append` on an
  OverrideEnvironment changes its subject; a clone shares what `semi_deepcopy` does
  not copy; `MergeFlags` may reverse its caller's list.
* `CacheDir` creates its configuration empty before it is written; `-U` filters
  `DEFAULT_TARGETS` for good.
* `Glob` changes the class of a Node; an Entry that is looked up later is not compared
  with the disk (docstring `FS.py:1384`); `Execute` clears only the memos of the Node
  it names.
* Subst: an empty value can run two words together (docstring `Subst.py:657`).
  `>$TARGET` gives two words and a text without a space (`Subst.py:784`, as the comment
  there says). `ListSubber.close_strip` ends the stripping at the first `$)`, where the
  text that is signed counts nested ones.
* Options: a warning of the command line extends the default list, which `SetOption`
  then replaces; `AddOption` with an abbreviation of a builtin option; a value as a
  word of its own is taken for a target too; `Variables.Save` truncates its file first.
* LaTeX: `must_rerun_latex` and the glossary suffix belong to the module, not to the
  document; a failed BibTeX is forgotten when LaTeX runs again; `env['ENV']` is not
  restored; the scanner remembers what it has seen by name.
* Tools: a versioned library whose own name is `libfoo.so` is refused; two versions
  share link names; `-c` deletes a user's file of a link's name; Nodes and `#` escape
  the install sandbox; the first D program turns the linker for all later ones.
* Toolchains: a tool file of a name that is loaded already is executed into the same
  module, and a load that failed "succeeds" the second time; installed compilers are
  remembered for the first target architecture.
* Search paths: repeats in an argument keep the last where the docstring says the
  first; `MergeFlags` keeps one of two `-Xlinker`; an option without its argument is
  dropped.
* `scons-time`: `run_command_list` never returns a status; `-n` leaves temporary
  directories; overlapping runs overwrite each other's logs; `-p foo` also reports
  `foo-2`; numbers from 1000 on sort wrongly.

## 7. Plan

What could be modelled has been, as far as section 5 says; what is left is to prove
more. In this order:

1. `SConsJob`: `ExitZeroTrue` and `ImplementsSchedule`. `WInv` is the half of them that is about the
   walk. What is missing: that every node a requested target needs, and that was visited, is
   pending or over (so an empty stack with nothing pending means a whole build), which needs
   the children as they were scanned to be kept in the state; and for `CyclesExact` a path
   of waiting parents, which is induction over data.
2. The other machines without RECURSIVE operators (`SConsInteractive`, and the heap of
   `SConsEnvironment`), composed apart from those with them, as `SConsBuilder` has been.
