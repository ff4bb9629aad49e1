------------------------------- MODULE LuaScript -------------------------------
(***************************************************************************)
(* lua_execution_control.c (the copies under more/lua and more/utilities   *)
(* are the same) and lua_script_basic.c: stop whatever Lua script the      *)
(* device runs, load another, run it, and read its output in rounds.       *)
(* lua_execution_control also tells the running script, through a register *)
(* of the device, which of its three loops to use, and stops it at the     *)
(* end.  The script runs on the device beside the program.                 *)
(***************************************************************************)
EXTENDS Utilities

CONSTANTS
  NumRounds,   \* rounds of ReadLuaInfo
  MaxBytes     \* bound: output the device holds

LuaScriptAssumption ==
  /\ NumRounds \in Nat
  /\ MaxBytes \in Nat

VARIABLES
  program,     \* which of the two runs: "control" or "basic"
  i,           \* rounds done
  numBytes,    \* as LUA_DEBUG_NUM_BYTES was read
  vm,          \* the Lua VM: "stopped", "running", "stopping" or "halted"
  source,      \* the script in the device's source buffer
  script,      \* the script the VM was started with
  booted,      \* the script has made its first write to USER_RAM0
  userRam,     \* the register USER_RAM0_U16
  debugBytes,  \* output of the script that was not read yet
  lastWrite    \* history: the last loop number the program wrote

programVars == <<pc, program, i, numBytes>>
vmVars == <<vm, source, script, booted, userRam, debugBytes>>
vars == <<sessionVars, programVars, vmVars, lastWrite>>

ControlsExecution == program = "control"

Loops == 0..2   \* loop0, loop1 and loop2 of the script
NoLoop == 3     \* nothing was written yet

(* An earlier program may have left a script running. *)
Init ==
  /\ SessionInit
  /\ pc = "open"
  /\ program \in {"control", "basic"}
  /\ i = 0
  /\ numBytes = 0
  /\ vm \in {"stopped", "running"}
  /\ source = "earlier"
  /\ script = "earlier"
  /\ booted = TRUE
  /\ userRam \in Loops
  /\ debugBytes \in 0..MaxBytes
  /\ lastWrite = NoLoop

(* OpenOrDie, PrintDeviceInfoFromHandle *)
Open(e) ==
  /\ pc = "open"
  /\ OpenOrDie(e, "info")
  /\ UNCHANGED <<i, numBytes, vmVars, program, lastWrite>>

Info(e) ==
  /\ pc = "info"
  /\ ErrorCheck(e, "disable")
  /\ UNCHANGED <<i, numBytes, vmVars, program, lastWrite>>

(* LUA_RUN 0: the first write has the VM shut down, the second disables    *)
(* the script for good.                                                    *)
LuaRunOff ==
  vm' = CASE vm = "running" -> "stopping"
          [] vm = "halted"  -> "stopped"
          [] OTHER          -> vm

Disable(e) ==
  /\ pc = "disable"
  /\ IF e = "error" THEN UNCHANGED vm ELSE LuaRunOff
  /\ WriteNameOrDie(e, "wait")
  /\ UNCHANGED <<i, numBytes, source, script, booted, userRam, debugBytes,
                 program, lastWrite>>

(* MillisecondSleep(600): long enough for the VM to shut down. *)
Wait ==
  /\ pc = "wait"
  /\ vm # "stopping"
  /\ pc' = "disableAgain"
  /\ UNCHANGED <<sessionVars, i, numBytes, vmVars, program, lastWrite>>

DisableAgain(e) ==
  /\ pc = "disableAgain"
  /\ IF e = "error" THEN UNCHANGED vm ELSE LuaRunOff
  /\ WriteNameOrDie(e, "size")
  /\ UNCHANGED <<i, numBytes, source, script, booted, userRam, debugBytes,
                 program, lastWrite>>

(* LUA_SOURCE_SIZE: room for a script of another length. *)
WriteSize(e) ==
  /\ pc = "size"
  /\ source' = IF e = "error" THEN source ELSE "partial"
  /\ WriteNameOrDie(e, "source")
  /\ UNCHANGED <<i, numBytes, vm, script, booted, userRam, debugBytes, program, lastWrite>>

WriteSourceUnchecked(e) ==
  /\ pc = "source"
  /\ source' = IF e = "error" THEN "partial" ELSE "own"
  /\ pc' = "debug"
  /\ UNCHANGED <<sessionVars, i, numBytes, vm, script, booted, userRam,
                 debugBytes, program, lastWrite>>

(* LUA_SOURCE_WRITE; an error may come after some of the bytes. *)
WriteSource(e) ==
  /\ pc = "source"
  /\ source' = IF e = "error" THEN "partial" ELSE "own"
  /\ ErrorCheck(e, "debug")
  /\ UNCHANGED <<i, numBytes, vm, script, booted, userRam, debugBytes, program, lastWrite>>

(* LUA_DEBUG_ENABLE, LUA_DEBUG_ENABLE_DEFAULT *)
EnableDebug(e) ==
  /\ pc = "debug"
  /\ WriteNameOrDie(e, "run")
  /\ UNCHANGED <<i, numBytes, vmVars, program, lastWrite>>

(* LUA_RUN 1 starts the script that is in the source buffer. *)
Run(e) ==
  /\ pc = "run"
  /\ IF e = "error"
     THEN UNCHANGED <<vm, script, booted>>
     ELSE vm' = "running" /\ script' = source /\ booted' = FALSE
  /\ WriteNameOrDie(e, "round")
  /\ UNCHANGED <<i, numBytes, source, userRam, debugBytes, program, lastWrite>>

(* The loop's test, a second of sleep, and GetAndPrint of LUA_RUN. *)
Round ==
  /\ pc = "round"
  /\ pc' = IF i < NumRounds
           THEN IF ControlsExecution THEN "userRam" ELSE "numBytes"
           ELSE IF ControlsExecution THEN "stop" ELSE "close"
  /\ UNCHANGED <<sessionVars, i, numBytes, vmVars, program, lastWrite>>

executionLoopNum == i % 3

(* Its result is overwritten unread.  After the second sleep of a second    *)
(* the script, started before the first, has made its first write.         *)
WriteUserRam(e) ==
  /\ pc = "userRam"
  /\ i > 0 => booted
  /\ IF e = "error"
     THEN UNCHANGED <<userRam, lastWrite>>
     ELSE userRam' = executionLoopNum /\ lastWrite' = executionLoopNum
  /\ pc' = "numBytes"
  /\ UNCHANGED <<sessionVars, program, i, numBytes, vm, source, script, booted,
                 debugBytes>>

ReadNumBytes(e) ==
  /\ pc = "numBytes"
  /\ numBytes' = IF e = "error" THEN 0 ELSE debugBytes
  /\ ErrorCheck(e, IF debugBytes = 0 THEN "round" ELSE "data")
  /\ i' = IF ErrorCheckDies(e) \/ debugBytes > 0 THEN i ELSE i + 1
  /\ UNCHANGED <<vmVars, program, lastWrite>>

(* LUA_DEBUG_DATA, freed before it is known whether it was read. *)
ReadData(e) ==
  /\ pc = "data"
  /\ debugBytes' = IF e = "error" THEN debugBytes ELSE debugBytes - numBytes
  /\ ErrorCheck(e, "round")
  /\ i' = i + 1
  /\ UNCHANGED <<numBytes, vm, source, script, booted, userRam, program, lastWrite>>

(* "Stop the script": LUA_RUN 0, once. *)
Stop(e) ==
  /\ pc = "stop"
  /\ IF e = "error" THEN UNCHANGED vm ELSE LuaRunOff
  /\ WriteNameOrDie(e, "close")
  /\ UNCHANGED <<i, numBytes, source, script, booted, userRam, debugBytes,
                 program, lastWrite>>

(* CloseOrDie, and the end of main. *)
Close(e) ==
  /\ pc = "close"
  /\ CloseOrDie(e)
  /\ UNCHANGED <<i, numBytes, vmVars, program, lastWrite>>

Call(e) ==
  \/ Open(e) \/ Info(e) \/ Disable(e) \/ DisableAgain(e)
  \/ WriteSize(e) \/ WriteSource(e) \/ EnableDebug(e) \/ Run(e)
  \/ WriteUserRam(e) \/ ReadNumBytes(e) \/ ReadData(e)
  \/ Stop(e) \/ Close(e)

Program == Wait \/ Round \/ \E e \in Outcome : Call(e)

-----------------------------------------------------------------------------
(* MB.W(46180, 0, ramval): a script starts with loop0. *)
ScriptBoots ==
  /\ vm = "running" /\ ~booted
  /\ booted' = TRUE
  /\ userRam' = IF ControlsExecution THEN 0 ELSE userRam
  /\ UNCHANGED <<sessionVars, programVars, vm, source, script, debugBytes,
                 lastWrite>>

(* An interval of the script: it prints the loop it is told to use. *)
ScriptPrints ==
  /\ vm \in {"running", "stopping"} /\ booted
  /\ debugBytes < MaxBytes
  /\ debugBytes' = debugBytes + 1
  /\ UNCHANGED <<sessionVars, programVars, vm, source, script, booted, userRam,
                 lastWrite>>

(* The VM shuts down. *)
VMHalts ==
  /\ vm = "stopping"
  /\ vm' = "halted"
  /\ UNCHANGED <<sessionVars, programVars, source, script, booted, userRam,
                 debugBytes, lastWrite>>

Finished ==
  /\ ~Running
  /\ UNCHANGED vars

Next == Program \/ ScriptBoots \/ ScriptPrints \/ VMHalts \/ Finished

(* The program runs; a VM starts and shuts down when it is told to. *)
Fairness ==
  /\ WF_vars(Program)
  /\ WF_vars(ScriptBoots)
  /\ WF_vars(VMHalts)

Spec == Init /\ [][Next]_vars
FairSpec == Spec /\ Fairness

-----------------------------------------------------------------------------

(* ReadLuaInfo reads the output of the script this program loaded, whole;   *)
(* no failed write of its source lets a part of it run.                    *)
OwnScriptRuns ==
  pc \in {"round", "userRam", "numBytes", "data", "stop"} =>
    vm = "running" /\ script = "own"

(* The script's own first write of USER_RAM0 (line 57) never takes back a   *)
(* loop number of the program: only the first round can be overtaken by a  *)
(* script that starts late, and the first round writes 0, as the script.   *)
RamIsPrograms == booted /\ lastWrite # NoLoop => userRam = lastWrite

LuaSafe == OwnScriptRuns /\ RamIsPrograms

===============================================================================
