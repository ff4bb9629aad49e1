----------------------------- MODULE TimedPrograms -----------------------------
(***************************************************************************)
(* The programs that pace themselves by the host's clock and not by reads: *)
(* stream_out_only.c (program "only"), periodic_stream_out.cpp             *)
(* ("periodic"), stream_in_with_aperiodic_stream_out.cpp ("aperiodic"),    *)
(* stream_burst.c ("burst"), whose loop is one library call, and           *)
(* system_reboot_test.c ("reboot"), which polls a device that goes away.   *)
(*                                                                         *)
(* Time passes in ticks between any two calls, so a call may take any      *)
(* time; only a sleep is exact.                                            *)
(***************************************************************************)
EXTENDS Utilities

CONSTANTS
  Programs,
  Period,        \* ticks of one scan of stream_out_only; of the others, 1
  NumReads,      \* NUM_READS of stream_out_only
  Chunk,         \* samplesToWrite
  ScansPerRead,  \* scansPerRead of the aperiodic example, less than Chunk
  NumWrites,     \* NUM_WRITES
  RunTime,       \* runTimeMS
  Wrap,          \* 2^w of the unsigned sleepTimeMS, in ticks
  MaxTime        \* bound: the clock stops here

TimedAssumption ==
  /\ Programs \subseteq {"only", "periodic", "aperiodic", "burst", "reboot"}
  /\ {Period, NumReads, Chunk, ScansPerRead, NumWrites, RunTime} \subseteq Nat \ {0}
  /\ ScansPerRead < Chunk /\ Wrap \in Nat /\ Wrap > Period /\ MaxTime \in Nat

VARIABLES
  program,
  i,          \* the loop variable
  now,        \* GetCurrentTimeMS
  began,      \* timeStart, or startTime
  t0,         \* the beginning of the iteration
  wake,       \* when MillisecondSleep returns
  streaming,  \* STREAM_ENABLE: "off", "own", or "other" for another program's
  held,       \* a trigger or an external clock of an earlier program holds the scans
  started,    \* when the stream started
  scans,      \* scans clocked since
  taken,      \* scans LJM_eStreamRead has returned
  queued,     \* values written and not yet output
  power,      \* "up", "asked", "down", "back"
  hitReconnectError,
  reading,    \* history: the scan whose value the last reading showed
  offset,     \* history: the scans clocked when the loop began
  overran,    \* history: an iteration took longer than a period
  starved     \* history: scans that found no value to output

clockVars == <<now, scans, queued, starved>>
programVars == <<i, began, t0, wake, taken, hitReconnectError, reading, offset, overran>>
deviceVars == <<streaming, held, started, power>>
vars == <<sessionVars, pc, program, clockVars, programVars, deviceVars>>

Init ==
  /\ SessionInit
  /\ program \in Programs
  /\ pc = "open"
  /\ streaming \in {"off", "other"} /\ held \in BOOLEAN
  /\ i = 0 /\ now = 0 /\ began = 0 /\ t0 = 0 /\ wake = 0
  /\ started = 0 /\ scans = 0 /\ taken = 0 /\ queued = 0
  /\ power = "up" /\ hitReconnectError = FALSE
  /\ reading = 0 /\ offset = 0 /\ overran = FALSE /\ starved = 0

At(p) == Running /\ pc = p
Asleep == pc \in {"sleep", "run", "drain"}

(* One tick; a scan outputs the next value.  Time before LJM_eStreamStart   *)
(* is called and after the stop decides nothing.                           *)
Scans == streaming = "own" /\ ~held
ScanDue == Scans /\ (now + 1 - started) % (IF program = "only" THEN Period ELSE 1) = 0

Tick ==
  /\ pc \in {"start", "begin", "target", "status", "write", "streamRead"} \/ Asleep
  /\ now < MaxTime
  /\ Asleep => now < wake
  /\ now' = now + 1
  /\ scans' = IF ScanDue THEN scans + 1 ELSE scans
  /\ queued' = IF ScanDue /\ queued > 0 THEN queued - 1 ELSE queued
  /\ starved' = IF ScanDue /\ queued = 0 THEN starved + 1 ELSE starved
  /\ UNCHANGED <<sessionVars, pc, program, programVars, deviceVars>>

Unmoved == UNCHANGED <<program, clockVars>>

-----------------------------------------------------------------------------
(* LJM_Open, or OpenOrDie; then what each program does first. *)
Open(e) ==
  /\ At("open")
  /\ OpenOrDie(e, CASE program \in {"only", "burst"} -> "disable"
                    [] program = "periodic"  -> "load"
                    [] program = "aperiodic" -> "initialize"
                    [] program = "reboot"    -> "reboot")
  /\ UNCHANGED <<programVars, deviceVars>> /\ Unmoved

(* DisableStreamIfEnabled: a failed stop is only printed, any other failed  *)
(* call ends the program.                                                  *)
AfterDisable == IF program = "only" THEN "loop" ELSE "settings"

DisableStreamIfEnabled(e) ==
  /\ At("disable")
  /\ \/ /\ e = "ok" /\ streaming' = "off"
        /\ pc' = AfterDisable /\ UNCHANGED sessionVars
     \/ /\ e = "error" /\ UNCHANGED streaming
        /\ \/ CheckedExit /\ pc' = "exit"
           \/ streaming = "other" /\ pc' = AfterDisable /\ UNCHANGED sessionVars
  /\ UNCHANGED <<programVars, held, started, power>> /\ Unmoved

(* The registers of STREAM_OUT0, each written with WriteNameOrDie. *)
SetupStreamOut(e) ==
  /\ At("loop")
  /\ WriteNameOrDie(e, "settings")
  /\ UNCHANGED <<programVars, deviceVars>> /\ Unmoved

(* STREAM_TRIGGER_INDEX and STREAM_CLOCK_SOURCE, which are 0 after it, and  *)
(* the analog inputs of stream_burst, each written with WriteNameOrDie.    *)
WriteSettings(e) ==
  /\ At("settings")
  /\ WriteNameOrDie(e, IF program = "only" THEN "start" ELSE "burst")
  /\ held' \in {FALSE} \cup {h \in {held} : e # "ok"}
  /\ UNCHANGED <<programVars, streaming, started, power>> /\ Unmoved

(* LJM_PeriodicStreamOut: the library writes the loop.  It cannot while a   *)
(* stream runs.                                                            *)
PeriodicStreamOut(e) ==
  /\ At("load")
  /\ streaming = "off" \/ e = "error"
  /\ ErrorCheck(e, "start")
  /\ UNCHANGED <<programVars, deviceVars>> /\ Unmoved

(* LJM_InitializeAperiodicStreamOut and the two writes before the start;    *)
(* startTime is taken before LJM_eStreamStart is called.                   *)
InitializeAperiodicStreamOut(e) ==
  /\ At("initialize")
  /\ streaming = "off" \/ e = "error"
  /\ ErrorCheck(e, "start")
  /\ queued' = 2 * Chunk
  /\ began' = now
  /\ UNCHANGED <<program, now, scans, starved, i, t0, wake, taken, hitReconnectError,
                 reading, offset, overran, deviceVars>>

(* LJM_eStreamStart, refused while a stream runs. *)
StreamStart(e) ==
  /\ At("start")
  /\ streaming = "off" \/ e = "error"
  /\ IF ErrorCheckDies(e) THEN UNCHANGED <<streaming, started>>
     ELSE streaming' = "own" /\ started' = now
  /\ wake' = now + RunTime
  /\ ErrorCheck(e, CASE program = "only" -> "begin" [] program = "periodic" -> "run"
                     [] program = "aperiodic" -> "write")
  /\ UNCHANGED <<i, began, t0, taken, hitReconnectError, reading, offset, overran, held, power>>
  /\ Unmoved

(* timeStart of stream_out_only, and its first t0. *)
BeginLoop ==
  /\ At("begin")
  /\ pc' = "target"
  /\ began' = now /\ t0' = now /\ offset' = scans
  /\ UNCHANGED <<sessionVars, i, wake, taken, hitReconnectError, reading, overran, deviceVars>>
  /\ Unmoved

(* LJM_eReadName of TARGET and of the buffer status. *)
ReadTarget(e) ==
  /\ At("target")
  /\ ErrorCheck(e, "status")
  /\ reading' = scans
  /\ UNCHANGED <<i, began, t0, wake, taken, hitReconnectError, offset, overran, deviceVars>>
  /\ Unmoved

(* sleepTimeMS: the rest of the period as an unsigned int.  A negative      *)
(* double has none: what is stored is 0 or the rest modulo 2^w.            *)
SleepTimes(took) == IF took <= Period THEN {Period - took} ELSE {0, (Period - took) % Wrap}

ReadBufferStatus(e) ==
  /\ At("status")
  /\ ErrorCheck(e, "sleep")
  /\ \E ms \in SleepTimes(now - t0) : wake' = now + ms
  /\ overran' = (overran \/ now - t0 > Period)
  /\ UNCHANGED <<i, began, t0, taken, hitReconnectError, reading, offset, deviceVars>>
  /\ Unmoved

(* The next iteration begins when MillisecondSleep returns. *)
NextIteration ==
  /\ At("sleep") /\ now = wake
  /\ i' = i + 1 /\ t0' = now
  /\ pc' = IF i + 1 < NumReads THEN "target" ELSE "stop"
  /\ UNCHANGED <<sessionVars, began, wake, taken, hitReconnectError, reading, offset, overran, deviceVars>>
  /\ Unmoved

(* LJM_WriteAperiodicStreamOut and LJM_eStreamRead of one iteration. *)
WriteChunk(e) ==
  /\ At("write")
  /\ ErrorCheck(e, "streamRead")
  /\ queued' = queued + Chunk
  /\ UNCHANGED <<program, now, scans, starved, programVars, deviceVars>>

(* After the last read, streamOutMS from startTime on. *)
StreamOutTime == Chunk * (NumWrites + 2)
DrainUntil == IF now - began < StreamOutTime THEN began + StreamOutTime ELSE now

StreamRead(e) ==
  /\ At("streamRead")
  /\ scans - taken >= ScansPerRead \/ e = "error"
  /\ taken' = taken + ScansPerRead
  /\ i' = i + 1
  /\ ErrorCheck(e, IF i + 1 < NumWrites THEN "write" ELSE "drain")
  /\ wake' = IF i + 1 < NumWrites THEN wake ELSE DrainUntil
  /\ UNCHANGED <<began, t0, hitReconnectError, reading, offset, overran, deviceVars>>
  /\ Unmoved

(* The one sleep of the periodic and of the aperiodic example ends. *)
WakeUp ==
  /\ At("run") \/ At("drain")
  /\ now = wake
  /\ pc' = "stop"
  /\ UNCHANGED <<sessionVars, programVars, deviceVars>> /\ Unmoved

StreamStop(e) ==
  /\ At("stop")
  /\ streaming' \in {"off"} \cup {s \in {streaming} : e = "error"}
  /\ ErrorCheck(e, "close")
  /\ UNCHANGED <<programVars, held, started, power>> /\ Unmoved

(* LJM_StreamBurst starts, reads and stops; refused while a stream runs. *)
StreamBurst(e) ==
  /\ At("burst")
  /\ streaming = "off" \/ e = "error"
  /\ ErrorCheck(e, "close")
  /\ UNCHANGED <<programVars, deviceVars>> /\ Unmoved

(* SYSTEM_REBOOT with WriteNameOrDie; a failed write may have arrived. *)
WriteReboot(e) ==
  /\ At("reboot")
  /\ WriteNameOrDie(e, "poll")
  /\ power' \in {"asked"} \cup {p \in {power} : e = "error"}
  /\ UNCHANGED <<programVars, streaming, held, started>> /\ Unmoved

(* One round of the loop: only the error LJME_RECONNECT_FAILED counts as    *)
(* "away", and only an answer after it as "back".                          *)
Poll(err) ==
  /\ At("poll")
  /\ err = "ok" => power # "down"
  /\ err = "LJME_RECONNECT_FAILED" => power \in {"down", "back"}
  /\ hitReconnectError' = (hitReconnectError \/ err = "LJME_RECONNECT_FAILED")
  /\ pc' = IF err = "ok" /\ hitReconnectError THEN "close" ELSE pc
  /\ UNCHANGED <<sessionVars, i, began, t0, wake, taken, reading, offset, overran, deviceVars>>
  /\ Unmoved

Close(e) ==
  /\ At("close")
  /\ CloseOrDie(e)
  /\ UNCHANGED <<programVars, deviceVars>> /\ Unmoved

-----------------------------------------------------------------------------
(* The device goes away a while after it was asked to, and comes back. *)
GoesDown ==
  /\ power = "asked" /\ power' = "down"
  /\ UNCHANGED <<sessionVars, pc, programVars, streaming, held, started>> /\ Unmoved

ComesBack ==
  /\ power = "down" /\ power' = "back"
  /\ UNCHANGED <<sessionVars, pc, programVars, streaming, held, started>> /\ Unmoved

Answers == Poll("ok")

Program ==
  \/ \E e \in Outcome :
       \/ Open(e) \/ DisableStreamIfEnabled(e) \/ SetupStreamOut(e) \/ WriteSettings(e)
       \/ PeriodicStreamOut(e) \/ InitializeAperiodicStreamOut(e) \/ StreamStart(e) \/ ReadTarget(e)
       \/ ReadBufferStatus(e) \/ WriteChunk(e) \/ StreamRead(e) \/ StreamStop(e)
       \/ StreamBurst(e) \/ WriteReboot(e) \/ Close(e)
  \/ BeginLoop \/ NextIteration \/ WakeUp
  \/ \E err \in {"ok", "LJME_RECONNECT_FAILED", "other"} : Poll(err)

Finished ==
  /\ ~Running \/ now = MaxTime
  /\ UNCHANGED vars

Next == Program \/ Tick \/ GoesDown \/ ComesBack \/ Finished

Spec == Init /\ [][Next]_vars
-----------------------------------------------------------------------------
(* stream_out_only: the readings keep in step with the output, one scan per *)
(* iteration, as long as no iteration took longer than a period.           *)
ReadingsInStep ==
  program = "only" /\ pc = "sleep" /\ ~overran => reading - offset \in {i, i + 1}

(* A return from main means that the output ran: of stream_out_only for     *)
(* every reading, whatever an earlier program left, of the periodic example *)
(* for its time, unless a trigger held the scans, of the aperiodic one for  *)
(* all values but those the start took the time of and the late ones.      *)
OutputRan ==
  exit = "ok" =>
    /\ program = "only" => scans >= NumReads
    /\ program = "periodic" => held \/ scans >= RunTime
    /\ program = "aperiodic" => queued <= (started - began) + starved

(* No program stops another program's stream but by DisableStreamIfEnabled, *)
(* or returns with its own running.                                        *)
StreamsTold ==
  /\ pc = "stop" => streaming = "own"
  /\ exit = "ok" => streaming # "own"

(* "rebooted and is reconnected" is only said when it is. *)
RebootSeen == program = "reboot" /\ exit = "ok" => power = "back"

TimedSafe == ReadingsInStep /\ OutputRan /\ StreamsTold /\ RebootSeen

(* No poll met the error while the device was away: the loop never ends.   *)
Missed == program = "reboot" /\ power = "back" /\ ~hitReconnectError

(* What every program comes to, within the bound of the clock.             *)
Over == ~Running \/ now = MaxTime \/ Missed
=============================================================================
