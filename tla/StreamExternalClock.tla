-------------------------- MODULE StreamExternalClock --------------------------
(***************************************************************************)
(* stream_external_clock.c and externally_clocked_stream_test.c: every     *)
(* pulse on CIO3 clocks a scan, and the pulses come from the program's own *)
(* pulse generator, an extended feature of FIO0 that outputs so many       *)
(* pulses and stops.  The read loop makes a fixed number of attempts, each *)
(* of which may find no scans.  The two programs differ in when they       *)
(* enable the generator: before the stream is started, or after.           *)
(***************************************************************************)
EXTENDS StreamUtilities

CONSTANTS
  NumAttempts,      \* NUM_LOOP_ITERATIONS
  ExamplePulses,    \* numPulses of EnableFIO0PulseOut in the example: plenty
  TestPulses        \* and in the test: less than the attempts could read

ExternalClockAssumption ==
  /\ NumAttempts \in Nat \ {0}
  /\ ExamplePulses \in Nat
  /\ TestPulses \in 0..ExamplePulses

VARIABLES
  program,      \* which of the two runs: "example" or "test"
  streamRead,   \* attempts made
  clockSource,  \* the register STREAM_CLOCK_SOURCE: 0 or 2
  started,      \* the stream is the program's
  efEnabled,    \* the register DIO0_EF_ENABLE
  settings,     \* settings of the generator this program has written
  pulsesLeft,   \* pulses the enabled generator has yet to output
  strayScan     \* history: a scan was clocked by leftover settings

generatorVars == <<efEnabled, settings, pulsesLeft>>
programVars == <<pc, program, streamRead, clockSource, started>>
vars == <<sessionVars, deviceVars, generatorVars, programVars, strayScan>>

(* The example enables the generator before LJM_eStreamStart. *)
PulsesBeforeStart == program = "example"

NumPulses == IF program = "example" THEN ExamplePulses ELSE TestPulses

(* The writes between the two of DIO0_EF_ENABLE: the clock's divisor, roll  *)
(* value and enable, the index, the options, DIO0, and CONFIG_A, B and C.  *)
NumSettings == 9

(* An earlier program may have left its stream and its generator running. *)
Init ==
  /\ SessionInit
  /\ DeviceInit
  /\ pc = "open"
  /\ program \in {"example", "test"}
  /\ streamRead = 0
  /\ clockSource \in {"internal", "external"}
  /\ started = FALSE
  /\ efEnabled \in BOOLEAN
  /\ settings = 0
  /\ pulsesLeft \in {0, ExamplePulses}
  /\ strayScan = FALSE

(* OpenOrDie *)
Open(e) ==
  /\ pc = "open"
  /\ OpenOrDie(e, "info")
  /\ UNCHANGED <<deviceVars, generatorVars, streamRead, clockSource, started,
                 program, strayScan>>

(* PrintDeviceInfoFromHandle; exit(1) for a T4, if the program asks. *)
Info(e) ==
  /\ pc = "info"
  /\ \/ ErrorCheck(e, "disable")
     \/ PulsesBeforeStart /\ ~ErrorCheckDies(e) /\ BareExit /\ pc' = "exit"
  /\ UNCHANGED <<deviceVars, generatorVars, streamRead, clockSource, started,
                 program, strayScan>>

Disable ==
  /\ pc = "disable"
  /\ \E old \in BOOLEAN, result \in {"die", "clear", "left"} :
       /\ DisableStreamIfEnabled(old, result)
       /\ IF result = "die"
          THEN CheckedExit /\ pc' = "exit"
          ELSE pc' = "configure" /\ UNCHANGED sessionVars
  /\ UNCHANGED <<generatorVars, streamRead, clockSource, started, program, strayScan>>

(* LJM_NamesToAddresses; HardcodedConfigureStream, in the one that has it. *)
Configure(e) ==
  /\ pc = "configure"
  /\ \/ ErrorCheck(e, "clockSource")
     \/ PulsesBeforeStart /\ WriteNameOrDie(e, "clockSource")
  /\ UNCHANGED <<deviceVars, generatorVars, streamRead, clockSource, started,
                 program, strayScan>>

SetupExternalClockStreamDropped(e) ==
  /\ pc = "clockSource"
  /\ WriteNameOrDie(e, IF PulsesBeforeStart THEN "clearEF" ELSE "start")
  /\ UNCHANGED <<clockSource, deviceVars, generatorVars, streamRead, started,
                 program, strayScan>>

(* SetupExternalClockStream *)
SetupExternalClockStream(e) ==
  /\ pc = "clockSource"
  /\ clockSource' = IF e = "error" THEN clockSource ELSE "external"
  /\ WriteNameOrDie(e, IF PulsesBeforeStart THEN "clearEF" ELSE "start")
  /\ UNCHANGED <<deviceVars, generatorVars, streamRead, started, program, strayScan>>

ClearEFDropped(e) ==
  /\ pc = "clearEF"
  /\ WriteNameOrDie(e, "setting")
  /\ UNCHANGED <<efEnabled, settings, pulsesLeft, deviceVars, streamRead,
                 clockSource, started, program, strayScan>>

(* EnableFIO0PulseOut: the generator off, its settings, the generator on. *)
ClearEF(e) ==
  /\ pc = "clearEF"
  /\ efEnabled' = IF e = "error" THEN efEnabled ELSE FALSE
  /\ WriteNameOrDie(e, "setting")
  /\ UNCHANGED <<settings, pulsesLeft, deviceVars, streamRead, clockSource,
                 started, program, strayScan>>

WriteSetting(e) ==
  /\ pc = "setting"
  /\ settings' = IF e = "error" THEN settings ELSE settings + 1
  /\ WriteNameOrDie(e, IF settings + 1 < NumSettings THEN "setting" ELSE "enableEF")
  /\ UNCHANGED <<efEnabled, pulsesLeft, deviceVars, streamRead, clockSource,
                 started, program, strayScan>>

EnableEF(e) ==
  /\ pc = "enableEF"
  /\ IF e = "error"
     THEN UNCHANGED <<efEnabled, pulsesLeft>>
     ELSE efEnabled' = TRUE /\ pulsesLeft' = NumPulses
  /\ WriteNameOrDie(e, IF PulsesBeforeStart THEN "start" ELSE "read")
  /\ UNCHANGED <<settings, deviceVars, streamRead, clockSource, started,
                 program, strayScan>>

(* LJM_eStreamStart *)
Start(e) ==
  /\ pc = "start"
  /\ IF e = "error"
     THEN UNCHANGED <<deviceVars, started>>
     ELSE StreamStarted /\ started' = TRUE
  /\ ErrorCheck(e, IF PulsesBeforeStart THEN "read" ELSE "clearEF")
  /\ UNCHANGED <<generatorVars, streamRead, clockSource, program, strayScan>>

(* The test of the loop, after one more attempt. *)
AfterRead == IF streamRead + 1 < NumAttempts THEN "read" ELSE "stop"

(* LJM_eStreamRead with LJM_STREAM_SCANS_RETURN_ALL_OR_NONE *)
Read(e) ==
  /\ pc = "read"
  /\ IF e = "error" THEN UNCHANGED deviceVars ELSE StreamReadDone
  /\ streamRead' = streamRead + 1
  /\ ErrorCheck(e, AfterRead)
  /\ UNCHANGED <<generatorVars, clockSource, started, program, strayScan>>

NoScansReturnedRetry ==
  /\ pc = "read"
  /\ ~ReadReady
  /\ pc' = "read"
  /\ UNCHANGED <<streamRead, sessionVars, deviceVars, generatorVars, clockSource,
                 started, program, strayScan>>

(* LJME_NO_SCANS_RETURNED after LJM_STREAM_RECEIVE_TIMEOUT_MS. *)
NoScansReturned ==
  /\ pc = "read"
  /\ ~ReadReady
  /\ streamRead' = streamRead + 1
  /\ pc' = AfterRead
  /\ UNCHANGED <<sessionVars, deviceVars, generatorVars, clockSource, started,
                 program, strayScan>>

(* LJM_eStreamStop *)
Stop(e) ==
  /\ pc = "stop"
  /\ IF e = "error"
     THEN UNCHANGED <<deviceVars, started>>
     ELSE StreamStopped /\ started' = FALSE
  /\ ErrorCheck(e, "close")
  /\ UNCHANGED <<generatorVars, streamRead, clockSource, program, strayScan>>

(* CloseOrDie, and the end of main. *)
Close(e) ==
  /\ pc = "close"
  /\ CloseOrDie(e)
  /\ UNCHANGED <<deviceVars, generatorVars, streamRead, clockSource, started,
                 program, strayScan>>

Call(e) ==
  \/ Open(e) \/ Info(e) \/ Configure(e) \/ SetupExternalClockStream(e)
  \/ ClearEF(e) \/ WriteSetting(e) \/ EnableEF(e)
  \/ Start(e) \/ Read(e) \/ Stop(e) \/ Close(e)

Program == Disable \/ NoScansReturned \/ \E e \in Outcome : Call(e)

-----------------------------------------------------------------------------
(* A pulse on CIO3: a scan, if the program's stream waits for one. *)
Pulse ==
  /\ efEnabled
  /\ pulsesLeft > 0
  /\ pulsesLeft' = pulsesLeft - 1
  /\ IF started /\ streaming /\ clockSource = "external"
     THEN ClockScan /\ strayScan' = (strayScan \/ settings < NumSettings)
     ELSE UNCHANGED <<deviceVars, strayScan>>
  /\ UNCHANGED <<sessionVars, programVars, efEnabled, settings>>

Deliver ==
  /\ started
  /\ Transfer \/ EndRecovery
  /\ UNCHANGED <<sessionVars, programVars, generatorVars, strayScan>>

Finished ==
  /\ ~Running
  /\ UNCHANGED vars

Next == Program \/ Pulse \/ Deliver \/ Finished

(* The program runs, but no fault of LJM_eStreamRead is there to end it.    *)
(* Nothing is assumed of the pulses or of the device.                      *)
Fairness == WF_vars(Program /\ (pc = "read" => exit' = "none"))

Spec == Init /\ [][Next]_vars
FairSpec == Spec /\ Fairness

-----------------------------------------------------------------------------
(* Every scan of the example is clocked by a pulse of the generator as it   *)
(* configured it (lines 179-184), never by pulses an earlier program's     *)
(* generator still outputs; and in neither program by the internal clock.  *)
OwnPulsesOnly ==
  /\ program = "example" => ~strayScan
  /\ started => clockSource = "external"

(* A return from main leaves the stream off, however many of the attempts   *)
(* found no scans.                                                         *)
NormalExitStreamOff ==
  exit = "ok" => /\ ~streaming
                 /\ handle = "closed"
                 /\ streamRead = NumAttempts

ExternalClockSafe == OwnPulsesOnly /\ NormalExitStreamOff
===============================================================================
