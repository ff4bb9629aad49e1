---------------------------- MODULE StreamCallback ----------------------------
(***************************************************************************)
(* stream_callback.c: main starts a stream, registers                      *)
(* MyStreamReadCallback, sleeps and stops the stream, while a thread of    *)
(* the LJM library calls the callback whenever a full read is there.  The  *)
(* two threads share done and aData without a lock, so the program is      *)
(* split at every access to them and at every library call.                *)
(***************************************************************************)
EXTENDS StreamUtilities

CONSTANT
  StopWaitsForCallback  \* does LJM_eStreamStop, called by another thread,
                        \* return only after a callback in progress has?

ASSUME StopWaitsAssumption == StopWaitsForCallback \in BOOLEAN

VARIABLES
  mainErr,      \* the outcome of main's last library call
  cbPc,         \* the next step of MyStreamReadCallback, or "idle"
  cbErr,        \* its local err
  done,         \* si.done
  callbackSet,  \* LJM_SetStreamCallback was accepted
  allocated,    \* aData and aScanList are allocated
  fresh,        \* aData holds what this callback's LJM_eStreamRead returned
  disabled,     \* history: the result of DisableStreamIfEnabled
  cbStopped,    \* history: the callback's own LJM_eStreamStop ended the stream
  late          \* history: iterations announced since done was set, at most 2

mainVars == <<pc, mainErr, done, callbackSet, allocated, disabled>>
cbVars == <<cbPc, cbErr, fresh, cbStopped, late>>
vars == <<sessionVars, deviceVars, mainVars, cbVars>>

(* LJME_STREAM_NOT_RUNNING is told apart from the other errors. *)
StreamOutcome == Outcome \cup {"notrunning"}

Init ==
  /\ SessionInit
  /\ DeviceInit
  /\ pc = "open"
  /\ mainErr = "ok"
  /\ cbPc = "idle"
  /\ cbErr = "ok"
  /\ done = FALSE
  /\ callbackSet = FALSE
  /\ allocated = FALSE
  /\ fresh = FALSE
  /\ disabled = "none"
  /\ cbStopped = FALSE
  /\ late = 0

-----------------------------------------------------------------------------
(* The main thread. *)

(* ErrorCheck(e).  Before it closes the handles and exits it prints and    *)
(* sleeps for 100 ms, during which the callback may still run.             *)
MainCheck(e, next) ==
  /\ mainErr' = e
  /\ pc' = IF ErrorCheckDies(e) THEN "dying" ELSE next

(* LJM_CloseAll *)
CloseAll ==
  /\ pc = "dying"
  /\ handle' = IF handle = "open" THEN "closed" ELSE handle
  /\ pc' = "closing"
  /\ UNCHANGED <<exit, deviceVars, cbVars, mainErr, done, callbackSet, allocated, disabled>>

(* exit(err); the callback may have run on since LJM_CloseAll. *)
Die ==
  /\ pc = "closing"
  /\ CheckedExit
  /\ pc' = "exit"
  /\ UNCHANGED <<deviceVars, cbVars, mainErr, done, callbackSet, allocated, disabled>>

(* OpenOrDie *)
Open(e) ==
  /\ pc = "open"
  /\ MainCheck(e, "info")
  /\ handle' = IF ErrorCheckDies(e) THEN handle ELSE "open"
  /\ UNCHANGED <<exit, deviceVars, cbVars, done, callbackSet, allocated, disabled>>

(* PrintDeviceInfoFromHandle *)
Info(e) ==
  /\ pc = "info"
  /\ MainCheck(e, "disable")
  /\ UNCHANGED <<sessionVars, deviceVars, cbVars, done, callbackSet, allocated, disabled>>

Disable(oldFirmware, result) ==
  /\ pc = "disable"
  /\ DisableStreamIfEnabled(oldFirmware, result)
  /\ disabled' = result
  /\ pc' = IF result = "die" THEN "dying" ELSE "configure"
  /\ UNCHANGED <<sessionVars, cbVars, mainErr, done, callbackSet, allocated>>

(* The WriteNameOrDie calls, then the two mallocs. *)
Configure(e) ==
  /\ pc = "configure"
  /\ mainErr' = e
  /\ IF WriteNameOrDieDies(e)
     THEN BareExit /\ pc' = "exit" /\ UNCHANGED allocated
     ELSE pc' = "names" /\ allocated' = TRUE /\ UNCHANGED sessionVars
  /\ UNCHANGED <<deviceVars, cbVars, done, callbackSet, disabled>>

(* LJM_NamesToAddresses *)
Names(e) ==
  /\ pc = "names"
  /\ MainCheck(e, "start")
  /\ UNCHANGED <<sessionVars, deviceVars, cbVars, done, callbackSet, allocated, disabled>>

StartUnchecked(e) ==
  /\ pc = "start"
  /\ IF e = "error" THEN UNCHANGED deviceVars ELSE StreamStarted
  /\ mainErr' = e
  /\ pc' = "setcallback"
  /\ UNCHANGED <<sessionVars, cbVars, done, callbackSet, allocated, disabled>>

(* LJM_eStreamStart; an active stream makes it fail. *)
Start(e) ==
  /\ pc = "start"
  /\ IF e = "error" THEN UNCHANGED deviceVars ELSE StreamStarted
  /\ MainCheck(e, "setcallback")
  /\ UNCHANGED <<sessionVars, cbVars, done, callbackSet, allocated, disabled>>

SetStreamCallback(e) ==
  /\ pc = "setcallback"
  /\ callbackSet' = ~ErrorCheckDies(e)
  /\ MainCheck(e, "sleep")
  /\ UNCHANGED <<sessionVars, deviceVars, cbVars, done, allocated, disabled>>

SetDoneAndFree ==
  /\ pc = "sleep"
  /\ done' = TRUE
  /\ allocated' = FALSE
  /\ pc' = "stop"
  /\ UNCHANGED <<sessionVars, deviceVars, cbVars, mainErr, callbackSet, disabled>>

(* MillisecondSleep returns; si->done = TRUE *)
SetDone ==
  /\ pc = "sleep"
  /\ done' = TRUE
  /\ pc' = "stop"
  /\ UNCHANGED <<sessionVars, deviceVars, cbVars, mainErr, callbackSet, allocated, disabled>>

(* LJM_eStreamStop as either thread calls it: what e does to the stream. *)
StreamStop(e) ==
  CASE e \in {"ok", "warning"} -> StreamStopped
    [] e = "notrunning"        -> ~streaming /\ UNCHANGED deviceVars
    [] e = "error"             -> UNCHANGED deviceVars

(* The stop of StreamWithCallback takes effect. *)
Stop(e) ==
  /\ pc = "stop"
  /\ StreamStop(e)
  /\ mainErr' = e
  /\ pc' = "stopped"
  /\ UNCHANGED <<sessionVars, cbVars, done, callbackSet, allocated, disabled>>

(* It returns, and ErrorCheck looks at its result. *)
StopReturns ==
  /\ pc = "stopped"
  /\ (StopWaitsForCallback /\ ~ErrorCheckDies(mainErr)) => cbPc = "idle"
  /\ MainCheck(mainErr, "free")
  /\ UNCHANGED <<sessionVars, deviceVars, cbVars, done, callbackSet, allocated, disabled>>

(* free(si->aScanList); free(si->aData) *)
Free ==
  /\ pc = "free"
  /\ allocated' = FALSE
  /\ pc' = "close"
  /\ UNCHANGED <<sessionVars, deviceVars, cbVars, mainErr, done, callbackSet, disabled>>

(* CloseOrDie *)
Close(e) ==
  /\ pc = "close"
  /\ MainCheck(e, "return")
  /\ handle' = IF ErrorCheckDies(e) THEN handle ELSE "closed"
  /\ UNCHANGED <<exit, deviceVars, cbVars, done, callbackSet, allocated, disabled>>

(* WaitForUserIfWindows, return LJME_NOERROR *)
Return ==
  /\ pc = "return"
  /\ NormalExit
  /\ pc' = "exit"
  /\ UNCHANGED <<deviceVars, cbVars, mainErr, done, callbackSet, allocated, disabled>>

Main ==
  \/ \E e \in Outcome : \/ Open(e) \/ Info(e) \/ Configure(e) \/ Names(e)
                        \/ Start(e) \/ SetStreamCallback(e) \/ Close(e)
  \/ \E oldFirmware \in BOOLEAN, result \in {"clear", "left", "die"} :
       Disable(oldFirmware, result)
  \/ \E e \in StreamOutcome : Stop(e)
  \/ SetDone \/ StopReturns \/ Free \/ Return \/ CloseAll \/ Die

-----------------------------------------------------------------------------
(* The LJM thread: MyStreamReadCallback. *)

CallBack ==
  /\ Running
  /\ cbPc = "idle"
  /\ callbackSet
  /\ ReadReady
  /\ cbPc' = "check"
  /\ fresh' = FALSE
  /\ UNCHANGED <<sessionVars, deviceVars, mainVars, cbErr, cbStopped, late>>

CheckDoneSkipped ==
  /\ Running
  /\ cbPc = "check"
  /\ cbPc' = "announce"
  /\ UNCHANGED <<sessionVars, deviceVars, mainVars, cbErr, fresh, cbStopped, late>>

(* if (si->done) return *)
CheckDone ==
  /\ Running
  /\ cbPc = "check"
  /\ cbPc' = IF done THEN "idle" ELSE "announce"
  /\ UNCHANGED <<sessionVars, deviceVars, mainVars, cbErr, fresh, cbStopped, late>>

(* printf("\niteration: ...", streamRead++) *)
Announce ==
  /\ Running
  /\ cbPc = "announce"
  /\ cbPc' = "read"
  /\ late' = IF done /\ late < 2 THEN late + 1 ELSE late
  /\ UNCHANGED <<sessionVars, deviceVars, mainVars, cbErr, fresh, cbStopped>>

(* A call with a handle main has closed meanwhile fails. *)
Accepted(e) == handle = "open" \/ e = "error"

(* LJM_eStreamRead.  It may fail at any time; on a stopped stream it fails *)
(* with LJME_STREAM_NOT_RUNNING, and the data may be there or not.         *)
CallbackRead(e) ==
  /\ Running
  /\ cbPc = "read"
  /\ Accepted(e)
  /\ cbPc' = "print"
  /\ cbErr' = e
  /\ CASE e \in {"ok", "warning"} -> StreamReadDone /\ fresh' = TRUE
       [] e = "notrunning" -> /\ ~streaming
                              /\ fresh' \in BOOLEAN
                              /\ UNCHANGED deviceVars
       [] e = "error" -> UNCHANGED <<deviceVars, fresh>>
  /\ UNCHANGED <<sessionVars, mainVars, cbStopped, late>>

(* HardcodedPrintScans and CountAndOutputNumSkippedScans read aData. *)
PrintScans ==
  /\ Running
  /\ cbPc = "print"
  /\ cbPc' = "checkerr"
  /\ UNCHANGED <<sessionVars, deviceVars, mainVars, cbErr, fresh, cbStopped, late>>

(* Only now is err looked at. *)
CheckErr ==
  /\ Running
  /\ cbPc = "checkerr"
  /\ cbPc' = IF cbErr \in {"ok", "notrunning"} THEN "idle" ELSE "stop"
  /\ UNCHANGED <<sessionVars, deviceVars, mainVars, cbErr, fresh, cbStopped, late>>

CallbackStopLocked(e) ==
  /\ Running
  /\ cbPc = "stop"
  /\ Accepted(e)
  /\ IF pc = "stopped"
     THEN UNCHANGED vars
     ELSE /\ cbPc' = "idle"
          /\ StreamStop(e)
          /\ cbErr' = e
          /\ cbStopped' = (cbStopped \/ ~ErrorCheckDies(e))
          /\ UNCHANGED <<sessionVars, mainVars, fresh, late>>

(* The callback stops the stream itself; a failure is only printed. *)
CallbackStop(e) ==
  /\ Running
  /\ cbPc = "stop"
  /\ Accepted(e)
  /\ cbPc' = "idle"
  /\ StreamStop(e)
  /\ cbErr' = e
  /\ cbStopped' = (cbStopped \/ ~ErrorCheckDies(e))
  /\ UNCHANGED <<sessionVars, mainVars, fresh, late>>

Callback ==
  \/ CallBack \/ CheckDone \/ Announce \/ PrintScans \/ CheckErr
  \/ \E e \in StreamOutcome : CallbackRead(e) \/ CallbackStop(e)

-----------------------------------------------------------------------------
LibraryReceives ==
  /\ pc \in {"setcallback", "sleep", "stop", "stopped", "dying"}
  /\ Running
  /\ Transfer

Device ==
  /\ ClockScan \/ EndRecovery \/ LibraryReceives
  /\ UNCHANGED <<sessionVars, mainVars, cbVars>>

Finished ==
  /\ ~Running
  /\ UNCHANGED vars

Next == Main \/ Callback \/ Device \/ Finished

(* Both threads are scheduled, and main's sleep ends. *)
Spec == Init /\ [][Next]_vars
FairSpec == Spec /\ WF_vars(Main) /\ WF_vars(Callback)

-----------------------------------------------------------------------------
MainPCs == {"open", "info", "disable", "configure", "names", "start",
            "setcallback", "sleep", "stop", "stopped", "free", "close",
            "return", "dying", "closing", "exit"}
CallbackPCs == {"idle", "check", "announce", "read", "print", "checkerr", "stop"}

(* Every variable has its type: the shared StreamInfo, both threads' locals *)
(* and the history of the run.                                             *)
TypeOK ==
  /\ SessionTypeOK
  /\ DeviceTypeOK
  /\ pc \in MainPCs
  /\ mainErr \in StreamOutcome
  /\ cbPc \in CallbackPCs
  /\ cbErr \in StreamOutcome
  /\ done \in BOOLEAN
  /\ callbackSet \in BOOLEAN
  /\ allocated \in BOOLEAN
  /\ fresh \in BOOLEAN
  /\ cbStopped \in BOOLEAN
  /\ disabled \in {"none", "clear", "left", "die"}
  /\ late \in 0..2

(* The callback never touches aData (lines 244-247) before malloc or after *)
(* free (line 227), nor the handle after LJM_Close.  It rests on the       *)
(* library: LJM_eStreamStop must not return while the callback runs.  The  *)
(* exception is a process that ends because main's stop failed: between    *)
(* LJM_CloseAll and exit the callback may use the handle that was closed   *)
(* under it (LJM_Utilities.h, lines 435-436), but never freed memory.      *)
NoUseAfterRelease ==
  (Running /\ cbPc \in {"announce", "read", "print", "stop"})
    => allocated /\ (handle = "open" \/ pc = "closing")

(* The test of done (line 239) is not atomic with the printf (line 242),   *)
(* but at most one iteration is announced after done was set.              *)
AtMostOneLateIteration == late <= 1

(* The error the callback tolerates in silence (line 252) is always main's *)
(* doing: LJM_eStreamRead meets a stopped stream only after done was set.  *)
ToleratedErrorIsMains ==
  (cbPc \in {"print", "checkerr"} /\ cbErr = "notrunning") => done

(* When main's LJM_eStreamStop finds no stream (line 220), the callback    *)
(* had stopped it after a failed read: nothing else can have.              *)
StopFailureExplained == mainErr = "notrunning" => cbStopped

(* Once the callback has stopped the stream (line 255), be it for a mere   *)
(* warning, the program is bound to end in error: main's own stop fails.   *)
CallbackStopIsFatal == cbStopped => exit # "ok"

(* The two stops of one stream, explained from either side.                *)
TwoStopsExplained == StopFailureExplained /\ CallbackStopIsFatal

(* LJM_eStreamStart is refused because of another program's stream only    *)
(* when DisableStreamIfEnabled (line 125) had failed to stop it and had    *)
(* merely printed the error.                                               *)
StartMeetsIdleDevice == (pc = "start" /\ streaming) => disabled = "left"

(* Return from main (line 132) leaves no stream running on the device.     *)
NormalExitStreamOff == exit = "ok" => ~streaming

(* Neither thread blocks the other for good: main ends, even though both   *)
(* may call LJM_eStreamStop and main's call waits for the callback.        *)
Termination == <>(exit # "none")

(* The comment at line 249: the data of a called callback is valid, which  *)
(* HardcodedPrintScans takes for granted.                                  *)
PrintedDataValid == cbPc = "print" => fresh

===============================================================================
