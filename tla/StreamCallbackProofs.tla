-------------------------- MODULE StreamCallbackProofs --------------------------
(***************************************************************************)
(* Proofs about StreamCallback: what the two threads of stream_callback.c  *)
(* can rely on, for every buffer, read and scan size, in every             *)
(* interleaving.                                                           *)
(***************************************************************************)
EXTENDS StreamCallback, TLAPS

USE StreamDeviceAssumption, StopWaitsAssumption
USE DEF StreamDeviceAssumption, StopWaitsAssumption

(* The types of the bounds, without the rest of their assumption. *)
LEMMA ConstantTypes == MaxScans \in Nat /\ ScansPerRead \in Nat \ {0}
  OBVIOUS

-----------------------------------------------------------------------------
(* main's side of the process: its exit, its handle, its allocations. *)
MainProgress ==
  /\ exit = "none" <=> pc # "exit"
  /\ pc \in MainPCs \ {"open", "return", "dying", "closing", "exit"} => handle = "open"
  /\ pc \in {"names", "start", "setcallback", "sleep", "stop", "stopped", "free"}
       => allocated
  /\ callbackSet => pc \notin MainPCs \ {"sleep", "stop", "stopped", "free", "close",
                                             "return", "dying", "closing", "exit"}
  /\ done => pc \in {"stop", "stopped", "free", "close", "return", "dying", "closing", "exit"}
  /\ pc \in {"stop", "stopped", "free", "close"} => done

(* The stream main starts: on until somebody stops it, off for good then.  *)
StreamLife ==
  /\ pc \in {"configure", "names", "start"} /\ streaming => disabled = "left"
  /\ pc \in {"setcallback", "sleep", "stop"} /\ ~streaming => cbStopped
  /\ pc = "stopped" /\ ~ErrorCheckDies(mainErr) => ~streaming
  /\ pc \in {"free", "close", "return"} => ~streaming
  /\ mainErr = "notrunning" => cbStopped

(* What the callback's own stop commits main to. *)
CallbackStopRecord ==
  cbStopped =>
    /\ ~streaming
    /\ callbackSet
    /\ pc \in {"sleep", "stop", "stopped", "dying", "closing", "exit"}
    /\ pc = "stopped" => ErrorCheckDies(mainErr)

(* A callback in progress sees its stream off only once done is set, and   *)
(* stands past the test of done at most once when it is.                   *)
CallbackView ==
  /\ cbPc # "idle" => callbackSet
  /\ cbPc # "idle" /\ ~streaming => done
  /\ ~done \/ cbPc = "announce" => late = 0

(* What keeps the callback from released memory and handles. *)
Release ==
  /\ callbackSet /\ Running => handle = "open" \/ pc \in {"return", "closing"}
  /\ ~allocated /\ callbackSet /\ Running => ~streaming
  /\ StopWaitsForCallback =>
       /\ pc \in {"free", "close", "return"} => cbPc = "idle"
       /\ ~allocated /\ Running => cbPc = "idle"

(* The four properties no part above implies.                              *)
Promises ==
  /\ AtMostOneLateIteration
  /\ ToleratedErrorIsMains
  /\ CallbackStopIsFatal
  /\ NormalExitStreamOff

(* The inductive invariant: the properties of the runs, and what they rest *)
(* on.  None of them is inductive alone: each speaks of one thread, and    *)
(* the other's steps keep it only from the states the parts above allow.   *)
IInv ==
  /\ TypeOK
  /\ MainProgress
  /\ StreamLife
  /\ CallbackStopRecord
  /\ CallbackView
  /\ Release
  /\ Promises

-----------------------------------------------------------------------------
(* Whatever a call or the device may do to the stream. *)
DeviceStep ==
  \/ UNCHANGED deviceVars
  \/ StreamStarted \/ StreamStopped \/ StreamReadDone
  \/ ClockScan \/ EndRecovery \/ Transfer

(* Nothing a call or the device itself does leaves the types.              *)
LEMMA DeviceTypes ==
  ASSUME DeviceTypeOK, DeviceStep
  PROVE  DeviceTypeOK'
<1>1. /\ streaming \in BOOLEAN /\ recovering \in BOOLEAN /\ lost \in SUBSET (1..MaxScans)
      /\ clock \in 0..MaxScans /\ sent \in 0..MaxScans /\ taken \in 0..MaxScans
  BY DEF DeviceTypeOK
<1>2. streaming' \in BOOLEAN /\ recovering' \in BOOLEAN
  BY <1>1 DEF DeviceStep, deviceVars, StreamStarted, StreamStopped, StreamReadDone,
     ClockScan, EndRecovery, Transfer
<1>3. clock' \in 0..MaxScans /\ sent' \in 0..MaxScans /\ taken' \in 0..MaxScans
  <2>1. CASE StreamStarted
    BY <2>1, ConstantTypes DEF StreamStarted
  <2>2. CASE StreamReadDone
    BY <1>1, <2>2, ConstantTypes DEF StreamReadDone, ReadReady
  <2>3. CASE ClockScan
    BY <1>1, <2>3, ConstantTypes DEF ClockScan
  <2>4. CASE Transfer
    BY <1>1, <2>4, ConstantTypes DEF Transfer
  <2>5. CASE UNCHANGED deviceVars \/ StreamStopped \/ EndRecovery
    BY <1>1, <2>5, Zenon DEF deviceVars, StreamStopped, EndRecovery
  <2>6. QED
    BY <2>1, <2>2, <2>3, <2>4, <2>5 DEF DeviceStep
<1>4. lost' \in SUBSET (1..MaxScans)
  <2>1. CASE ClockScan
    <3>1. clock + 1 \in 1..MaxScans
      BY <1>1, <2>1, ConstantTypes DEF ClockScan
    <3>2. lost' = lost \/ lost' = lost \cup {clock + 1}
      BY <2>1, Zenon DEF ClockScan
    <3>3. QED
      BY <1>1, <3>1, <3>2
  <2>2. CASE StreamStarted
    BY <2>2 DEF StreamStarted
  <2>3. CASE ~ClockScan /\ ~StreamStarted
    BY <1>1, <2>3, Zenon DEF DeviceStep, deviceVars, StreamStopped, StreamReadDone,
       EndRecovery, Transfer
  <2>4. QED
    BY <2>1, <2>2, <2>3
<1>5. QED
  BY <1>2, <1>3, <1>4 DEF DeviceTypeOK

(* The invariant holds before OpenOrDie. *)
LEMMA InitIInv == Init => IInv
<1> SUFFICES ASSUME Init PROVE IInv
  OBVIOUS
<1> USE DEF Init, SessionInit, DeviceInit
<1>1. DeviceTypeOK
  <2>1. streaming \in BOOLEAN /\ recovering \in BOOLEAN
    BY Zenon
  <2>2. QED
    BY <2>1, ConstantTypes DEF DeviceTypeOK
<1>2. TypeOK
  <2>1. /\ done \in BOOLEAN /\ callbackSet \in BOOLEAN /\ allocated \in BOOLEAN
        /\ fresh \in BOOLEAN /\ cbStopped \in BOOLEAN
    BY Zenon
  <2>2. QED
    BY <1>1, <2>1 DEF TypeOK, SessionTypeOK, MainPCs, CallbackPCs, StreamOutcome,
       Outcome
<1>3. MainProgress /\ StreamLife /\ CallbackStopRecord /\ CallbackView /\ Release
  BY DEF MainProgress, StreamLife, CallbackStopRecord, CallbackView, Release
<1>4. Promises
  BY DEF Promises, AtMostOneLateIteration, ToleratedErrorIsMains, CallbackStopIsFatal,
         NormalExitStreamOff
<1>5. QED
  BY <1>2, <1>3, <1>4 DEF IInv

(* The main thread. *)

(* OpenOrDie: no callback is registered yet. *)
LEMMA OpenIInv ==
  ASSUME IInv, NEW e \in Outcome, Open(e)
  PROVE  IInv'
<1> USE DEF Open, MainCheck, cbVars, deviceVars
<1>1. DeviceTypeOK'
  BY DeviceTypes DEF IInv, TypeOK, DeviceStep
<1>2. TypeOK'
  BY <1>1 DEF IInv, TypeOK, SessionTypeOK, MainPCs, StreamOutcome
<1>3. MainProgress'
  BY DEF IInv, MainProgress, MainPCs
<1>4. StreamLife' /\ CallbackStopRecord'
  BY DEF IInv, Outcome, StreamLife, CallbackStopRecord
<1>5. CallbackView'
  BY DEF IInv, CallbackView
<1>6. Release'
  BY DEF IInv, Release, Running
<1>7. Promises'
  BY DEF IInv, Promises, AtMostOneLateIteration, ToleratedErrorIsMains,
         CallbackStopIsFatal, NormalExitStreamOff
<1>8. QED
  BY <1>2, <1>3, <1>4, <1>5, <1>6, <1>7 DEF IInv

(* PrintDeviceInfoFromHandle. *)
LEMMA InfoIInv ==
  ASSUME IInv, NEW e \in Outcome, Info(e)
  PROVE  IInv'
<1> USE DEF Info, MainCheck, sessionVars, cbVars, deviceVars
<1>1. DeviceTypeOK'
  BY DeviceTypes DEF IInv, TypeOK, DeviceStep
<1>2. TypeOK'
  BY <1>1 DEF IInv, TypeOK, SessionTypeOK, MainPCs, StreamOutcome
<1>3. MainProgress'
  BY DEF IInv, MainProgress, MainPCs
<1>4. StreamLife' /\ CallbackStopRecord'
  BY DEF IInv, Outcome, StreamLife, CallbackStopRecord
<1>5. CallbackView'
  BY DEF IInv, CallbackView
<1>6. Release'
  BY DEF IInv, Release, Running
<1>7. Promises'
  BY DEF IInv, Promises, AtMostOneLateIteration, ToleratedErrorIsMains,
         CallbackStopIsFatal, NormalExitStreamOff
<1>8. QED
  BY <1>2, <1>3, <1>4, <1>5, <1>6, <1>7 DEF IInv

(* The WriteNameOrDie calls; the buffers are allocated behind them. *)
LEMMA ConfigureIInv ==
  ASSUME IInv, NEW e \in Outcome, Configure(e)
  PROVE  IInv'
<1> USE DEF Configure, BareExit, sessionVars, cbVars, deviceVars
<1>1. DeviceTypeOK'
  BY DeviceTypes DEF IInv, TypeOK, DeviceStep
<1>2. TypeOK'
  <2>1. /\ done' \in BOOLEAN /\ callbackSet' \in BOOLEAN /\ allocated' \in BOOLEAN
        /\ fresh' \in BOOLEAN /\ cbStopped' \in BOOLEAN
    BY Zenon DEF IInv, TypeOK
  <2>2. QED
    BY <1>1, <2>1 DEF IInv, TypeOK, SessionTypeOK, MainPCs, StreamOutcome
<1>3. MainProgress'
  BY DEF IInv, MainProgress, MainPCs
<1>4. StreamLife' /\ CallbackStopRecord'
  BY DEF IInv, Outcome, StreamLife, CallbackStopRecord
<1>5. CallbackView'
  BY DEF IInv, CallbackView
<1>6. Release'
  BY DEF IInv, Release, Running
<1>7. Promises'
  BY DEF IInv, Promises, AtMostOneLateIteration, ToleratedErrorIsMains,
         CallbackStopIsFatal, NormalExitStreamOff
<1>8. QED
  BY <1>2, <1>3, <1>4, <1>5, <1>6, <1>7 DEF IInv

(* LJM_NamesToAddresses. *)
LEMMA NamesIInv ==
  ASSUME IInv, NEW e \in Outcome, Names(e)
  PROVE  IInv'
<1> USE DEF Names, MainCheck, sessionVars, cbVars, deviceVars
<1>1. DeviceTypeOK'
  BY DeviceTypes DEF IInv, TypeOK, DeviceStep
<1>2. TypeOK'
  BY <1>1 DEF IInv, TypeOK, SessionTypeOK, MainPCs, StreamOutcome
<1>3. MainProgress'
  BY DEF IInv, MainProgress, MainPCs
<1>4. StreamLife' /\ CallbackStopRecord'
  BY DEF IInv, Outcome, StreamLife, CallbackStopRecord
<1>5. CallbackView'
  BY DEF IInv, CallbackView
<1>6. Release'
  BY DEF IInv, Release, Running
<1>7. Promises'
  BY DEF IInv, Promises, AtMostOneLateIteration, ToleratedErrorIsMains,
         CallbackStopIsFatal, NormalExitStreamOff
<1>8. QED
  BY <1>2, <1>3, <1>4, <1>5, <1>6, <1>7 DEF IInv

(* From here on the callback may run. *)
LEMMA SetStreamCallbackIInv ==
  ASSUME IInv, NEW e \in Outcome, SetStreamCallback(e)
  PROVE  IInv'
<1> USE DEF SetStreamCallback, MainCheck, sessionVars, cbVars, deviceVars
<1>1. DeviceTypeOK'
  BY DeviceTypes DEF IInv, TypeOK, DeviceStep
<1>2. TypeOK'
  BY <1>1 DEF IInv, TypeOK, SessionTypeOK, MainPCs, StreamOutcome
<1>3. MainProgress'
  BY DEF IInv, MainProgress, MainPCs
<1>4. StreamLife' /\ CallbackStopRecord'
  BY DEF IInv, Outcome, StreamLife, CallbackStopRecord
<1>5. CallbackView'
  BY DEF IInv, MainProgress, CallbackView, MainPCs
<1>6. Release'
  BY DEF IInv, MainProgress, Release, MainPCs
<1>7. Promises'
  BY DEF IInv, Promises, AtMostOneLateIteration, ToleratedErrorIsMains,
         CallbackStopIsFatal, NormalExitStreamOff
<1>8. QED
  BY <1>2, <1>3, <1>4, <1>5, <1>6, <1>7 DEF IInv

(* CloseOrDie: the stream is off, and the callback rests if the stop waited. *)
LEMMA CloseIInv ==
  ASSUME IInv, NEW e \in Outcome, Close(e)
  PROVE  IInv'
<1> USE DEF Close, MainCheck, cbVars, deviceVars
<1>1. DeviceTypeOK'
  BY DeviceTypes DEF IInv, TypeOK, DeviceStep
<1>2. TypeOK'
  BY <1>1 DEF IInv, TypeOK, SessionTypeOK, MainPCs, StreamOutcome
<1>3. MainProgress'
  BY DEF IInv, MainProgress, MainPCs
<1>4. StreamLife' /\ CallbackStopRecord'
  BY DEF IInv, Outcome, StreamLife, CallbackStopRecord
<1>5. CallbackView'
  BY DEF IInv, CallbackView
<1>6. Release'
  BY DEF IInv, Release, Running
<1>7. Promises'
  BY DEF IInv, StreamLife, CallbackStopRecord, Promises, AtMostOneLateIteration,
         ToleratedErrorIsMains, CallbackStopIsFatal, NormalExitStreamOff
<1>8. QED
  BY <1>2, <1>3, <1>4, <1>5, <1>6, <1>7 DEF IInv

(* From here on the callback may find done set, and no iteration is late yet. *)
LEMMA SetDoneIInv ==
  ASSUME IInv, SetDone
  PROVE  IInv'
<1> USE DEF SetDone, sessionVars, cbVars, deviceVars
<1>1. DeviceTypeOK'
  BY DeviceTypes DEF IInv, TypeOK, DeviceStep
<1>2. TypeOK'
  BY <1>1 DEF IInv, TypeOK, SessionTypeOK, MainPCs
<1>3. MainProgress'
  BY DEF IInv, MainProgress, MainPCs
<1>4. StreamLife' /\ CallbackStopRecord'
  BY DEF IInv, StreamLife, CallbackStopRecord
<1>5. CallbackView'
  BY DEF IInv, CallbackView
<1>6. Release'
  BY DEF IInv, Release, Running
<1>7. Promises'
  BY DEF IInv, Promises, AtMostOneLateIteration, ToleratedErrorIsMains,
         CallbackStopIsFatal, NormalExitStreamOff
<1>8. QED
  BY <1>2, <1>3, <1>4, <1>5, <1>6, <1>7 DEF IInv

(* The stop's result decides between the normal end and the fatal one. *)
LEMMA StopReturnsIInv ==
  ASSUME IInv, StopReturns
  PROVE  IInv'
<1> USE DEF StopReturns, MainCheck, sessionVars, cbVars, deviceVars
<1>1. DeviceTypeOK'
  BY DeviceTypes DEF IInv, TypeOK, DeviceStep
<1>2. TypeOK'
  BY <1>1 DEF IInv, TypeOK, SessionTypeOK, MainPCs
<1>3. MainProgress'
  BY DEF IInv, MainProgress, MainPCs
<1>4. StreamLife' /\ CallbackStopRecord'
  BY DEF IInv, StreamLife, CallbackStopRecord
<1>5. CallbackView'
  BY DEF IInv, CallbackView
<1>6. Release'
  BY DEF IInv, Release, Running
<1>7. Promises'
  BY DEF IInv, Promises, AtMostOneLateIteration, ToleratedErrorIsMains,
         CallbackStopIsFatal, NormalExitStreamOff
<1>8. QED
  BY <1>2, <1>3, <1>4, <1>5, <1>6, <1>7 DEF IInv

(* The buffers go: the stream is off, so no callback can begin. *)
LEMMA FreeIInv ==
  ASSUME IInv, Free
  PROVE  IInv'
<1> USE DEF Free, sessionVars, cbVars, deviceVars
<1>1. DeviceTypeOK'
  BY DeviceTypes DEF IInv, TypeOK, DeviceStep
<1>2. TypeOK'
  <2>1. /\ done' \in BOOLEAN /\ callbackSet' \in BOOLEAN /\ allocated' \in BOOLEAN
        /\ fresh' \in BOOLEAN /\ cbStopped' \in BOOLEAN
    BY Zenon DEF IInv, TypeOK
  <2>2. QED
    BY <1>1, <2>1 DEF IInv, TypeOK, SessionTypeOK, MainPCs
<1>3. MainProgress'
  BY DEF IInv, MainProgress, MainPCs
<1>4. StreamLife' /\ CallbackStopRecord'
  BY DEF IInv, StreamLife, CallbackStopRecord
<1>5. CallbackView'
  BY DEF IInv, CallbackView
<1>6. Release'
  BY DEF IInv, StreamLife, Release, Running
<1>7. Promises'
  BY DEF IInv, Promises, AtMostOneLateIteration, ToleratedErrorIsMains,
         CallbackStopIsFatal, NormalExitStreamOff
<1>8. QED
  BY <1>2, <1>3, <1>4, <1>5, <1>6, <1>7 DEF IInv

(* LJM_CloseAll takes the handle from a callback that may still run. *)
LEMMA CloseAllIInv ==
  ASSUME IInv, CloseAll
  PROVE  IInv'
<1> USE DEF CloseAll, cbVars, deviceVars
<1>1. DeviceTypeOK'
  BY DeviceTypes DEF IInv, TypeOK, DeviceStep
<1>2. TypeOK'
  BY <1>1 DEF IInv, TypeOK, SessionTypeOK, MainPCs
<1>3. MainProgress'
  BY DEF IInv, MainProgress, MainPCs
<1>4. StreamLife' /\ CallbackStopRecord'
  BY DEF IInv, StreamLife, CallbackStopRecord
<1>5. CallbackView'
  BY DEF IInv, CallbackView
<1>6. Release'
  BY DEF IInv, Release, Running
<1>7. Promises'
  BY DEF IInv, Promises, AtMostOneLateIteration, ToleratedErrorIsMains,
         CallbackStopIsFatal, NormalExitStreamOff
<1>8. QED
  BY <1>2, <1>3, <1>4, <1>5, <1>6, <1>7 DEF IInv

(* main returns, with the stream off. *)
LEMMA ReturnIInv ==
  ASSUME IInv, Return
  PROVE  IInv'
<1> USE DEF Return, NormalExit, cbVars, deviceVars
<1>1. DeviceTypeOK'
  BY DeviceTypes DEF IInv, TypeOK, DeviceStep
<1>2. TypeOK'
  BY <1>1 DEF IInv, TypeOK, SessionTypeOK, MainPCs
<1>3. MainProgress'
  BY DEF MainProgress
<1>4. StreamLife' /\ CallbackStopRecord'
  BY DEF IInv, StreamLife, CallbackStopRecord
<1>5. CallbackView'
  BY DEF IInv, CallbackView
<1>6. Release'
  BY DEF Release, Running
<1>7. Promises'
  BY DEF IInv, StreamLife, CallbackStopRecord, Promises, AtMostOneLateIteration,
         ToleratedErrorIsMains, CallbackStopIsFatal, NormalExitStreamOff
<1>8. QED
  BY <1>2, <1>3, <1>4, <1>5, <1>6, <1>7 DEF IInv

(* The process ends, and the callback with it. *)
LEMMA DieIInv ==
  ASSUME IInv, Die
  PROVE  IInv'
<1> USE DEF Die, CheckedExit, cbVars, deviceVars
<1>1. DeviceTypeOK'
  BY DeviceTypes DEF IInv, TypeOK, DeviceStep
<1>2. TypeOK'
  BY <1>1 DEF IInv, TypeOK, SessionTypeOK, MainPCs
<1>3. MainProgress'
  BY DEF MainProgress
<1>4. StreamLife' /\ CallbackStopRecord'
  BY DEF IInv, StreamLife, CallbackStopRecord
<1>5. CallbackView'
  BY DEF IInv, CallbackView
<1>6. Release'
  BY DEF Release, Running
<1>7. Promises'
  BY DEF IInv, Promises, AtMostOneLateIteration, ToleratedErrorIsMains,
         CallbackStopIsFatal, NormalExitStreamOff
<1>8. QED
  BY <1>2, <1>3, <1>4, <1>5, <1>6, <1>7 DEF IInv

(* LJM_eStreamStart turns the stream on, or fails. *)
LEMMA StartIInv ==
  ASSUME IInv, NEW e \in Outcome, Start(e)
  PROVE  IInv'
<1> USE DEF Start, MainCheck, sessionVars, cbVars
<1>1. DeviceTypeOK'
  BY DeviceTypes DEF IInv, TypeOK, DeviceStep
<1>2. TypeOK'
  BY <1>1 DEF IInv, TypeOK, SessionTypeOK, MainPCs, StreamOutcome
<1>3. MainProgress'
  BY DEF IInv, MainProgress, MainPCs
<1>4. StreamLife' /\ CallbackStopRecord'
  BY DEF IInv, Outcome, StreamLife, CallbackStopRecord, ErrorCheckDies, StreamStarted
<1>5. CallbackView'
  BY DEF IInv, CallbackView, StreamStarted, deviceVars
<1>6. Release'
  BY DEF IInv, MainProgress, Release, MainPCs
<1>7. Promises'
  BY DEF IInv, MainProgress, Promises, AtMostOneLateIteration, ToleratedErrorIsMains,
         CallbackStopIsFatal, NormalExitStreamOff
<1>8. QED
  BY <1>2, <1>3, <1>4, <1>5, <1>6, <1>7 DEF IInv

(* DisableStreamIfEnabled: the stream of another program, before any callback. *)
LEMMA DisableIInv ==
  ASSUME IInv, NEW old \in BOOLEAN, NEW result \in {"clear", "left", "die"},
         Disable(old, result)
  PROVE  IInv'
<1> USE DEF Disable, sessionVars, cbVars
<1>1. DeviceTypeOK'
  BY DeviceTypes DEF IInv, TypeOK, DeviceStep, DisableStreamIfEnabled
<1>2. TypeOK'
  BY <1>1 DEF IInv, TypeOK, SessionTypeOK, MainPCs
<1>3. MainProgress'
  BY DEF IInv, MainProgress, MainPCs
<1>4. StreamLife' /\ CallbackStopRecord'
  BY DEF IInv, StreamLife, CallbackStopRecord, DisableStreamIfEnabled, StreamStopped,
         deviceVars
<1>5. CallbackView'
  BY DEF IInv, MainProgress, CallbackView, MainPCs
<1>6. Release'
  BY DEF IInv, Release, Running, DisableStreamIfEnabled, StreamStopped, deviceVars
<1>7. Promises'
  BY DEF IInv, Promises, AtMostOneLateIteration, ToleratedErrorIsMains,
         CallbackStopIsFatal, NormalExitStreamOff, DisableStreamIfEnabled, StreamStopped,
         deviceVars
<1>8. QED
  BY <1>2, <1>3, <1>4, <1>5, <1>6, <1>7 DEF IInv

(* main's LJM_eStreamStop: the stream it does not find, the callback stopped. *)
LEMMA StopIInv ==
  ASSUME IInv, NEW e \in StreamOutcome, Stop(e)
  PROVE  IInv'
<1> USE DEF Stop, StreamStop, sessionVars, cbVars
<1>1. DeviceTypeOK'
  BY DeviceTypes DEF IInv, TypeOK, DeviceStep, StreamOutcome, Outcome
<1>2. TypeOK'
  BY <1>1 DEF IInv, TypeOK, SessionTypeOK, MainPCs
<1>3. MainProgress'
  BY DEF IInv, MainProgress, MainPCs
<1>4. StreamLife' /\ CallbackStopRecord'
  BY DEF IInv, StreamLife, CallbackStopRecord, ErrorCheckDies, StreamStopped,
         deviceVars, StreamOutcome, Outcome
<1>5. CallbackView'
  BY DEF IInv, MainProgress, CallbackView
<1>6. Release'
  BY DEF IInv, Release, Running, StreamStopped, deviceVars, StreamOutcome, Outcome
<1>7. Promises'
  BY DEF IInv, Promises, AtMostOneLateIteration, ToleratedErrorIsMains,
         CallbackStopIsFatal, NormalExitStreamOff, StreamStopped, deviceVars, StreamOutcome,
         Outcome
<1>8. QED
  BY <1>2, <1>3, <1>4, <1>5, <1>6, <1>7 DEF IInv

(* The callback thread. *)

(* A callback begins: the stream is on and main has not released anything. *)
LEMMA CallBackIInv ==
  ASSUME IInv, CallBack
  PROVE  IInv'
<1> USE DEF CallBack, ReadReady, sessionVars, mainVars, deviceVars, Running
<1>1. DeviceTypeOK'
  BY DeviceTypes DEF IInv, TypeOK, DeviceStep
<1>2. TypeOK'
  <2>1. /\ done' \in BOOLEAN /\ callbackSet' \in BOOLEAN /\ allocated' \in BOOLEAN
        /\ fresh' \in BOOLEAN /\ cbStopped' \in BOOLEAN
    BY Zenon DEF IInv, TypeOK
  <2>2. QED
    BY <1>1, <2>1 DEF IInv, TypeOK, SessionTypeOK, CallbackPCs
<1>3. MainProgress'
  BY DEF IInv, MainProgress
<1>4. StreamLife' /\ CallbackStopRecord'
  BY DEF IInv, StreamLife, CallbackStopRecord
<1>5. CallbackView'
  BY DEF IInv, CallbackView
<1>6. Release'
  BY DEF IInv, StreamLife, Release
<1>7. Promises'
  BY DEF IInv, Promises, AtMostOneLateIteration, ToleratedErrorIsMains,
         CallbackStopIsFatal, NormalExitStreamOff
<1>8. QED
  BY <1>2, <1>3, <1>4, <1>5, <1>6, <1>7 DEF IInv

(* The test of done: past it, done may be set at any time. *)
LEMMA CheckDoneIInv ==
  ASSUME IInv, CheckDone
  PROVE  IInv'
<1> USE DEF CheckDone, sessionVars, mainVars, deviceVars, Running
<1>1. DeviceTypeOK'
  BY DeviceTypes DEF IInv, TypeOK, DeviceStep
<1>2. TypeOK'
  BY <1>1 DEF IInv, TypeOK, SessionTypeOK, CallbackPCs
<1>3. MainProgress'
  BY DEF IInv, MainProgress
<1>4. StreamLife' /\ CallbackStopRecord'
  BY DEF IInv, StreamLife, CallbackStopRecord
<1>5. CallbackView'
  BY DEF IInv, CallbackView
<1>6. Release'
  BY DEF IInv, Release
<1>7. Promises'
  BY DEF IInv, Promises, AtMostOneLateIteration, ToleratedErrorIsMains,
         CallbackStopIsFatal, NormalExitStreamOff
<1>8. QED
  BY <1>2, <1>3, <1>4, <1>5, <1>6, <1>7 DEF IInv

(* The one iteration that can be late. *)
LEMMA AnnounceIInv ==
  ASSUME IInv, Announce
  PROVE  IInv'
<1> USE DEF Announce, sessionVars, mainVars, deviceVars, Running
<1>1. DeviceTypeOK'
  BY DeviceTypes DEF IInv, TypeOK, DeviceStep
<1>2. TypeOK'
  BY <1>1 DEF IInv, TypeOK, SessionTypeOK, CallbackPCs
<1>3. MainProgress'
  BY DEF IInv, MainProgress
<1>4. StreamLife' /\ CallbackStopRecord'
  BY DEF IInv, StreamLife, CallbackStopRecord
<1>5. CallbackView'
  BY DEF IInv, CallbackView
<1>6. Release'
  BY DEF IInv, Release
<1>7. Promises'
  BY DEF IInv, CallbackView, Promises, AtMostOneLateIteration, ToleratedErrorIsMains,
         CallbackStopIsFatal, NormalExitStreamOff
<1>8. QED
  BY <1>2, <1>3, <1>4, <1>5, <1>6, <1>7 DEF IInv

(* The callback prints. *)
LEMMA PrintIInv ==
  ASSUME IInv, PrintScans
  PROVE  IInv'
<1> USE DEF PrintScans, sessionVars, mainVars, deviceVars, Running
<1>1. DeviceTypeOK'
  BY DeviceTypes DEF IInv, TypeOK, DeviceStep
<1>2. TypeOK'
  BY <1>1 DEF IInv, TypeOK, SessionTypeOK, CallbackPCs
<1>3. MainProgress'
  BY DEF IInv, MainProgress
<1>4. StreamLife' /\ CallbackStopRecord'
  BY DEF IInv, StreamLife, CallbackStopRecord
<1>5. CallbackView'
  BY DEF IInv, CallbackView
<1>6. Release'
  BY DEF IInv, Release
<1>7. Promises'
  BY DEF IInv, Promises, AtMostOneLateIteration, ToleratedErrorIsMains,
         CallbackStopIsFatal, NormalExitStreamOff
<1>8. QED
  BY <1>2, <1>3, <1>4, <1>5, <1>6, <1>7 DEF IInv

(* The callback looks at err. *)
LEMMA CheckErrIInv ==
  ASSUME IInv, CheckErr
  PROVE  IInv'
<1> USE DEF CheckErr, sessionVars, mainVars, deviceVars, Running
<1>1. DeviceTypeOK'
  BY DeviceTypes DEF IInv, TypeOK, DeviceStep
<1>2. TypeOK'
  BY <1>1 DEF IInv, TypeOK, SessionTypeOK, CallbackPCs
<1>3. MainProgress'
  BY DEF IInv, MainProgress
<1>4. StreamLife' /\ CallbackStopRecord'
  BY DEF IInv, StreamLife, CallbackStopRecord
<1>5. CallbackView'
  BY DEF IInv, CallbackView
<1>6. Release'
  BY DEF IInv, Release
<1>7. Promises'
  BY DEF IInv, Promises, AtMostOneLateIteration, ToleratedErrorIsMains,
         CallbackStopIsFatal, NormalExitStreamOff
<1>8. QED
  BY <1>2, <1>3, <1>4, <1>5, <1>6, <1>7 DEF IInv

(* The read meets a stopped stream only if main stopped it. *)
LEMMA CallbackReadIInv ==
  ASSUME IInv, NEW e \in StreamOutcome, CallbackRead(e)
  PROVE  IInv'
<1> USE DEF CallbackRead, Running, sessionVars, mainVars
<1>1. DeviceTypeOK'
  BY DeviceTypes DEF IInv, TypeOK, DeviceStep, StreamOutcome, Outcome
<1>2. TypeOK'
  <2>1. /\ done' \in BOOLEAN /\ callbackSet' \in BOOLEAN /\ allocated' \in BOOLEAN
        /\ fresh' \in BOOLEAN /\ cbStopped' \in BOOLEAN
    <3>1. fresh' \in BOOLEAN
      <4>1. CASE e \in {"ok", "warning"}
        BY <4>1
      <4>2. CASE e \in {"notrunning", "error"}
        BY <4>2 DEF IInv, TypeOK
      <4>3. QED
        BY <4>1, <4>2 DEF StreamOutcome, Outcome
    <3>2. QED
      BY <3>1, Zenon DEF IInv, TypeOK
  <2>2. QED
    BY <1>1, <2>1 DEF IInv, TypeOK, SessionTypeOK, CallbackPCs
<1>3. MainProgress'
  BY DEF IInv, MainProgress
<1>4. StreamLife' /\ CallbackStopRecord'
  BY DEF IInv, StreamLife, CallbackStopRecord, StreamReadDone, deviceVars,
         StreamOutcome, Outcome
<1>5. CallbackView'
  BY DEF IInv, CallbackView, StreamReadDone, deviceVars, StreamOutcome, Outcome
<1>6. Release'
  BY DEF IInv, Release, StreamReadDone, deviceVars, StreamOutcome, Outcome
<1>7. Promises'
  BY DEF IInv, CallbackView, Promises, AtMostOneLateIteration, ToleratedErrorIsMains,
         CallbackStopIsFatal, NormalExitStreamOff
<1>8. QED
  BY <1>2, <1>3, <1>4, <1>5, <1>6, <1>7 DEF IInv

(* The callback's LJM_eStreamStop: main has not stopped the stream yet. *)
LEMMA CallbackStopIInv ==
  ASSUME IInv, NEW e \in StreamOutcome, CallbackStop(e)
  PROVE  IInv'
<1> USE DEF CallbackStop, StreamStop, Running, sessionVars, mainVars
<1>1. DeviceTypeOK'
  BY DeviceTypes DEF IInv, TypeOK, DeviceStep, StreamOutcome, Outcome
<1>2. TypeOK'
  BY <1>1 DEF IInv, TypeOK, SessionTypeOK, CallbackPCs
<1>3. MainProgress'
  BY DEF IInv, MainProgress
<1>4. StreamLife' /\ CallbackStopRecord'
  BY DEF IInv, TypeOK, MainProgress, StreamLife, CallbackStopRecord, CallbackView,
         ErrorCheckDies, StreamStopped, deviceVars, StreamOutcome, Outcome
<1>5. CallbackView'
  BY DEF IInv, CallbackView
<1>6. Release'
  BY DEF IInv, Release, StreamStopped, deviceVars, StreamOutcome, Outcome
<1>7. Promises'
  BY DEF IInv, Promises, AtMostOneLateIteration, ToleratedErrorIsMains,
         CallbackStopIsFatal, NormalExitStreamOff
<1>8. QED
  BY <1>2, <1>3, <1>4, <1>5, <1>6, <1>7 DEF IInv

(* The device, which neither thread holds up, never touches STREAM_ENABLE. *)
LEMMA DeviceIInv ==
  ASSUME IInv, Device
  PROVE  IInv'
<1> USE DEF Device, sessionVars, mainVars, cbVars
<1>1. DeviceTypeOK'
  BY DeviceTypes DEF IInv, TypeOK, DeviceStep, LibraryReceives
<1>2. TypeOK'
  BY <1>1 DEF IInv, TypeOK, SessionTypeOK
<1>3. MainProgress'
  BY DEF IInv, MainProgress
<1>4. StreamLife' /\ CallbackStopRecord'
  BY DEF IInv, StreamLife, CallbackStopRecord, ClockScan, EndRecovery, LibraryReceives,
         Transfer
<1>5. CallbackView'
  BY DEF IInv, CallbackView, ClockScan, EndRecovery, LibraryReceives, Transfer
<1>6. Release'
  BY DEF IInv, Release, Running, ClockScan, EndRecovery, LibraryReceives, Transfer
<1>7. Promises'
  BY DEF IInv, Promises, AtMostOneLateIteration, ToleratedErrorIsMains,
         CallbackStopIsFatal, NormalExitStreamOff, ClockScan, EndRecovery, LibraryReceives,
         Transfer
<1>8. QED
  BY <1>2, <1>3, <1>4, <1>5, <1>6, <1>7 DEF IInv

(* So a step that changes nothing keeps it, and with it every step. *)
LEMMA StutterIInv == ASSUME IInv, UNCHANGED vars PROVE IInv'
  BY DEF vars, sessionVars, deviceVars, mainVars, cbVars, IInv, TypeOK, SessionTypeOK,
         DeviceTypeOK, MainProgress, StreamLife, CallbackStopRecord, CallbackView, Release,
         Running, Promises, AtMostOneLateIteration, ToleratedErrorIsMains, CallbackStopIsFatal,
         NormalExitStreamOff

(* Every step of either thread and of the device keeps the invariant. *)
LEMMA NextIInv == IInv /\ [Next]_vars => IInv'
<1> SUFFICES ASSUME IInv, [Next]_vars PROVE IInv'
  OBVIOUS
<1>1. CASE Main
  BY <1>1, OpenIInv, InfoIInv, ConfigureIInv, NamesIInv, StartIInv,
     SetStreamCallbackIInv, CloseIInv, DisableIInv, StopIInv, SetDoneIInv, StopReturnsIInv,
     FreeIInv, ReturnIInv, CloseAllIInv, DieIInv DEF Main
<1>2. CASE Callback
  BY <1>2, CallBackIInv, CheckDoneIInv, AnnounceIInv, PrintIInv, CheckErrIInv,
     CallbackReadIInv, CallbackStopIInv DEF Callback
<1>3. CASE Device
  BY <1>3, DeviceIInv
<1>4. CASE Finished \/ UNCHANGED vars
  BY <1>4, StutterIInv DEF Finished
<1>5. QED
  BY <1>1, <1>2, <1>3, <1>4 DEF Next

(* The inductive invariant holds throughout. *)
THEOREM Inductive == Spec => []IInv
  BY InitIInv, NextIInv, PTL DEF Spec

-----------------------------------------------------------------------------
(* Type correctness of StreamInfo, both threads' locals and the device.    *)
THEOREM TypeCorrect == Spec => []TypeOK
<1>1. IInv => TypeOK
  BY DEF IInv
<1>2. QED
  BY <1>1, Inductive, PTL

(* The unlocked test of done (line 239) lets at most one iteration through *)
(* after main has set it (line 219).                                       *)
THEOREM LateIterationCorrect == Spec => []AtMostOneLateIteration
<1>1. IInv => AtMostOneLateIteration
  BY DEF IInv, Promises
<1>2. QED
  BY <1>1, Inductive, PTL

(* LJME_STREAM_NOT_RUNNING, which the callback passes over in silence      *)
(* (line 252), never hides a stream somebody else stopped.                 *)
THEOREM ToleratedErrorCorrect == Spec => []ToleratedErrorIsMains
<1>1. IInv => ToleratedErrorIsMains
  BY DEF IInv, Promises
<1>2. QED
  BY <1>1, Inductive, PTL

(* The two stops (lines 220 and 255) settle on one outcome: main's finds   *)
(* no stream only after the callback's, and then main ends in error.       *)
THEOREM TwoStopsCorrect == Spec => []TwoStopsExplained
<1>1. IInv => TwoStopsExplained
  BY DEF IInv, StreamLife, Promises, StopFailureExplained, TwoStopsExplained
<1>2. QED
  BY <1>1, Inductive, PTL

(* LJM_eStreamStart (line 207) finds the device idle unless                *)
(* DisableStreamIfEnabled failed, and a return from main leaves it idle.   *)
THEOREM DeviceIdleCorrect == Spec => [](StartMeetsIdleDevice /\ NormalExitStreamOff)
<1>1. IInv => StartMeetsIdleDevice /\ NormalExitStreamOff
  BY DEF IInv, StreamLife, Promises, StartMeetsIdleDevice
<1>2. QED
  BY <1>1, Inductive, PTL

(* If LJM_eStreamStop waits for a callback in progress, the callback never *)
(* touches freed memory (lines 226-227), nor a closed handle but between   *)
(* LJM_CloseAll and exit.  The assumption is needed: without it TLC finds  *)
(* the use after free.                                                     *)
THEOREM ReleaseCorrect ==
  ASSUME StopWaitsForCallback
  PROVE  Spec => []NoUseAfterRelease
<1>1. IInv => NoUseAfterRelease
  <2> SUFFICES ASSUME IInv, Running, cbPc # "idle" PROVE allocated /\ (handle = "open" \/ pc = "closing")
    BY DEF NoUseAfterRelease
  <2>1. allocated
    BY DEF IInv, Release
  <2>2. handle = "open" \/ pc = "closing"
    BY DEF IInv, Release, CallbackView
  <2>3. QED
    BY <2>1, <2>2
<1>2. QED
  BY <1>1, Inductive, PTL

==============================================================================
