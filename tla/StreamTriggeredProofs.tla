------------------------- MODULE StreamTriggeredProofs -------------------------
(***************************************************************************)
(* Proofs about StreamTriggered, for every read size, buffer size and      *)
(* number of reads, with resets and other programs that take the stream    *)
(* away, run their own or write the trigger registers at any time.         *)
(***************************************************************************)
EXTENDS StreamTriggered, TLAPS

USE StreamDeviceAssumption, NumReadsAssumption
USE DEF StreamDeviceAssumption, NumReadsAssumption, historyVars

(* The scans of the reads done so far. *)
ReadScans == streamRead * ScansPerRead

(* What the assumptions say of the constants of the instance. *)
LEMMA ConstantTypes == /\ MaxScans \in Nat
                       /\ ScansPerRead \in Nat \ {0}
                       /\ NumReads \in Nat \ {0}
  OBVIOUS

(* How ReadScans follows streamRead. *)
LEMMA ReadScansFacts ==
  ASSUME streamRead \in Nat
  PROVE  /\ ReadScans \in Nat
         /\ streamRead' = streamRead => ReadScans' = ReadScans
         /\ streamRead' = streamRead + 1 => ReadScans' = ReadScans + ScansPerRead
         /\ streamRead = 0 => ReadScans = 0
         /\ streamRead = NumReads => ReadScans = NumReads * ScansPerRead /\ ReadScans > 0
<1>1. ASSUME NEW m \in Nat \ {0}, NEW n \in Nat \ {0} PROVE m * n > 0
  BY <1>1, SMT
<1>2. NumReads * ScansPerRead > 0
  BY <1>1
<1>3. QED
  BY <1>2, SMT DEF ReadScans

-----------------------------------------------------------------------------
Configuring == {"open", "info", "disable", "configure", "setTrigger", "clearEF",
                "setEFIndex", "enableEF", "start"}

(* Scans reach the program in order, and only by its reads. *)
Pipeline ==
  /\ taken <= sent
  /\ sent <= clock
  /\ taken = ReadScans
  /\ pc \in Configuring => streamRead = 0
  /\ pc = "read" => streamRead < NumReads

(* Whose stream the device runs, and why the loop was left. *)
StreamOwner ==
  /\ foreign => streaming
  /\ pc \in Configuring => ~OwnStream
  /\ pc = "stop" => streamRead = NumReads \/ ~OwnStream
  /\ pc = "close" => ~OwnStream /\ (stoppedForeign \/ streamRead = NumReads)

(* What the program has made of the trigger registers, as far as others    *)
(* leave them alone until the start.  A stream that may clock scans has    *)
(* seen its edge.                                                          *)
TriggerSet ==
  /\ pc \in Arming => triggerIndex = "DIO0" \/ "trigger" \in touched
  /\ OwnStream => waiting \/ triggered \/ "trigger" \in touched
  /\ pc = "setEFIndex" => ~efEnabled \/ "feature" \in touched

(* The process and its handle. *)
ProcessState ==
  /\ exit = "none" <=> pc # "exit"
  /\ exit = "none" => (handle = IF pc = "open" THEN "none" ELSE "open")

(* The inductive invariant.  NoScanBeforeEdge is not inductive: that the   *)
(* scan clock waits for an edge rests on what the device found in          *)
(* STREAM_TRIGGER_INDEX when the stream was started, that on who wrote it  *)
(* since line 167, and both on any earlier stream being another's.         *)
IInv ==
  /\ TypeOK
  /\ Pipeline
  /\ StreamOwner
  /\ TriggerSet
  /\ ProcessState
  /\ NoScanBeforeEdge
  /\ NormalExitComplete

-----------------------------------------------------------------------------
(* The invariant holds before OpenOrDie. *)
LEMMA InitIInv == Init => IInv
<1> SUFFICES ASSUME Init PROVE IInv
  OBVIOUS
<1> USE DEF Init, SessionInit, DeviceInit
<1>1. TypeOK
  <2>1. /\ streaming \in BOOLEAN /\ foreign \in BOOLEAN /\ efEnabled \in BOOLEAN
        /\ recovering \in BOOLEAN /\ waiting \in BOOLEAN /\ triggered \in BOOLEAN
        /\ stoppedForeign \in BOOLEAN
    BY Zenon
  <2>2. DeviceTypeOK
    BY <2>1, SMT DEF DeviceTypeOK
  <2>3. QED
    BY <2>1, <2>2 DEF TypeOK, SessionTypeOK, PCs
<1>2. ReadScans = 0
  BY ReadScansFacts
<1>3. Pipeline /\ StreamOwner /\ TriggerSet /\ ProcessState
  BY <1>2 DEF Pipeline, StreamOwner, TriggerSet, ProcessState, OwnStream, Configuring,
     Arming
<1>4. NoScanBeforeEdge /\ NormalExitComplete
  BY DEF NoScanBeforeEdge, NormalExitComplete
<1>5. QED
  BY <1>1, <1>3, <1>4 DEF IInv

(* A step that leaves the stream and the count of reads alone. *)
LEMMA QuietStep ==
  ASSUME IInv, UNCHANGED <<deviceVars, worldVars, streamRead, historyVars>>
  PROVE  /\ ReadScans' = ReadScans
         /\ DeviceTypeOK'
         /\ NoScanBeforeEdge'
         /\ OwnStream' = OwnStream
<1>1. streamRead \in Nat
  BY DEF IInv, TypeOK
<1>2. ReadScans' = ReadScans
  BY <1>1, ReadScansFacts DEF worldVars
<1>3. DeviceTypeOK'
  BY DEF IInv, TypeOK, DeviceTypeOK, deviceVars
<1>4. NoScanBeforeEdge' /\ OwnStream' = OwnStream
  BY DEF IInv, NoScanBeforeEdge, OwnStream, deviceVars, worldVars
<1>5. QED
  BY <1>2, <1>3, <1>4

(* OpenOrDie. *)
LEMMA OpenIInv == ASSUME IInv, NEW e \in Outcome, Open(e) PROVE IInv'
<1> USE DEF Open, OpenOrDie, CheckedExit
<1>1. ReadScans' = ReadScans /\ DeviceTypeOK' /\ NoScanBeforeEdge' /\ OwnStream' = OwnStream
  BY QuietStep
<1>2. TypeOK'
  BY <1>1 DEF IInv, TypeOK, SessionTypeOK, PCs, worldVars, triggerVars
<1>3. Pipeline'
  BY <1>1 DEF IInv, TypeOK, Pipeline, Configuring, deviceVars
<1>4. StreamOwner'
  BY <1>1 DEF IInv, StreamOwner, Configuring, deviceVars, worldVars
<1>5. TriggerSet'
  BY <1>1 DEF IInv, TriggerSet, Configuring, Arming, StreamOwner, triggerVars
<1>6. ProcessState'
  BY DEF IInv, ProcessState
<1>7. NormalExitComplete'
  BY DEF IInv, NormalExitComplete, ProcessState
<1>8. QED
  BY <1>1, <1>2, <1>3, <1>4, <1>5, <1>6, <1>7 DEF IInv

(* The device's description; a T4 is turned away. *)
LEMMA InfoIInv == ASSUME IInv, NEW e \in Outcome, Info(e) PROVE IInv'
<1> USE DEF Info, ErrorCheck, CheckedExit, sessionVars, BareExit
<1>1. ReadScans' = ReadScans /\ DeviceTypeOK' /\ NoScanBeforeEdge' /\ OwnStream' = OwnStream
  BY QuietStep
<1>2. TypeOK'
  BY <1>1 DEF IInv, TypeOK, SessionTypeOK, PCs, worldVars, triggerVars
<1>3. Pipeline'
  BY <1>1 DEF IInv, TypeOK, Pipeline, Configuring, deviceVars
<1>4. StreamOwner'
  BY <1>1 DEF IInv, StreamOwner, Configuring, deviceVars, worldVars
<1>5. TriggerSet'
  BY <1>1 DEF IInv, TriggerSet, Configuring, Arming, StreamOwner, triggerVars
<1>6. ProcessState'
  BY DEF IInv, ProcessState
<1>7. NormalExitComplete'
  BY DEF IInv, NormalExitComplete, ProcessState
<1>8. QED
  BY <1>1, <1>2, <1>3, <1>4, <1>5, <1>6, <1>7 DEF IInv

(* The settings that do not concern the trigger. *)
LEMMA ConfigureIInv == ASSUME IInv, NEW e \in Outcome, Configure(e) PROVE IInv'
<1> USE DEF Configure, ErrorCheck, CheckedExit, sessionVars, WriteNameOrDie, BareExit
<1>1. ReadScans' = ReadScans /\ DeviceTypeOK' /\ NoScanBeforeEdge' /\ OwnStream' = OwnStream
  BY QuietStep
<1>2. TypeOK'
  BY <1>1 DEF IInv, TypeOK, SessionTypeOK, PCs, worldVars, triggerVars
<1>3. Pipeline'
  BY <1>1 DEF IInv, TypeOK, Pipeline, Configuring, deviceVars
<1>4. StreamOwner'
  BY <1>1 DEF IInv, StreamOwner, Configuring, deviceVars, worldVars
<1>5. TriggerSet'
  BY <1>1 DEF IInv, TriggerSet, Configuring, Arming, StreamOwner, triggerVars
<1>6. ProcessState'
  BY DEF IInv, ProcessState
<1>7. NormalExitComplete'
  BY DEF IInv, NormalExitComplete, ProcessState
<1>8. QED
  BY <1>1, <1>2, <1>3, <1>4, <1>5, <1>6, <1>7 DEF IInv

(* STREAM_TRIGGER_INDEX: from here on the trigger is set. *)
LEMMA SetTriggerIInv == ASSUME IInv, NEW e \in Outcome, SetTrigger(e) PROVE IInv'
<1> USE DEF SetTrigger, WriteNameOrDie, BareExit, sessionVars, WriteNameOrDieDies
<1>1. ReadScans' = ReadScans /\ DeviceTypeOK' /\ NoScanBeforeEdge' /\ OwnStream' = OwnStream
  BY QuietStep
<1>2. TypeOK'
  BY <1>1 DEF IInv, TypeOK, SessionTypeOK, PCs, worldVars, triggerVars
<1>3. Pipeline'
  BY <1>1 DEF IInv, TypeOK, Pipeline, Configuring, deviceVars
<1>4. StreamOwner'
  BY <1>1 DEF IInv, StreamOwner, Configuring, deviceVars, worldVars
<1>5. TriggerSet'
  BY <1>1 DEF IInv, TriggerSet, Configuring, Arming, StreamOwner, triggerVars
<1>6. ProcessState'
  BY DEF IInv, ProcessState
<1>7. NormalExitComplete'
  BY DEF IInv, NormalExitComplete, ProcessState
<1>8. QED
  BY <1>1, <1>2, <1>3, <1>4, <1>5, <1>6, <1>7 DEF IInv

(* DIO0_EF_ENABLE, 0. *)
LEMMA ClearEFIInv == ASSUME IInv, NEW e \in Outcome, ClearEF(e) PROVE IInv'
<1> USE DEF ClearEF, WriteNameOrDie, BareExit, sessionVars, WriteNameOrDieDies
<1>1. ReadScans' = ReadScans /\ DeviceTypeOK' /\ NoScanBeforeEdge' /\ OwnStream' = OwnStream
  BY QuietStep
<1>2. TypeOK'
  BY <1>1 DEF IInv, TypeOK, SessionTypeOK, PCs, worldVars, triggerVars
<1>3. Pipeline'
  BY <1>1 DEF IInv, TypeOK, Pipeline, Configuring, deviceVars
<1>4. StreamOwner'
  BY <1>1 DEF IInv, StreamOwner, Configuring, deviceVars, worldVars
<1>5. TriggerSet'
  BY <1>1 DEF IInv, TriggerSet, Configuring, Arming, StreamOwner, triggerVars
<1>6. ProcessState'
  BY DEF IInv, ProcessState
<1>7. NormalExitComplete'
  BY DEF IInv, NormalExitComplete, ProcessState
<1>8. QED
  BY <1>1, <1>2, <1>3, <1>4, <1>5, <1>6, <1>7 DEF IInv

(* DIO0_EF_INDEX. *)
LEMMA SetEFIndexIInv == ASSUME IInv, NEW e \in Outcome, SetEFIndex(e) PROVE IInv'
<1> USE DEF SetEFIndex, WriteNameOrDie, BareExit, sessionVars, WriteNameOrDieDies
<1>1. ReadScans' = ReadScans /\ DeviceTypeOK' /\ NoScanBeforeEdge' /\ OwnStream' = OwnStream
  BY QuietStep
<1>2. TypeOK'
  BY <1>1 DEF IInv, TypeOK, SessionTypeOK, PCs, worldVars, triggerVars
<1>3. Pipeline'
  BY <1>1 DEF IInv, TypeOK, Pipeline, Configuring, deviceVars
<1>4. StreamOwner'
  BY <1>1 DEF IInv, StreamOwner, Configuring, deviceVars, worldVars
<1>5. TriggerSet'
  BY <1>1 DEF IInv, TriggerSet, Configuring, Arming, StreamOwner, triggerVars
<1>6. ProcessState'
  BY DEF IInv, ProcessState
<1>7. NormalExitComplete'
  BY DEF IInv, NormalExitComplete, ProcessState
<1>8. QED
  BY <1>1, <1>2, <1>3, <1>4, <1>5, <1>6, <1>7 DEF IInv

(* DIO0_EF_ENABLE, 1. *)
LEMMA EnableEFIInv == ASSUME IInv, NEW e \in Outcome, EnableEF(e) PROVE IInv'
<1> USE DEF EnableEF, WriteNameOrDie, BareExit, sessionVars, WriteNameOrDieDies
<1>1. ReadScans' = ReadScans /\ DeviceTypeOK' /\ NoScanBeforeEdge' /\ OwnStream' = OwnStream
  BY QuietStep
<1>2. TypeOK'
  BY <1>1 DEF IInv, TypeOK, SessionTypeOK, PCs, worldVars, triggerVars
<1>3. Pipeline'
  BY <1>1 DEF IInv, TypeOK, Pipeline, Configuring, deviceVars
<1>4. StreamOwner'
  BY <1>1 DEF IInv, StreamOwner, Configuring, deviceVars, worldVars
<1>5. TriggerSet'
  BY <1>1 DEF IInv, TriggerSet, Configuring, Arming, StreamOwner, triggerVars
<1>6. ProcessState'
  BY DEF IInv, ProcessState
<1>7. NormalExitComplete'
  BY DEF IInv, NormalExitComplete, ProcessState
<1>8. QED
  BY <1>1, <1>2, <1>3, <1>4, <1>5, <1>6, <1>7 DEF IInv

(* LJME_NO_SCANS_RETURNED. *)
LEMMA NoScansReturnedIInv == ASSUME IInv, NoScansReturned PROVE IInv'
<1> USE DEF NoScansReturned, sessionVars
<1>1. ReadScans' = ReadScans /\ DeviceTypeOK' /\ NoScanBeforeEdge' /\ OwnStream' = OwnStream
  BY QuietStep
<1>2. TypeOK'
  BY <1>1 DEF IInv, TypeOK, SessionTypeOK, PCs, worldVars, triggerVars
<1>3. Pipeline'
  BY <1>1 DEF IInv, TypeOK, Pipeline, Configuring, deviceVars
<1>4. StreamOwner'
  BY <1>1 DEF IInv, StreamOwner, Configuring, deviceVars, worldVars
<1>5. TriggerSet'
  BY <1>1 DEF IInv, TriggerSet, Configuring, Arming, StreamOwner,
     triggerVars, worldVars
<1>6. ProcessState'
  BY DEF IInv, ProcessState
<1>7. NormalExitComplete'
  BY DEF IInv, NormalExitComplete, ProcessState
<1>8. QED
  BY <1>1, <1>2, <1>3, <1>4, <1>5, <1>6, <1>7 DEF IInv

(* STREAM_ENABLE: the loop is left after the last read, or without a stream. *)
LEMMA CheckEnabledIInv == ASSUME IInv, NEW e \in Outcome, CheckEnabled(e) PROVE IInv'
<1> USE DEF CheckEnabled, ErrorCheck, CheckedExit, sessionVars
<1>1. ReadScans' = ReadScans /\ DeviceTypeOK' /\ NoScanBeforeEdge' /\ OwnStream' = OwnStream
  BY QuietStep
<1>2. TypeOK'
  BY <1>1 DEF IInv, TypeOK, SessionTypeOK, PCs, worldVars, triggerVars
<1>3. Pipeline'
  BY <1>1 DEF IInv, TypeOK, Pipeline, Configuring, deviceVars
<1>4. StreamOwner'
  BY <1>1 DEF IInv, TypeOK, Pipeline, OwnStream, StreamOwner, Configuring, deviceVars,
     worldVars
<1>5. TriggerSet'
  BY <1>1 DEF IInv, TriggerSet, Configuring, Arming, StreamOwner,
     triggerVars, worldVars
<1>6. ProcessState'
  BY DEF IInv, ProcessState
<1>7. NormalExitComplete'
  BY DEF IInv, NormalExitComplete, ProcessState
<1>8. QED
  BY <1>1, <1>2, <1>3, <1>4, <1>5, <1>6, <1>7 DEF IInv

(* CloseOrDie: here the loop's two ways out must have been accounted for. *)
LEMMA CloseIInv == ASSUME IInv, NEW e \in Outcome, Close(e) PROVE IInv'
<1> USE DEF Close, CloseOrDie, CheckedExit, NormalExit
<1>1. ReadScans' = ReadScans /\ DeviceTypeOK' /\ NoScanBeforeEdge' /\ OwnStream' = OwnStream
  BY QuietStep
<1>2. TypeOK'
  BY <1>1 DEF IInv, TypeOK, SessionTypeOK, PCs, worldVars, triggerVars
<1>3. Pipeline'
  BY <1>1 DEF IInv, TypeOK, Pipeline, Configuring, deviceVars
<1>4. StreamOwner'
  BY <1>1 DEF IInv, StreamOwner, Configuring, deviceVars, worldVars
<1>5. TriggerSet'
  BY <1>1 DEF IInv, TriggerSet, Configuring, Arming, StreamOwner, triggerVars
<1>6. ProcessState'
  BY DEF IInv, ProcessState
<1>7. NormalExitComplete'
  <2>1. ~OwnStream /\ (stoppedForeign \/ streamRead = NumReads)
    BY DEF IInv, StreamOwner
  <2>2. streamRead = NumReads => /\ taken = NumReads * ScansPerRead
                                 /\ triggered \/ "trigger" \in touched
    <3>1. ASSUME streamRead = NumReads
          PROVE  taken = NumReads * ScansPerRead /\ clock > 0
      <4>1. streamRead \in Nat
        BY DEF IInv, TypeOK
      <4>2. ReadScans = NumReads * ScansPerRead /\ ReadScans > 0
        BY <3>1, <4>1, ReadScansFacts
      <4>3. taken = ReadScans /\ taken <= sent /\ sent <= clock
        BY DEF IInv, Pipeline
      <4>4. clock \in Nat /\ sent \in Nat /\ taken \in Nat
        BY ConstantTypes DEF IInv, TypeOK, DeviceTypeOK
      <4>5. QED
        BY <4>2, <4>3, <4>4
    <3>2. QED
      BY <3>1 DEF IInv, NoScanBeforeEdge
  <2>3. QED
    BY <2>1, <2>2 DEF NormalExitComplete, OwnStream, deviceVars, worldVars
<1>8. QED
  BY <1>1, <1>2, <1>3, <1>4, <1>5, <1>6, <1>7 DEF IInv

(* DisableStreamIfEnabled, which stops whichever stream runs. *)
LEMMA DisableIInv == ASSUME IInv, Disable PROVE IInv'
<1> USE DEF Disable, DisableStreamIfEnabled, StreamStopped, deviceVars, CheckedExit,
            sessionVars, triggerVars
<1>1. /\ pc = "disable" /\ pc' \in {"configure", "exit"}
      /\ UNCHANGED <<clock, lost, recovering, sent, taken, streamRead, waiting, triggered,
                     stoppedForeign, touched, triggerIndex, efEnabled, efIndex>>
      /\ foreign' = (foreign /\ streaming')
      /\ streaming' = streaming \/ streaming' = FALSE
  BY Zenon
<1>2. \/ exit' = "error" /\ pc' = "exit" /\ handle' \in {handle, "closed"}
      \/ pc' = "configure" /\ UNCHANGED <<handle, exit>>
  BY Zenon
<1>3. ReadScans' = ReadScans
  BY <1>1, ReadScansFacts DEF IInv, TypeOK
<1>4. ~OwnStream'
  BY <1>1 DEF IInv, StreamOwner, OwnStream, Configuring
<1>5. TypeOK'
  <2>1. streaming' \in BOOLEAN /\ foreign' \in BOOLEAN
    BY <1>1 DEF IInv, TypeOK, DeviceTypeOK
  <2>2. SessionTypeOK'
    BY <1>2 DEF IInv, TypeOK, SessionTypeOK
  <2>3. QED
    BY <1>1, <2>1, <2>2 DEF IInv, TypeOK, DeviceTypeOK, PCs
<1>6. Pipeline' /\ TriggerSet'
  BY <1>1, <1>3, <1>4 DEF IInv, Pipeline, TriggerSet, Configuring, Arming
<1>7. StreamOwner' /\ ProcessState'
  BY <1>1, <1>2, <1>4 DEF IInv, StreamOwner, ProcessState
<1>8. NoScanBeforeEdge' /\ NormalExitComplete'
  BY <1>1, <1>2 DEF IInv, NoScanBeforeEdge, NormalExitComplete, ProcessState
<1>9. QED
  BY <1>5, <1>6, <1>7, <1>8 DEF IInv

(* LJM_eStreamStart: a fresh clock, which waits for a new edge. *)
LEMMA StartIInv == ASSUME IInv, NEW e \in Outcome, Start(e) PROVE IInv'
<1> USE DEF Start, ErrorCheck, CheckedExit, sessionVars, ErrorCheckDies, Outcome
<1>1. CASE e = "error"
  <2> USE <1>1
  <2>1. ReadScans' = ReadScans /\ DeviceTypeOK' /\ NoScanBeforeEdge' /\ OwnStream' = OwnStream
    BY QuietStep
  <2>2. TypeOK'
    BY <2>1 DEF IInv, TypeOK, SessionTypeOK, PCs, worldVars, triggerVars
  <2>3. Pipeline' /\ StreamOwner' /\ TriggerSet'
    BY <2>1 DEF IInv, TypeOK, Pipeline, StreamOwner, TriggerSet, Configuring,
       Arming, deviceVars, worldVars, triggerVars
  <2>4. ProcessState' /\ NormalExitComplete'
    BY DEF IInv, ProcessState, NormalExitComplete
  <2>5. QED
    BY <2>1, <2>2, <2>3, <2>4 DEF IInv
<1>2. CASE e # "error"
  <2> USE <1>2 DEF StreamStarted
  <2>1. pc' = "read" /\ streamRead = 0 /\ streamRead' = 0 /\ UNCHANGED <<handle, exit>>
    BY DEF IInv, Pipeline, Configuring
  <2>2. ReadScans' = 0
    BY <2>1, ReadScansFacts
  <2>3. TypeOK'
    <3>1. streaming' \in BOOLEAN /\ recovering' \in BOOLEAN /\ waiting' \in BOOLEAN
            /\ triggered' \in BOOLEAN /\ foreign' \in BOOLEAN /\ lost' \in SUBSET (1..MaxScans)
      OBVIOUS
    <3>2. clock' \in 0..MaxScans /\ sent' \in 0..MaxScans /\ taken' \in 0..MaxScans
      BY ConstantTypes
    <3>3. QED
      BY <2>1, <3>1, <3>2 DEF IInv, TypeOK, SessionTypeOK, DeviceTypeOK, PCs, triggerVars
  <2>4. Pipeline'
    BY <2>1, <2>2, ConstantTypes DEF Pipeline, Configuring
  <2>5. StreamOwner' /\ TriggerSet'
    BY <2>1 DEF IInv, StreamOwner, TriggerSet, OwnStream, Configuring, Arming,
       triggerVars
  <2>6. ProcessState' /\ NormalExitComplete' /\ NoScanBeforeEdge'
    BY <2>1 DEF IInv, ProcessState, NormalExitComplete, NoScanBeforeEdge
  <2>7. QED
    BY <2>3, <2>4, <2>5, <2>6 DEF IInv
<1>3. QED
  BY <1>1, <1>2

(* A whole read, or an error: the stream may have ended in either case.    *)
LEMMA ReadIInv == ASSUME IInv, NEW e \in Outcome, Read(e) PROVE IInv'
<1> USE DEF Read, ErrorCheck, CheckedExit, sessionVars, triggerVars, worldVars
<1>1. /\ UNCHANGED <<streaming, clock, lost, recovering, sent, triggerIndex, efEnabled,
                     efIndex, waiting, triggered, foreign, stoppedForeign, touched>>
      /\ pc = "read"
      /\ \/ exit' = "error" /\ pc' = "exit" /\ handle' \in {handle, "closed"}
         \/ pc' = "enabled" /\ UNCHANGED <<handle, exit>>
  BY Zenon
<1>2. streamRead \in Nat /\ streamRead < NumReads /\ taken = ReadScans
  BY DEF IInv, TypeOK, Pipeline
<1>3. \/ UNCHANGED <<taken, streamRead>>
      \/ /\ sent - taken >= ScansPerRead
         /\ taken' = taken + ScansPerRead /\ streamRead' = streamRead + 1
  BY Zenon
<1>4. clock \in 0..MaxScans /\ sent \in 0..MaxScans /\ taken \in 0..MaxScans
  BY DEF IInv, TypeOK, DeviceTypeOK
<1>5. taken' = ReadScans' /\ taken' \in 0..MaxScans /\ taken' <= sent
      /\ streamRead' \in 0..NumReads
  <2>1. CASE UNCHANGED <<taken, streamRead>>
    BY <1>2, <1>4, <2>1, ReadScansFacts DEF IInv, Pipeline, TypeOK
  <2>2. CASE /\ sent - taken >= ScansPerRead
             /\ taken' = taken + ScansPerRead /\ streamRead' = streamRead + 1
    <3>1. ReadScans' = ReadScans + ScansPerRead
      BY <1>2, <2>2, ReadScansFacts
    <3>2. QED
      BY <1>2, <1>4, <2>2, <3>1, ConstantTypes
  <2>3. QED
    BY <1>3, <2>1, <2>2
<1>6. TypeOK'
  <2>1. SessionTypeOK'
    BY <1>1 DEF IInv, TypeOK, SessionTypeOK
  <2>2. QED
    BY <1>1, <1>5, <2>1 DEF IInv, TypeOK, DeviceTypeOK, PCs
<1>7. Pipeline'
  BY <1>1, <1>5 DEF IInv, Pipeline, Configuring
<1>8. StreamOwner' /\ TriggerSet'
  BY <1>1 DEF IInv, StreamOwner, TriggerSet, OwnStream, Configuring, Arming
<1>9. ProcessState' /\ NormalExitComplete' /\ NoScanBeforeEdge'
  BY <1>1 DEF IInv, ProcessState, NormalExitComplete, NoScanBeforeEdge
<1>10. QED
  BY <1>6, <1>7, <1>8, <1>9 DEF IInv

(* LJM_eStreamStop: it succeeds on the own stream, which is complete, or   *)
(* on another program's.                                                   *)
LEMMA StopIInv == ASSUME IInv, NEW e \in Outcome, Stop(e) PROVE IInv'
<1> USE DEF Stop, ErrorCheck, CheckedExit, sessionVars, triggerVars, StreamStopped,
            deviceVars, ErrorCheckDies, Outcome
<1>1. /\ UNCHANGED <<clock, lost, recovering, sent, taken, triggerIndex, efEnabled,
                     efIndex, waiting, triggered, streamRead, touched>>
      /\ pc = "stop"
  BY Zenon
<1>2. \/ /\ exit' = "error" /\ pc' = "exit" /\ handle' \in {handle, "closed"}
         /\ UNCHANGED <<streaming, foreign, stoppedForeign>>
      \/ /\ pc' = "close" /\ UNCHANGED <<handle, exit>>
         /\ streaming /\ streaming' = FALSE /\ foreign' = FALSE
         /\ stoppedForeign' = foreign
  BY Zenon
<1>3. ReadScans' = ReadScans
  BY <1>1, ReadScansFacts DEF IInv, TypeOK
<1>4. TypeOK'
  <2>1. streaming' \in BOOLEAN /\ foreign' \in BOOLEAN /\ stoppedForeign' \in BOOLEAN
    BY <1>2 DEF IInv, TypeOK, DeviceTypeOK
  <2>2. SessionTypeOK'
    BY <1>2 DEF IInv, TypeOK, SessionTypeOK
  <2>3. QED
    BY <1>1, <1>2, <2>1, <2>2 DEF IInv, TypeOK, DeviceTypeOK, PCs
<1>5. Pipeline'
  BY <1>1, <1>2, <1>3 DEF IInv, Pipeline, Configuring
<1>6. StreamOwner' /\ TriggerSet'
  BY <1>1, <1>2 DEF IInv, StreamOwner, TriggerSet, OwnStream, Configuring, Arming
<1>7. ProcessState' /\ NormalExitComplete' /\ NoScanBeforeEdge'
  BY <1>1, <1>2 DEF IInv, ProcessState, NormalExitComplete, NoScanBeforeEdge
<1>8. QED
  BY <1>4, <1>5, <1>6, <1>7 DEF IInv

-----------------------------------------------------------------------------
(* The edge. *)
LEMMA EdgeIInv == ASSUME IInv, Edge PROVE IInv'
<1> USE DEF Edge, sessionVars, deviceVars, triggerVars
<1>1. ReadScans' = ReadScans
  BY ReadScansFacts DEF IInv, TypeOK
<1>2. TypeOK'
  <2>1. waiting' \in BOOLEAN /\ triggered' \in BOOLEAN /\ foreign' = foreign
    OBVIOUS
  <2>2. UNCHANGED <<sessionVars, deviceVars, triggerVars, pc, streamRead, historyVars>>
    OBVIOUS
  <2>3. QED
    BY <2>1, <2>2 DEF IInv, TypeOK, SessionTypeOK, DeviceTypeOK, PCs
<1>3. Pipeline' /\ StreamOwner' /\ TriggerSet' /\ ProcessState'
  BY <1>1 DEF IInv, Pipeline, StreamOwner, TriggerSet, ProcessState, OwnStream
<1>4. NoScanBeforeEdge' /\ NormalExitComplete'
  BY DEF IInv, NoScanBeforeEdge, NormalExitComplete
<1>5. QED
  BY <1>2, <1>3, <1>4 DEF IInv

(* A tick of the scan clock, after the edge. *)
LEMMA ScanIInv == ASSUME IInv, Scan PROVE IInv'
<1> USE DEF Scan, sessionVars, triggerVars, worldVars
<1>1. triggered \/ "trigger" \in touched
  BY DEF IInv, TriggerSet
<1>2. /\ clock < MaxScans /\ clock' = clock + 1
      /\ UNCHANGED <<streaming, sent, taken>>
      /\ \/ lost' = lost \cup {clock + 1} /\ recovering' = TRUE
         \/ UNCHANGED <<lost, recovering>>
  BY Zenon DEF ClockScan
<1>3. clock \in 0..MaxScans /\ sent \in 0..MaxScans
  BY DEF IInv, TypeOK, DeviceTypeOK
<1>4. ReadScans' = ReadScans
  BY ReadScansFacts DEF IInv, TypeOK
<1>5. TypeOK'
  <2>1. clock' \in 0..MaxScans /\ clock + 1 \in 1..MaxScans
    BY <1>2, <1>3, ConstantTypes
  <2>2. lost' \in SUBSET (1..MaxScans) /\ recovering' \in BOOLEAN
    BY <1>2, <2>1 DEF IInv, TypeOK, DeviceTypeOK
  <2>3. QED
    BY <1>2, <2>1, <2>2 DEF IInv, TypeOK, SessionTypeOK, DeviceTypeOK, PCs
<1>6. Pipeline'
  BY <1>2, <1>3, <1>4 DEF IInv, Pipeline
<1>7. StreamOwner' /\ TriggerSet' /\ ProcessState'
  BY <1>2 DEF IInv, StreamOwner, TriggerSet, ProcessState, OwnStream
<1>8. NoScanBeforeEdge' /\ NormalExitComplete'
  BY <1>1, <1>2 DEF IInv, NoScanBeforeEdge, NormalExitComplete
<1>9. QED
  BY <1>5, <1>6, <1>7, <1>8 DEF IInv

(* Positions travel to the library; auto-recovery ends. *)
LEMMA DeliverIInv == ASSUME IInv, Deliver PROVE IInv'
<1> USE DEF Deliver, sessionVars, triggerVars, worldVars
<1>1. /\ UNCHANGED <<streaming, clock, lost, taken>>
      /\ \/ sent < clock /\ sent' = sent + 1 /\ UNCHANGED recovering
         \/ sent' = sent /\ recovering' = FALSE
  BY Zenon DEF Transfer, EndRecovery
<1>2. clock \in 0..MaxScans /\ sent \in 0..MaxScans /\ taken \in 0..MaxScans
  BY DEF IInv, TypeOK, DeviceTypeOK
<1>3. ReadScans' = ReadScans
  BY ReadScansFacts DEF IInv, TypeOK
<1>4. sent' \in 0..MaxScans /\ taken <= sent' /\ sent' <= clock
  BY <1>1, <1>2, ConstantTypes DEF IInv, Pipeline
<1>5. TypeOK'
  <2>1. recovering' \in BOOLEAN
    BY <1>1 DEF IInv, TypeOK, DeviceTypeOK
  <2>2. QED
    BY <1>1, <1>4, <2>1 DEF IInv, TypeOK, SessionTypeOK, DeviceTypeOK, PCs
<1>6. Pipeline'
  BY <1>1, <1>3, <1>4 DEF IInv, Pipeline
<1>7. StreamOwner' /\ TriggerSet' /\ ProcessState'
  BY <1>1 DEF IInv, StreamOwner, TriggerSet, ProcessState, OwnStream
<1>8. NoScanBeforeEdge' /\ NormalExitComplete'
  BY <1>1 DEF IInv, NoScanBeforeEdge, NormalExitComplete
<1>9. QED
  BY <1>5, <1>6, <1>7, <1>8 DEF IInv

(* What others change leaves the history of what they changed.             *)
LEMMA TouchFacts ==
  ASSUME TypeOK, Touch
  PROVE  /\ touched' \in SUBSET {"trigger", "feature"}
         /\ touched \subseteq touched'
         /\ pc \in Arming => triggerIndex' = triggerIndex \/ "trigger" \in touched'
         /\ pc \in Arming => efEnabled' = efEnabled \/ "feature" \in touched'
<1>1. touched \in SUBSET {"trigger", "feature"}
  BY DEF TypeOK
<1>2. featureVars' = featureVars => efEnabled' = efEnabled
  BY DEF featureVars
<1>3. QED
  BY <1>1, <1>2 DEF Touch

(* Whatever the others do, the stream that runs afterwards is not this     *)
(* program's, unless they only wrote registers.                            *)
LEMMA OthersActIInv == ASSUME IInv, OthersAct PROVE IInv'
<1> USE DEF sessionVars
<1>1. /\ UNCHANGED <<clock, lost, recovering, sent, taken, handle, exit, waiting,
                     triggered, pc, streamRead, stoppedForeign>>
      /\ Running
  BY DEF OthersAct, Reset, OthersStream, OthersWrite, OthersMayAct
<1>2. /\ streaming' \in BOOLEAN /\ foreign' \in BOOLEAN
      /\ foreign' => streaming'
      /\ OwnStream' => OwnStream
  <2>1. streaming \in BOOLEAN /\ foreign \in BOOLEAN /\ (foreign => streaming)
    BY DEF IInv, TypeOK, DeviceTypeOK, StreamOwner
  <2>2. \/ streaming' = FALSE /\ foreign' = FALSE
        \/ streaming' = ~streaming /\ foreign' = streaming'
        \/ UNCHANGED <<streaming, foreign>>
    BY DEF OthersAct, Reset, OthersStream, OthersWrite
  <2>3. CASE streaming' = FALSE /\ foreign' = FALSE
    BY <2>3 DEF OwnStream
  <2>4. CASE streaming' = ~streaming /\ foreign' = streaming'
    BY <2>1, <2>4 DEF OwnStream
  <2>5. CASE UNCHANGED <<streaming, foreign>>
    BY <2>1, <2>5 DEF OwnStream
  <2>6. QED
    BY <2>2, <2>3, <2>4, <2>5
<1>3. /\ triggerIndex' \in {"none", "DIO0"} /\ efEnabled' \in BOOLEAN
      /\ efIndex' \in {"edge", "other"}
  BY DEF OthersAct, Reset, OthersStream, OthersWrite, triggerVars, IInv, TypeOK
<1>4. /\ touched' \in SUBSET {"trigger", "feature"}
      /\ touched \subseteq touched'
      /\ pc \in Arming => triggerIndex' = triggerIndex \/ "trigger" \in touched'
      /\ pc \in Arming => efEnabled' = efEnabled \/ "feature" \in touched'
  <2>1. CASE Touch
    BY <2>1, TouchFacts DEF IInv
  <2>2. CASE UNCHANGED <<triggerVars, touched>>
    BY <2>2 DEF triggerVars, IInv, TypeOK
  <2>3. QED
    BY <2>1, <2>2 DEF OthersAct, Reset, OthersStream, OthersWrite
<1>5. ReadScans' = ReadScans
  BY <1>1, ReadScansFacts DEF IInv, TypeOK
<1>6. TypeOK'
  BY <1>1, <1>2, <1>3, <1>4 DEF IInv, TypeOK, SessionTypeOK, DeviceTypeOK, PCs
<1>7. Pipeline'
  BY <1>1, <1>5 DEF IInv, Pipeline
<1>8. StreamOwner' /\ ProcessState'
  BY <1>1, <1>2 DEF IInv, StreamOwner, ProcessState
<1>9. TriggerSet'
  <2>1. OwnStream' => waiting' \/ triggered' \/ "trigger" \in touched'
    BY <1>1, <1>2, <1>4 DEF IInv, TriggerSet
  <2>2. pc' \in Arming => triggerIndex' = "DIO0" \/ "trigger" \in touched'
    BY <1>1, <1>4 DEF IInv, TriggerSet
  <2>3. pc' = "setEFIndex" => ~efEnabled' \/ "feature" \in touched'
    BY <1>1, <1>4 DEF IInv, TriggerSet, Arming
  <2>4. QED
    BY <2>1, <2>2, <2>3 DEF TriggerSet
<1>10. NoScanBeforeEdge' /\ NormalExitComplete'
  BY <1>1, <1>4 DEF IInv, NoScanBeforeEdge, NormalExitComplete, Running
<1>11. QED
  BY <1>6, <1>7, <1>8, <1>9, <1>10 DEF IInv

(* Every step preserves the invariant. *)
LEMMA StepIInv == IInv /\ [Next]_vars => IInv'
<1> SUFFICES ASSUME IInv, [Next]_vars PROVE IInv'
  OBVIOUS
<1>1. ASSUME NEW e \in Outcome, Call(e) PROVE IInv'
  BY <1>1, OpenIInv, InfoIInv, ConfigureIInv, SetTriggerIInv, ClearEFIInv, SetEFIndexIInv,
     EnableEFIInv, StartIInv, ReadIInv, CheckEnabledIInv, StopIInv, CloseIInv DEF Call
<1>2. CASE Program
  BY <1>1, <1>2, DisableIInv, NoScansReturnedIInv DEF Program
<1>3. CASE Edge \/ Scan \/ Deliver \/ OthersAct
  BY <1>3, EdgeIInv, ScanIInv, DeliverIInv, OthersActIInv
<1>4. CASE Finished \/ UNCHANGED vars
  <2> USE <1>4 DEF Finished, vars, sessionVars, triggerVars
  <2>1. ReadScans' = ReadScans /\ DeviceTypeOK' /\ NoScanBeforeEdge' /\ OwnStream' = OwnStream
    BY QuietStep
  <2>2. TypeOK'
    <3>1. UNCHANGED <<handle, exit, pc, streamRead, triggerIndex, efEnabled, efIndex,
                      waiting, triggered, foreign, stoppedForeign, touched>>
      BY DEF worldVars
    <3>2. QED
      BY <2>1, <3>1 DEF IInv, TypeOK, SessionTypeOK, PCs
  <2>3. Pipeline' /\ StreamOwner' /\ TriggerSet' /\ ProcessState'
    BY <2>1 DEF IInv, Pipeline, StreamOwner, TriggerSet, ProcessState, deviceVars,
       worldVars
  <2>4. NormalExitComplete'
    BY DEF IInv, NormalExitComplete, deviceVars, worldVars
  <2>5. QED
    BY <2>1, <2>2, <2>3, <2>4 DEF IInv
<1>5. QED
  BY <1>2, <1>3, <1>4 DEF Next

(* The inductive invariant is one. *)
THEOREM Inductive == Spec => []IInv
<1>1. QED
  BY InitIInv, StepIInv, PTL DEF Spec

(* Every variable keeps its type, for all bounds (streamRead never passes  *)
(* the loop's bound, line 182).                                            *)
THEOREM TypeCorrect == Spec => []TypeOK
<1>1. IInv => TypeOK
  BY DEF IInv
<1>2. QED
  BY <1>1, Inductive, PTL

(* No scan is clocked before an edge that came after LJM_eStreamStart,      *)
(* unless others changed STREAM_TRIGGER_INDEX between its write (line 167) *)
(* and the start (line 178).                                               *)
THEOREM TriggerCorrect == Spec => []NoScanBeforeEdge
<1>1. IInv => NoScanBeforeEdge
  BY DEF IInv
<1>2. QED
  BY <1>1, Inductive, PTL

(* A return from main: every read was done, after an edge but for that     *)
(* exception, unless another program's stream was stopped (lines 182-216). *)
THEOREM ExitCorrect == Spec => []NormalExitComplete
<1>1. IInv => NormalExitComplete
  BY DEF IInv
<1>2. QED
  BY <1>1, Inductive, PTL

(* The program changes DIO0_EF_INDEX only while the feature is disabled,   *)
(* unless others enabled it again meanwhile (lines 169-176).               *)
THEOREM FeatureCorrect == Spec => EFConfiguredWhileDisabled
<1>1. ASSUME IInv, [Next]_vars
      PROVE  [Program => (efIndex' # efIndex => ~efEnabled \/ "feature" \in touched)]_vars
  <2>1. CASE pc = "setEFIndex"
    BY <1>1, <2>1 DEF IInv, TriggerSet
  <2>2. CASE pc # "setEFIndex"
    <3>1. ASSUME NEW e \in Outcome, Call(e) PROVE efIndex' = efIndex
      BY <2>2, <3>1 DEF Call, Open, Info, Configure, SetTrigger, ClearEF, SetEFIndex,
         EnableEF, Start, Read, CheckEnabled, Stop, Close, triggerVars
    <3>2. CASE Program
      BY <3>1, <3>2 DEF Program, Disable, NoScansReturned, triggerVars
    <3>3. QED
      BY <3>2
  <2>3. QED
    BY <2>1, <2>2
<1>2. QED
  BY <1>1, Inductive, PTL DEF Spec, EFConfiguredWhileDisabled

=============================================================================
