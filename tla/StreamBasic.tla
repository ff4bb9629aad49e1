------------------------------ MODULE StreamBasic ------------------------------
(***************************************************************************)
(* stream_basic.c (and stream_sequential_ain.c, whose Stream is this one   *)
(* without the calls about the connection): open a device, configure the   *)
(* stream, start it, perform numReads reads and count the skipped scans of *)
(* each, stop, close.  Every library call reports an outcome that          *)
(* ErrorCheck or WriteNameOrDie turns into "carry on" or "exit".  The      *)
(* program runs beside the device, whose scan clock does not wait for it.  *)
(***************************************************************************)
EXTENDS StreamUtilities

CONSTANT NumReads   \* the parameter numReads of Stream

ASSUME NumReadsAssumption == NumReads \in Nat \ {0}

VARIABLES
  connectionType,    \* as LJM_GetHandleInfo reports it
  aData,             \* the dummy samples of the last read
  iteration,
  totalSkippedScans,
  leftover           \* history: another program's stream was on at the start

programVars == <<pc, connectionType, aData, iteration,
                 totalSkippedScans>>
vars == <<sessionVars, deviceVars, programVars, leftover>>

(* What a call that reads no data leaves alone. *)
readVars == <<connectionType, aData, iteration, totalSkippedScans>>

Init ==
  /\ SessionInit
  /\ DeviceInit
  /\ pc = "open"
  /\ connectionType = "unknown"
  /\ aData = {}
  /\ iteration = 0
  /\ totalSkippedScans = 0
  /\ leftover = streaming

(* OpenOrDie *)
Open(e) ==
  /\ pc = "open"
  /\ OpenOrDie(e, "prepare")
  /\ UNCHANGED <<deviceVars, readVars, leftover>>

(* LJM_GetHandleInfo, for the printout and in Stream; LJM_NamesToAddresses. *)
Prepare(e) ==
  /\ pc = "prepare"
  /\ ErrorCheck(e, "configure")
  /\ connectionType' \in {"USB", "network"}
  /\ UNCHANGED <<deviceVars, aData, iteration, totalSkippedScans, leftover>>

(* HardcodedConfigureStream: six registers, each by WriteNameOrDie. *)
HardcodedConfigureStream(e) ==
  /\ pc = "configure"
  /\ WriteNameOrDie(e, "start")
  /\ UNCHANGED <<deviceVars, readVars, leftover>>

StartUnchecked(e) ==
  /\ pc = "start"
  /\ IF e = "error" THEN UNCHANGED deviceVars ELSE StreamStarted
  /\ pc' = "read"
  /\ UNCHANGED <<sessionVars, readVars, leftover>>

(* LJM_eStreamStart; an active stream makes it fail. *)
Start(e) ==
  /\ pc = "start"
  /\ IF e = "error" THEN UNCHANGED deviceVars ELSE StreamStarted
  /\ ErrorCheck(e, "read")
  /\ UNCHANGED <<readVars, leftover>>

(* LJM_eStreamRead blocks until a full read is there, or fails. *)
Read(e) ==
  /\ pc = "read"
  /\ IF e = "error"
     THEN UNCHANGED <<deviceVars, aData>>
     ELSE StreamReadDone /\ aData' = ReadData
  /\ ErrorCheck(e, IF connectionType = "USB" THEN "count" ELSE "status")
  /\ UNCHANGED <<connectionType, iteration, totalSkippedScans, leftover>>

(* LJM_GetStreamTCPReceiveBufferStatus, unless connected by USB. *)
ReceiveBufferStatus(e) ==
  /\ pc = "status"
  /\ ErrorCheck(e, "count")
  /\ UNCHANGED <<deviceVars, readVars, leftover>>

AddSkippedPerSample ==
  totalSkippedScans' = totalSkippedScans + Cardinality(aData)

AddSkippedForget ==
  totalSkippedScans' = CountSkippedScans(aData)

(* totalSkippedScans += numSkippedScans *)
AddSkipped ==
  totalSkippedScans' = totalSkippedScans + CountSkippedScans(aData)

CountStuck ==
  /\ pc = "count"
  /\ AddSkipped
  /\ pc' = "read"
  /\ UNCHANGED <<sessionVars, deviceVars, connectionType, aData, iteration,
                 leftover>>

(* The rest of the loop body, and the loop's test. *)
Count ==
  /\ pc = "count"
  /\ AddSkipped
  /\ iteration' = iteration + 1
  /\ pc' = IF iteration + 1 < NumReads THEN "read" ELSE "stop"
  /\ UNCHANGED <<sessionVars, deviceVars, connectionType, aData, leftover>>

(* LJM_eStreamStop *)
Stop(e) ==
  /\ pc = "stop"
  /\ IF e = "error" THEN UNCHANGED deviceVars ELSE StreamStopped
  /\ ErrorCheck(e, "close")
  /\ UNCHANGED <<readVars, leftover>>

(* CloseOrDie, and the end of main. *)
Close(e) ==
  /\ pc = "close"
  /\ CloseOrDie(e)
  /\ UNCHANGED <<deviceVars, readVars, leftover>>

Call(e) ==
  \/ Open(e) \/ Prepare(e) \/ HardcodedConfigureStream(e) \/ Start(e)
  \/ Read(e) \/ ReceiveBufferStatus(e) \/ Stop(e) \/ Close(e)

(* Only a program that started a stream has the library receive it. *)
LibraryReceives ==
  /\ pc \in {"read", "status", "count", "stop"}
  /\ Transfer

Device ==
  /\ ClockScan \/ EndRecovery \/ LibraryReceives
  /\ UNCHANGED <<sessionVars, programVars, leftover>>

(* The process has ended and the scan clock has reached its bound. *)
Finished ==
  /\ ~Running
  /\ UNCHANGED vars

Next == (\E e \in Outcome : Call(e)) \/ Count \/ Device \/ Finished

(***************************************************************************)
(* The program keeps running and the device keeps its clock and empties    *)
(* its buffer.  A read is only promised to return once its data is there:  *)
(* no behaviour is forced to fail by a timeout.                            *)
(***************************************************************************)
Fairness ==
  /\ WF_vars(pc # "read" /\ (Count \/ \E e \in Outcome : Call(e)))
  /\ WF_vars(Read("ok"))
  /\ WF_vars(ClockScan /\ UNCHANGED <<sessionVars, programVars, leftover>>)
  /\ WF_vars(EndRecovery /\ UNCHANGED <<sessionVars, programVars, leftover>>)
  /\ WF_vars(LibraryReceives /\ UNCHANGED <<sessionVars, programVars, leftover>>)

Spec == Init /\ [][Next]_vars
FairSpec == Spec /\ Fairness

-----------------------------------------------------------------------------
PCs == {"open", "prepare", "configure", "start", "read", "status", "count",
        "stop", "close", "exit"}

(* Every variable has its type: the session and the device of the modules  *)
(* below, and the locals of Stream.                                        *)
TypeOK ==
  /\ SessionTypeOK
  /\ DeviceTypeOK
  /\ pc \in PCs
  /\ connectionType \in {"unknown", "USB", "network"}
  /\ aData \subseteq (1..MaxScans) \X (1..NumChannels)
  /\ iteration \in 0..NumReads
  /\ totalSkippedScans \in 0..MaxScans
  /\ leftover \in BOOLEAN

(* The scans of the iterations that are over. *)
Counted == iteration * ScansPerRead

(* totalSkippedScans (lines 187-194) is exact: at the end of every          *)
(* iteration it is the number of scans the device skipped among all those  *)
(* the program has read, whatever the overflows did, wherever they fell in *)
(* a read and however many channels a scan has.                            *)
SkipTotalExact == totalSkippedScans = Cardinality(lost \cap (1..Counted))

(* The program never takes another program's scans for its own: when the   *)
(* device is already streaming at the start, LJM_eStreamStart (line 157)   *)
(* refuses, nothing is read and the process does not end normally.         *)
LeftoverStreamRefused == leftover => taken = 0 /\ exit # "ok"

(* Return from main (lines 67-74) means the whole job: numReads reads      *)
(* done and accounted for, the device's stream off, the handle closed.     *)
NormalExitComplete ==
  exit = "ok" =>
    /\ ~streaming
    /\ handle = "closed"
    /\ taken = NumReads * ScansPerRead
    /\ totalSkippedScans = Cardinality(lost \cap (1..taken))

(* WriteNameOrDie exits without LJM_CloseAll.  stream_basic only calls it  *)
(* before LJM_eStreamStart, so a handle is never left open by a process    *)
(* whose own stream was running.                                           *)
BareExitBeforeStreamOnly ==
  (exit = "error" /\ handle = "open") => (streaming => leftover) /\ taken = 0

(* What each of the three ways out of the program says about the device.   *)
ExitsExplained == NormalExitComplete /\ BareExitBeforeStreamOnly

(* The process ends: no overflow, recovery or backlog can make a read wait *)
(* for ever, and the read loop is finite.                                  *)
Termination == <>(exit # "none")

(* The program implements the ledger: a delivery is complete when its      *)
(* skipped scans are counted.                                              *)
Ledger == INSTANCE ScanLedger WITH
  ReadSize <- ScansPerRead,
  Reads <- NumReads,
  delivered <- Counted,
  gaps <- lost \cap (1..Counted),
  reported <- totalSkippedScans,
  ended <- ~Running

(* Stream delivers what ScanLedger promises, in order, once, and with      *)
(* every gap reported in the step that delivers it.                        *)
ImplementsLedger == Ledger!LedgerSpec

=============================================================================
