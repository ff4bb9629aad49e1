---------------------------- MODULE StreamTriggered ----------------------------
(***************************************************************************)
(* stream_triggered.c: arm the device so that the first edge on DIO0       *)
(* starts the scan clock, start the stream, then poll.  The library is     *)
(* told to return a whole read or none; a poll that finds none is not an   *)
(* error, and STREAM_ENABLE is read after every poll because a reset of    *)
(* the device, or another program, may have ended the stream meanwhile.    *)
(* Such a program may as well start a stream of its own, and write the     *)
(* registers of the trigger; a reset gives them their defaults.            *)
(***************************************************************************)
EXTENDS StreamUtilities

CONSTANT NumReads   \* NUM_LOOP_ITERATIONS

ASSUME NumReadsAssumption == NumReads \in Nat \ {0}

VARIABLES
  streamRead,     \* reads that returned scans
  triggerIndex,   \* the register STREAM_TRIGGER_INDEX: 0 or DIO0 (2000)
  efEnabled,      \* the register DIO0_EF_ENABLE
  efIndex,        \* the register DIO0_EF_INDEX: "edge" is 5
  waiting,        \* the stream was started with the trigger set: no edge yet
  triggered,      \* an edge started the scan clock of the program's stream
  foreign,        \* the stream that runs is another program's
  stoppedForeign, \* history: the program stopped such a stream
  touched         \* history: what others changed between lines 167 and 178

triggerVars == <<triggerIndex, efEnabled, efIndex>>
featureVars == <<efEnabled, efIndex>>
worldVars == <<waiting, triggered, foreign>>
historyVars == <<stoppedForeign, touched>>
vars == <<sessionVars, deviceVars, triggerVars, worldVars, pc, streamRead,
          historyVars>>

(* An earlier program may have left any of the settings, and its stream. *)
Init ==
  /\ SessionInit
  /\ DeviceInit
  /\ pc = "open"
  /\ streamRead = 0
  /\ triggerIndex \in {"none", "DIO0"}
  /\ efEnabled \in BOOLEAN
  /\ efIndex \in {"edge", "other"}
  /\ waiting = FALSE
  /\ triggered = FALSE
  /\ foreign = streaming
  /\ stoppedForeign = FALSE
  /\ touched = {}

(* OpenOrDie *)
Open(e) ==
  /\ pc = "open"
  /\ OpenOrDie(e, "info")
  /\ UNCHANGED <<deviceVars, triggerVars, worldVars, streamRead, historyVars>>

(* PrintDeviceInfoFromHandle, GetDeviceType; a T4 is sent away by exit(1). *)
Info(e) ==
  /\ pc = "info"
  /\ \/ ErrorCheck(e, "disable")
     \/ ~ErrorCheckDies(e) /\ BareExit /\ pc' = "exit"
  /\ UNCHANGED <<deviceVars, triggerVars, worldVars, streamRead, historyVars>>

Disable ==
  /\ pc = "disable"
  /\ \E old \in BOOLEAN, result \in {"die", "clear", "left"} :
       /\ DisableStreamIfEnabled(old, result)
       /\ IF result = "die"
          THEN CheckedExit /\ pc' = "exit"
          ELSE pc' = "configure" /\ UNCHANGED sessionVars
  /\ foreign' = (foreign /\ streaming')
  /\ UNCHANGED <<triggerVars, waiting, triggered, streamRead, historyVars>>

(* LJM_NamesToAddresses, the writes of HardcodedConfigureStream, and       *)
(* SetConfigValue, whose failure is only printed.                          *)
Configure(e) ==
  /\ pc = "configure"
  /\ ErrorCheck(e, "setTrigger") \/ WriteNameOrDie(e, "setTrigger")
  /\ UNCHANGED <<deviceVars, triggerVars, worldVars, streamRead, historyVars>>

SetTriggerDropped(e) ==
  /\ pc = "setTrigger"
  /\ WriteNameOrDie(e, "clearEF")
  /\ UNCHANGED <<triggerIndex, efEnabled, efIndex, deviceVars, worldVars,
                 streamRead, historyVars>>

(* The four writes that arm the trigger; a warning comes with the write. *)
SetTrigger(e) ==
  /\ pc = "setTrigger"
  /\ triggerIndex' = IF e = "error" THEN triggerIndex ELSE "DIO0"
  /\ WriteNameOrDie(e, "clearEF")
  /\ UNCHANGED <<efEnabled, efIndex, deviceVars, worldVars, streamRead,
                 historyVars>>

ClearEFDropped(e) ==
  /\ pc = "clearEF"
  /\ WriteNameOrDie(e, "setEFIndex")
  /\ UNCHANGED <<efEnabled, triggerIndex, efIndex, deviceVars, worldVars,
                 streamRead, historyVars>>

ClearEF(e) ==
  /\ pc = "clearEF"
  /\ efEnabled' = IF e = "error" THEN efEnabled ELSE FALSE
  /\ WriteNameOrDie(e, "setEFIndex")
  /\ UNCHANGED <<triggerIndex, efIndex, deviceVars, worldVars, streamRead,
                 historyVars>>

SetEFIndex(e) ==
  /\ pc = "setEFIndex"
  /\ efIndex' = IF e = "error" THEN efIndex ELSE "edge"
  /\ WriteNameOrDie(e, "enableEF")
  /\ UNCHANGED <<triggerIndex, efEnabled, deviceVars, worldVars, streamRead,
                 historyVars>>

EnableEF(e) ==
  /\ pc = "enableEF"
  /\ efEnabled' = IF e = "error" THEN efEnabled ELSE TRUE
  /\ WriteNameOrDie(e, "start")
  /\ UNCHANGED <<triggerIndex, efIndex, deviceVars, worldVars, streamRead,
                 historyVars>>

(* LJM_eStreamStart.  The device looks at STREAM_TRIGGER_INDEX once, here:  *)
(* if it is set an edge starts the scan clock, else the start itself does. *)
Start(e) ==
  /\ pc = "start"
  /\ IF e = "error"
     THEN UNCHANGED <<deviceVars, worldVars>>
     ELSE /\ StreamStarted
          /\ waiting' = (triggerIndex = "DIO0")
          /\ triggered' = FALSE
          /\ foreign' = FALSE
  /\ ErrorCheck(e, "read")
  /\ UNCHANGED <<triggerVars, streamRead, historyVars>>

(* LJM_eStreamRead with LJM_STREAM_SCANS_RETURN_ALL_OR_NONE: a whole read,  *)
(* also when the stream has ended since, or LJME_NO_SCANS_RETURNED.        *)
Read(e) ==
  /\ pc = "read"
  /\ \/ /\ e # "error"
        /\ sent - taken >= ScansPerRead
        /\ taken' = taken + ScansPerRead
        /\ streamRead' = streamRead + 1
     \/ e = "error" /\ UNCHANGED <<taken, streamRead>>
  /\ ErrorCheck(e, "enabled")
  /\ UNCHANGED <<streaming, clock, lost, recovering, sent, triggerVars,
                 worldVars, historyVars>>

NoScansReturned ==
  /\ pc = "read"
  /\ sent - taken < ScansPerRead
  /\ pc' = "enabled"
  /\ UNCHANGED <<sessionVars, deviceVars, triggerVars, worldVars, streamRead,
                 historyVars>>

CheckEnabledIgnored(e) ==
  /\ pc = "enabled"
  /\ ErrorCheck(e, IF streamRead < NumReads THEN "read" ELSE "stop")
  /\ UNCHANGED <<deviceVars, triggerVars, worldVars, streamRead, historyVars>>

(* LJM_eReadName of STREAM_ENABLE; the break; the test of the loop. *)
CheckEnabled(e) ==
  /\ pc = "enabled"
  /\ ErrorCheck(e, IF streaming /\ streamRead < NumReads THEN "read" ELSE "stop")
  /\ UNCHANGED <<deviceVars, triggerVars, worldVars, streamRead, historyVars>>

StopTolerant(e) ==
  /\ pc = "stop"
  /\ \/ /\ e # "error" /\ StreamStopped
        /\ foreign' = FALSE
        /\ stoppedForeign' = foreign
     \/ e = "error" /\ UNCHANGED <<deviceVars, foreign, stoppedForeign>>
  /\ pc' = "close"
  /\ UNCHANGED <<sessionVars, triggerVars, waiting, triggered, streamRead, touched>>

(* LJM_eStreamStop fails when no stream runs, and stops whichever does. *)
Stop(e) ==
  /\ pc = "stop"
  /\ \/ /\ e # "error" /\ StreamStopped
        /\ foreign' = FALSE
        /\ stoppedForeign' = foreign
     \/ e = "error" /\ UNCHANGED <<deviceVars, foreign, stoppedForeign>>
  /\ ErrorCheck(e, "close")
  /\ UNCHANGED <<triggerVars, waiting, triggered, streamRead, touched>>

(* CloseOrDie, and the end of main. *)
Close(e) ==
  /\ pc = "close"
  /\ CloseOrDie(e)
  /\ UNCHANGED <<deviceVars, triggerVars, worldVars, streamRead, historyVars>>

Call(e) ==
  \/ Open(e) \/ Info(e) \/ Configure(e)
  \/ SetTrigger(e) \/ ClearEF(e) \/ SetEFIndex(e) \/ EnableEF(e)
  \/ Start(e) \/ Read(e) \/ CheckEnabled(e) \/ Stop(e) \/ Close(e)

Program == Disable \/ NoScansReturned \/ \E e \in Outcome : Call(e)

-----------------------------------------------------------------------------
(* The program's stream runs on the device. *)
OwnStream == streaming /\ ~foreign

(* DIO0's extended feature looks for edges. *)
Listening == efEnabled /\ efIndex = "edge"

(* An edge on DIO0 that a waiting stream acts on. *)
Edge ==
  /\ OwnStream /\ waiting /\ Listening
  /\ waiting' = FALSE
  /\ triggered' = TRUE
  /\ UNCHANGED <<sessionVars, deviceVars, triggerVars, pc, streamRead, foreign,
                 historyVars>>

Scan ==
  /\ OwnStream /\ ~waiting
  /\ ClockScan
  /\ UNCHANGED <<sessionVars, triggerVars, worldVars, pc, streamRead,
                 historyVars>>

Deliver ==
  /\ OwnStream
  /\ Transfer \/ EndRecovery
  /\ UNCHANGED <<sessionVars, triggerVars, worldVars, pc, streamRead,
                 historyVars>>

(* The calls between the write of line 167 and the end of the start. *)
Arming == {"clearEF", "setEFIndex", "enableEF", "start"}

(* The history of what others do to the registers while the program arms.  *)
Touch ==
  touched' =
    IF pc \in Arming
    THEN touched \cup (IF triggerIndex' # triggerIndex THEN {"trigger"} ELSE {})
                 \cup (IF featureVars' # featureVars THEN {"feature"} ELSE {})
    ELSE touched

(* What others can do once the program has found its device (what they did *)
(* before is the choice of Init).                                          *)
OthersMayAct ==
  /\ Running
  /\ pc \notin {"open", "info"}
  /\ UNCHANGED <<clock, lost, recovering, sent, taken, sessionVars, waiting,
                 triggered, pc, streamRead, stoppedForeign>>

(* The device resets: no stream, and its registers have their defaults. *)
Reset ==
  /\ OthersMayAct
  /\ streaming' = FALSE /\ foreign' = FALSE
  /\ triggerIndex' = "none" /\ efEnabled' = FALSE /\ efIndex' = "other"
  /\ Touch

(* Another program ends the stream that runs, or starts its own. *)
OthersStream ==
  /\ OthersMayAct
  /\ streaming' = ~streaming
  /\ foreign' = streaming'
  /\ UNCHANGED <<triggerVars, touched>>

(* Another program writes the registers of the trigger, a stream or not. *)
OthersWrite ==
  /\ OthersMayAct
  /\ triggerIndex' \in {"none", "DIO0"}
  /\ efEnabled' \in BOOLEAN
  /\ efIndex' \in {"edge", "other"}
  /\ Touch
  /\ UNCHANGED <<streaming, foreign>>

OthersAct == Reset \/ OthersStream \/ OthersWrite

Finished ==
  /\ ~Running
  /\ UNCHANGED vars

Next == Program \/ Edge \/ Scan \/ Deliver \/ OthersAct \/ Finished

(***************************************************************************)
(* The program runs, the device scans and delivers, and an edge comes if   *)
(* a waiting device listens for one.  Nothing is assumed of the others.    *)
(***************************************************************************)
Fairness ==
  /\ WF_vars(Program)
  /\ WF_vars(Edge)
  /\ WF_vars(Scan)
  /\ WF_vars(Deliver)

Spec == Init /\ [][Next]_vars
FairSpec == Spec /\ Fairness

-----------------------------------------------------------------------------
PCs == {"open", "info", "disable", "configure", "setTrigger", "clearEF",
        "setEFIndex", "enableEF", "start", "read", "enabled", "stop", "close",
        "exit"}

(* Every variable has its type; streamRead never passes the loop's bound    *)
(* (line 182).                                                             *)
TypeOK ==
  /\ SessionTypeOK
  /\ DeviceTypeOK
  /\ pc \in PCs
  /\ streamRead \in 0..NumReads
  /\ triggerIndex \in {"none", "DIO0"}
  /\ efEnabled \in BOOLEAN
  /\ efIndex \in {"edge", "other"}
  /\ waiting \in BOOLEAN
  /\ triggered \in BOOLEAN
  /\ foreign \in BOOLEAN
  /\ stoppedForeign \in BOOLEAN
  /\ touched \in SUBSET {"trigger", "feature"}

(* No scan is clocked before an edge that came after LJM_eStreamStart,      *)
(* whatever trigger settings an earlier program left and whichever of the  *)
(* writes of lines 167-176 only half succeeded.  The program writes        *)
(* STREAM_TRIGGER_INDEX once (line 167) and never looks at it again: a     *)
(* reset, or another program, that changes it before line 178 has started  *)
(* the stream is the one exception; what others do to it later is none.    *)
NoScanBeforeEdge == clock > 0 => triggered \/ "trigger" \in touched

(* "Clear any previous DIO0_EF settings" (line 169): the program never      *)
(* gives DIO0's feature another function while it is enabled, unless       *)
(* others enabled it again after line 170.                                 *)
EFConfiguredWhileDisabled ==
  [][Program => (efIndex' # efIndex => ~efEnabled \/ "feature" \in touched)]_vars

(* A return from main means that every read was done, after an edge (with  *)
(* the exception of NoScanBeforeEdge), although the loop may be left by    *)
(* its break (line 207): then LJM_eStreamStop fails and ends the program   *)
(* in error, unless another program's stream was there to be stopped.      *)
NormalExitComplete ==
  exit = "ok" =>
    /\ handle = "closed"
    /\ streaming => foreign
    /\ \/ stoppedForeign
       \/ /\ streamRead = NumReads /\ taken = NumReads * ScansPerRead
          /\ triggered \/ "trigger" \in touched

(* The poll loop cannot be left waiting for a stream that has ended: the    *)
(* program ends, unless other programs' streams keep STREAM_ENABLE set, or *)
(* its own stream waits for an edge on a DIO0 that others have disabled.   *)
Termination ==
  <>(~Running) \/ []<>foreign \/ []<>(OwnStream /\ waiting /\ ~Listening)

==============================================================================
