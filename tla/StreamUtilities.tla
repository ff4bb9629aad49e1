--------------------------- MODULE StreamUtilities ---------------------------
(***************************************************************************)
(* What every streaming example is built on: the device's stream, and what *)
(* the examples do with it (LJM_StreamUtilities.h).                        *)
(*                                                                         *)
(* The device's stream and the LJM library's stream buffer, as the example *)
(* programs see them (external code).  A scan is a position on the scan    *)
(* clock, 1, 2, 3, ... since LJM_eStreamStart.  Every position travels,    *)
(* in order, from the device to the library to the program; a position     *)
(* that was lost travels as a placeholder whose samples are all            *)
(* LJM_DUMMY_VALUE.                                                        *)
(*                                                                         *)
(*   sent - taken   is the LJMScanBacklog LJM_eStreamRead returns          *)
(*   clock - sent   is its deviceScanBacklog                               *)
(***************************************************************************)
EXTENDS Utilities

CONSTANTS
  ScansPerRead,        \* scans one LJM_eStreamRead returns
  DeviceBufferScans,   \* scans the device holds before it overflows
  MaxScans,            \* bound: the scan clock stops here
  NumChannels          \* stream-in channels of one scan

ASSUME StreamDeviceAssumption ==
  /\ ScansPerRead \in Nat \ {0}
  /\ DeviceBufferScans \in Nat \ {0}
  /\ MaxScans \in Nat

ASSUME NumChannelsAssumption == NumChannels \in Nat \ {0}

VARIABLES
  streaming,    \* the register STREAM_ENABLE
  clock,        \* scans clocked since the stream started
  lost,         \* positions clocked while the device buffer had no room
  recovering,   \* the device is in auto-recovery
  sent,         \* positions handed over to the library
  taken         \* positions returned by LJM_eStreamRead

deviceVars == <<streaming, clock, lost, recovering, sent, taken>>

DeviceTypeOK ==
  /\ streaming \in BOOLEAN
  /\ clock \in 0..MaxScans
  /\ lost \in SUBSET (1..MaxScans)
  /\ recovering \in BOOLEAN
  /\ sent \in 0..MaxScans
  /\ taken \in 0..MaxScans

(* Another program may have left the stream running. *)
DeviceInit ==
  /\ streaming \in BOOLEAN
  /\ clock = 0
  /\ lost = {}
  /\ recovering = FALSE
  /\ sent = 0
  /\ taken = 0

(* Real scans still in the device. *)
Held == ((sent + 1)..clock) \ lost

(* One tick of the scan clock.  A full buffer starts auto-recovery; while  *)
(* it lasts every scan is counted as skipped.                              *)
ClockScan ==
  /\ streaming
  /\ clock < MaxScans
  /\ clock' = clock + 1
  /\ IF recovering \/ Cardinality(Held) >= DeviceBufferScans
     THEN /\ lost' = lost \cup {clock + 1}
          /\ recovering' = TRUE
     ELSE UNCHANGED <<lost, recovering>>
  /\ UNCHANGED <<streaming, sent, taken>>

(* Auto-recovery ends once the buffered scans are gone; only then are the  *)
(* skipped scans reported.                                                 *)
EndRecovery ==
  /\ streaming
  /\ recovering
  /\ Held = {}
  /\ recovering' = FALSE
  /\ UNCHANGED <<streaming, clock, lost, sent, taken>>

(* The library's receive thread takes the next position. *)
Transfer ==
  /\ streaming
  /\ sent < clock
  /\ ~(recovering /\ Held = {})
  /\ sent' = sent + 1
  /\ UNCHANGED <<streaming, clock, lost, recovering, taken>>

(* LJM_eStreamStart on an idle device: a fresh scan clock. *)
StreamStarted ==
  /\ ~streaming
  /\ streaming' = TRUE
  /\ clock' = 0
  /\ lost' = {}
  /\ recovering' = FALSE
  /\ sent' = 0
  /\ taken' = 0

(* LJM_eStreamStop on a running stream. *)
StreamStopped ==
  /\ streaming
  /\ streaming' = FALSE
  /\ UNCHANGED <<clock, lost, recovering, sent, taken>>

(* LJM_eStreamRead has a full read for the caller. *)
ReadReady == streaming /\ sent - taken >= ScansPerRead

StreamReadDone ==
  /\ ReadReady
  /\ taken' = taken + ScansPerRead
  /\ UNCHANGED <<streaming, clock, lost, recovering, sent>>

-----------------------------------------------------------------------------
(* LJM_StreamUtilities.h: what the examples do with one read, and how they  *)
(* clear a stream another program left running.                            *)

(* The scan positions the next LJM_eStreamRead returns. *)
Window == (taken + 1)..(taken + ScansPerRead)

(* What LJM_eStreamRead leaves in aData: of all its samples only those that *)
(* equal LJM_DUMMY_VALUE matter, one per channel of every lost scan.        *)
ReadData == (Window \cap lost) \X (1..NumChannels)

(* CountAndOutputNumSkippedScans counts samples and returns scans. *)
CountSkippedScans(data) == Cardinality(data) \div NumChannels

(***************************************************************************)
(* DisableStreamIfEnabled(handle).  The result is "clear" when the stream  *)
(* is off afterwards, "left" when LJM_eStreamStop failed and the error was *)
(* only printed, and "die" when an ErrorCheck ended the process.  A T7     *)
(* with firmware below 1.0025 cannot read STREAM_ENABLE: the stop is sent  *)
(* blindly and STREAM_NOT_RUNNING is its one harmless error.               *)
(***************************************************************************)
DisableStreamIfEnabled(oldFirmware, result) ==
  \/ /\ result = "die"                    \* a read, or the blind stop, failed
     /\ UNCHANGED deviceVars
  \/ /\ result = "clear"
     /\ ~streaming                        \* enabled = 0, or STREAM_NOT_RUNNING
     /\ UNCHANGED deviceVars
  \/ /\ result = "clear"
     /\ StreamStopped
  \/ /\ result = "left"                   \* PrintErrorIfError
     /\ ~oldFirmware
     /\ streaming
     /\ UNCHANGED deviceVars

==============================================================================
