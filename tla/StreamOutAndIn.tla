---------------------------- MODULE StreamOutAndIn ----------------------------
(***************************************************************************)
(* stream_basic_with_stream_out.c: stream in, and after every read write   *)
(* new values to the stream-out loops, three register writes for each.     *)
(* Beside it stream_out_update.c, which its description allows to run      *)
(* concurrently, rewrites the loop of STREAM_OUT0 with three writes of its *)
(* own.  An output value is abstracted to the update that wrote it: the    *)
(* iteration whose scalar it carries, or Other.                            *)
(***************************************************************************)
EXTENDS StreamUtilities, Sequences

CONSTANTS
  NumReads,     \* the parameter numReads
  LoopSizes     \* targetLoopSize of every output, in the order of the outputs

StreamOutAssumption ==
  /\ NumReads \in 1..10
  /\ LoopSizes \in Seq(Nat \ {0}) /\ LoopSizes # <<>>

Outs == DOMAIN LoopSizes
NumOuts == Len(LoopSizes)

(* The longest stretch of a stream-out buffer a loop can be made of. *)
BufferLength == CHOOSE n \in {LoopSizes[o] : o \in Outs} :
                  \A o \in Outs : LoopSizes[o] <= n

(* 1.23, the value stream_out_update writes. *)
Other == -1

VARIABLES
  buffer,     \* per output: the values last written to STREAM_OUT#_BUFFER
  loopSize,   \* per output: STREAM_OUT#_LOOP_NUM_VALUES
  loop        \* per output: the values being output over and over

outVars == <<buffer, loopSize, loop>>

VARIABLES
  out,                 \* the output it is setting up or updating
  started,             \* the stream was started: updates, no longer setup
  aData,               \* the dummy samples of the last read
  iteration,
  totalSkippedScans

programVars == <<pc, out, started, aData, iteration, totalSkippedScans>>

VARIABLES
  updatePc,   \* the next write of stream_out_update
  alone       \* history, per output: only the program itself has written to
              \* its registers since the program began to write the buffer

updaterVars == <<updatePc, alone>>
vars == <<sessionVars, deviceVars, outVars, programVars, updaterVars>>

Init ==
  /\ SessionInit
  /\ DeviceInit
  /\ buffer = [o \in Outs |-> <<>>]
  /\ loopSize = [o \in Outs |-> 0]
  /\ loop = [o \in Outs |-> <<>>]
  /\ pc = "open"
  /\ out = 1
  /\ started = FALSE
  /\ aData = {}
  /\ iteration = 0
  /\ totalSkippedScans = 0
  /\ updatePc = "size"
  /\ alone = [o \in Outs |-> FALSE]

-----------------------------------------------------------------------------
(* The stream-out registers of the device. *)

LastValues(s, n) == IF Len(s) <= n THEN s ELSE SubSeq(s, Len(s) - n + 1, Len(s))

BufferWritten(o, values) ==
  /\ buffer' = [buffer EXCEPT ![o] = LastValues(@ \o values, BufferLength)]
  /\ UNCHANGED <<loopSize, loop>>

LoopSizeWritten(o, n) ==
  /\ loopSize' = [loopSize EXCEPT ![o] = n]
  /\ UNCHANGED <<buffer, loop>>

(* SET_LOOP = 1: the last loopSize values written become the loop. *)
LoopSet(o) ==
  /\ loop' = [loop EXCEPT ![o] = LastValues(buffer[o], loopSize[o])]
  /\ UNCHANGED <<buffer, loopSize>>

-----------------------------------------------------------------------------
(* OpenOrDie *)
Open(e) ==
  /\ pc = "open"
  /\ OpenOrDie(e, "info")
  /\ UNCHANGED <<deviceVars, outVars, out, started, aData, iteration,
                 totalSkippedScans, updaterVars>>

(* The calls whose failure is fatal and that change nothing modelled:       *)
(* PrintDeviceInfoFromHandle; GetAddressFromNameOrDie for the target;      *)
(* InitializeAllocatedScanList.                                            *)
Lookup(e) ==
  /\ \/ pc = "info" /\ ErrorCheck(e, "target")
     \/ pc = "target" /\ ErrorCheck(e, "enable")
     \/ pc = "names" /\ ErrorCheck(e, "configure")
  /\ UNCHANGED <<deviceVars, outVars, out, started, aData, iteration,
                 totalSkippedScans, updaterVars>>

(* Runs of WriteNameOrDie on registers that are not modelled: the target,  *)
(* size and enable registers of an output; HardcodedConfigureStream.       *)
Configure(e) ==
  /\ \/ pc = "enable" /\ WriteNameOrDie(e, "buffer")
     \/ pc = "configure" /\ WriteNameOrDie(e, "start")
  /\ UNCHANGED <<deviceVars, outVars, out, started, aData, iteration,
                 totalSkippedScans, updaterVars>>

(* The update of output out carries the scalar of this iteration. *)
NewValues == [i \in 1..LoopSizes[out] |-> iteration]

(* UpdateStreamOutChannel, first write: the values. *)
WriteBuffer(e) ==
  /\ pc = "buffer"
  /\ IF e = "error" THEN UNCHANGED outVars ELSE BufferWritten(out, NewValues)
  /\ ErrorCheck(e, "size")
  /\ alone' = [alone EXCEPT ![out] = TRUE]
  /\ UNCHANGED <<deviceVars, out, started, aData, iteration, totalSkippedScans,
                 updatePc>>

WriteLoopSizeOnce(e) ==
  /\ pc = "size"
  /\ IF e = "error" \/ started
     THEN UNCHANGED outVars ELSE LoopSizeWritten(out, LoopSizes[out])
  /\ WriteNameOrDie(e, "set")
  /\ UNCHANGED <<deviceVars, out, started, aData, iteration, totalSkippedScans,
                 updaterVars>>

(* Second write: how many of them. *)
WriteLoopSize(e) ==
  /\ pc = "size"
  /\ IF e = "error" THEN UNCHANGED outVars ELSE LoopSizeWritten(out, LoopSizes[out])
  /\ WriteNameOrDie(e, "set")
  /\ UNCHANGED <<deviceVars, out, started, aData, iteration, totalSkippedScans,
                 updaterVars>>

(* Third write: output them; then the next output, or on with the caller. *)
SetLoop(e) ==
  /\ pc = "set"
  /\ IF e = "error" THEN UNCHANGED outVars ELSE LoopSet(out)
  /\ WriteNameOrDie(e, IF out < NumOuts
                   THEN IF started THEN "buffer" ELSE "target"
                   ELSE IF started THEN "count" ELSE "names")
  /\ out' = IF out < NumOuts THEN out + 1 ELSE 1
  /\ UNCHANGED <<deviceVars, started, aData, iteration, totalSkippedScans,
                 updaterVars>>

(* LJM_eStreamStart; an active stream makes it fail. *)
Start(e) ==
  /\ pc = "start"
  /\ IF e = "error" THEN UNCHANGED deviceVars ELSE StreamStarted
  /\ started' = (e # "error")
  /\ ErrorCheck(e, "read")
  /\ UNCHANGED <<outVars, out, aData, iteration, totalSkippedScans, updaterVars>>

(* LJM_eStreamRead *)
Read(e) ==
  /\ pc = "read"
  /\ IF e = "error"
     THEN UNCHANGED <<deviceVars, aData>>
     ELSE StreamReadDone /\ aData' = ReadData
  /\ ErrorCheck(e, "buffer")
  /\ UNCHANGED <<outVars, out, started, iteration, totalSkippedScans, updaterVars>>

(* The dummy samples of the read join the total; the loop's test. *)
Count ==
  /\ pc = "count"
  /\ totalSkippedScans' = totalSkippedScans + Cardinality(aData)
  /\ iteration' = iteration + 1
  /\ pc' = IF iteration + 1 < NumReads THEN "read" ELSE "stop"
  /\ UNCHANGED <<sessionVars, deviceVars, outVars, out, started, aData, updaterVars>>

(* LJM_eStreamStop *)
Stop(e) ==
  /\ pc = "stop"
  /\ IF e = "error" THEN UNCHANGED deviceVars ELSE StreamStopped
  /\ ErrorCheck(e, "close")
  /\ UNCHANGED <<outVars, out, started, aData, iteration, totalSkippedScans,
                 updaterVars>>

(* CloseOrDie, and the end of main. *)
Close(e) ==
  /\ pc = "close"
  /\ CloseOrDie(e)
  /\ UNCHANGED <<deviceVars, outVars, out, started, aData, iteration,
                 totalSkippedScans, updaterVars>>

Program ==
  \/ \E e \in Outcome :
       \/ Open(e) \/ Lookup(e) \/ Configure(e)
       \/ WriteBuffer(e) \/ WriteLoopSize(e) \/ SetLoop(e)
       \/ Start(e) \/ Read(e) \/ Stop(e) \/ Close(e)
  \/ Count

-----------------------------------------------------------------------------
(* UpdateStreamOut of stream_out_update.c: LOOP_SIZE = 1, BUFFER = 1.23,   *)
(* SET_LOOP = 1; each WriteNameOrDie may be the process's last.            *)
UpdateStep(from, to, e) ==
  /\ updatePc = from
  /\ updatePc' = IF WriteNameOrDieDies(e) THEN "exit" ELSE to
  /\ alone' = [alone EXCEPT ![1] = FALSE]
  /\ UNCHANGED <<sessionVars, deviceVars, programVars>>

UpdateStreamOut(e) ==
  \/ /\ UpdateStep("size", "buffer", e)
     /\ IF e = "error" THEN UNCHANGED outVars ELSE LoopSizeWritten(1, 1)
  \/ /\ UpdateStep("buffer", "set", e)
     /\ IF e = "error" THEN UNCHANGED outVars ELSE BufferWritten(1, <<Other>>)
  \/ /\ UpdateStep("set", "exit", e)
     /\ IF e = "error" THEN UNCHANGED outVars ELSE LoopSet(1)

LibraryReceives == started /\ Running /\ Transfer

Device ==
  /\ ClockScan \/ EndRecovery \/ LibraryReceives
  /\ UNCHANGED <<sessionVars, outVars, programVars, updaterVars>>

Finished ==
  /\ ~Running
  /\ UNCHANGED vars

Next == Program \/ (\E e \in Outcome : UpdateStreamOut(e)) \/ Device \/ Finished

Spec == Init /\ [][Next]_vars

-----------------------------------------------------------------------------
(* The update of output o is complete for this iteration. *)
Updated(o) ==
  /\ started /\ Running
  /\ pc = "count" \/ (pc \in {"buffer", "size", "set"} /\ o < out)

(* After UpdateStreamOutChannel (lines 374-418) an output plays all of the  *)
(* new values and nothing else, whatever it played before, if no other     *)
(* program wrote to its registers in the meantime: also after a torn or    *)
(* abandoned update by stream_out_update.                                  *)
UpdateReplacesLoop ==
  \A o \in Outs : Updated(o) /\ alone[o] =>
    loop[o] = [i \in 1..LoopSizes[o] |-> iteration]

(* The outputs are updated one after the other (lines 364-372): while the  *)
(* stream runs no output plays a scalar more than one iteration older than *)
(* another's.                                                              *)
OutputsAtMostOneApart ==
  \A o, p \in Outs : \A i \in DOMAIN loop[o], j \in DOMAIN loop[p] :
    (started /\ loop[o][i] # Other /\ loop[p][j] # Other)
      => loop[o][i] <= loop[p][j] + 1

(* What lines 283-296 add up is exact, as a number of samples.             *)
SkippedSamplesExact ==
  totalSkippedScans =
    NumChannels * Cardinality(lost \cap (1..(iteration * ScansPerRead)))

===============================================================================
