-------------------------- MODULE AperiodicStreamOut --------------------------
(***************************************************************************)
(* advanced_aperiodic_stream_out.cpp: two stream-outs play a sequence of   *)
(* states, each once, in step.  Every cycle polls the buffer status of     *)
(* each out until there is room for a state, writes the next state in      *)
(* chunks of what a packet holds, hands it over with SET_LOOP, and reads   *)
(* as many scans as a state is long.                                       *)
(*                                                                         *)
(* A state is the number of the update that wrote it: 1 by the             *)
(* constructor, 2, 3, ... by the cycles.                                   *)
(***************************************************************************)
EXTENDS Utilities

CONSTANTS
  StateSize,       \* values of a state: half of the stream-out buffer
  MaxSamples,      \* values one write can carry
  NumCycles,       \* NUM_CYCLES
  PollLimit,       \* status reads before CheckUpdateBuffer gives up
  StatusReserve,   \* what BUFFER_STATUS reports less than the free values
  NumOuts,         \* NUM_STREAM_OUTS
  MaxBacklog       \* bound: scans waiting to be read, further ones not told apart

ASSUME AperiodicAssumption ==
  /\ {MaxSamples, NumCycles, PollLimit, NumOuts} \subseteq Nat \ {0}
  /\ StateSize \in Nat /\ StateSize > 1   \* BUFFER_NUM_BYTES / 8
  /\ StatusReserve \in {0, 1}
  /\ MaxBacklog \in Nat /\ MaxBacklog >= StateSize

Outs == 1..NumOuts

(* streamInfo[].setLoop: all wait for a synch, which the last one gives. *)
SetLoops == [o \in Outs |-> IF o = NumOuts THEN 3 ELSE 2]

VARIABLES
  streaming,
  playing,    \* per out: the state being output, 0 before the first
  pos,        \* per out: how many of its values have been output
  written,    \* per out: values of the next state written so far
  next,       \* per out: the state handed over and not yet taken up, or 0
  synched,    \* per out: next may be taken up at the end of the pass
  backlog     \* scans a read would find

outVars == <<playing, pos, written, next, synched>>
deviceVars == <<streaming, backlog, outVars>>

VARIABLES
  out,        \* the out the loops of main are at
  cycle,      \* the cycles completed
  state,      \* per out: the number of the next state to write
  status,     \* bufferStatus in CheckUpdateBuffer
  polls,      \* infinityPreventer
  err,        \* the outcome PrepareForExit was called for, and
  resume      \* where control goes if the ErrorCheck after it lets it

programVars == <<pc, out, cycle, state, status, polls, err, resume>>
vars == <<sessionVars, deviceVars, programVars>>

Zero == [o \in Outs |-> 0]

Init ==
  /\ SessionInit
  /\ streaming = FALSE
  /\ backlog = 0
  /\ playing = Zero /\ pos = Zero /\ written = Zero /\ next = Zero
  /\ synched = [o \in Outs |-> FALSE]
  /\ pc = "open"
  /\ out = 1
  /\ cycle = 0
  /\ state = [o \in Outs |-> 1]
  /\ status = 0 /\ polls = 0
  /\ err = "ok" /\ resume = "none"

-----------------------------------------------------------------------------
(* The device. *)

(* A state is played through before the next is taken up; without one that *)
(* may be taken up it is played again.                                     *)
TakesUp(o) == pos[o] + 1 = StateSize /\ next[o] # 0 /\ synched[o]

(* One tick of the scan clock: every out outputs one value. *)
Tick ==
  /\ streaming
  /\ backlog' = IF backlog < MaxBacklog THEN backlog + 1 ELSE backlog
  /\ playing' = [o \in Outs |-> IF TakesUp(o) THEN next[o] ELSE playing[o]]
  /\ next' = [o \in Outs |-> IF TakesUp(o) THEN 0 ELSE next[o]]
  /\ pos' = [o \in Outs |-> (pos[o] + 1) % StateSize]
  /\ UNCHANGED <<streaming, written, synched>>

(* The values of out o's buffer that are not waiting to be output. *)
FreeValues(o) == IF next[o] = 0 THEN StateSize ELSE pos[o]

(* STREAM_OUT#_BUFFER_STATUS *)
BufferStatus(o) == IF FreeValues(o) = 0 THEN 0 ELSE FreeValues(o) - StatusReserve

(* STREAM_OUT#_SET_LOOP: 2 waits for another out's 3. *)
LoopHandedOver(o, setLoop) ==
  /\ next' = [next EXCEPT ![o] = state[o]]
  /\ synched' = [p \in Outs |-> IF setLoop = 3 THEN next'[p] # 0
                                ELSE p # o /\ synched[p]]

(* LJM_eStreamStart: the outs begin with what was handed over. *)
StreamStarted ==
  /\ streaming' = TRUE
  /\ backlog' = 0
  /\ playing' = next
  /\ next' = Zero
  /\ pos' = Zero
  /\ UNCHANGED <<written, synched>>

-----------------------------------------------------------------------------
(* The program.  Calls on a closed handle fail. *)
Answer(e) == handle = "open" \/ e = "error"

(* The loops over the outs. *)
NextOut(again, over) ==
  /\ out' = (out % NumOuts) + 1
  /\ pc' = IF out < NumOuts THEN again ELSE over

(* PrepareForExit(handle), then: ErrorCheck(e) and on to "to". *)
PrepareForExit(e, to) ==
  /\ pc' = "prepare"
  /\ err' = e
  /\ resume' = to

(* LJM_Open, ErrorCheck *)
Open(e) ==
  /\ pc = "open"
  /\ OpenOrDie(e, "setup")
  /\ UNCHANGED <<deviceVars, out, cycle, state, status, polls, err, resume>>

(* The constructor of StreamOut up to InitializeStreamOut. *)
Setup(e) ==
  /\ pc = "setup"
  /\ ErrorCheck(e, "write")
  /\ UNCHANGED <<deviceVars, out, cycle, state, status, polls, err, resume>>

Chunk == IF StateSize - written[out] > MaxSamples
         THEN MaxSamples ELSE StateSize - written[out]

LastChunk == written[out] + Chunk >= StateSize

(* The parameter isStreamRunning: only the constructors pass false. *)
IsStreamRunning == state[out] > 1

(* UpdateStreamOutBuffer: a chunk that is not the last.  Once the stream   *)
(* runs a warning or an error goes through PrepareForExit first.           *)
WriteChunk(e) ==
  /\ pc = "write" /\ ~LastChunk
  /\ Answer(e)
  /\ written' = IF e = "error" THEN written
                ELSE [written EXCEPT ![out] = @ + Chunk]
  /\ IF e # "ok" /\ IsStreamRunning
     THEN PrepareForExit(e, "write") /\ UNCHANGED sessionVars
     ELSE ErrorCheck(e, "write") /\ UNCHANGED <<err, resume>>
  /\ UNCHANGED <<streaming, backlog, playing, pos, next, synched>>
  /\ UNCHANGED <<out, cycle, state, status, polls>>

WriteLastChunkAllSynch(e) ==
  /\ pc = "write" /\ LastChunk
  /\ Answer(e)
  /\ IF ErrorCheckDies(e)
     THEN /\ CheckedExit
          /\ pc' = "exit"
          /\ UNCHANGED <<out, state, written, next, synched>>
     ELSE /\ LoopHandedOver(out, 3)
          /\ written' = [written EXCEPT ![out] = 0]
          /\ state' = [state EXCEPT ![out] = @ + 1]
          /\ IF IsStreamRunning
             THEN NextOut("check", "read") ELSE NextOut("setup", "start")
          /\ UNCHANGED sessionVars
  /\ UNCHANGED <<streaming, backlog, playing, pos, cycle, status, polls, err,
                 resume>>

(* The last chunk and SET_LOOP in one LJM_eNames; only ErrorCheck after it. *)
WriteLastChunk(e) ==
  /\ pc = "write" /\ LastChunk
  /\ Answer(e)
  /\ IF ErrorCheckDies(e)
     THEN /\ CheckedExit
          /\ pc' = "exit"
          /\ UNCHANGED <<out, state, written, next, synched>>
     ELSE /\ LoopHandedOver(out, SetLoops[out])
          /\ written' = [written EXCEPT ![out] = 0]
          /\ state' = [state EXCEPT ![out] = @ + 1]
          /\ IF IsStreamRunning
             THEN NextOut("check", "read") ELSE NextOut("setup", "start")
          /\ UNCHANGED sessionVars
  /\ UNCHANGED <<streaming, backlog, playing, pos, cycle, status, polls, err,
                 resume>>

(* LJM_eStreamStart, ErrorCheck *)
Start(e) ==
  /\ pc = "start"
  /\ IF e = "error" THEN UNCHANGED deviceVars ELSE StreamStarted
  /\ ErrorCheck(e, "check")
  /\ UNCHANGED <<out, cycle, state, status, polls, err, resume>>

(* CheckUpdateBuffer is entered. *)
EnterCheck ==
  /\ pc = "check"
  /\ pc' = "poll"
  /\ status' = 0
  /\ polls' = 0
  /\ UNCHANGED <<sessionVars, deviceVars, out, cycle, state, err, resume>>

PollNoLimit(e) ==
  /\ pc = "poll"
  /\ status < StateSize - 1
  /\ Answer(e)
  /\ status' = IF e = "error" THEN status ELSE BufferStatus(out)
  /\ UNCHANGED <<sessionVars, deviceVars, pc, out, cycle, state, polls, err, resume>>

(* One round of its loop.  The result of LJM_eReadName is not looked at,   *)
(* and the limit is tested even when the status has become sufficient.     *)
Poll(e) ==
  /\ pc = "poll"
  /\ status < StateSize - 1
  /\ Answer(e)
  /\ status' = IF e = "error" THEN status ELSE BufferStatus(out)
  /\ polls' = polls + 1
  /\ IF polls + 1 > PollLimit
     THEN PrepareForExit("error", "giveup")
     ELSE UNCHANGED <<pc, err, resume>>
  /\ UNCHANGED <<sessionVars, deviceVars, out, cycle, state>>

LeaveCheckEarly ==
  /\ pc = "poll"
  /\ status >= StateSize - 2
  /\ pc' = "write"
  /\ UNCHANGED <<sessionVars, deviceVars, out, cycle, state, status, polls,
                 err, resume>>

(* The loop ends; on to UpdateStreamOutBuffer. *)
LeaveCheck ==
  /\ pc = "poll"
  /\ status >= StateSize - 1
  /\ pc' = "write"
  /\ UNCHANGED <<sessionVars, deviceVars, out, cycle, state, status, polls,
                 err, resume>>

(* LJM_eStreamRead of stateSize scans; anything but LJME_NOERROR closes    *)
(* stream and handle before ErrorCheck decides.                            *)
Read(e) ==
  /\ pc = "read"
  /\ Answer(e)
  /\ e # "error" => backlog >= StateSize
  /\ backlog' = IF e = "error" THEN backlog ELSE backlog - StateSize
  /\ IF e # "ok"
     THEN PrepareForExit(e, "next")
     ELSE pc' = "next" /\ UNCHANGED <<err, resume>>
  /\ UNCHANGED <<sessionVars, streaming, outVars, out, cycle, state, status,
                 polls>>

(* ProcessStreamResults; the loop over the cycles. *)
NextCycle ==
  /\ pc = "next"
  /\ cycle' = cycle + 1
  /\ IF cycle + 1 < NumCycles
     THEN pc' = "check" /\ UNCHANGED <<err, resume>>
     ELSE PrepareForExit("ok", "return")
  /\ UNCHANGED <<sessionVars, deviceVars, out, state, status, polls>>

(* PrepareForExit: LJM_eStreamStop, ErrorCheck. *)
PrepareStop(e) ==
  /\ pc = "prepare"
  /\ Answer(e)
  /\ e # "error" => streaming
  /\ streaming' = (streaming /\ e = "error")
  /\ ErrorCheck(e, "close")
  /\ UNCHANGED <<backlog, outVars, out, cycle, state, status, polls, err, resume>>

(* LJM_Close, ErrorCheck; back to where PrepareForExit was called from.     *)
PrepareClose(e) ==
  /\ pc = "close"
  /\ Answer(e)
  /\ IF ErrorCheckDies(e) \/ ErrorCheckDies(err)
     THEN CheckedExit /\ pc' = "exit"
     ELSE IF resume = "return"
          THEN NormalExit /\ pc' = "exit"
          ELSE handle' = "closed" /\ pc' = resume /\ UNCHANGED exit
  /\ UNCHANGED <<deviceVars, out, cycle, state, status, polls, err, resume>>

Program ==
  \/ \E e \in Outcome :
       \/ Open(e) \/ Setup(e) \/ WriteChunk(e) \/ WriteLastChunk(e) \/ Start(e)
       \/ Poll(e) \/ Read(e) \/ PrepareStop(e) \/ PrepareClose(e)
  \/ EnterCheck \/ LeaveCheck \/ NextCycle

Device == Tick /\ UNCHANGED <<sessionVars, programVars>>

Finished ==
  /\ ~Running
  /\ UNCHANGED vars

Next == Program \/ Device \/ Finished

Spec == Init /\ [][Next]_vars

(* The scan clock does not stop, and the program keeps running; no read on *)
(* an open handle is forced to fail.                                       *)
FairSpec == /\ Spec
            /\ WF_vars(Device)
            /\ WF_vars((pc = "read" => handle = "closed") /\ Program)
            /\ WF_vars(Read("ok"))

-----------------------------------------------------------------------------
(* SET_LOOP 2 and 3 (lines 152-160) keep the outs in step: at every scan   *)
(* they output the same value of the same state, although their buffers    *)
(* are written one after the other while the clock ticks.                  *)
OutsInStep ==
  streaming => \A o, p \in Outs : playing[o] = playing[p] /\ pos[o] = pos[p]

(* The comment at line 333: with states of half the buffer, no value that  *)
(* is still to be output is overwritten.  The threshold of CheckUpdateBuffer *)
(* (line 406) must leave the writes nothing but the free half.             *)
NoOverwrite ==
  \A o \in Outs : streaming /\ written[o] > 0 => next[o] = 0

(* Return from main (lines 234-237): every cycle wrote a state to every    *)
(* out, and the stream is off.                                             *)
NormalExitComplete ==
  exit = "ok" => ~streaming /\ handle = "closed" /\ cycle = NumCycles
                 /\ \A o \in Outs : state[o] = NumCycles + 2

NothingLost == NoOverwrite /\ NormalExitComplete

(* The process ends: polling is limited (line 409), reads are filled.      *)
Termination == <>(exit # "none")

=============================================================================
