----------------------- MODULE AperiodicStreamOutProofs -----------------------
(***************************************************************************)
(* Proofs about AperiodicStreamOut, for any number of outs, size of the    *)
(* states, values per write, number of cycles and limit of the polling.    *)
(***************************************************************************)
EXTENDS AperiodicStreamOut, TLAPS

(* The types of the constants. *)
LEMMA ConstantTypes ==
  /\ MaxSamples \in Nat \ {0} /\ NumCycles \in Nat \ {0}
  /\ PollLimit \in Nat \ {0} /\ NumOuts \in Nat \ {0}
  /\ StateSize \in Nat /\ StateSize > 1
  /\ StatusReserve \in {0, 1}
  /\ MaxBacklog \in Nat /\ MaxBacklog >= StateSize
  BY AperiodicAssumption DEF AperiodicAssumption

USE ConstantTypes DEF Outs

(* The remainders the program and the device compute: of a successor in a  *)
(* ring.                                                                   *)
LEMMA RingStep ==
  ASSUME NEW n \in Nat \ {0}, NEW i \in 0..n
  PROVE  i % n = IF i = n THEN 0 ELSE i
  BY SMT

(* Every variable keeps its type. *)
TypeOK ==
  /\ SessionTypeOK
  /\ pc \in {"open", "setup", "write", "start", "check", "poll", "read", "next",
             "prepare", "close", "exit"}
  /\ streaming \in BOOLEAN
  /\ backlog \in Nat
  /\ playing \in [Outs -> Nat]
  /\ pos \in [Outs -> 0..(StateSize - 1)]
  /\ written \in [Outs -> 0..(StateSize - 1)]
  /\ next \in [Outs -> Nat]
  /\ synched \in [Outs -> BOOLEAN]
  /\ out \in Outs
  /\ cycle \in 0..NumCycles
  /\ state \in [Outs -> Nat \ {0}]
  /\ status \in 0..StateSize
  /\ polls \in Nat
  /\ err \in Outcome
  /\ resume \in {"none", "giveup", "write", "next", "return"}

(* Where the program is in its loops; PrepareForExit is taken to be at the *)
(* place it goes back to.                                                  *)
place == IF pc \in {"prepare", "close"} THEN resume ELSE pc

Constructing == place = "write" /\ state[out] = 1
Updating == place = "write" /\ state[out] > 1

(* How many states each out has been given. *)
StatesCounted ==
  /\ place = "open" => out = 1
  /\ place \in {"open", "setup"} \/ Constructing =>
       cycle = 0 /\ \A p \in Outs : state[p] = IF p < out THEN 2 ELSE 1
  /\ place = "start" => out = 1 /\ cycle = 0 /\ \A p \in Outs : state[p] = 2
  /\ place \in {"check", "poll"} \/ Updating =>
       /\ cycle < NumCycles
       /\ \A p \in Outs : state[p] = IF p < out THEN cycle + 3 ELSE cycle + 2
  /\ place \in {"read", "next"} =>
       out = 1 /\ cycle < NumCycles /\ \A p \in Outs : state[p] = cycle + 3
  /\ place = "return" =>
       cycle = NumCycles /\ \A p \in Outs : state[p] = NumCycles + 2

(* What waits in the outs before the stream is started. *)
BeforeStream ==
  /\ place \in {"open", "setup"} \/ Constructing =>
       ~streaming /\ \A p \in Outs : next[p] = IF p < out THEN 1 ELSE 0
  /\ place = "start" => ~streaming /\ \A p \in Outs : next[p] = 1

AllReady == \A o \in Outs : synched[o] /\ next[o] # 0 /\ next[o] = next[1]
NoneReady == \A o \in Outs : synched[o] => next[o] = 0
AllTaken == \A o \in Outs : next[o] = 0

(* Either all outs will take the same state up, or none of them will. *)
TakenUpTogether == streaming => AllReady \/ NoneReady

(* During the stream: which outs of this cycle have been handed a state. *)
HandedOver ==
  streaming =>
    /\ (place \in {"read", "next"} \/ (place \in {"check", "poll"} /\ out = 1))
         => AllReady \/ AllTaken
    /\ (Updating \/ (place \in {"check", "poll"} /\ out > 1)) =>
         \A p \in Outs : IF p < out THEN next[p] = cycle + 2 /\ ~synched[p]
                         ELSE next[p] = 0
    /\ pc = "poll" /\ status >= StateSize - 1 => next[out] = 0

(* A state that is being written is one of the out the program is at. *)
WritingInPlace ==
  \A o \in Outs : written[o] > 0 =>
    pc = "exit" \/ (place = "write" /\ o = out)

(* The stream is off before the handle is closed. *)
ProcessState ==
  /\ exit = "none" <=> pc # "exit"
  /\ pc = "close" => ~streaming
  /\ pc \in {"prepare", "close"} => resume # "none" /\ (resume = "giveup" => err = "error")

(* The inductive invariant.  That no output falls behind another (OutsInStep)  *)
(* is kept by a tick only because either every output has a state ready or     *)
(* none has (TakenUpTogether), which the program keeps up by handing a state   *)
(* to every output, in order, before it waits again (HandedOver,               *)
(* StatesCounted).                                                             *)
IInv ==
  /\ TypeOK
  /\ StatesCounted /\ BeforeStream
  /\ TakenUpTogether /\ HandedOver
  /\ OutsInStep
  /\ WritingInPlace /\ ProcessState
  /\ NoOverwrite /\ NormalExitComplete

-----------------------------------------------------------------------------
(* No state is unread and no chunk is written before the program begins. *)
LEMMA InitIInv == Init => IInv
<1> SUFFICES ASSUME Init PROVE IInv
  OBVIOUS
<1> USE DEF Init, SessionInit, Zero
<1>1. TypeOK
  <2>1. Zero \in [Outs -> 0..(StateSize - 1)] /\ Zero \in [Outs -> Nat]
    OBVIOUS
  <2>2. synched \in [Outs -> BOOLEAN] /\ state \in [Outs -> Nat \ {0}]
    OBVIOUS
  <2>3. out \in Outs /\ cycle \in 0..NumCycles /\ status \in 0..StateSize
    OBVIOUS
  <2>4. SessionTypeOK
    BY DEF SessionTypeOK
  <2> HIDE DEF Zero
  <2>5. QED
    BY <2>1, <2>2, <2>3, <2>4 DEF TypeOK, Outcome
<1>2. StatesCounted /\ BeforeStream
  BY DEF StatesCounted, BeforeStream, place, Constructing, Updating
<1>3. QED
  BY <1>1, <1>2 DEF IInv, TakenUpTogether, HandedOver, OutsInStep, WritingInPlace,
     ProcessState, NoOverwrite, NormalExitComplete

(* A tick of the device takes the next state of every output that has one. *)
LEMMA TickIInv ==
  ASSUME IInv, Device
  PROVE  IInv'
<1> USE DEF IInv, Device, Tick, sessionVars, programVars
<1>1. ASSUME NEW o \in Outs
      PROVE  /\ pos[o] + 1 \in 0..StateSize
             /\ (pos[o] + 1) % StateSize
                  = IF pos[o] + 1 = StateSize THEN 0 ELSE pos[o] + 1
             /\ (pos[o] + 1) % StateSize \in 0..(StateSize - 1)
  <2>1. pos[o] \in 0..(StateSize - 1)
    BY DEF TypeOK
  <2>2. pos[o] + 1 \in 0..StateSize
    BY <2>1
  <2>3. (pos[o] + 1) % StateSize = IF pos[o] + 1 = StateSize THEN 0 ELSE pos[o] + 1
    BY <2>2, RingStep
  <2> HIDE DEF IInv, Device
  <2>4. QED
    BY <2>2, <2>3
<1>2. TypeOK'
  <2>1. pos' \in [Outs -> 0..(StateSize - 1)]
    <3>1. pos' = [o \in Outs |-> (pos[o] + 1) % StateSize]
      OBVIOUS
    <3> HIDE DEF IInv, Device
    <3>2. QED
      BY <3>1, <1>1
  <2>2. playing' \in [Outs -> Nat] /\ next' \in [Outs -> Nat]
    BY DEF TypeOK
  <2>3. backlog' \in Nat
    BY DEF TypeOK
  <2>4. QED
    BY <2>1, <2>2, <2>3 DEF TypeOK, SessionTypeOK
<1>3. place' = place /\ (Constructing' <=> Constructing) /\ (Updating' <=> Updating)
  BY DEF place, Constructing, Updating
<1>4. StatesCounted'
  BY <1>3 DEF StatesCounted
<1>5. BeforeStream'
  BY <1>3 DEF BeforeStream
<1>6. OutsInStep' /\ TakenUpTogether'
  <2>0. /\ \A o, p \in Outs : streaming => playing[o] = playing[p] /\ pos[o] = pos[p]
        /\ pos' = [o \in Outs |-> (pos[o] + 1) % StateSize] /\ synched' = synched
        /\ streaming' = streaming /\ streaming
    BY DEF OutsInStep
  <2>1. CASE AllReady
    <3>0. 1 \in Outs
      OBVIOUS
    <3>1. CASE pos[1] + 1 = StateSize
      <4>1. \A o \in Outs : playing'[o] = next[1] /\ next'[o] = 0
        BY <2>0, <2>1, <3>0, <3>1 DEF AllReady, TakesUp, TypeOK
      <4> HIDE DEF IInv, Device
      <4>2. QED
        BY <4>1, <2>0 DEF OutsInStep, TakenUpTogether, NoneReady
    <3>2. CASE pos[1] + 1 # StateSize
      <4>1. playing' = playing /\ next' = next
        BY <2>0, <2>1, <3>0, <3>2 DEF AllReady, TakesUp, TypeOK
      <4> HIDE DEF IInv, Device
      <4>2. QED
        BY <4>1, <2>0, <2>1 DEF OutsInStep, TakenUpTogether, AllReady
    <3>3. QED
      BY <3>1, <3>2
  <2>2. CASE NoneReady
    <3>1. playing' = playing /\ next' = next
      BY <2>2 DEF NoneReady, TakesUp, TypeOK
    <3> HIDE DEF IInv, Device
    <3>2. QED
      BY <3>1, <2>0, <2>2 DEF OutsInStep, TakenUpTogether, NoneReady
  <2>3. QED
    BY <2>1, <2>2 DEF TakenUpTogether
<1>7. HandedOver'
  BY <1>3 DEF HandedOver, AllReady, AllTaken, OutsInStep, TakesUp, TypeOK
<1>8. WritingInPlace' /\ ProcessState'
  BY <1>3 DEF WritingInPlace, ProcessState
<1>9. NoOverwrite' /\ NormalExitComplete'
  BY DEF NoOverwrite, NormalExitComplete, TypeOK
<1>10. QED
  BY <1>2, <1>4, <1>5, <1>6, <1>7, <1>8, <1>9

(* Open keeps the invariant. *)
LEMMA OpenIInv ==
  ASSUME IInv, NEW e \in Outcome, Open(e)
  PROVE  IInv'
<1> USE DEF IInv, Open, OpenOrDie, CheckedExit, ErrorCheckDies, Answer, Outcome,
        sessionVars, deviceVars, outVars
<1>1. TypeOK'
  BY DEF TypeOK, SessionTypeOK
<1>2. StatesCounted'
  BY DEF StatesCounted, place, Constructing, Updating, TypeOK
<1>3. BeforeStream'
  BY DEF BeforeStream, StatesCounted, place, Constructing, Updating, TypeOK
<1>4. OutsInStep' /\ TakenUpTogether'
  BY DEF OutsInStep, TakenUpTogether, AllReady, NoneReady
<1>5. HandedOver'
  BY DEF HandedOver, AllReady, AllTaken, place, Updating, StatesCounted, TypeOK
<1>6. WritingInPlace' /\ ProcessState'
  BY DEF WritingInPlace, ProcessState, place, TypeOK
<1>7. NoOverwrite' /\ NormalExitComplete'
  BY DEF NoOverwrite, NormalExitComplete, ProcessState, WritingInPlace, HandedOver,
     Updating, StatesCounted, place, TypeOK
<1>8. QED
  BY <1>1, <1>2, <1>3, <1>4, <1>5, <1>6, <1>7

(* Setup keeps the invariant. *)
LEMMA SetupIInv ==
  ASSUME IInv, NEW e \in Outcome, Setup(e)
  PROVE  IInv'
<1> USE DEF IInv, Setup, ErrorCheck, CheckedExit, ErrorCheckDies, Answer, Outcome,
        sessionVars, deviceVars, outVars
<1>0. state[out] = 1 /\ cycle = 0 /\ pc = "setup" /\ ~streaming
  BY DEF StatesCounted, BeforeStream, place, TypeOK
<1>1. TypeOK'
  BY DEF TypeOK, SessionTypeOK
<1>2. StatesCounted'
  <2>1. \A p \in Outs : state[p] = IF p < out THEN 2 ELSE 1
    BY <1>0 DEF StatesCounted, place
  <2>2. state' = state /\ out' = out /\ cycle' = cycle /\ pc' \in {"write", "exit"}
    OBVIOUS
  <2> HIDE DEF IInv
  <2>3. QED
    BY <1>0, <2>1, <2>2 DEF StatesCounted, place, Constructing, Updating
<1>3. BeforeStream'
  BY DEF BeforeStream, StatesCounted, place, Constructing, Updating, TypeOK
<1>4. OutsInStep' /\ TakenUpTogether'
  BY DEF OutsInStep, TakenUpTogether, AllReady, NoneReady
<1>5. HandedOver'
  BY <1>0 DEF HandedOver
<1>6. WritingInPlace' /\ ProcessState'
  BY DEF WritingInPlace, ProcessState, place, TypeOK
<1>7. NoOverwrite' /\ NormalExitComplete'
  BY DEF NoOverwrite, NormalExitComplete, ProcessState, WritingInPlace, HandedOver,
     Updating, StatesCounted, place, TypeOK
<1>8. QED
  BY <1>1, <1>2, <1>3, <1>4, <1>5, <1>6, <1>7

(* WriteChunk keeps the invariant. *)
LEMMA WriteChunkIInv ==
  ASSUME IInv, NEW e \in Outcome, WriteChunk(e)
  PROVE  IInv'
<1> USE DEF IInv, WriteChunk, ErrorCheck, PrepareForExit, CheckedExit, ErrorCheckDies, Answer, Outcome,
        sessionVars, deviceVars, outVars
<1>0. /\ out \in Outs /\ written[out] \in 0..(StateSize - 1)
      /\ Chunk \in Nat /\ written[out] + Chunk \in 0..(StateSize - 1)
      /\ pc = "write"
  <2>1. out \in Outs /\ written[out] \in 0..(StateSize - 1) /\ pc = "write" /\ ~LastChunk
    BY DEF TypeOK
  <2> HIDE DEF IInv
  <2>2. QED
    BY <2>1 DEF LastChunk, Chunk
<1>1. TypeOK'
  <2>1. written' \in [Outs -> 0..(StateSize - 1)]
    BY <1>0 DEF TypeOK
  <2> HIDE DEF Chunk
  <2>2. QED
    BY <2>1 DEF TypeOK, SessionTypeOK
<1>2. StatesCounted'
  BY DEF StatesCounted, place, Constructing, Updating, TypeOK
<1>3. BeforeStream'
  BY DEF BeforeStream, StatesCounted, place, Constructing, Updating, TypeOK
<1>4. OutsInStep' /\ TakenUpTogether'
  BY DEF OutsInStep, TakenUpTogether, AllReady, NoneReady
<1>5. HandedOver'
  BY DEF HandedOver, AllReady, AllTaken, place, Updating, StatesCounted, TypeOK
<1>6. WritingInPlace' /\ ProcessState'
  BY DEF WritingInPlace, ProcessState, place, TypeOK
<1>7. NoOverwrite' /\ NormalExitComplete'
  <2>1. streaming => next[out] = 0
    <3>1. Constructing \/ Updating
      BY <1>0 DEF Constructing, Updating, place, TypeOK
    <3>2. QED
      BY <1>0, <3>1 DEF BeforeStream, HandedOver
  <2>2. \A o \in Outs : o # out => written'[o] = written[o]
    BY <1>0 DEF TypeOK
  <2>3. NoOverwrite'
    BY <2>1, <2>2 DEF NoOverwrite
  <2>4. NormalExitComplete'
    BY DEF NormalExitComplete, ProcessState
  <2>5. QED
    BY <2>3, <2>4
<1>8. QED
  BY <1>1, <1>2, <1>3, <1>4, <1>5, <1>6, <1>7

(* Start keeps the invariant. *)
LEMMA StartIInv ==
  ASSUME IInv, NEW e \in Outcome, Start(e)
  PROVE  IInv'
<1> USE DEF IInv, sessionVars, deviceVars, outVars
<1>0. /\ pc = "start" /\ out = 1 /\ cycle = 0 /\ cycle < NumCycles /\ ~streaming
      /\ \A p \in Outs : state[p] = 2 /\ next[p] = 1
      /\ exit = "none"
  BY DEF Start, StatesCounted, BeforeStream, ProcessState, place
<1>1. /\ UNCHANGED <<out, cycle, state, status, polls, err, resume, written>>
      /\ \/ /\ pc' = "exit" /\ exit' = "error"
            /\ handle' \in {"none", "open", "closed"}
            /\ UNCHANGED <<streaming, backlog, playing, pos, next, synched>>
         \/ /\ pc' = "check" /\ streaming' /\ UNCHANGED <<handle, exit, synched>>
            /\ playing' = next /\ next' = Zero /\ pos' = Zero /\ backlog' = 0
            /\ streaming' = TRUE
  BY DEF Start, StreamStarted, ErrorCheck, ErrorCheckDies, CheckedExit, Outcome, TypeOK,
     SessionTypeOK
<1>2. /\ Zero \in [Outs -> 0..(StateSize - 1)] /\ Zero \in [Outs -> Nat]
      /\ \A p \in Outs : Zero[p] = 0
  BY DEF Zero
<1>3. TypeOK'
  <2>1. TypeOK
    OBVIOUS
  <2> HIDE DEF IInv
  <2>2. playing' \in [Outs -> Nat] /\ next' \in [Outs -> Nat]
        /\ pos' \in [Outs -> 0..(StateSize - 1)]
    BY <2>1, <1>1, <1>2 DEF TypeOK
  <2>3. synched' \in [Outs -> BOOLEAN] /\ streaming' \in BOOLEAN /\ backlog' \in Nat
    <3>1. synched \in [Outs -> BOOLEAN] /\ streaming \in BOOLEAN /\ backlog \in Nat
      BY <2>1 DEF TypeOK
    <3>2. synched' = synched /\ (backlog' = backlog \/ backlog' = 0)
          /\ (streaming' = streaming \/ streaming' = TRUE)
      BY <1>1
    <3>3. synched' \in [Outs -> BOOLEAN] /\ backlog' \in Nat
      BY <3>1, <3>2
    <3>4. streaming' \in BOOLEAN
      BY <3>1, <3>2, Zenon
    <3>5. QED
      BY <3>3, <3>4
  <2>4. SessionTypeOK' /\ pc' \in {"check", "exit"}
    BY <2>1, <1>1 DEF TypeOK, SessionTypeOK
  <2>5. QED
    BY <2>1, <2>2, <2>3, <2>4, <1>1 DEF TypeOK
<1>4. StatesCounted' /\ BeforeStream'
  <2> HIDE DEF IInv
  <2>1. QED
    BY <1>0, <1>1 DEF StatesCounted, BeforeStream, place, Constructing, Updating
<1>5. OutsInStep' /\ TakenUpTogether' /\ HandedOver'
  <2> HIDE DEF IInv
  <2>1. QED
    BY <1>0, <1>1, <1>2 DEF OutsInStep, TakenUpTogether, HandedOver, AllReady, NoneReady,
       AllTaken, place, Updating
<1>6. WritingInPlace' /\ ProcessState'
  BY <1>0, <1>1 DEF WritingInPlace, ProcessState, place, TypeOK
<1>7. NoOverwrite' /\ NormalExitComplete'
  BY <1>0, <1>1, <1>2 DEF NoOverwrite, NormalExitComplete, TypeOK
<1>8. QED
  BY <1>3, <1>4, <1>5, <1>6, <1>7

(* Poll keeps the invariant. *)
LEMMA PollIInv ==
  ASSUME StatusReserve = 1, IInv, NEW e \in Outcome, Poll(e)
  PROVE  IInv'
<1> USE DEF IInv, Poll, PrepareForExit, BufferStatus, FreeValues, CheckedExit, ErrorCheckDies, Answer, Outcome,
        sessionVars, deviceVars, outVars
<1>0. /\ pc = "poll" /\ out \in Outs /\ status \in 0..StateSize
      /\ BufferStatus(out) \in 0..StateSize
      /\ BufferStatus(out) >= StateSize - 1 => next[out] = 0
  <2>1. pc = "poll" /\ out \in Outs /\ status \in 0..StateSize
        /\ pos[out] \in 0..(StateSize - 1)
    BY DEF TypeOK
  <2> HIDE DEF IInv
  <2>2. QED
    BY <2>1
<1> HIDE DEF BufferStatus, FreeValues
<1>1. TypeOK'
  BY <1>0 DEF TypeOK, SessionTypeOK
<1>2. StatesCounted'
  BY DEF StatesCounted, place, Constructing, Updating, TypeOK
<1>3. BeforeStream'
  BY DEF BeforeStream, StatesCounted, place, Constructing, Updating, TypeOK
<1>4. OutsInStep' /\ TakenUpTogether'
  BY DEF OutsInStep, TakenUpTogether, AllReady, NoneReady
<1>5. HandedOver'
  BY <1>0 DEF HandedOver, AllReady, AllTaken, place, Updating, StatesCounted, TypeOK
<1>6. WritingInPlace' /\ ProcessState'
  BY DEF WritingInPlace, ProcessState, place, TypeOK
<1>7. NoOverwrite' /\ NormalExitComplete'
  BY DEF NoOverwrite, NormalExitComplete, ProcessState, WritingInPlace, HandedOver,
     Updating, StatesCounted, place, TypeOK
<1>8. QED
  BY <1>1, <1>2, <1>3, <1>4, <1>5, <1>6, <1>7

(* Read keeps the invariant. *)
LEMMA ReadIInv ==
  ASSUME IInv, NEW e \in Outcome, Read(e)
  PROVE  IInv'
<1> USE DEF IInv, Read, PrepareForExit, CheckedExit, ErrorCheckDies, Answer, Outcome,
        sessionVars, deviceVars, outVars
<1>1. TypeOK'
  BY DEF TypeOK, SessionTypeOK
<1>2. StatesCounted'
  BY DEF StatesCounted, place, Constructing, Updating, TypeOK
<1>3. BeforeStream'
  BY DEF BeforeStream, StatesCounted, place, Constructing, Updating, TypeOK
<1>4. OutsInStep' /\ TakenUpTogether'
  BY DEF OutsInStep, TakenUpTogether, AllReady, NoneReady
<1>5. HandedOver'
  BY DEF HandedOver, AllReady, AllTaken, place, Updating, StatesCounted, TypeOK
<1>6. WritingInPlace' /\ ProcessState'
  BY DEF WritingInPlace, ProcessState, place, TypeOK
<1>7. NoOverwrite' /\ NormalExitComplete'
  BY DEF NoOverwrite, NormalExitComplete, ProcessState, WritingInPlace, HandedOver,
     Updating, StatesCounted, place, TypeOK
<1>8. QED
  BY <1>1, <1>2, <1>3, <1>4, <1>5, <1>6, <1>7

(* PrepareStop keeps the invariant. *)
LEMMA PrepareStopIInv ==
  ASSUME IInv, NEW e \in Outcome, PrepareStop(e)
  PROVE  IInv'
<1> USE DEF IInv, PrepareStop, ErrorCheck, CheckedExit, ErrorCheckDies, Answer, Outcome,
        sessionVars, deviceVars, outVars
<1>1. TypeOK'
  BY DEF TypeOK, SessionTypeOK
<1>2. StatesCounted'
  BY DEF StatesCounted, place, Constructing, Updating, TypeOK
<1>3. BeforeStream'
  BY DEF BeforeStream, StatesCounted, place, Constructing, Updating, TypeOK
<1>4. OutsInStep' /\ TakenUpTogether'
  BY DEF OutsInStep, TakenUpTogether, AllReady, NoneReady
<1>5. HandedOver'
  BY DEF HandedOver, AllReady, AllTaken, place, Updating, StatesCounted, TypeOK
<1>6. WritingInPlace' /\ ProcessState'
  BY DEF WritingInPlace, ProcessState, place, TypeOK
<1>7. NoOverwrite' /\ NormalExitComplete'
  BY DEF NoOverwrite, NormalExitComplete, ProcessState, WritingInPlace, HandedOver,
     Updating, StatesCounted, place, TypeOK
<1>8. QED
  BY <1>1, <1>2, <1>3, <1>4, <1>5, <1>6, <1>7

(* PrepareClose keeps the invariant. *)
LEMMA PrepareCloseIInv ==
  ASSUME IInv, NEW e \in Outcome, PrepareClose(e)
  PROVE  IInv'
<1> USE DEF IInv, PrepareClose, NormalExit, CheckedExit, ErrorCheckDies, Answer, Outcome,
        sessionVars, deviceVars, outVars
<1>1. TypeOK'
  <2>1. resume \in {"write", "next", "return", "giveup"} /\ (resume = "giveup" => err = "error")
    BY DEF ProcessState, TypeOK
  <2>2. pc' \in {"write", "next", "exit"}
    BY <2>1
  <2>3. SessionTypeOK'
    BY DEF TypeOK, SessionTypeOK
  <2>4. QED
    BY <2>2, <2>3 DEF TypeOK
<1>2. StatesCounted'
  BY DEF StatesCounted, place, Constructing, Updating, TypeOK
<1>3. BeforeStream'
  BY DEF BeforeStream, StatesCounted, place, Constructing, Updating, TypeOK
<1>4. OutsInStep' /\ TakenUpTogether'
  BY DEF OutsInStep, TakenUpTogether, AllReady, NoneReady
<1>5. HandedOver'
  BY DEF HandedOver, AllReady, AllTaken, place, Updating, StatesCounted, TypeOK
<1>6. WritingInPlace' /\ ProcessState'
  BY DEF WritingInPlace, ProcessState, place, TypeOK
<1>7. NoOverwrite' /\ NormalExitComplete'
  BY DEF NoOverwrite, NormalExitComplete, ProcessState, WritingInPlace, HandedOver,
     Updating, StatesCounted, place, TypeOK
<1>8. QED
  BY <1>1, <1>2, <1>3, <1>4, <1>5, <1>6, <1>7

(* EnterCheck keeps the invariant. *)
LEMMA EnterCheckIInv ==
  ASSUME IInv, EnterCheck
  PROVE  IInv'
<1> USE DEF IInv, EnterCheck, CheckedExit, ErrorCheckDies, Answer, Outcome,
        sessionVars, deviceVars, outVars
<1>1. TypeOK'
  BY DEF TypeOK, SessionTypeOK
<1>2. StatesCounted'
  BY DEF StatesCounted, place, Constructing, Updating, TypeOK
<1>3. BeforeStream'
  BY DEF BeforeStream, StatesCounted, place, Constructing, Updating, TypeOK
<1>4. OutsInStep' /\ TakenUpTogether'
  BY DEF OutsInStep, TakenUpTogether, AllReady, NoneReady
<1>5. HandedOver'
  BY DEF HandedOver, AllReady, AllTaken, place, Updating, StatesCounted, TypeOK
<1>6. WritingInPlace' /\ ProcessState'
  BY DEF WritingInPlace, ProcessState, place, TypeOK
<1>7. NoOverwrite' /\ NormalExitComplete'
  BY DEF NoOverwrite, NormalExitComplete, ProcessState, WritingInPlace, HandedOver,
     Updating, StatesCounted, place, TypeOK
<1>8. QED
  BY <1>1, <1>2, <1>3, <1>4, <1>5, <1>6, <1>7

(* LeaveCheck keeps the invariant. *)
LEMMA LeaveCheckIInv ==
  ASSUME IInv, LeaveCheck
  PROVE  IInv'
<1> USE DEF IInv, LeaveCheck, CheckedExit, ErrorCheckDies, Answer, Outcome,
        sessionVars, deviceVars, outVars
<1>1. TypeOK'
  BY DEF TypeOK, SessionTypeOK
<1>2. StatesCounted'
  BY DEF StatesCounted, place, Constructing, Updating, TypeOK
<1>3. BeforeStream'
  BY DEF BeforeStream, StatesCounted, place, Constructing, Updating, TypeOK
<1>4. OutsInStep' /\ TakenUpTogether'
  BY DEF OutsInStep, TakenUpTogether, AllReady, NoneReady
<1>5. HandedOver'
  BY DEF HandedOver, AllReady, AllTaken, place, Updating, StatesCounted, TypeOK
<1>6. WritingInPlace' /\ ProcessState'
  BY DEF WritingInPlace, ProcessState, place, TypeOK
<1>7. NoOverwrite' /\ NormalExitComplete'
  BY DEF NoOverwrite, NormalExitComplete, ProcessState, WritingInPlace, HandedOver,
     Updating, StatesCounted, place, TypeOK
<1>8. QED
  BY <1>1, <1>2, <1>3, <1>4, <1>5, <1>6, <1>7

(* NextCycle keeps the invariant. *)
LEMMA NextCycleIInv ==
  ASSUME IInv, NextCycle
  PROVE  IInv'
<1> USE DEF IInv, NextCycle, PrepareForExit, CheckedExit, ErrorCheckDies, Answer, Outcome,
        sessionVars, deviceVars, outVars
<1>1. TypeOK'
  <2>1. cycle' \in 0..NumCycles
    BY DEF StatesCounted, place, TypeOK
  <2>2. QED
    BY <2>1 DEF TypeOK, SessionTypeOK
<1>2. StatesCounted'
  BY DEF StatesCounted, place, Constructing, Updating, TypeOK
<1>3. BeforeStream'
  BY DEF BeforeStream, StatesCounted, place, Constructing, Updating, TypeOK
<1>4. OutsInStep' /\ TakenUpTogether'
  BY DEF OutsInStep, TakenUpTogether, AllReady, NoneReady
<1>5. HandedOver'
  BY DEF HandedOver, AllReady, AllTaken, place, Updating, StatesCounted, TypeOK
<1>6. WritingInPlace' /\ ProcessState'
  BY DEF WritingInPlace, ProcessState, place, TypeOK
<1>7. NoOverwrite' /\ NormalExitComplete'
  BY DEF NoOverwrite, NormalExitComplete, ProcessState, WritingInPlace, HandedOver,
     Updating, StatesCounted, place, TypeOK
<1>8. QED
  BY <1>1, <1>2, <1>3, <1>4, <1>5, <1>6, <1>7

(* NextOut keeps the invariant. *)
LEMMA NextOutSteps ==
  ASSUME out \in Outs
  PROVE  (out % NumOuts) + 1 = IF out = NumOuts THEN 1 ELSE out + 1
<1>1. out \in 0..NumOuts /\ NumOuts \in Nat \ {0}
  OBVIOUS
<1>2. out % NumOuts = IF out = NumOuts THEN 0 ELSE out
  BY <1>1, RingStep
<1>3. QED
  BY <1>1, <1>2

(* WriteLastChunk keeps the invariant. *)
LEMMA WriteLastChunkIInv ==
  ASSUME IInv, NEW e \in Outcome, WriteLastChunk(e)
  PROVE  IInv'
<1> USE DEF IInv
<1>0. pc = "write" /\ place = "write" /\ exit = "none" /\ out \in Outs
  BY DEF WriteLastChunk, ProcessState, TypeOK, place
<1>1. UNCHANGED <<streaming, backlog, playing, pos, cycle, status, polls, err, resume>>
  BY DEF WriteLastChunk
<1>2. CASE ErrorCheckDies(e)
  <2>1. /\ pc' = "exit" /\ exit' = "error"
        /\ handle' = IF handle = "open" THEN "closed" ELSE handle
        /\ UNCHANGED <<out, state, written, next, synched>>
    BY <1>2 DEF WriteLastChunk, CheckedExit
  <2>2. TypeOK'
    BY <2>1, <1>1 DEF TypeOK, SessionTypeOK
  <2>3. StatesCounted' /\ BeforeStream' /\ ProcessState' /\ WritingInPlace'
    BY <2>1, <1>1 DEF StatesCounted, BeforeStream, ProcessState, WritingInPlace, place,
       Constructing, Updating
  <2>4. OutsInStep' /\ TakenUpTogether' /\ HandedOver'
    BY <2>1, <1>1 DEF OutsInStep, TakenUpTogether, HandedOver, AllReady, NoneReady, place,
       Updating
  <2>5. NoOverwrite' /\ NormalExitComplete'
    BY <2>1, <1>1 DEF NoOverwrite, NormalExitComplete
  <2>6. QED
    BY <2>2, <2>3, <2>4, <2>5
<1>3. CASE ~ErrorCheckDies(e)
  <2>1. /\ UNCHANGED <<handle, exit>>
        /\ written' = [written EXCEPT ![out] = 0]
        /\ state' = [state EXCEPT ![out] = @ + 1]
        /\ next' = [next EXCEPT ![out] = state[out]]
        /\ synched' = [p \in Outs |-> IF out = NumOuts THEN next'[p] # 0
                                      ELSE p # out /\ synched[p]]
        /\ out' = IF out = NumOuts THEN 1 ELSE out + 1
        /\ pc' = IF state[out] > 1
                 THEN (IF out = NumOuts THEN "read" ELSE "check")
                 ELSE (IF out = NumOuts THEN "start" ELSE "setup")
    <3>1. SetLoops[out] = IF out = NumOuts THEN 3 ELSE 2
      BY <1>0 DEF SetLoops
    <3>2. out < NumOuts <=> out # NumOuts
      BY <1>0
    <3>3. LoopHandedOver(out, SetLoops[out]) /\ UNCHANGED <<handle, exit>>
          /\ written' = [written EXCEPT ![out] = 0]
          /\ state' = [state EXCEPT ![out] = @ + 1]
          /\ IF IsStreamRunning
             THEN NextOut("check", "read") ELSE NextOut("setup", "start")
      BY <1>3 DEF WriteLastChunk, sessionVars
    <3>4. next' = [next EXCEPT ![out] = state[out]]
      BY <3>3 DEF LoopHandedOver
    <3>5. synched' = [p \in Outs |-> IF out = NumOuts THEN next'[p] # 0
                                    ELSE p # out /\ synched[p]]
      BY <3>1, <3>3 DEF LoopHandedOver
    <3>6. out' = (IF out = NumOuts THEN 1 ELSE out + 1)
      BY <1>0, <3>3, NextOutSteps DEF NextOut
    <3>7. QED
      BY <3>2, <3>3, <3>4, <3>5, <3>6 DEF NextOut, IsStreamRunning
  <2>2. /\ state[out] \in Nat \ {0} /\ out' \in Outs
        /\ next'[out] = state[out] /\ state'[out] = state[out] + 1 /\ written'[out] = 0
        /\ \A p \in Outs : /\ p # out => UNCHANGED <<next[p], state[p], written[p]>>
                           /\ synched'[p] <=> IF out = NumOuts THEN next'[p] # 0
                                               ELSE p # out /\ synched[p]
    <3>1. /\ state \in [Outs -> Nat \ {0}] /\ next \in [Outs -> Nat]
          /\ written \in [Outs -> 0..(StateSize - 1)]
      BY DEF TypeOK
    <3> HIDE DEF IInv
    <3>2. state[out] \in Nat \ {0} /\ out' \in Outs
      BY <3>1, <2>1, <1>0
    <3>3. next'[out] = state[out] /\ state'[out] = state[out] + 1 /\ written'[out] = 0
      BY <3>1, <2>1, <1>0
    <3>4. ASSUME NEW p \in Outs
          PROVE  /\ p # out => UNCHANGED <<next[p], state[p], written[p]>>
                 /\ synched'[p] <=> IF out = NumOuts THEN next'[p] # 0
                                     ELSE p # out /\ synched[p]
      <4>1. p # out => UNCHANGED <<next[p], state[p], written[p]>>
        BY <3>1, <2>1, <1>0
      <4>2. synched'[p] <=> IF out = NumOuts THEN next'[p] # 0
                            ELSE p # out /\ synched[p]
        <5>1. synched'[p] = IF out = NumOuts THEN next'[p] # 0
                            ELSE p # out /\ synched[p]
          BY <2>1
        <5>2. QED
          BY <5>1
      <4>3. QED
        BY <4>1, <4>2
    <3>5. QED
      BY <3>2, <3>3, <3>4
  <2>3. TypeOK'
    <3>1. /\ written' \in [Outs -> 0..(StateSize - 1)]
          /\ state' \in [Outs -> Nat \ {0}] /\ next' \in [Outs -> Nat]
      <4>1. /\ written \in [Outs -> 0..(StateSize - 1)] /\ 0 \in 0..(StateSize - 1)
            /\ state \in [Outs -> Nat \ {0}] /\ next \in [Outs -> Nat]
        BY DEF TypeOK
      <4> HIDE DEF IInv
      <4>2. written' \in [Outs -> 0..(StateSize - 1)]
        BY <4>1, <2>1
      <4>3. state' \in [Outs -> Nat \ {0}]
        <5>1. state[out] + 1 \in Nat \ {0}
          BY <2>2
        <5>2. QED
          BY <5>1, <4>1, <2>1
      <4>4. next' \in [Outs -> Nat]
        BY <4>1, <2>1, <2>2
      <4>5. QED
        BY <4>2, <4>3, <4>4
    <3>2. synched' \in [Outs -> BOOLEAN]
      BY <2>1
    <3>3. pc' \in {"read", "check", "start", "setup"}
      BY <2>1
    <3>4. QED
      BY <3>1, <3>2, <3>3, <2>1, <2>2, <1>1 DEF TypeOK, SessionTypeOK
  <2>4. \A p \in Outs : p <= NumOuts /\ (out = NumOuts => (p < out <=> p # out))
    BY <1>0
  <2>5. CASE state[out] = 1
    <3>1. /\ cycle = 0 /\ ~streaming
          /\ \A p \in Outs : /\ state[p] = IF p < out THEN 2 ELSE 1
                             /\ next[p] = IF p < out THEN 1 ELSE 0
      BY <1>0, <2>5 DEF StatesCounted, BeforeStream, Constructing
    <3>2. StatesCounted' /\ BeforeStream'
      <4> HIDE DEF IInv
      <4>1. CASE out = NumOuts
        <5>1. /\ pc' = "start" /\ out' = 1
              /\ \A p \in Outs : state'[p] = 2 /\ next'[p] = 1
          BY <4>1, <2>1, <2>2, <2>4, <2>5, <3>1
        <5>2. QED
          BY <5>1, <3>1, <1>1 DEF StatesCounted, BeforeStream, place, Constructing,
             Updating
      <4>2. CASE out # NumOuts
        <5>1. /\ pc' = "setup" /\ out' = out + 1
              /\ \A p \in Outs : /\ state'[p] = IF p < out + 1 THEN 2 ELSE 1
                                 /\ next'[p] = IF p < out + 1 THEN 1 ELSE 0
          BY <4>2, <2>1, <2>2, <2>5, <3>1, <1>0
        <5>2. QED
          BY <5>1, <3>1, <1>1 DEF StatesCounted, BeforeStream, place, Constructing,
             Updating
      <4>3. QED
        BY <4>1, <4>2
    <3>3. OutsInStep' /\ TakenUpTogether' /\ HandedOver' /\ NoOverwrite'
      BY <3>1, <1>1 DEF OutsInStep, TakenUpTogether, HandedOver, NoOverwrite
    <3>4. WritingInPlace' /\ ProcessState' /\ NormalExitComplete'
      BY <1>0, <1>1, <2>1, <2>2 DEF WritingInPlace, ProcessState, NormalExitComplete,
         TypeOK
    <3>5. QED
      BY <2>3, <3>2, <3>3, <3>4
  <2>6. CASE state[out] > 1
    <3>1. /\ cycle < NumCycles /\ cycle \in Nat
          /\ \A p \in Outs : state[p] = IF p < out THEN cycle + 3 ELSE cycle + 2
          /\ streaming => \A p \in Outs : IF p < out THEN next[p] = cycle + 2 /\ ~synched[p]
                                          ELSE next[p] = 0
      BY <1>0, <2>6 DEF StatesCounted, HandedOver, Updating, TypeOK
    <3>2. ASSUME out = NumOuts
          PROVE  /\ StatesCounted' /\ BeforeStream' /\ OutsInStep' /\ TakenUpTogether'
                 /\ HandedOver'
      <4>1. /\ pc' = "read" /\ out' = 1
            /\ \A p \in Outs : state'[p] = cycle + 3
            /\ streaming => \A p \in Outs : next'[p] = cycle + 2 /\ synched'[p]
        <5> HIDE DEF IInv
        <5>1. QED
          BY <3>2, <2>1, <2>2, <2>4, <2>6, <3>1, <1>0
      <4>2. StatesCounted' /\ BeforeStream'
        <5> HIDE DEF IInv
        <5>1. QED
          BY <4>1, <3>1, <1>1 DEF StatesCounted, BeforeStream, place, Constructing,
             Updating
      <4>3. streaming' => AllReady'
        <5>1. 1 \in Outs
          OBVIOUS
        <5> HIDE DEF IInv
        <5>2. QED
          BY <5>1, <4>1, <3>1, <1>1 DEF AllReady
      <4>4. OutsInStep' /\ TakenUpTogether' /\ HandedOver'
        BY <4>1, <4>3, <1>1 DEF OutsInStep, TakenUpTogether, HandedOver, place, Updating
      <4> HIDE DEF IInv
      <4>5. QED
        BY <4>2, <4>4
    <3>3. ASSUME out # NumOuts
          PROVE  /\ StatesCounted' /\ BeforeStream' /\ OutsInStep' /\ TakenUpTogether'
                 /\ HandedOver'
      <4>1. /\ pc' = "check" /\ out' = out + 1 /\ out' > 1
            /\ \A p \in Outs : state'[p] = IF p < out + 1 THEN cycle + 3 ELSE cycle + 2
            /\ streaming => \A p \in Outs :
                  IF p < out + 1 THEN next'[p] = cycle + 2 /\ ~synched'[p] ELSE next'[p] = 0
        <5> HIDE DEF IInv
        <5>1. QED
          BY <3>3, <2>1, <2>2, <2>6, <3>1, <1>0
      <4>2. StatesCounted' /\ BeforeStream'
        <5> HIDE DEF IInv
        <5>1. QED
          BY <4>1, <3>1, <1>1 DEF StatesCounted, BeforeStream, place, Constructing,
             Updating
      <4>3. HandedOver' /\ (streaming' => NoneReady')
        <5> HIDE DEF IInv
        <5>1. QED
          BY <4>1, <3>1, <1>1 DEF HandedOver, NoneReady, place, Updating
      <4>4. OutsInStep' /\ TakenUpTogether'
        BY <4>3, <1>1 DEF OutsInStep, TakenUpTogether
      <4> HIDE DEF IInv
      <4>5. QED
        BY <4>2, <4>3, <4>4
    <3>4. /\ StatesCounted' /\ BeforeStream' /\ OutsInStep' /\ TakenUpTogether'
          /\ HandedOver'
      BY <3>2, <3>3
    <3>5. WritingInPlace' /\ ProcessState' /\ NormalExitComplete'
      BY <1>0, <1>1, <2>1, <2>2 DEF WritingInPlace, ProcessState, NormalExitComplete,
         TypeOK
    <3>6. NoOverwrite'
      BY <1>0, <1>1, <2>2 DEF NoOverwrite, WritingInPlace
    <3>7. QED
      BY <2>3, <3>4, <3>5, <3>6
  <2>7. QED
    BY <2>2, <2>5, <2>6
<1>4. QED
  BY <1>2, <1>3

-----------------------------------------------------------------------------
(* Every step of the program, of the device and after the end. *)
LEMMA NextIInv ==
  ASSUME StatusReserve = 1, IInv, [Next]_vars
  PROVE  IInv'
<1>1. ASSUME NEW e \in Outcome,
             \/ Open(e) \/ Setup(e) \/ WriteChunk(e) \/ WriteLastChunk(e) \/ Start(e)
             \/ Poll(e) \/ Read(e) \/ PrepareStop(e) \/ PrepareClose(e)
      PROVE  IInv'
  BY <1>1, OpenIInv, SetupIInv, WriteChunkIInv, WriteLastChunkIInv, StartIInv, PollIInv,
     ReadIInv, PrepareStopIInv, PrepareCloseIInv
<1>2. CASE EnterCheck \/ LeaveCheck \/ NextCycle
  BY <1>2, EnterCheckIInv, LeaveCheckIInv, NextCycleIInv
<1>3. CASE Device
  BY <1>3, TickIInv
<1>4. CASE UNCHANGED vars
  <2>1. /\ UNCHANGED <<handle, exit, pc, streaming, backlog, playing, pos, written, next>>
        /\ UNCHANGED <<synched, out, cycle, state, status, polls, err, resume>>
    BY <1>4 DEF vars, sessionVars, deviceVars, outVars, programVars
  <2> USE DEF IInv
  <2>2. TypeOK'
    BY <2>1 DEF TypeOK, SessionTypeOK
  <2>3. place' = place /\ (Constructing' <=> Constructing) /\ (Updating' <=> Updating)
    BY <2>1 DEF place, Constructing, Updating
  <2>4. StatesCounted' /\ BeforeStream' /\ WritingInPlace' /\ ProcessState'
    BY <2>1, <2>3 DEF StatesCounted, BeforeStream, WritingInPlace, ProcessState
  <2>5. TakenUpTogether' /\ HandedOver' /\ OutsInStep'
    BY <2>1, <2>3 DEF TakenUpTogether, HandedOver, OutsInStep, AllReady, NoneReady,
       AllTaken
  <2>6. NoOverwrite' /\ NormalExitComplete'
    BY <2>1 DEF NoOverwrite, NormalExitComplete
  <2>7. QED
    BY <2>2, <2>4, <2>5, <2>6
<1>5. QED
  BY <1>1, <1>2, <1>3, <1>4 DEF Next, Program, Finished

(* If the device keeps one value of each buffer in reserve, the invariant  *)
(* holds throughout.                                                       *)
THEOREM Inductive ==
  ASSUME StatusReserve = 1
  PROVE  Spec => []IInv
<1>1. Init => IInv
  BY InitIInv
<1>2. IInv /\ [Next]_vars => IInv'
  BY NextIInv
<1>3. QED
  BY <1>1, <1>2, PTL DEF Spec

(* Every variable keeps its type. *)
THEOREM TypeCorrect ==
  ASSUME StatusReserve = 1
  PROVE  Spec => []TypeOK
<1>1. IInv => TypeOK
  BY DEF IInv
<1>2. QED
  BY <1>1, Inductive, PTL

(* However many outs there are and however their writes fall between the   *)
(* ticks, they output the same value of the same state at every scan       *)
(* (SET_LOOP 2 and 3, lines 152-160).                                      *)
THEOREM OutsInStepCorrect ==
  ASSUME StatusReserve = 1
  PROVE  Spec => []OutsInStep
<1>1. IInv => OutsInStep
  BY DEF IInv
<1>2. QED
  BY <1>1, Inductive, PTL

(* For any size of the states the threshold of CheckUpdateBuffer (line     *)
(* 406) leaves the writes nothing but the free half, and a return from     *)
(* main means every cycle wrote a state to every out.                      *)
THEOREM NothingLostCorrect ==
  ASSUME StatusReserve = 1
  PROVE  Spec => []NothingLost
<1>1. IInv => NothingLost
  BY DEF IInv, NothingLost
<1>2. QED
  BY <1>1, Inductive, PTL

=============================================================================
