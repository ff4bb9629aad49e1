---------------------------- MODULE ExamplesProofs ----------------------------
(***************************************************************************)
(* Proofs about the machines of MCExamples, for every value of the         *)
(* constants of the Lua programs, the externally clocked streams, the      *)
(* stream out, the shared cache, the programs of the SD card and of the    *)
(* network, those paced by the clock, the configure checks, the actions of *)
(* threads and the calls of builders.  Each machine has an inductive       *)
(* invariant of its own, which its own steps keep; a state of the          *)
(* composition is a state of the one machine it picked.                    *)
(***************************************************************************)
EXTENDS MCExamples, FiniteSets, SequencesExt, FiniteSetTheorems, SequenceTheorems,
        WellFoundedInduction, TLAPS

-----------------------------------------------------------------------------
(* The Lua programs (LuaScript). *)

BeforeRounds == {"open", "info", "disable", "wait", "disableAgain", "size", "source",
                 "debug", "run"}
InRounds == {"round", "userRam", "numBytes", "data", "stop"}

(* The inductive invariant.  LuaSafe needs that the source buffer holds the   *)
(* program's own script once its write went well, and, while that script has  *)
(* not made its first write, that the program has written nothing but 0.     *)
LuaIInv ==
  /\ luaPc \in BeforeRounds \cup InRounds \cup {"close", "exit"}
  /\ luaRound \in Nat
  /\ luaPc \in {"debug", "run"} => luaSource = "own"
  /\ luaPc = "userRam" => Lua!ControlsExecution
  /\ luaPc \in InRounds => vm = "running" /\ luaScript = "own"
  /\ luaPc \in BeforeRounds => lastWrite = Lua!NoLoop /\ luaRound = 0
  /\ lastWrite # Lua!NoLoop =>
       /\ Lua!ControlsExecution
       /\ IF booted THEN userRam = lastWrite ELSE lastWrite = 0

(* LuaIInv is kept by every step of the program. *)
LEMMA LuaProgramSteps ==
  ASSUME LuaIInv, Lua!Program
  PROVE  LuaIInv'
<1> USE DEF LuaIInv, BeforeRounds, InRounds, Lua!NoLoop, Lua!ControlsExecution
<1>1. CASE Lua!Wait
  BY <1>1 DEF Lua!Wait, Lua!vmVars, Lua!sessionVars
<1>2. CASE Lua!Round
  BY <1>2 DEF Lua!Round, Lua!vmVars, Lua!sessionVars
<1> SUFFICES ASSUME NEW e \in Lua!Outcome, Lua!Call(e)
             PROVE  LuaIInv'
  BY <1>1, <1>2 DEF Lua!Program
<1> USE DEF Lua!ErrorCheck, Lua!WriteNameOrDie, Lua!CheckedExit, Lua!BareExit, Lua!vmVars,
            Lua!LuaRunOff, Lua!ErrorCheckDies, Lua!WriteNameOrDieDies, Lua!Outcome
<1>3. CASE Lua!Open(e)
  BY <1>3 DEF Lua!Open, Lua!OpenOrDie
<1>4. CASE Lua!Info(e)
  BY <1>4 DEF Lua!Info
<1>5. CASE Lua!Disable(e)
  BY <1>5 DEF Lua!Disable
<1>6. CASE Lua!DisableAgain(e)
  BY <1>6 DEF Lua!DisableAgain
<1>7. CASE Lua!WriteSize(e)
  BY <1>7 DEF Lua!WriteSize
<1>8. CASE Lua!WriteSource(e)
  BY <1>8 DEF Lua!WriteSource
<1>9. CASE Lua!EnableDebug(e)
  BY <1>9 DEF Lua!EnableDebug
<1>10. CASE Lua!Run(e)
  BY <1>10 DEF Lua!Run
<1>11. CASE Lua!WriteUserRam(e)
  <2>1. luaRound = 0 => Lua!executionLoopNum = 0
    BY DEF Lua!executionLoopNum
  <2>2. luaRound > 0 => booted
    BY <1>11 DEF Lua!WriteUserRam
  <2> HIDE DEF Lua!executionLoopNum
  <2>3. QED
    BY <1>11, <2>1, <2>2 DEF Lua!WriteUserRam, Lua!sessionVars
<1>12. CASE Lua!ReadNumBytes(e)
  BY <1>12 DEF Lua!ReadNumBytes
<1>13. CASE Lua!ReadData(e)
  BY <1>13 DEF Lua!ReadData
<1>14. CASE Lua!Stop(e)
  BY <1>14 DEF Lua!Stop
<1>15. CASE Lua!Close(e)
  BY <1>15 DEF Lua!Close, Lua!CloseOrDie
<1>16. QED
  BY <1>3, <1>4, <1>5, <1>6, <1>7, <1>8, <1>9, <1>10, <1>11, <1>12, <1>13, <1>14, <1>15
  DEF Lua!Call

(* LuaIInv holds at first, and is kept by every step. *)
LEMMA LuaSteps ==
  /\ Lua!Init => LuaIInv
  /\ LuaIInv /\ [Lua!Next]_luaVars => LuaIInv'
<1>1. Lua!Init => LuaIInv
  BY DEF Lua!Init, LuaIInv, BeforeRounds, InRounds, Lua!NoLoop
<1>2. LuaIInv /\ [Lua!Next]_luaVars => LuaIInv'
  <2> SUFFICES ASSUME LuaIInv, [Lua!Next]_luaVars
               PROVE  LuaIInv'
    OBVIOUS
  <2>1. CASE Lua!Program
    BY <2>1, LuaProgramSteps
  <2> USE DEF LuaIInv, BeforeRounds, InRounds, Lua!NoLoop, Lua!ControlsExecution,
              Lua!programVars
  <2>2. CASE Lua!ScriptBoots
    BY <2>2 DEF Lua!ScriptBoots
  <2>3. CASE Lua!ScriptPrints
    BY <2>3 DEF Lua!ScriptPrints
  <2>4. CASE Lua!VMHalts
    BY <2>4 DEF Lua!VMHalts
  <2>5. CASE UNCHANGED luaVars \/ Lua!Finished
    BY <2>5 DEF luaVars, Lua!Finished, Lua!vars, Lua!vmVars
  <2>6. QED
    BY <2>1, <2>2, <2>3, <2>4, <2>5 DEF Lua!Next
<1>3. QED
  BY <1>1, <1>2

(* The script that this program loaded is the one that runs, and its late     *)
(* first write never takes back a loop number of the program.                *)
THEOREM LuaSafeCorrect == Spec => []LuaSafe
<1> DEFINE Inv == part = "lua" => LuaIInv
<1>1. Init => Inv
  BY LuaSteps DEF Init
<1>2. Inv /\ [Next]_vars => Inv'
  BY LuaSteps DEF Next, vars
<1>3. Inv => LuaSafe
  BY DEF LuaIInv, BeforeRounds, InRounds, LuaSafe, Lua!LuaSafe, Lua!OwnScriptRuns,
         Lua!RamIsPrograms
<1>4. QED
  BY <1>1, <1>2, <1>3, PTL DEF Spec

-----------------------------------------------------------------------------
(* The externally clocked streams (StreamExternalClock). *)

Setup == {"open", "info", "disable", "configure", "clockSource"}
Generator == {"clearEF", "setting", "enableEF"}

(* The inductive invariant.  ExternalClockSafe needs how far the program is:  *)
(* the clock source is set before the stream can be started, the example has  *)
(* written every setting of the generator by then, and the attempts are       *)
(* counted up to the last.                                                    *)
ClockIInv ==
  /\ clockPc \in Setup \cup Generator \cup {"start", "read", "stop", "close", "exit"}
  /\ clockExit = "ok" => clockPc = "exit"
  /\ settings \in Nat /\ settings <= Clock!NumSettings
  /\ streamRead \in Nat
  /\ clockPc \in Setup => ~clockStarted
  /\ clockPc \notin Setup \cup {"exit"} => clockSource = "external"
  /\ clockStarted => clockSource = "external"
  /\ clockPc = "setting" => settings < Clock!NumSettings
  /\ clockPc = "enableEF" => settings = Clock!NumSettings
  /\ clockPc \in Setup \cup {"clearEF"} => settings = 0
  /\ clockPc \notin Setup \cup Generator => streamRead <= NumAttempts
  /\ clockPc \in Setup \cup Generator \cup {"start"} => streamRead = 0
  /\ clockPc = "read" => streamRead < NumAttempts
  /\ clockPc \in {"stop", "close"} => streamRead = NumAttempts
  /\ clockPc = "close" => ~clockStreaming
  /\ Clock!PulsesBeforeStart =>
       /\ ~strayScan
       /\ clockPc \in Setup \cup Generator => ~clockStarted
       /\ clockPc \in {"start", "read", "stop"} => settings = Clock!NumSettings
       /\ clockStarted => settings = Clock!NumSettings
  /\ ~Clock!PulsesBeforeStart /\ clockPc = "start" => settings = 0
  /\ Clock!NormalExitStreamOff

(* ClockIInv is kept by every step of the program. *)
LEMMA ClockProgramSteps ==
  ASSUME NumAttempts \in Nat \ {0}, ClockIInv, Clock!Program
  PROVE  ClockIInv'
<1> USE DEF ClockIInv, Setup, Generator, Clock!PulsesBeforeStart, Clock!NumSettings,
            Clock!NormalExitStreamOff, Clock!deviceVars, Clock!generatorVars,
            Clock!sessionVars
<1>1. CASE Clock!Disable
  <2>1. UNCHANGED clockStreaming \/ clockStreaming' = FALSE
    BY <1>1 DEF Clock!Disable, Clock!DisableStreamIfEnabled, Clock!StreamStopped
  <2>2. QED
    BY <1>1, <2>1 DEF Clock!Disable, Clock!CheckedExit
<1>2. CASE Clock!NoScansReturned
  BY <1>2 DEF Clock!NoScansReturned, Clock!AfterRead
<1> SUFFICES ASSUME NEW e \in Clock!Outcome, Clock!Call(e)
             PROVE  ClockIInv'
  BY <1>1, <1>2 DEF Clock!Program
<1> USE DEF Clock!ErrorCheck, Clock!WriteNameOrDie, Clock!CheckedExit, Clock!BareExit,
            Clock!ErrorCheckDies, Clock!WriteNameOrDieDies, Clock!Outcome
<1>3. CASE Clock!Open(e)
  BY <1>3 DEF Clock!Open, Clock!OpenOrDie
<1>4. CASE Clock!Info(e)
  BY <1>4 DEF Clock!Info
<1>5. CASE Clock!Configure(e)
  BY <1>5 DEF Clock!Configure
<1>6. CASE Clock!SetupExternalClockStream(e)
  BY <1>6 DEF Clock!SetupExternalClockStream
<1>7. CASE Clock!ClearEF(e)
  BY <1>7 DEF Clock!ClearEF
<1>8. CASE Clock!WriteSetting(e)
  BY <1>8 DEF Clock!WriteSetting
<1>9. CASE Clock!EnableEF(e)
  BY <1>9 DEF Clock!EnableEF
<1>10. CASE Clock!Start(e)
  BY <1>10 DEF Clock!Start, Clock!StreamStarted
<1>11. CASE Clock!Read(e)
  BY <1>11 DEF Clock!Read, Clock!StreamReadDone, Clock!AfterRead
<1>12. CASE Clock!Stop(e)
  BY <1>12 DEF Clock!Stop, Clock!StreamStopped
<1>13. CASE Clock!Close(e)
  BY <1>13 DEF Clock!Close, Clock!CloseOrDie, Clock!NormalExit
<1>14. QED
  BY <1>3, <1>4, <1>5, <1>6, <1>7, <1>8, <1>9, <1>10, <1>11, <1>12, <1>13
  DEF Clock!Call

(* ClockIInv holds at first, and is kept by every step. *)
LEMMA ClockSteps ==
  /\ Clock!Init => ClockIInv
  /\ ClockIInv /\ [Clock!Next]_clockVars => ClockIInv'
<1>1. NumAttempts \in Nat \ {0}
  BY PartsAssumption DEF Clock!ExternalClockAssumption
<1>2. Clock!Init => ClockIInv
  BY <1>1 DEF Clock!Init, Clock!SessionInit, Clock!DeviceInit, ClockIInv, Setup,
     Generator,
              Clock!PulsesBeforeStart, Clock!NumSettings, Clock!NormalExitStreamOff
<1>3. ClockIInv /\ [Clock!Next]_clockVars => ClockIInv'
  <2> SUFFICES ASSUME ClockIInv, [Clock!Next]_clockVars
               PROVE  ClockIInv'
    OBVIOUS
  <2>1. CASE Clock!Program
    BY <1>1, <2>1, ClockProgramSteps
  <2> USE DEF ClockIInv, Setup, Generator, Clock!PulsesBeforeStart, Clock!NumSettings,
              Clock!NormalExitStreamOff, Clock!sessionVars, Clock!programVars,
              Clock!deviceVars, Clock!generatorVars
  <2>2. CASE Clock!Pulse
    <3>1. \/ UNCHANGED strayScan
          \/ clockStarted /\ strayScan' = (strayScan \/ settings < Clock!NumSettings)
      BY <2>2 DEF Clock!Pulse
    <3>2. clockStarted /\ Clock!PulsesBeforeStart => ~(settings < Clock!NumSettings)
      OBVIOUS
    <3>3. Clock!PulsesBeforeStart => ~strayScan
      OBVIOUS
    <3> HIDE DEF Clock!PulsesBeforeStart
    <3>4. Clock!PulsesBeforeStart => ~strayScan'
      BY <3>1, <3>2, <3>3, Zenon
    <3> USE DEF Clock!PulsesBeforeStart
    <3>5. QED
      BY <2>2, <3>4 DEF Clock!Pulse, Clock!ClockScan
  <2>3. CASE Clock!Deliver
    BY <2>3 DEF Clock!Deliver, Clock!Transfer, Clock!EndRecovery
  <2>4. CASE UNCHANGED clockVars \/ Clock!Finished
    BY <2>4 DEF clockVars, Clock!Finished, Clock!vars
  <2>5. QED
    BY <2>1, <2>2, <2>3, <2>4 DEF Clock!Next
<1>4. QED
  BY <1>2, <1>3

(* No pulse of an earlier program's generator clocks a scan of the example,   *)
(* no scan is clocked by the internal clock, and a return from main leaves    *)
(* the stream off.                                                            *)
THEOREM ExternalClockSafeCorrect == Spec => []ExternalClockSafe
<1> DEFINE Inv == part = "clock" => ClockIInv
<1>1. Init => Inv
  BY ClockSteps DEF Init
<1>2. Inv /\ [Next]_vars => Inv'
  BY ClockSteps DEF Next, vars
<1>3. Inv => ExternalClockSafe
  BY DEF ClockIInv, ExternalClockSafe, Clock!ExternalClockSafe, Clock!OwnPulsesOnly,
         Clock!PulsesBeforeStart
<1>4. QED
  BY <1>1, <1>2, <1>3, PTL DEF Spec

-----------------------------------------------------------------------------
(* The stream out with its concurrent update (StreamOutAndIn). *)

(* A set of naturals that is not empty has a least element: what an induction *)
(* comes down to where a formula cannot be passed to a theorem.               *)
LEMMA NatMin ==
  ASSUME NEW T \in SUBSET Nat, T # {}
  PROVE  \E x \in T : \A y \in T : x <= y
<1>1. PICK x \in T : \A y \in T : <<y, x>> \notin OpToRel(<, Nat)
  BY WFMin, NatLessThanWellFounded
<1>2. \A y \in T : ~(y < x)
  BY <1>1 DEF OpToRel
<1>3. QED
  BY <1>2

(* A sequence of naturals that is not empty has a greatest element. *)
LEMMA SeqMax ==
  ASSUME NEW s \in Seq(Nat), s # <<>>
  PROVE  \E i \in DOMAIN s : \A j \in DOMAIN s : s[j] <= s[i]
<1> DEFINE UpTo(k) == \E i \in 1..k : \A j \in 1..k : s[j] <= s[i]
           T == {k \in 1..Len(s) : ~UpTo(k)}
<1>0. /\ Len(s) \in 1..Len(s) /\ DOMAIN s = 1..Len(s)
      /\ \A k \in 1..Len(s) : s[k] \in Nat
  OBVIOUS
<1>1. T = {}
  <2> SUFFICES ASSUME T # {} PROVE FALSE
    OBVIOUS
  <2>0. T \in SUBSET Nat
    OBVIOUS
  <2> HIDE DEF T
  <2>1. PICK k \in T : \A y \in T : k <= y
    BY <2>0, NatMin
  <2>2. k \in 1..Len(s) /\ ~UpTo(k)
    BY DEF T
  <2>3. k # 1
    BY <1>0, <2>2
  <2>4. UpTo(k - 1)
    <3>1. k - 1 \in 1..Len(s) /\ ~(k <= k - 1)
      BY <2>2, <2>3
    <3>2. k - 1 \notin T
      BY <2>1, <3>1
    <3> HIDE DEF UpTo
    <3>3. QED
      BY <3>1, <3>2 DEF T
  <2>5. PICK i \in 1..(k - 1) : \A j \in 1..(k - 1) : s[j] <= s[i]
    BY <2>4
  <2>6. s[i] \in Nat /\ s[k] \in Nat
    BY <1>0, <2>2, <2>5
  <2>7. CASE s[k] <= s[i]
    <3>1. \A j \in 1..k : j \in 1..(k - 1) \/ j = k
      BY <2>2
    <3>2. \A j \in 1..k : s[j] <= s[i]
      BY <2>5, <2>7, <3>1
    <3>3. QED
      BY <2>2, <2>5, <3>2
  <2>8. CASE ~(s[k] <= s[i])
    <3>1. \A j \in 1..k : s[j] <= s[k]
      <4> TAKE j \in 1..k
      <4>1. CASE j = k
        BY <2>6, <4>1
      <4>2. CASE j # k
        <5>1. j \in 1..(k - 1) /\ s[j] \in Nat
          BY <1>0, <2>2, <4>2
        <5>2. s[j] <= s[i]
          BY <2>5, <5>1
        <5>3. QED
          BY <2>6, <2>8, <5>1, <5>2
      <4>3. QED
        BY <4>1, <4>2
    <3>2. QED
      BY <2>2, <3>1
  <2>9. QED
    BY <2>7, <2>8
<1>2. UpTo(Len(s))
  BY <1>0, <1>1
<1>3. QED
  BY <1>0, <1>2

Updating == {"target", "enable", "buffer", "size", "set"}
OutPlaces == {"open", "info", "names", "configure", "start", "read", "count", "stop",
              "close", "exit"} \cup Updating

OutsTyped ==
  /\ outPc \in OutPlaces
  /\ outTurn \in Outs!Outs
  /\ outPc \notin Updating \cup {"exit"} => outTurn = 1
  /\ iteration \in Nat
  /\ buffer \in [Outs!Outs -> Seq(Int)]
  /\ loop \in [Outs!Outs -> Seq(Int)]
  /\ loopSize \in [Outs!Outs -> Nat]
  /\ alone \in [Outs!Outs -> BOOLEAN]

(* Output o has had its update of this iteration, or at least its values. *)
Done(o) == outPc = "count" \/ (outPc \in Updating /\ o < outTurn)
Begun(o) == Done(o) \/ (outPc \in {"size", "set"} /\ o = outTurn)

(* The values of the program that an output may play, or may come to play. *)
Values(fresh) == {Outs!Other, iteration} \cup IF fresh THEN {} ELSE {iteration - 1}

(* The part of an output's buffer that a loop can be made of. *)
Reach(o) == {i \in DOMAIN buffer[o] : i > Len(buffer[o]) - LoopSizes[o]}

ValuesRecent ==
  \A o \in Outs!Outs :
    /\ loopSize[o] <= LoopSizes[o]
    /\ \A i \in Reach(o) : buffer[o][i] \in Values(Begun(o))
    /\ \A i \in DOMAIN loop[o] : loop[o][i] \in Values(Done(o))

ValuesExact ==
  \A o \in Outs!Outs : alone[o] =>
    /\ outPc \in {"size", "set"} /\ o = outTurn =>
         /\ Len(buffer[o]) >= LoopSizes[o]
         /\ \A i \in Reach(o) : buffer[o][i] = iteration
    /\ outPc = "set" /\ o = outTurn => loopSize[o] = LoopSizes[o]
    /\ Done(o) => loop[o] = [i \in 1..LoopSizes[o] |-> iteration]

(* The inductive invariant of the updates.                                    *)
UpdatesIInv == OutsTyped /\ ValuesRecent /\ ValuesExact

(* Sequence t is the end of s, of n values if there are as many. *)
CutFrom(t, s, n) ==
  /\ t \in Seq(Int)
  /\ Len(t) = IF Len(s) <= n THEN Len(s) ELSE n
  /\ \A i \in 1..Len(t) : t[i] = s[Len(s) - Len(t) + i]

(* Sequence t ends with v, and before that with the end of s. *)
AppendedTo(t, s, v) ==
  /\ t \in Seq(Int)
  /\ Len(t) >= Len(v)
  /\ \A i \in 1..Len(t) :
       IF i > Len(t) - Len(v)
       THEN t[i] = v[i - (Len(t) - Len(v))]
       ELSE /\ Len(s) + Len(v) - Len(t) + i \in 1..Len(s)
            /\ t[i] = s[Len(s) + Len(v) - Len(t) + i]

(* What becomes of a sequence that is cut to its last n values. *)
LEMMA LastValuesFacts ==
  ASSUME NEW s \in Seq(Int), NEW n \in Nat
  PROVE  CutFrom(Outs!LastValues(s, n), s, n)
<1>1. CASE Len(s) <= n
  BY <1>1 DEF Outs!LastValues, CutFrom
<1>2. CASE ~(Len(s) <= n)
  <2>1. Outs!LastValues(s, n) = SubSeq(s, Len(s) - n + 1, Len(s))
    BY <1>2 DEF Outs!LastValues
  <2>2. Len(s) - n + 1 \in 1..(Len(s) + 1) /\ Len(s) \in Nat
    BY <1>2
  <2>3. /\ SubSeq(s, Len(s) - n + 1, Len(s)) \in Seq(Int)
        /\ Len(SubSeq(s, Len(s) - n + 1, Len(s))) = n
        /\ \A i \in 1..n : SubSeq(s, Len(s) - n + 1, Len(s))[i] = s[Len(s) - n + i]
    <3>1. \A i \in (Len(s) - n + 1)..Len(s) : s[i] \in Int
      BY <2>2
    <3>2. /\ SubSeq(s, Len(s) - n + 1, Len(s)) \in Seq(Int)
          /\ Len(SubSeq(s, Len(s) - n + 1, Len(s)))
               = IF Len(s) - n + 1 <= Len(s) THEN Len(s) - (Len(s) - n + 1) + 1 ELSE 0
          /\ \A i \in 1..(Len(s) - (Len(s) - n + 1) + 1) :
               SubSeq(s, Len(s) - n + 1, Len(s))[i] = s[Len(s) - n + 1 + i - 1]
      BY <2>2, <3>1, SubSeqProperties
    <3>3. /\ Len(s) - (Len(s) - n + 1) + 1 = n
          /\ \A i \in 1..n : Len(s) - n + 1 + i - 1 = Len(s) - n + i
      BY <2>2
    <3>4. Len(s) - n + 1 <= Len(s) \/ n = 0
      BY <2>2
    <3>5. QED
      BY <2>2, <3>2, <3>3, <3>4
  <2>4. QED
    BY <1>2, <2>1, <2>3 DEF CutFrom
<1>3. QED
  BY <1>1, <1>2

(* A buffer that values have been written to: they are its end, and before    *)
(* them comes what was the end of it.                                         *)
LEMMA WrittenFacts ==
  ASSUME NEW s \in Seq(Int), NEW v \in Seq(Int), NEW n \in Nat, Len(v) <= n
  PROVE  AppendedTo(Outs!LastValues(s \o v, n), s, v)
<1> DEFINE t == Outs!LastValues(s \o v, n)
<1> DEFINE both == s \o v
<1>1. both \in Seq(Int) /\ Len(both) = Len(s) + Len(v)
  OBVIOUS
<1>2. \A j \in 1..(Len(s) + Len(v)) : both[j] = IF j <= Len(s) THEN s[j] ELSE v[j - Len(s)]
  OBVIOUS
<1>3. t = Outs!LastValues(both, n)
  OBVIOUS
<1> HIDE DEF both, t
<1>4. /\ t \in Seq(Int)
      /\ Len(t) = IF Len(both) <= n THEN Len(both) ELSE n
      /\ \A i \in 1..Len(t) : t[i] = both[Len(both) - Len(t) + i]
  BY <1>1, <1>3, LastValuesFacts DEF CutFrom
<1>5. Len(s) \in Nat /\ Len(v) \in Nat /\ Len(t) \in Nat
  BY <1>4
<1>6. ASSUME NEW i \in 1..Len(t)
      PROVE  IF i > Len(t) - Len(v)
             THEN t[i] = v[i - (Len(t) - Len(v))]
             ELSE /\ Len(s) + Len(v) - Len(t) + i \in 1..Len(s)
                  /\ t[i] = s[Len(s) + Len(v) - Len(t) + i]
  <2> DEFINE j == Len(s) + Len(v) - Len(t) + i
  <2>1. /\ j \in 1..(Len(s) + Len(v))
        /\ j <= Len(s) <=> ~(i > Len(t) - Len(v))
        /\ j - Len(s) = i - (Len(t) - Len(v))
    <3>1. Len(t) <= Len(s) + Len(v) /\ i \in Int /\ 1 <= i /\ i <= Len(t)
      BY <1>1, <1>4, <1>5
    <3>2. \A a, b, c, k \in Int : c <= a + b /\ 1 <= k /\ k <= c =>
            /\ ((a + b) - c) + k \in 1..(a + b)
            /\ ((a + b) - c) + k <= a <=> ~(k > c - b)
            /\ (((a + b) - c) + k) - a = k - (c - b)
      OBVIOUS
    <3>3. Len(s) \in Int /\ Len(v) \in Int /\ Len(t) \in Int
      BY <1>5
    <3>4. QED
      BY <3>1, <3>2, <3>3
  <2>2. t[i] = both[j]
    <3>1. Len(both) - Len(t) + i = j
      BY <1>1, <1>5
    <3> HIDE DEF j
    <3>2. t[i] = both[Len(both) - Len(t) + i]
      BY <1>4, Zenon
    <3>3. QED
      BY <3>1, <3>2, Zenon
  <2> HIDE DEF j
  <2>3. t[i] = IF j <= Len(s) THEN s[j] ELSE v[j - Len(s)]
    BY <1>2, <2>1, <2>2
  <2> USE DEF j
  <2>4. QED
    BY <2>1, <2>3, <1>5
<1>7. t \in Seq(Int) /\ Len(t) >= Len(v)
  BY <1>1, <1>4, <1>5
<1>8. AppendedTo(t, s, v)
  BY <1>6, <1>7, Zenon DEF AppendedTo
<1>9. QED
  BY <1>8 DEF t

(* The loop sizes, and the stretch of buffer that holds the longest loop. *)
LEMMA LoopFacts ==
  ASSUME Outs!StreamOutAssumption
  PROVE  /\ Outs!Outs = 1..Outs!NumOuts /\ Outs!NumOuts \in Nat /\ 1 \in Outs!Outs
         /\ \A o \in Outs!Outs : LoopSizes[o] \in Nat \ {0}
         /\ Outs!BufferLength \in Nat
         /\ \A o \in Outs!Outs : LoopSizes[o] <= Outs!BufferLength
<1>1. /\ Outs!Outs = 1..Outs!NumOuts /\ Outs!NumOuts \in Nat /\ 1 \in Outs!Outs
      /\ \A o \in Outs!Outs : LoopSizes[o] \in Nat \ {0}
      /\ LoopSizes \in Seq(Nat) /\ LoopSizes # <<>>
  BY DEF Outs!StreamOutAssumption, Outs!Outs, Outs!NumOuts
<1> DEFINE Sizes == {LoopSizes[o] : o \in Outs!Outs}
<1>2. \E n \in Sizes : \A o \in Outs!Outs : LoopSizes[o] <= n
  <2>1. PICK m \in DOMAIN LoopSizes : \A o \in DOMAIN LoopSizes : LoopSizes[o] <= LoopSizes[m]
    BY <1>1, SeqMax
  <2>2. QED
    BY <2>1 DEF Outs!Outs
<1>3. Outs!BufferLength \in Sizes /\ \A o \in Outs!Outs : LoopSizes[o] <= Outs!BufferLength
  BY <1>2 DEF Outs!BufferLength
<1>4. QED
  BY <1>1, <1>3

(* A step that ends the program, whatever it was about. *)
LEMMA UpdatesOver ==
  ASSUME UpdatesIInv, outPc' = "exit", UNCHANGED <<buffer, loop, iteration>>,
         loopSize' \in [Outs!Outs -> Nat], \A o \in Outs!Outs : loopSize'[o] <= LoopSizes[o],
         outTurn' \in Outs!Outs, alone' \in [Outs!Outs -> BOOLEAN]
  PROVE  UpdatesIInv'
<1>1. OutsTyped'
  BY DEF UpdatesIInv, OutsTyped, OutPlaces, Updating
<1>2. \A o : ~Done(o)' /\ ~Begun(o)'
  BY DEF Done, Begun, Updating
<1>3. Values(TRUE) \subseteq Values(FALSE) /\ Values(FALSE)' = Values(FALSE)
  BY DEF Values
<1>4. ValuesRecent'
  BY <1>2, <1>3 DEF UpdatesIInv, ValuesRecent, Reach, Values
<1>5. ValuesExact'
  BY <1>2 DEF ValuesExact
<1>6. QED
  BY <1>1, <1>4, <1>5 DEF UpdatesIInv

(* A step between two writes that leaves the outputs alone. *)
LEMMA UpdatesQuiet ==
  ASSUME UpdatesIInv, UNCHANGED <<buffer, loopSize, loop, iteration, outTurn, alone>>,
         outPc' \in OutPlaces \ {"size", "set"},
         outPc' \notin Updating \cup {"exit"} => outTurn = 1,
         \A o \in Outs!Outs : Done(o)' => Done(o)
  PROVE  UpdatesIInv'
<1>1. OutsTyped'
  BY DEF UpdatesIInv, OutsTyped
<1>2. \A o \in Outs!Outs : Begun(o)' => Done(o) /\ Begun(o)
  BY DEF Begun
<1>3. ValuesRecent'
  BY <1>2 DEF UpdatesIInv, ValuesRecent, Reach, Values
<1>4. ValuesExact'
  BY <1>2 DEF UpdatesIInv, ValuesExact
<1>5. QED
  BY <1>1, <1>3, <1>4 DEF UpdatesIInv

(* The same when even the place of the program stays. *)
LEMMA UpdatesStutter ==
  ASSUME UpdatesIInv,
         UNCHANGED <<buffer, loopSize, loop, iteration, outTurn, alone, outPc>>
  PROVE  UpdatesIInv'
BY DEF UpdatesIInv, OutsTyped, ValuesRecent, ValuesExact, Done, Begun, Values, Reach

(* The calls of the program that write to no output. *)
LEMMA UpdatesOtherCalls ==
  ASSUME Outs!StreamOutAssumption, UpdatesIInv, NEW e \in Outs!Outcome,
         \/ Outs!Open(e) \/ Outs!Lookup(e) \/ Outs!Configure(e)
         \/ Outs!Start(e) \/ Outs!Read(e) \/ Outs!Stop(e) \/ Outs!Close(e)
  PROVE  UpdatesIInv'
<1>1. UNCHANGED <<buffer, loopSize, loop, iteration, outTurn, alone>>
  BY DEF Outs!Open, Outs!Lookup, Outs!Configure, Outs!Start, Outs!Read, Outs!Stop,
         Outs!Close, Outs!outVars, Outs!updaterVars
<1>2. CASE outPc' = "exit"
  BY <1>1, <1>2, UpdatesOver DEF UpdatesIInv, OutsTyped, ValuesRecent
<1>3. CASE outPc' # "exit"
  <2>1. <<outPc, outPc'>> \in
          {<<"open", "info">>, <<"info", "target">>, <<"target", "enable">>,
           <<"enable", "buffer">>, <<"names", "configure">>, <<"configure", "start">>,
           <<"start", "read">>, <<"read", "buffer">>, <<"stop", "close">>}
    BY <1>3 DEF Outs!Open, Outs!Lookup, Outs!Configure, Outs!Start, Outs!Read, Outs!Stop,
         Outs!Close, Outs!OpenOrDie, Outs!ErrorCheck, Outs!WriteNameOrDie, Outs!CloseOrDie
  <2>2. \A o \in Outs!Outs : Done(o)' => Done(o)
    BY <1>1, <2>1, LoopFacts DEF Done, Updating, UpdatesIInv, OutsTyped
  <2>3. QED
    BY <1>1, <2>1, <2>2, UpdatesQuiet DEF OutPlaces, Updating, UpdatesIInv, OutsTyped
<1>4. QED
  BY <1>2, <1>3

(* Count: every output has had its update, so no value is more than one       *)
(* iteration behind the next.                                                 *)
LEMMA UpdatesCount ==
  ASSUME UpdatesIInv, Outs!Count
  PROVE  UpdatesIInv'
<1>1. /\ outPc = "count" /\ outPc' \in {"read", "stop"}
      /\ iteration' = iteration + 1 /\ iteration \in Nat
      /\ UNCHANGED <<buffer, loopSize, loop, outTurn, alone>>
  BY DEF Outs!Count, Outs!outVars, Outs!updaterVars, UpdatesIInv, OutsTyped
<1>2. OutsTyped'
  BY <1>1 DEF UpdatesIInv, OutsTyped, OutPlaces, Updating
<1>3. \A o : Done(o) /\ Begun(o) /\ ~Done(o)' /\ ~Begun(o)'
  BY <1>1 DEF Done, Begun, Updating
<1>4. ASSUME NEW x \in Values(TRUE)
      PROVE  x \in Values(FALSE)'
  BY <1>1 DEF Values
<1>5. ValuesRecent'
  <2>1. \A o \in Outs!Outs :
          /\ loopSize[o] <= LoopSizes[o]
          /\ \A i \in Reach(o) : buffer[o][i] \in Values(TRUE)
          /\ \A i \in DOMAIN loop[o] : loop[o][i] \in Values(TRUE)
    BY <1>3 DEF UpdatesIInv, ValuesRecent, Values
  <2>2. \A o : Reach(o)' = Reach(o)
    BY <1>1 DEF Reach
  <2>3. QED
    BY <1>1, <1>3, <1>4, <2>1, <2>2 DEF ValuesRecent, Values
<1>6. ValuesExact'
  BY <1>1, <1>3 DEF ValuesExact
<1>7. QED
  BY <1>2, <1>5, <1>6 DEF UpdatesIInv

(* Output o plays t when it is told to play what was written to its buffer. *)
Played(t, o) ==
  /\ t \in Seq(Int)
  /\ Len(t) = IF Len(buffer[o]) <= loopSize[o] THEN Len(buffer[o]) ELSE loopSize[o]
  /\ \A i \in DOMAIN t : \E j \in Reach(o) : t[i] = buffer[o][j]

(* What an output plays is cut from the part of its buffer that a loop can be *)
(* made of.                                                                   *)
LEMMA PlayedFacts ==
  ASSUME Outs!StreamOutAssumption, UpdatesIInv, NEW o \in Outs!Outs
  PROVE  Played(Outs!LastValues(buffer[o], loopSize[o]), o)
<1> DEFINE t == Outs!LastValues(buffer[o], loopSize[o])
<1>1. /\ buffer[o] \in Seq(Int) /\ loopSize[o] \in Nat /\ LoopSizes[o] \in Nat
      /\ loopSize[o] <= LoopSizes[o]
  BY LoopFacts DEF UpdatesIInv, OutsTyped, ValuesRecent
<1>2. CutFrom(t, buffer[o], loopSize[o])
  BY <1>1, LastValuesFacts, Zenon
<1> HIDE DEF t
<1> USE <1>2 DEF CutFrom
<1>3. ASSUME NEW i \in DOMAIN t
      PROVE  \E j \in Reach(o) : t[i] = buffer[o][j]
  <2> DEFINE j == Len(buffer[o]) - Len(t) + i
  <2>1. /\ i \in 1..Len(t) /\ Len(t) \in Nat /\ Len(buffer[o]) \in Nat
        /\ DOMAIN buffer[o] = 1..Len(buffer[o])
    BY <1>1, <1>2
  <2>2. j \in 1..Len(buffer[o]) /\ j > Len(buffer[o]) - LoopSizes[o]
    <3>1. Len(t) <= Len(buffer[o]) /\ Len(t) <= loopSize[o]
      BY <1>1, <1>2, <2>1
    <3>2. i \in Int /\ 1 <= i /\ i <= Len(t)
      BY <2>1
    <3>3. \A b, l, n, k \in Int : 1 <= k /\ k <= l /\ l <= b /\ l <= n
             => (b - l) + k \in 1..b /\ (b - l) + k > b - n
      OBVIOUS
    <3>4. Len(buffer[o]) \in Int /\ Len(t) \in Int /\ LoopSizes[o] \in Int
          /\ Len(t) <= LoopSizes[o]
      BY <1>1, <2>1, <3>1
    <3>5. QED
      BY <3>1, <3>2, <3>3, <3>4, Zenon
  <2>3. j \in Reach(o)
    BY <2>1, <2>2 DEF Reach
  <2>4. QED
    BY <1>2, <2>1, <2>3
<1>4. Played(t, o)
  BY <1>2, <1>3, Zenon DEF Played
<1>5. QED
  BY <1>4 DEF t

(* WriteBuffer: the stretch a loop can be made of is all of this iteration.   *)
LEMMA UpdatesWriteBuffer ==
  ASSUME Outs!StreamOutAssumption, UpdatesIInv, NEW e \in Outs!Outcome, Outs!WriteBuffer(e)
  PROVE  UpdatesIInv'
<1>1. /\ outPc = "buffer" /\ UNCHANGED <<loopSize, loop, iteration, outTurn>>
      /\ alone' = [alone EXCEPT ![outTurn] = TRUE]
      /\ outTurn \in Outs!Outs /\ alone \in [Outs!Outs -> BOOLEAN] /\ iteration \in Nat
      /\ buffer \in [Outs!Outs -> Seq(Int)]
  BY DEF Outs!WriteBuffer, Outs!BufferWritten, Outs!outVars, UpdatesIInv, OutsTyped
<1>2. CASE e = "error"
  <2>1. outPc' = "exit" /\ UNCHANGED buffer
    BY <1>2 DEF Outs!WriteBuffer, Outs!ErrorCheck, Outs!ErrorCheckDies, Outs!outVars
  <2>2. alone' \in [Outs!Outs -> BOOLEAN]
    BY <1>1
  <2>3. QED
    BY <1>1, <2>1, <2>2, UpdatesOver DEF UpdatesIInv, OutsTyped, ValuesRecent
<1>3. CASE e # "error"
  <2> DEFINE new == Outs!NewValues
             t == Outs!LastValues(buffer[outTurn] \o new, Outs!BufferLength)
  <2>1. outPc' = "size" /\ buffer' = [buffer EXCEPT ![outTurn] = t]
    BY <1>1, <1>3 DEF Outs!WriteBuffer, Outs!BufferWritten, Outs!ErrorCheck,
         Outs!ErrorCheckDies, Outs!Outcome
  <2>2. /\ new \in Seq(Int) /\ Len(new) = LoopSizes[outTurn]
        /\ \A i \in 1..LoopSizes[outTurn] : new[i] = iteration
    <3>1. LoopSizes[outTurn] \in Nat /\ iteration \in Int
      BY <1>1, LoopFacts
    <3>2. new = [i \in 1..LoopSizes[outTurn] |-> iteration]
      BY DEF Outs!NewValues
    <3> HIDE DEF new
    <3>3. QED
      BY <3>1, <3>2
  <2> HIDE DEF new
  <2>3. /\ t \in Seq(Int) /\ Len(t) >= LoopSizes[outTurn]
        /\ \A i \in 1..Len(t) : i > Len(t) - LoopSizes[outTurn] =>
              t[i] = new[i - (Len(t) - LoopSizes[outTurn])]
    <3>1. buffer[outTurn] \in Seq(Int)
      BY <1>1
    <3>2. Len(new) <= Outs!BufferLength /\ Outs!BufferLength \in Nat
      BY <1>1, <2>2, LoopFacts
    <3>0. t = Outs!LastValues(buffer[outTurn] \o new, Outs!BufferLength)
      OBVIOUS
    <3> HIDE DEF t
    <3>3. AppendedTo(t, buffer[outTurn], new)
      BY <2>2, <3>0, <3>1, <3>2, WrittenFacts, Zenon
    <3>4. QED
      BY <2>2, <3>3, Zenon DEF AppendedTo
  <2> HIDE DEF t
  <2>4. buffer'[outTurn] = t /\ \A o \in Outs!Outs \ {outTurn} : buffer'[o] = buffer[o]
    BY <1>1, <2>1
  <2>5. /\ alone'[outTurn] = TRUE
        /\ \A o \in Outs!Outs \ {outTurn} : alone'[o] = alone[o]
    BY <1>1
  <2>6. \A i \in Reach(outTurn)' : buffer'[outTurn][i] = iteration
    <3>1. ASSUME NEW i \in Reach(outTurn)'
          PROVE  t[i] = iteration
      <4>1. i \in 1..Len(t) /\ Len(t) \in Nat /\ LoopSizes[outTurn] \in Nat \ {0}
            /\ i > Len(t) - LoopSizes[outTurn]
        BY <1>1, <2>3, <2>4, LoopFacts DEF Reach
      <4>2. i - (Len(t) - LoopSizes[outTurn]) \in 1..LoopSizes[outTurn]
        BY <2>3, <4>1
      <4>3. QED
        BY <2>2, <2>3, <4>1, <4>2
    <3>2. QED
      BY <2>4, <3>1
  <2>7. \A o \in Outs!Outs : /\ Done(o)' <=> Done(o)
                             /\ ~Begun(o)' => o # outTurn /\ ~Begun(o)
                             /\ o # outTurn => (Begun(o)' <=> Begun(o))
    BY <1>1, <2>1 DEF Done, Begun, Updating
  <2>8. OutsTyped'
    BY <1>1, <2>1, <2>3 DEF UpdatesIInv, OutsTyped, OutPlaces, Updating
  <2>9. ValuesRecent'
    <3> SUFFICES ASSUME NEW o \in Outs!Outs
                 PROVE  /\ loopSize'[o] <= LoopSizes[o]
                        /\ \A i \in Reach(o)' : buffer'[o][i] \in Values(Begun(o))'
                        /\ \A i \in DOMAIN loop'[o] : loop'[o][i] \in Values(Done(o))'
      BY DEF ValuesRecent
    <3>1. loopSize'[o] <= LoopSizes[o]
          /\ \A i \in DOMAIN loop'[o] : loop'[o][i] \in Values(Done(o))'
      BY <1>1, <2>7 DEF UpdatesIInv, ValuesRecent, Values
    <3>2. CASE o = outTurn
      BY <2>6, <3>1, <3>2, <1>1 DEF Values
    <3>3. CASE o # outTurn
      BY <1>1, <2>4, <2>7, <3>1, <3>3 DEF UpdatesIInv, ValuesRecent, Values, Reach
    <3>4. QED
      BY <3>2, <3>3
  <2>10. ValuesExact'
    <3>1. \A o \in Outs!Outs : Done(o)' => Done(o) /\ o # outTurn
      <4>1. \A o \in Outs!Outs : (Done(o)' <=> Done(o)) /\ (Done(o) => o < outTurn)
        BY <1>1, <2>1 DEF Done, Updating
      <4>2. outTurn \in Int
        <5>1. outTurn \in Outs!Outs /\ Outs!Outs = 1..Outs!NumOuts
          BY <1>1, LoopFacts
        <5>2. QED
          BY <5>1
      <4>3. QED
        BY <4>1, <4>2
    <3>3. Len(buffer'[outTurn]) >= LoopSizes[outTurn]
      BY <2>3, <2>4
    <3>4. QED
      BY <1>1, <2>1, <2>5, <2>6, <3>1, <3>3 DEF UpdatesIInv, ValuesExact
  <2>11. QED
    BY <2>8, <2>9, <2>10 DEF UpdatesIInv
<1>4. QED
  BY <1>2, <1>3

(* WriteLoopSize: the loop is to be made of what was just written. *)
LEMMA UpdatesWriteLoopSize ==
  ASSUME Outs!StreamOutAssumption, UpdatesIInv, NEW e \in Outs!Outcome,
         Outs!WriteLoopSize(e)
  PROVE  UpdatesIInv'
<1>1. /\ outPc = "size" /\ UNCHANGED <<buffer, loop, iteration, outTurn, alone>>
      /\ outTurn \in Outs!Outs /\ loopSize \in [Outs!Outs -> Nat]
      /\ loopSize' \in {loopSize, [loopSize EXCEPT ![outTurn] = LoopSizes[outTurn]]}
      /\ e # "error" => loopSize' = [loopSize EXCEPT ![outTurn] = LoopSizes[outTurn]]
  BY DEF Outs!WriteLoopSize, Outs!LoopSizeWritten, Outs!outVars, Outs!updaterVars,
         UpdatesIInv, OutsTyped
<1>2. outPc' = "exit" \/ (outPc' = "set" /\ e # "error")
  BY DEF Outs!WriteLoopSize, Outs!WriteNameOrDie, Outs!WriteNameOrDieDies
<1>3. CASE outPc' = "exit"
  <2>1. loopSize' \in [Outs!Outs -> Nat] /\ \A o \in Outs!Outs : loopSize'[o] <= LoopSizes[o]
    <3>1. /\ \A o \in Outs!Outs : LoopSizes[o] \in Nat
          /\ \A o \in Outs!Outs : loopSize[o] <= LoopSizes[o]
      BY LoopFacts DEF UpdatesIInv, ValuesRecent
    <3>2. QED
      BY <1>1, <3>1
  <2>2. QED
    BY <1>1, <1>3, <2>1, UpdatesOver DEF UpdatesIInv, OutsTyped
<1>4. CASE outPc' = "set" /\ e # "error"
  <2>1. loopSize' = [loopSize EXCEPT ![outTurn] = LoopSizes[outTurn]]
    BY <1>1, <1>4
  <2>2. \A o \in Outs!Outs : (Done(o)' <=> Done(o)) /\ (Begun(o)' <=> Begun(o))
    BY <1>1, <1>4 DEF Done, Begun, Updating
  <2>3. OutsTyped'
    BY <1>1, <1>4, <2>1, LoopFacts DEF UpdatesIInv, OutsTyped, OutPlaces, Updating
  <2>4. ValuesRecent'
    BY <1>1, <2>1, <2>2, LoopFacts DEF UpdatesIInv, ValuesRecent, Values, Reach
  <2>5. ValuesExact'
    BY <1>1, <1>4, <2>1, <2>2 DEF UpdatesIInv, ValuesExact, Reach
  <2>6. QED
    BY <2>3, <2>4, <2>5 DEF UpdatesIInv
<1>5. QED
  BY <1>2, <1>3, <1>4

(* SetLoop: the output plays what was written, and the next is taken up.      *)
LEMMA UpdatesSetLoop ==
  ASSUME Outs!StreamOutAssumption, UpdatesIInv, NEW e \in Outs!Outcome, Outs!SetLoop(e)
  PROVE  UpdatesIInv'
<1> DEFINE t == Outs!LastValues(buffer[outTurn], loopSize[outTurn])
<1>1. /\ outPc = "set" /\ UNCHANGED <<buffer, loopSize, iteration, alone>>
      /\ outTurn \in 1..Outs!NumOuts /\ Outs!Outs = 1..Outs!NumOuts
      /\ outTurn' = IF outTurn < Outs!NumOuts THEN outTurn + 1 ELSE 1
      /\ outTurn' \in Outs!Outs
      /\ loop \in [Outs!Outs -> Seq(Int)]
  <2>1. UNCHANGED <<buffer, loopSize>>
    BY DEF Outs!SetLoop, Outs!LoopSet, Outs!outVars
  <2>2. QED
    BY <2>1, LoopFacts DEF Outs!SetLoop, Outs!updaterVars, UpdatesIInv, OutsTyped
<1>2. \/ outPc' = "exit" /\ loop' \in {loop, [loop EXCEPT ![outTurn] = t]}
      \/ /\ outPc' = IF outTurn < Outs!NumOuts
                     THEN IF outStarted THEN "buffer" ELSE "target"
                     ELSE IF outStarted THEN "count" ELSE "names"
         /\ loop' = [loop EXCEPT ![outTurn] = t]
  BY DEF Outs!SetLoop, Outs!LoopSet, Outs!outVars, Outs!WriteNameOrDie,
         Outs!WriteNameOrDieDies
<1>3. /\ t \in Seq(Int)
      /\ Len(t) = IF Len(buffer[outTurn]) <= loopSize[outTurn]
                  THEN Len(buffer[outTurn]) ELSE loopSize[outTurn]
      /\ \A i \in DOMAIN t : \E j \in Reach(outTurn) : t[i] = buffer[outTurn][j]
  <2>1. outTurn \in Outs!Outs
    BY <1>1
  <2>2. Played(t, outTurn)
    BY <2>1, PlayedFacts, Zenon
  <2>3. QED
    BY <2>2 DEF Played
<1> HIDE DEF t
<1>4. Begun(outTurn) /\ ~Done(outTurn)
  BY <1>1 DEF Begun, Done, Updating
<1>5. \A i \in DOMAIN t : t[i] \in Values(TRUE)
  BY <1>1, <1>3, <1>4 DEF UpdatesIInv, ValuesRecent, Values
<1>6. \A o \in Outs!Outs :
        /\ Done(o)' => Done(o) \/ (o = outTurn /\ loop' = [loop EXCEPT ![outTurn] = t])
        /\ Begun(o)' => Begun(o) /\ Done(o)'
  <2> SUFFICES ASSUME NEW o \in Outs!Outs
               PROVE  /\ Done(o)' =>
                           Done(o) \/ (o = outTurn /\ loop' = [loop EXCEPT ![outTurn] = t])
                      /\ Begun(o)' => Begun(o) /\ Done(o)'
    OBVIOUS
  <2>1. o \in Int /\ Outs!NumOuts \in Nat /\ o <= Outs!NumOuts
    BY <1>1, LoopFacts
  <2>2. CASE outPc' = "exit"
    BY <2>2 DEF Done, Begun, Updating
  <2>3. CASE outPc' # "exit" /\ outTurn < Outs!NumOuts
    <3>1. outPc' \in {"buffer", "target"} /\ outTurn' = outTurn + 1
          /\ loop' = [loop EXCEPT ![outTurn] = t]
      BY <1>1, <1>2, <2>3
    <3>2. Begun(o)' <=> Done(o)'
      BY <3>1 DEF Begun
    <3>3. Done(o)' => o < outTurn + 1
      BY <3>1 DEF Done
    <3>4. QED
      BY <1>1, <2>1, <3>1, <3>2, <3>3 DEF Done, Begun, Updating
  <2>4. CASE outPc' # "exit" /\ ~(outTurn < Outs!NumOuts)
    <3>1. outPc' \in {"count", "names"} /\ loop' = [loop EXCEPT ![outTurn] = t]
      BY <1>2, <2>4
    <3>2. Begun(o)' <=> Done(o)'
      BY <3>1 DEF Begun
    <3>3. o < outTurn \/ o = outTurn
      BY <1>1, <2>1, <2>4
    <3>4. QED
      BY <1>1, <3>1, <3>2, <3>3 DEF Done, Begun, Updating
  <2>5. QED
    BY <2>2, <2>3, <2>4
<1>7. \A o \in Outs!Outs \ {outTurn} : loop'[o] = loop[o]
  BY <1>1, <1>2
<1>8. \A o \in Outs!Outs : o = outTurn =>
        loop'[o] = t \/ (loop'[o] = loop[o] /\ ~Done(o)')
  BY <1>1, <1>2 DEF Done, Updating
<1>9. OutsTyped'
  BY <1>1, <1>2, <1>3 DEF UpdatesIInv, OutsTyped, OutPlaces, Updating
<1>10. ValuesRecent'
  <2> SUFFICES ASSUME NEW o \in Outs!Outs
               PROVE  /\ loopSize'[o] <= LoopSizes[o]
                      /\ \A i \in Reach(o)' : buffer'[o][i] \in Values(Begun(o))'
                      /\ \A i \in DOMAIN loop'[o] : loop'[o][i] \in Values(Done(o))'
    BY DEF ValuesRecent
  <2>1. /\ loopSize'[o] <= LoopSizes[o]
        /\ \A i \in Reach(o)' : buffer'[o][i] \in Values(Begun(o))'
    BY <1>1, <1>6 DEF UpdatesIInv, ValuesRecent, Values, Reach
  <2>2. CASE loop'[o] = loop[o] /\ (Done(o)' => Done(o))
    BY <1>1, <2>1, <2>2 DEF UpdatesIInv, ValuesRecent, Values
  <2>3. CASE o = outTurn /\ loop'[outTurn] = t
    BY <1>1, <1>5, <2>1, <2>3 DEF Values
  <2>4. CASE o # outTurn
    BY <1>6, <1>7, <2>2, <2>4
  <2>5. CASE o = outTurn
    <3>1. CASE loop'[o] = t
      BY <2>3, <2>5, <3>1
    <3>2. CASE loop'[o] = loop[o] /\ ~Done(o)'
      BY <2>2, <3>2
    <3>3. QED
      BY <1>8, <2>5, <3>1, <3>2
  <2>6. QED
    BY <2>4, <2>5
<1>11. ValuesExact'
  <2> SUFFICES ASSUME NEW o \in Outs!Outs, alone[o], Done(o)'
               PROVE  loop'[o] = [i \in 1..LoopSizes[o] |-> iteration]
    BY <1>1, <1>2 DEF ValuesExact
  <2>0. o = outTurn => loop'[o] = t
    BY <1>8
  <2>1. CASE o # outTurn
    BY <1>6, <1>7, <2>1 DEF UpdatesIInv, ValuesExact
  <2>2. CASE o = outTurn
    <3>1. /\ Len(buffer[o]) >= LoopSizes[o] /\ loopSize[o] = LoopSizes[o]
          /\ \A i \in Reach(o) : buffer[o][i] = iteration
      BY <1>1, <2>2 DEF UpdatesIInv, ValuesExact
    <3>2. loop'[o] = t
      BY <2>0, <2>2
    <3>3. LoopSizes[o] \in Nat /\ Len(buffer[o]) \in Nat
      BY <2>2, LoopFacts DEF UpdatesIInv, OutsTyped
    <3>4. Len(t) = LoopSizes[o]
      BY <1>3, <2>2, <3>1, <3>3
    <3>5. \A i \in 1..LoopSizes[o] : t[i] = iteration
      BY <1>3, <2>2, <3>1, <3>3, <3>4
    <3>6. QED
      BY <1>3, <3>2, <3>3, <3>4, <3>5
  <2>3. QED
    BY <2>1, <2>2
<1>12. QED
  BY <1>9, <1>10, <1>11 DEF UpdatesIInv

(* The three writes of stream_out_update, which know nothing of the others:   *)
(* its output may play what the program has begun to write, but the program   *)
(* is no longer alone.                                                        *)
LEMMA UpdatesUpdateStreamOut ==
  ASSUME Outs!StreamOutAssumption, UpdatesIInv, NEW e \in Outs!Outcome,
         Outs!UpdateStreamOut(e)
  PROVE  UpdatesIInv'
<1>1. /\ UNCHANGED <<outPc, iteration, outTurn>>
      /\ alone' = [alone EXCEPT ![1] = FALSE]
  BY DEF Outs!UpdateStreamOut, Outs!UpdateStep, Outs!programVars
<1>2. /\ 1 \in Outs!Outs /\ LoopSizes[1] \in Nat \ {0}
      /\ buffer \in [Outs!Outs -> Seq(Int)] /\ loop \in [Outs!Outs -> Seq(Int)]
      /\ loopSize \in [Outs!Outs -> Nat] /\ alone \in [Outs!Outs -> BOOLEAN]
  BY LoopFacts DEF UpdatesIInv, OutsTyped
<1>3. \A o : (Done(o)' <=> Done(o)) /\ (Begun(o)' <=> Begun(o)) /\ (Done(o) => Begun(o))
  BY <1>1 DEF Done, Begun
<1>4. /\ alone' \in [Outs!Outs -> BOOLEAN]
      /\ \A o \in Outs!Outs : alone'[o] => o # 1 /\ alone[o]
  BY <1>1, <1>2
<1>5. \A fresh : Values(fresh)' = Values(fresh)
  BY <1>1 DEF Values
<1>6. CASE UNCHANGED <<buffer, loopSize, loop>>
  <2>1. OutsTyped'
    BY <1>1, <1>4, <1>6 DEF UpdatesIInv, OutsTyped
  <2>2. ValuesRecent'
    BY <1>1, <1>3, <1>6 DEF UpdatesIInv, ValuesRecent, Values, Reach
  <2>3. ValuesExact'
    BY <1>1, <1>3, <1>4, <1>6 DEF UpdatesIInv, ValuesExact, Reach
  <2>4. QED
    BY <2>1, <2>2, <2>3 DEF UpdatesIInv
<1>7. CASE Outs!LoopSizeWritten(1, 1)
  <2>1. loopSize' = [loopSize EXCEPT ![1] = 1] /\ UNCHANGED <<buffer, loop>>
    BY <1>7 DEF Outs!LoopSizeWritten
  <2>2. OutsTyped'
    BY <1>1, <1>2, <1>4, <2>1 DEF UpdatesIInv, OutsTyped
  <2>3. ValuesRecent'
    BY <1>1, <1>2, <1>3, <2>1 DEF UpdatesIInv, ValuesRecent, Values, Reach
  <2>4. ValuesExact'
    BY <1>1, <1>2, <1>3, <1>4, <2>1 DEF UpdatesIInv, ValuesExact, Reach
  <2>5. QED
    BY <2>2, <2>3, <2>4 DEF UpdatesIInv
<1>8. CASE Outs!BufferWritten(1, <<Outs!Other>>)
  <2> DEFINE s == buffer[1]
             v == <<Outs!Other>>
             t == Outs!LastValues(s \o v, Outs!BufferLength)
  <2>1. buffer' = [buffer EXCEPT ![1] = t] /\ UNCHANGED <<loopSize, loop>>
    BY <1>8 DEF Outs!BufferWritten
  <2>2. v \in Seq(Int) /\ Len(v) = 1 /\ v[1] = Outs!Other
    BY DEF Outs!Other
  <2>3. s \in Seq(Int) /\ Outs!BufferLength \in Nat /\ Len(v) <= Outs!BufferLength
    BY <1>2, <2>2, LoopFacts
  <2> HIDE DEF s, v
  <2>4. AppendedTo(t, s, v)
    BY <2>2, <2>3, WrittenFacts, Zenon
  <2> HIDE DEF t
  <2>5. buffer'[1] = t /\ \A o \in Outs!Outs \ {1} : buffer'[o] = buffer[o]
    BY <1>2, <2>1
  <2>6. ASSUME NEW i \in Reach(1)'
        PROVE  t[i] \in Values(Begun(1))'
    <3>1. t \in Seq(Int) /\ Len(t) >= 1
      BY <2>2, <2>4 DEF AppendedTo
    <3>2. i \in 1..Len(t) /\ i > Len(t) - LoopSizes[1] /\ Len(t) \in Nat
      BY <2>5, <3>1 DEF Reach
    <3>3. CASE i > Len(t) - 1
      <4>1. i - (Len(t) - 1) = 1
        BY <3>2, <3>3
      <4>2. t[i] = v[i - (Len(t) - 1)]
        BY <2>2, <2>4, <3>2, <3>3 DEF AppendedTo
      <4>3. QED
        BY <2>2, <4>1, <4>2 DEF Values
    <3>4. CASE ~(i > Len(t) - 1)
      <4> DEFINE j == Len(s) + 1 - Len(t) + i
      <4>1. j \in 1..Len(s) /\ t[i] = s[j]
        BY <2>2, <2>4, <3>2, <3>4 DEF AppendedTo
      <4>2. j > Len(s) - LoopSizes[1]
        <5>1. Len(s) \in Nat
          BY <2>3
        <5>2. QED
          BY <1>2, <3>2, <5>1
      <4> HIDE DEF j
      <4>3. j \in Reach(1)
        BY <2>3, <4>1, <4>2 DEF Reach, s
      <4>4. s[j] \in Values(Begun(1))
        BY <1>2, <4>3 DEF UpdatesIInv, ValuesRecent, s
      <4>5. QED
        BY <1>1, <1>3, <4>1, <4>4 DEF Values
    <3>5. QED
      BY <3>3, <3>4
  <2>7. OutsTyped'
    <3>1. t \in Seq(Int)
      BY <2>4 DEF AppendedTo
    <3>2. QED
      BY <1>1, <1>2, <1>4, <2>1, <3>1 DEF UpdatesIInv, OutsTyped
  <2>8. ValuesRecent'
    <3> SUFFICES ASSUME NEW o \in Outs!Outs
                 PROVE  /\ loopSize'[o] <= LoopSizes[o]
                        /\ \A i \in Reach(o)' : buffer'[o][i] \in Values(Begun(o))'
                        /\ \A i \in DOMAIN loop'[o] : loop'[o][i] \in Values(Done(o))'
      BY DEF ValuesRecent
    <3>1. loopSize'[o] <= LoopSizes[o]
          /\ \A i \in DOMAIN loop'[o] : loop'[o][i] \in Values(Done(o))'
      BY <1>1, <1>3, <2>1 DEF UpdatesIInv, ValuesRecent, Values
    <3>2. CASE o = 1
      BY <2>5, <2>6, <3>1, <3>2
    <3>3. CASE o # 1
      BY <1>1, <1>3, <2>5, <3>1, <3>3 DEF UpdatesIInv, ValuesRecent, Values, Reach
    <3>4. QED
      BY <3>2, <3>3
  <2>9. ValuesExact'
    BY <1>1, <1>3, <1>4, <2>1, <2>5 DEF UpdatesIInv, ValuesExact, Reach
  <2>10. QED
    BY <2>7, <2>8, <2>9 DEF UpdatesIInv
<1>9. CASE Outs!LoopSet(1)
  <2> DEFINE t == Outs!LastValues(buffer[1], loopSize[1])
  <2>1. loop' = [loop EXCEPT ![1] = t] /\ UNCHANGED <<buffer, loopSize>>
    BY <1>9 DEF Outs!LoopSet
  <2>2. Played(t, 1)
    BY <1>2, PlayedFacts, Zenon
  <2> HIDE DEF t
  <2>3. \A i \in DOMAIN t : t[i] \in Values(Done(1))
    <3>1. \A i \in DOMAIN t : t[i] \in Values(Begun(1))
      BY <1>2, <2>2 DEF Played, UpdatesIInv, ValuesRecent
    <3>2. QED
      BY <1>3, <3>1 DEF Values
  <2>4. OutsTyped'
    BY <1>1, <1>2, <1>4, <2>1, <2>2 DEF UpdatesIInv, OutsTyped, Played
  <2>5. ValuesRecent'
    BY <1>1, <1>2, <1>3, <2>1, <2>3 DEF UpdatesIInv, ValuesRecent, Values, Reach
  <2>6. ValuesExact'
    BY <1>1, <1>2, <1>3, <1>4, <2>1 DEF UpdatesIInv, ValuesExact, Reach
  <2>7. QED
    BY <2>4, <2>5, <2>6 DEF UpdatesIInv
<1>10. QED
  BY <1>6, <1>7, <1>8, <1>9 DEF Outs!UpdateStreamOut, Outs!outVars

(* Every step of the program, of its neighbour and of the device. *)
LEMMA UpdatesSteps ==
  ASSUME Outs!StreamOutAssumption, UpdatesIInv, [Outs!Next]_outsVars
  PROVE  UpdatesIInv'
<1>1. ASSUME NEW e \in Outs!Outcome,
             \/ Outs!Open(e) \/ Outs!Lookup(e) \/ Outs!Configure(e)
             \/ Outs!Start(e) \/ Outs!Read(e) \/ Outs!Stop(e) \/ Outs!Close(e)
      PROVE  UpdatesIInv'
  BY <1>1, UpdatesOtherCalls
<1>2. ASSUME NEW e \in Outs!Outcome,
             \/ Outs!WriteBuffer(e) \/ Outs!WriteLoopSize(e) \/ Outs!SetLoop(e)
             \/ Outs!UpdateStreamOut(e)
      PROVE  UpdatesIInv'
  BY <1>2, UpdatesWriteBuffer, UpdatesWriteLoopSize, UpdatesSetLoop,
     UpdatesUpdateStreamOut
<1>3. CASE Outs!Count
  BY <1>3, UpdatesCount
<1>4. CASE Outs!Device \/ Outs!Finished \/ UNCHANGED outsVars
  <2>1. UNCHANGED <<buffer, loopSize, loop, iteration, outTurn, alone, outPc>>
    BY <1>4 DEF Outs!Device, Outs!Finished, Outs!vars, outsVars, Outs!outVars,
       Outs!programVars,
         Outs!updaterVars
  <2>2. QED
    BY <2>1, UpdatesStutter
<1>5. QED
  BY <1>1, <1>2, <1>3, <1>4 DEF Outs!Next, Outs!Program

(* What the invariant of the updates says of what is played. *)
LEMMA UpdatesShow ==
  ASSUME UpdatesIInv
  PROVE  Outs!UpdateReplacesLoop /\ Outs!OutputsAtMostOneApart
<1>1. Outs!UpdateReplacesLoop
  <2>1. \A o \in Outs!Outs : Outs!Updated(o) => Done(o)
    BY DEF Outs!Updated, Done, Updating
  <2>2. QED
    BY <2>1 DEF UpdatesIInv, ValuesExact, Outs!UpdateReplacesLoop
<1>2. Outs!OutputsAtMostOneApart
  <2> SUFFICES ASSUME NEW o \in Outs!Outs, NEW p \in Outs!Outs,
                      NEW i \in DOMAIN loop[o], NEW j \in DOMAIN loop[p],
                      loop[o][i] # Outs!Other, loop[p][j] # Outs!Other
               PROVE  loop[o][i] <= loop[p][j] + 1
    BY DEF Outs!OutputsAtMostOneApart
  <2>1. loop[o][i] \in {iteration, iteration - 1} /\ loop[p][j] \in {iteration, iteration - 1}
    BY DEF UpdatesIInv, ValuesRecent, Values
  <2>2. iteration \in Nat
    BY DEF UpdatesIInv, OutsTyped
  <2>3. QED
    BY <2>1, <2>2
<1>3. QED
  BY <1>1, <1>2

-----------------------------------------------------------------------------
(* The skipped samples of the stream out. *)

BeforeStream == {"open", "info", "target", "enable", "names", "configure", "start"}

(* The scans of the reads that have been counted, and the places of the program *)
(* between a read and its count.                                              *)
ScansCounted == iteration * OutScansPerRead
ReadUncounted == outStarted /\ outPc \in {"buffer", "size", "set", "count"}

(* The inductive invariant of the samples.  That the count of a read adds     *)
(* exactly its skipped samples needs the dummy samples to be those of its     *)
(* window, and the gaps of earlier windows to be settled: scans are lost at   *)
(* the clock's end of the pipeline only.                                      *)
SamplesIInv ==
  /\ outPc \in OutPlaces /\ iteration \in Nat
  /\ outTaken \in Nat /\ outSent \in Nat /\ outScans \in Nat
  /\ outTaken <= outSent /\ outSent <= outScans /\ outLost \subseteq 1..outScans
  /\ ~outStarted => iteration = 0 /\ outTaken = 0
  /\ outPc \in BeforeStream => ~outStarted
  /\ outPc \in {"read", "count", "stop", "close"} => outStarted
  /\ ScansCounted <= outTaken
  /\ outPc = "read" => outTaken = ScansCounted
  /\ ReadUncounted =>
       /\ outTaken = ScansCounted + OutScansPerRead
       /\ aData = (((ScansCounted + 1)..outTaken) \cap outLost) \X (1..OutChannels)
  /\ Outs!SkippedSamplesExact

(* The first n positions, then the m behind them. *)
LEMMA SkippedUpTo ==
  ASSUME NEW L, NEW n \in Nat, NEW m \in Nat
  PROVE  /\ IsFiniteSet(((n + 1)..(n + m)) \cap L)
         /\ Cardinality(L \cap (1..n)) \in Nat
         /\ Cardinality(((n + 1)..(n + m)) \cap L) \in Nat
         /\ Cardinality(L \cap (1..(n + m)))
              = Cardinality(L \cap (1..n)) + Cardinality(((n + 1)..(n + m)) \cap L)
<1> DEFINE A == L \cap (1..n)
           B == ((n + 1)..(n + m)) \cap L
<1>1. IsFiniteSet(1..n) /\ IsFiniteSet((n + 1)..(n + m))
  BY FS_Interval
<1>2. IsFiniteSet(A) /\ IsFiniteSet(B)
  BY <1>1, FS_Intersection
<1>3. L \cap (1..(n + m)) = A \cup B
  OBVIOUS
<1>4. Cardinality(A \cap B) = 0
  <2>1. A \cap B = {}
    OBVIOUS
  <2>2. QED
    BY <2>1, FS_EmptySet
<1>5. Cardinality(A) \in Nat /\ Cardinality(B) \in Nat
  BY <1>2, FS_CardinalityType
<1>6. Cardinality(A \cup B) = Cardinality(A) + Cardinality(B)
  <2>1. Cardinality(A \cup B) = Cardinality(A) + Cardinality(B) - Cardinality(A \cap B)
    BY <1>2, FS_Union
  <2> HIDE DEF A, B
  <2>2. QED
    BY <2>1, <1>4, <1>5
<1>7. QED
  BY <1>2, <1>3, <1>5, <1>6

(* How ScansCounted follows iteration. *)
LEMMA ScansCountedFacts ==
  ASSUME iteration \in Nat
  PROVE  /\ ScansCounted \in Nat
         /\ iteration' = iteration => ScansCounted' = ScansCounted
         /\ iteration' = iteration + 1 => ScansCounted' = ScansCounted + OutScansPerRead
         /\ iteration = 0 => ScansCounted = 0
<1>1. OutScansPerRead \in Nat
  BY PartsAssumption
<1>2. QED
  BY <1>1, SMT DEF ScansCounted

(* The instance of the stream out counts as this module does. *)
LEMMA CardinalityOfOuts ==
  ASSUME NEW S
  PROVE  Outs!Cardinality(S) = Cardinality(S)
BY DEF Outs!Cardinality, Cardinality, Outs!IsFiniteSet, IsFiniteSet

(* The total in the terms of the invariant, in a state and in the next. *)
LEMMA SkippedSamples ==
  /\ Outs!SkippedSamplesExact
       <=> totalSkippedScans = OutChannels * Cardinality(outLost \cap (1..ScansCounted))
  /\ Outs!SkippedSamplesExact'
       <=> totalSkippedScans' = OutChannels * Cardinality(outLost' \cap (1..ScansCounted'))
BY CardinalityOfOuts DEF Outs!SkippedSamplesExact, ScansCounted

(* A step that leaves the pipeline and the counts alone. *)
LEMMA SamplesQuiet ==
  ASSUME SamplesIInv, UNCHANGED <<outTaken, outSent, outScans, outLost, iteration, aData,
                                  totalSkippedScans, outStarted>>,
         outPc' \in OutPlaces,
         outPc' \in BeforeStream => ~outStarted,
         outPc' \in {"read", "count", "stop", "close"} => outStarted,
         outPc' = "read" => outTaken = ScansCounted,
         ReadUncounted' => ReadUncounted
  PROVE  SamplesIInv'
<1>1. ScansCounted' = ScansCounted
  BY DEF ScansCounted
<1>2. QED
  BY <1>1 DEF SamplesIInv, Outs!SkippedSamplesExact

(* The calls of the program, but for Start, Read and Count. *)
LEMMA SamplesOtherCalls ==
  ASSUME SamplesIInv, NEW e \in Outs!Outcome,
         \/ Outs!Open(e) \/ Outs!Lookup(e) \/ Outs!Configure(e) \/ Outs!WriteBuffer(e)
         \/ Outs!WriteLoopSize(e) \/ Outs!SetLoop(e) \/ Outs!Stop(e) \/ Outs!Close(e)
  PROVE  SamplesIInv'
<1>1. UNCHANGED <<outTaken, outSent, outScans, outLost, iteration, aData,
                  totalSkippedScans, outStarted>>
  BY DEF Outs!Open, Outs!Lookup, Outs!Configure, Outs!WriteBuffer, Outs!WriteLoopSize,
         Outs!SetLoop, Outs!Stop, Outs!Close, Outs!deviceVars, Outs!StreamStopped
<1>2. \/ outPc' = "exit"
      \/ <<outPc, outPc'>> \in
           {<<"open", "info">>, <<"info", "target">>, <<"target", "enable">>,
            <<"enable", "buffer">>, <<"names", "configure">>, <<"configure", "start">>,
            <<"buffer", "size">>, <<"size", "set">>, <<"stop", "close">>}
      \/ outPc = "set" /\ ~outStarted /\ outPc' \in {"target", "names"}
      \/ outPc = "set" /\ outStarted /\ outPc' \in {"buffer", "count"}
  BY DEF Outs!Open, Outs!Lookup, Outs!Configure, Outs!WriteBuffer, Outs!WriteLoopSize,
         Outs!SetLoop, Outs!Stop, Outs!Close, Outs!OpenOrDie, Outs!ErrorCheck,
         Outs!WriteNameOrDie, Outs!CloseOrDie
<1>3. /\ outPc' \in OutPlaces /\ outPc' # "read"
      /\ outPc' \in BeforeStream => ~outStarted
      /\ outPc' \in {"read", "count", "stop", "close"} => outStarted
  BY <1>2 DEF SamplesIInv, OutPlaces, Updating, BeforeStream
<1>4. ReadUncounted' => ReadUncounted
  BY <1>1, <1>2 DEF SamplesIInv, ReadUncounted, BeforeStream
<1>5. QED
  BY <1>1, <1>3, <1>4, SamplesQuiet

(* Start: the stream begins with its first scan, or the program ends. *)
LEMMA SamplesStart ==
  ASSUME SamplesIInv, NEW e \in Outs!Outcome, Outs!Start(e)
  PROVE  SamplesIInv'
<1>1. /\ outPc = "start" /\ ~outStarted /\ iteration = 0 /\ outTaken = 0
      /\ UNCHANGED <<iteration, aData, totalSkippedScans>>
  BY DEF Outs!Start, SamplesIInv, BeforeStream
<1>2. ScansCounted = 0 /\ ScansCounted' = 0
  BY <1>1, ScansCountedFacts DEF SamplesIInv
<1>3. CASE e = "error"
  BY <1>1, <1>2, <1>3 DEF Outs!Start, Outs!ErrorCheck, Outs!ErrorCheckDies, SamplesIInv,
     Outs!deviceVars, OutPlaces, ReadUncounted, BeforeStream, Outs!SkippedSamplesExact
<1>4. CASE e # "error"
  <2>1. /\ outPc' = "read" /\ outStarted' /\ outTaken' = 0 /\ outSent' = 0 /\ outScans' = 0
        /\ outLost' = {}
    BY <1>4 DEF Outs!Start, Outs!ErrorCheck, Outs!ErrorCheckDies, Outs!Outcome,
       Outs!StreamStarted
  <2>2. totalSkippedScans = OutChannels * Cardinality(outLost \cap (1..0))
    BY <1>2, SkippedSamples DEF SamplesIInv
  <2>3. outLost \cap (1..0) = {} /\ {} \cap (1..0) = {}
    OBVIOUS
  <2>4. Outs!SkippedSamplesExact'
    BY <1>1, <1>2, <2>1, <2>2, <2>3, SkippedSamples
  <2>5. QED
    BY <1>1, <1>2, <2>1, <2>4 DEF SamplesIInv, OutPlaces, ReadUncounted, BeforeStream
<1>5. QED
  BY <1>3, <1>4

(* Read: the dummy samples of the next window. *)
LEMMA SamplesRead ==
  ASSUME SamplesIInv, NEW e \in Outs!Outcome, Outs!Read(e)
  PROVE  SamplesIInv'
<1>1. /\ outPc = "read" /\ outStarted /\ outTaken = ScansCounted
      /\ UNCHANGED <<iteration, totalSkippedScans, outStarted>>
  BY DEF Outs!Read, SamplesIInv
<1>2. CASE e = "error"
  <2>1. outPc' = "exit" /\ UNCHANGED <<outTaken, outSent, outScans, outLost, aData>>
    BY <1>2 DEF Outs!Read, Outs!ErrorCheck, Outs!ErrorCheckDies, Outs!deviceVars
  <2>2. QED
    BY <1>1, <2>1, SamplesQuiet DEF OutPlaces, BeforeStream, ReadUncounted
<1>3. CASE e # "error"
  <2>1. /\ outPc' = "buffer" /\ outTaken' = outTaken + OutScansPerRead
        /\ outSent - outTaken >= OutScansPerRead
        /\ UNCHANGED <<outSent, outScans, outLost>>
        /\ aData' = (((outTaken + 1)..(outTaken + OutScansPerRead)) \cap outLost)
                      \X (1..OutChannels)
    BY <1>3 DEF Outs!Read, Outs!ErrorCheck, Outs!ErrorCheckDies, Outs!Outcome,
       Outs!StreamReadDone, Outs!ReadReady, Outs!ReadData, Outs!Window
  <2>2. ScansCounted \in Nat /\ ScansCounted' = ScansCounted /\ OutScansPerRead \in Nat
    BY <1>1, ScansCountedFacts, PartsAssumption DEF SamplesIInv
  <2>3. Outs!SkippedSamplesExact'
    BY <1>1, <2>1 DEF SamplesIInv, Outs!SkippedSamplesExact
  <2>4. /\ outTaken' \in Nat /\ outTaken' <= outSent /\ ScansCounted <= outTaken'
    BY <1>1, <2>1, <2>2 DEF SamplesIInv
  <2>5. QED
    BY <1>1, <2>1, <2>2, <2>3, <2>4 DEF SamplesIInv, OutPlaces, Updating, ReadUncounted,
       BeforeStream
<1>4. QED
  BY <1>2, <1>3

(* Count: what is added are the skipped samples of the window just read. *)
LEMMA SamplesCount ==
  ASSUME SamplesIInv, Outs!Count
  PROVE  SamplesIInv'
<1>1. /\ outPc = "count" /\ outStarted /\ outPc' \in {"read", "stop"}
      /\ iteration' = iteration + 1
      /\ totalSkippedScans' = totalSkippedScans + Cardinality(aData)
      /\ UNCHANGED <<outTaken, outSent, outScans, outLost, outStarted>>
  BY CardinalityOfOuts DEF Outs!Count, Outs!deviceVars, SamplesIInv
<1>2. /\ ScansCounted \in Nat /\ OutScansPerRead \in Nat /\ OutChannels \in Nat
      /\ ScansCounted' = ScansCounted + OutScansPerRead
  BY <1>1, ScansCountedFacts, PartsAssumption DEF SamplesIInv
<1>3. /\ outTaken = ScansCounted + OutScansPerRead
      /\ aData = (((ScansCounted + 1)..outTaken) \cap outLost) \X (1..OutChannels)
  BY <1>1 DEF SamplesIInv, ReadUncounted
<1> DEFINE gaps == ((ScansCounted + 1)..(ScansCounted + OutScansPerRead)) \cap outLost
           old == Cardinality(outLost \cap (1..ScansCounted))
<1>4. /\ IsFiniteSet(gaps) /\ Cardinality(gaps) \in Nat /\ old \in Nat
      /\ Cardinality(outLost \cap (1..(ScansCounted + OutScansPerRead)))
           = old + Cardinality(gaps)
  BY <1>2, SkippedUpTo
<1>5. Cardinality(aData) = Cardinality(gaps) * OutChannels
  <2>1. IsFiniteSet(1..OutChannels) /\ Cardinality(1..OutChannels) = OutChannels
    <3>1. /\ IsFiniteSet(1..OutChannels)
          /\ Cardinality(1..OutChannels) = IF 1 > OutChannels THEN 0 ELSE OutChannels - 1 + 1
      BY <1>2, FS_Interval
    <3>2. QED
      BY <1>2, <3>1, SMT
  <2>2. aData = gaps \X (1..OutChannels)
    BY <1>3
  <2> HIDE DEF gaps
  <2>3. QED
    BY <1>4, <2>1, <2>2, FS_Product
<1>6. totalSkippedScans = OutChannels * old
  BY SkippedSamples DEF SamplesIInv
<1>7. Outs!SkippedSamplesExact'
  <2>1. OutChannels * old + Cardinality(gaps) * OutChannels
          = OutChannels * (old + Cardinality(gaps))
    <3> HIDE DEF old, gaps
    <3>1. QED
      BY <1>2, <1>4
  <2>2. totalSkippedScans' = OutChannels * (old + Cardinality(gaps))
    BY <1>1, <1>5, <1>6, <2>1
  <2>3. Cardinality(outLost' \cap (1..ScansCounted')) = old + Cardinality(gaps)
    BY <1>1, <1>2, <1>4
  <2>4. QED
    BY <2>2, <2>3, SkippedSamples
<1>8. iteration' \in Nat /\ ScansCounted' = outTaken'
  BY <1>1, <1>2, <1>3 DEF SamplesIInv
<1>9. QED
  BY <1>1, <1>7, <1>8 DEF SamplesIInv, OutPlaces, ReadUncounted, BeforeStream

(* The scan clock and the library: what is behind the reads is settled. *)
LEMMA SamplesDevice ==
  ASSUME SamplesIInv, Outs!Device
  PROVE  SamplesIInv'
<1>1. UNCHANGED <<outPc, iteration, aData, totalSkippedScans, outStarted, outTaken>>
  BY DEF Outs!Device, Outs!programVars, Outs!LibraryReceives, Outs!ClockScan,
     Outs!EndRecovery,
         Outs!Transfer
<1>2. ScansCounted' = ScansCounted /\ ScansCounted \in Nat
  BY <1>1, ScansCountedFacts DEF SamplesIInv
<1>3. CASE Outs!ClockScan
  <2>1. /\ outScans' = outScans + 1 /\ outSent' = outSent
        /\ outLost' \in {outLost, outLost \cup {outScans + 1}}
    BY <1>3 DEF Outs!ClockScan
  <2>2. outScans \in Nat /\ ScansCounted <= outTaken /\ outTaken <= outScans
    BY <1>2 DEF SamplesIInv
  <2>3. \A a, b \in Nat : b <= outTaken => (a..b) \cap outLost' = (a..b) \cap outLost
    BY <2>1, <2>2 DEF SamplesIInv
  <2>4. outLost' \cap (1..ScansCounted) = outLost \cap (1..ScansCounted)
    BY <1>2, <2>2, <2>3
  <2>5. Outs!SkippedSamplesExact'
    BY <1>1, <1>2, <2>4, SkippedSamples DEF SamplesIInv
  <2>6. ((ScansCounted + 1)..outTaken) \cap outLost' = ((ScansCounted + 1)..outTaken) \cap outLost
    BY <1>2, <2>3 DEF SamplesIInv
  <2>7. outSent' <= outScans' /\ outScans' \in Nat /\ outLost' \subseteq 1..outScans'
    BY <2>1 DEF SamplesIInv
  <2>8. QED
    BY <1>1, <1>2, <2>1, <2>5, <2>6, <2>7 DEF SamplesIInv, ReadUncounted
<1>4. CASE ~Outs!ClockScan
  <2>1. UNCHANGED <<outScans, outLost>> /\ outSent' \in Nat
        /\ outSent <= outSent' /\ outSent' <= outScans
    BY <1>4 DEF Outs!Device, Outs!LibraryReceives, Outs!EndRecovery, Outs!Transfer,
       SamplesIInv
  <2>2. QED
    BY <1>1, <1>2, <2>1 DEF SamplesIInv, ReadUncounted, Outs!SkippedSamplesExact
<1>5. QED
  BY <1>3, <1>4

(* Both invariants hold at first, and are kept by every step. *)
LEMMA OutsSteps ==
  /\ Outs!Init => UpdatesIInv /\ SamplesIInv
  /\ UpdatesIInv /\ SamplesIInv /\ [Outs!Next]_outsVars => (UpdatesIInv /\ SamplesIInv)'
<1>1. Outs!StreamOutAssumption /\ OutScansPerRead \in Nat
  BY PartsAssumption
<1>2. ASSUME Outs!Init
      PROVE  UpdatesIInv /\ SamplesIInv
  <2>1. OutsTyped
    BY <1>1, <1>2, LoopFacts DEF Outs!Init, OutsTyped, OutPlaces, Updating
  <2>2. ValuesRecent /\ ValuesExact
    BY <1>1, <1>2, LoopFacts DEF Outs!Init, ValuesRecent, ValuesExact, Reach
  <2>3. outLost \cap (1..0) = {} /\ iteration * OutScansPerRead = 0 /\ iteration = 0
    BY <1>1, <1>2 DEF Outs!Init, Outs!DeviceInit
  <2>4. Outs!SkippedSamplesExact
    <3>1. Cardinality({}) = 0 /\ OutChannels \in Nat
      BY FS_EmptySet, PartsAssumption
    <3>2. QED
      BY <1>2, <2>3, <3>1, SkippedSamples DEF Outs!Init, Outs!DeviceInit, ScansCounted
  <2>5. SamplesIInv
    BY <1>2, <2>3, <2>4 DEF Outs!Init, Outs!DeviceInit, SamplesIInv, OutPlaces,
       BeforeStream,
       ScansCounted, ReadUncounted
  <2>6. QED
    BY <2>1, <2>2, <2>5 DEF UpdatesIInv
<1>3. ASSUME UpdatesIInv, SamplesIInv, [Outs!Next]_outsVars
      PROVE  (UpdatesIInv /\ SamplesIInv)'
  <2>1. UpdatesIInv'
    BY <1>1, <1>3, UpdatesSteps
  <2>2. ASSUME NEW e \in Outs!Outcome,
               \/ Outs!Open(e) \/ Outs!Lookup(e) \/ Outs!Configure(e) \/ Outs!WriteBuffer(e)
               \/ Outs!WriteLoopSize(e) \/ Outs!SetLoop(e) \/ Outs!Stop(e) \/ Outs!Close(e)
        PROVE  SamplesIInv'
    BY <1>3, <2>2, SamplesOtherCalls
  <2>3. ASSUME NEW e \in Outs!Outcome, Outs!Start(e) \/ Outs!Read(e)
        PROVE  SamplesIInv'
    BY <1>3, <2>3, SamplesStart, SamplesRead
  <2>4. ASSUME Outs!Count
        PROVE  SamplesIInv'
    BY <1>3, <2>4, SamplesCount
  <2>5. ASSUME Outs!Device
        PROVE  SamplesIInv'
    BY <1>3, <2>5, SamplesDevice
  <2>6. ASSUME \/ \E e \in Outs!Outcome : Outs!UpdateStreamOut(e)
               \/ Outs!Finished \/ UNCHANGED outsVars
        PROVE  SamplesIInv'
    <3>1. UNCHANGED <<outPc, outTaken, outSent, outScans, outLost, iteration, aData,
                      totalSkippedScans, outStarted>>
      BY <2>6 DEF Outs!UpdateStreamOut, Outs!UpdateStep, Outs!programVars,
         Outs!deviceVars,
         Outs!Finished, Outs!vars, outsVars
    <3>2. QED
      BY <1>3, <3>1, SamplesQuiet DEF SamplesIInv, ReadUncounted
  <2>7. QED
    BY <1>3, <2>1, <2>2, <2>3, <2>4, <2>5, <2>6 DEF Outs!Next, Outs!Program
<1>4. QED
  BY <1>2, <1>3

(* An update leaves the new values and nothing else in the loop of an output  *)
(* that no other program wrote to meanwhile, however torn the update it       *)
(* follows; no output lags more than one update behind another; and the       *)
(* skipped samples add up exactly, wherever the gaps fall.                    *)
THEOREM StreamOutSafeCorrect == Spec => []StreamOutSafe
<1> DEFINE Inv == part = "outs" => UpdatesIInv /\ SamplesIInv
<1>1. Init => Inv
  BY OutsSteps DEF Init
<1>2. Inv /\ [Next]_vars => Inv'
  BY OutsSteps DEF Next, vars
<1>3. Inv => StreamOutSafe
  BY UpdatesShow DEF SamplesIInv, StreamOutSafe
<1>4. QED
  BY <1>1, <1>2, <1>3, PTL DEF Spec

-----------------------------------------------------------------------------
(* The cache that several builds share (SConsCacheDir). *)

CachePlaces == {"idle", "dump", "dead", "lookup", "open", "copy", "stat", "build", "push", "fill",
           "rename", "done"}

Files == [made : Procs \X Nat, whole : BOOLEAN]
FileOrNone == Files \cup {NoFile}

(* Every variable keeps its type. *)
CacheTyped ==
  /\ config \in {"absent", "empty", "written"}
  /\ files \in [Cache!Names -> FileOrNone]
  /\ temp \in [{pid[p] : p \in Procs} -> [Cache!Names -> FileOrNone]]
  /\ local \in [Procs -> [Cache!Names -> FileOrNone]]
  /\ at \in [Procs -> CachePlaces]
  /\ turn \in [Procs -> 1..Len(Outputs)]
  /\ reading \in [Procs -> FileOrNone]
  /\ cached \in [Procs -> SUBSET Cache!Names]
  /\ builds \in [Procs -> Nat]
  /\ kept \in [Cache!Names -> SUBSET Files]

(* What a name in the cache stands for has been kept, and all that was ever *)
(* kept is whole.                                                           *)
CacheWhole ==
  \A t \in Cache!Names :
    /\ \A file \in kept[t] : file.whole
    /\ files[t] # NoFile => files[t] \in kept[t]

(* While the targets are retrieved: those before the turn are cached, and  *)
(* all of them but the one being copied are files of the cache.            *)
CacheRetrieving(p) ==
  /\ at[p] = "dump" => turn[p] = 1 /\ cached[p] = {}
  /\ at[p] \in {"lookup", "open", "copy", "stat"} =>
       cached[p] = {Outputs[i] : i \in 1..(turn[p] - 1)}
  /\ at[p] \in {"lookup", "open", "stat"} =>
       \A t \in cached[p] : local[p][t] \in kept[t]
  /\ at[p] = "copy" => \A t \in cached[p] : t # Cache!t_(p) => local[p][t] \in kept[t]
  /\ at[p] = "copy" => reading[p] \in kept[Cache!t_(p)]
  /\ at[p] = "stat" => local[p][Cache!t_(p)] \in kept[Cache!t_(p)]

(* From the command to the last push: all targets are of this build, and a *)
(* temporary file that is complete is a copy of one of them.               *)
CacheBuilding(p) ==
  /\ at[p] = "build" => cached[p] = {}
  /\ at[p] \in {"push", "fill", "rename"} =>
       cached[p] = {} /\ \A t \in Cache!Names : local[p][t] = Cache!File(p)
  /\ at[p] = "rename" => temp[pid[p]][Cache!t_(p)] = Cache!File(p)

CacheDone(p) ==
  at[p] = "done" =>
    \/ cached[p] = Cache!Names /\ \A t \in Cache!Names : local[p][t] \in kept[t]
    \/ cached[p] = {} /\ \A t \in Cache!Names : local[p][t] = Cache!File(p)

CacheProcess(p) == CacheRetrieving(p) /\ CacheBuilding(p) /\ CacheDone(p)

(* The inductive invariant.  CacheSound alone is not inductive: that a     *)
(* build ends with whole targets needs what the process has gathered before *)
(* it ends, and that a file in the cache is whole needs the temporary file *)
(* it was renamed from to be its owner's alone.                            *)
CacheIInv == CacheTyped /\ CacheWhole /\ \A p \in Procs : CacheProcess(p)

-----------------------------------------------------------------------------
(* The places of the targets. *)
LEMMA OutputsFacts ==
  ASSUME Cache!CacheAssumption
  PROVE  /\ Len(Outputs) \in Nat \ {0}
         /\ Cache!Names = {Outputs[i] : i \in 1..Len(Outputs)}
         /\ \A i \in 1..Len(Outputs) : Outputs[i] \in Cache!Names
         /\ DOMAIN Outputs = 1..Len(Outputs)
<1>1. Outputs \in Seq(Cache!ToSet(Outputs)) /\ Outputs # <<>>
  BY DEF Cache!CacheAssumption
<1>2. DOMAIN Outputs = 1..Len(Outputs) /\ Len(Outputs) \in Nat \ {0}
  BY <1>1
<1>3. QED
  BY <1>2 DEF Cache!Names, Cache!ToSet

(* The target a process is at is one of the targets. *)
LEMMA TargetAt ==
  ASSUME Cache!CacheAssumption, CacheTyped, NEW p \in Procs
  PROVE  Cache!t_(p) \in Cache!Names
  BY OutputsFacts DEF CacheTyped, Cache!t_

(* A build's file is a file, and a copy in progress is one too. *)
LEMMA FileFacts ==
  /\ CacheTyped => \A p \in Procs : Cache!File(p) \in Files /\ Cache!File(p).whole
  /\ \A file \in Files : Cache!Torn(file) \in Files
  BY DEF CacheTyped, Cache!File, Files, Cache!Torn

(* One entry of a function changes, one of a function of functions. *)
LEMMA Updated ==
  ASSUME NEW S, NEW T, NEW f \in [S -> T], NEW x \in S, NEW v \in T
  PROVE  [f EXCEPT ![x] = v] \in [S -> T]
  OBVIOUS

(* Updating one place of a function of functions keeps its type. *)
LEMMA UpdatedIn ==
  ASSUME NEW R, NEW S, NEW T, NEW f \in [R -> [S -> T]], NEW y \in R, NEW x \in S, NEW v \in T
  PROVE  /\ [f EXCEPT ![y][x] = v] \in [R -> [S -> T]]
         /\ [f EXCEPT ![y][x] = v][y] = [f[y] EXCEPT ![x] = v]
         /\ \A z \in R : z # y => [f EXCEPT ![y][x] = v][z] = f[z]
  OBVIOUS

(* A process writes to its own temporary file, whose name no other has. *)
LEMMA TempWritten ==
  ASSUME Cache!CacheAssumption, CacheTyped, NEW p \in Procs, NEW v \in FileOrNone,
         temp' = [temp EXCEPT ![pid[p]][Cache!t_(p)] = v]
  PROVE  /\ temp' \in [{pid[q] : q \in Procs} -> [Cache!Names -> FileOrNone]]
         /\ temp'[pid[p]][Cache!t_(p)] = v
         /\ \A q \in Procs : q # p => temp'[pid[q]] = temp[pid[q]]
<1> DEFINE R == {pid[q] : q \in Procs}
<1>1. temp \in [R -> [Cache!Names -> FileOrNone]] /\ pid[p] \in R /\ Cache!t_(p) \in Cache!Names
  BY TargetAt DEF CacheTyped
<1>2. \A q \in Procs : pid[q] \in R /\ (q # p => pid[q] # pid[p])
  BY DEF Cache!CacheAssumption
<1> HIDE DEF R
<1>3. /\ temp' \in [R -> [Cache!Names -> FileOrNone]]
      /\ temp'[pid[p]] = [temp[pid[p]] EXCEPT ![Cache!t_(p)] = v]
      /\ \A z \in R : z # pid[p] => temp'[z] = temp[z]
  BY <1>1, UpdatedIn
<1>4. temp[pid[p]] \in [Cache!Names -> FileOrNone]
  BY <1>1
<1>5. QED
  BY <1>1, <1>2, <1>3, <1>4 DEF R

(* NotRetrieved leaves no target that had been retrieved. *)
LEMMA NotRetrievedFacts ==
  ASSUME CacheTyped, NEW p \in Procs, Cache!NotRetrieved(p)
  PROVE  /\ at' \in [Procs -> CachePlaces] /\ local' \in [Procs -> [Cache!Names -> FileOrNone]]
         /\ cached' \in [Procs -> SUBSET Cache!Names] /\ reading' \in [Procs -> FileOrNone]
         /\ at'[p] = "build" /\ cached'[p] = {}
<1>1. /\ at \in [Procs -> CachePlaces] /\ local \in [Procs -> [Cache!Names -> FileOrNone]]
      /\ cached \in [Procs -> SUBSET Cache!Names] /\ reading \in [Procs -> FileOrNone]
      /\ "build" \in CachePlaces /\ NoFile \in FileOrNone
  BY DEF CacheTyped, CachePlaces, FileOrNone
<1>2. [t \in Cache!Names |-> IF t \in cached[p] THEN NoFile ELSE local[p][t]]
        \in [Cache!Names -> FileOrNone]
  BY <1>1
<1>3. local' \in [Procs -> [Cache!Names -> FileOrNone]]
  BY <1>1, <1>2 DEF Cache!NotRetrieved
<1>4. at' \in [Procs -> CachePlaces] /\ at'[p] = "build"
  BY <1>1 DEF Cache!NotRetrieved
<1>5. cached' \in [Procs -> SUBSET Cache!Names] /\ cached'[p] = {}
  BY <1>1 DEF Cache!NotRetrieved
<1>6. reading' \in [Procs -> FileOrNone]
  BY <1>1 DEF Cache!NotRetrieved
<1>7. QED
  BY <1>3, <1>4, <1>5, <1>6

(* Pushed goes on with the next target, or ends. *)
LEMMA PushedFacts ==
  ASSUME Cache!CacheAssumption, CacheTyped, NEW p \in Procs, Cache!Pushed(p)
  PROVE  /\ at' \in [Procs -> CachePlaces] /\ turn' \in [Procs -> 1..Len(Outputs)]
         /\ at'[p] \in {"push", "done"}
<1>1. at \in [Procs -> CachePlaces] /\ turn \in [Procs -> 1..Len(Outputs)]
  BY DEF CacheTyped
<1>2. "push" \in CachePlaces /\ "done" \in CachePlaces
  BY DEF CachePlaces
<1>3. turn[p] < Len(Outputs) => turn[p] + 1 \in 1..Len(Outputs)
  BY <1>1, OutputsFacts
<1>4. QED
  BY <1>1, <1>2, <1>3 DEF Cache!Pushed

(* The invariant relates no two processes, but to what was ever kept. *)
OwnOf(p) == <<at[p], turn[p], reading[p], cached[p], builds[p], local[p], temp[pid[p]]>>

(* A process that a step leaves alone keeps its part of the invariant. *)
LEMMA Untouched ==
  ASSUME Cache!CacheAssumption, CacheTyped, NEW p \in Procs,
         CacheProcess(p), UNCHANGED OwnOf(p),
         \A t \in Cache!Names : kept[t] \subseteq kept'[t]
  PROVE  CacheProcess(p)'
<1>1. /\ UNCHANGED <<at[p], turn[p], reading[p], cached[p], builds[p], local[p], temp[pid[p]]>>
      /\ Cache!t_(p) \in Cache!Names /\ cached[p] \subseteq Cache!Names
      /\ Cache!t_(p)' = Cache!t_(p) /\ Cache!File(p)' = Cache!File(p)
  BY TargetAt DEF OwnOf, CacheTyped, Cache!t_, Cache!File
<1>2. CacheRetrieving(p)'
  BY <1>1 DEF CacheProcess, CacheRetrieving
<1>3. CacheBuilding(p)' /\ CacheDone(p)'
  BY <1>1 DEF CacheProcess, CacheBuilding, CacheDone
<1>4. QED
  BY <1>2, <1>3 DEF CacheProcess

(* So a step of process p keeps it if it keeps p's own part. *)
LEMMA StepOf ==
  ASSUME Cache!CacheAssumption, CacheIInv, NEW p \in Procs,
         CacheTyped', CacheWhole', CacheProcess(p)',
         \A q \in Procs : q # p => UNCHANGED OwnOf(q),
         \A t \in Cache!Names : kept[t] \subseteq kept'[t]
  PROVE  CacheIInv'
  BY Untouched DEF CacheIInv

(* The invariant of the cache holds when no process has begun. *)
LEMMA InitIInv ==
  ASSUME Cache!CacheAssumption, Cache!CacheInit
  PROVE  CacheIInv
<1> USE OutputsFacts DEF Cache!CacheInit
<1>1. CacheTyped
  BY DEF CacheTyped, CachePlaces, FileOrNone
<1>2. CacheWhole
  BY DEF CacheWhole
<1>3. \A p \in Procs : CacheProcess(p)
  BY DEF CacheProcess, CacheRetrieving, CacheBuilding, CacheDone
<1>4. QED
  BY <1>1, <1>2, <1>3 DEF CacheIInv

(* OpenConfig keeps the invariant. *)
LEMMA OpenConfigIInv ==
  ASSUME Cache!CacheAssumption, CacheIInv, NEW p \in Procs, Cache!OpenConfig(p)
  PROVE  CacheIInv'
<1> USE OutputsFacts DEF Cache!OpenConfig, Cache!Goes
<1>0. Cache!t_(p) \in Cache!Names /\ CacheTyped /\ CacheWhole /\ CacheProcess(p)
  BY TargetAt DEF CacheIInv
<1>1. CacheTyped'
  BY <1>0, FileFacts DEF CacheTyped, CachePlaces, FileOrNone
<1>2. CacheWhole' /\ \A t \in Cache!Names : kept[t] \subseteq kept'[t]
  BY <1>0 DEF CacheWhole, CacheTyped
<1>3. \A q \in Procs : q # p => UNCHANGED OwnOf(q)
  BY <1>0 DEF OwnOf, CacheTyped
<1>4. CacheRetrieving(p)'
  BY <1>0 DEF CacheProcess, CacheRetrieving, CacheWhole, CacheTyped, Cache!t_
<1>5. CacheBuilding(p)'
  BY <1>0 DEF CacheProcess, CacheBuilding, CacheTyped, Cache!t_, Cache!File
<1>6. CacheDone(p)'
  BY <1>0 DEF CacheProcess, CacheRetrieving, CacheBuilding, CacheDone, CacheWhole,
     CacheTyped, Cache!t_, Cache!File
<1>7. QED
  BY <1>0, <1>1, <1>2, <1>3, <1>4, <1>5, <1>6, StepOf DEF CacheProcess

(* DumpConfig keeps the invariant. *)
LEMMA DumpConfigIInv ==
  ASSUME Cache!CacheAssumption, CacheIInv, NEW p \in Procs, Cache!DumpConfig(p)
  PROVE  CacheIInv'
<1> USE OutputsFacts DEF Cache!DumpConfig, Cache!Goes
<1>0. Cache!t_(p) \in Cache!Names /\ CacheTyped /\ CacheWhole /\ CacheProcess(p)
  BY TargetAt DEF CacheIInv
<1>1. CacheTyped'
  BY <1>0, FileFacts DEF CacheTyped, CachePlaces, FileOrNone
<1>2. CacheWhole' /\ \A t \in Cache!Names : kept[t] \subseteq kept'[t]
  BY <1>0 DEF CacheWhole, CacheTyped
<1>3. \A q \in Procs : q # p => UNCHANGED OwnOf(q)
  BY <1>0 DEF OwnOf, CacheTyped
<1>4. CacheRetrieving(p)'
  BY <1>0 DEF CacheProcess, CacheRetrieving, CacheWhole, CacheTyped, Cache!t_
<1>5. CacheBuilding(p)'
  BY <1>0 DEF CacheProcess, CacheBuilding, CacheTyped, Cache!t_, Cache!File
<1>6. CacheDone(p)'
  BY <1>0 DEF CacheProcess, CacheRetrieving, CacheBuilding, CacheDone, CacheWhole,
     CacheTyped, Cache!t_, Cache!File
<1>7. QED
  BY <1>0, <1>1, <1>2, <1>3, <1>4, <1>5, <1>6, StepOf DEF CacheProcess

(* Lookup keeps the invariant. *)
LEMMA LookupIInv ==
  ASSUME Cache!CacheAssumption, CacheIInv, NEW p \in Procs, Cache!Lookup(p)
  PROVE  CacheIInv'
<1> USE OutputsFacts DEF Cache!Lookup, Cache!NotRetrieved
<1>0. Cache!t_(p) \in Cache!Names /\ CacheTyped /\ CacheWhole /\ CacheProcess(p)
  BY TargetAt DEF CacheIInv
<1>1. CacheTyped'
  <2>1. CASE files[Cache!t_(p)] = NoFile
    BY <1>0, <2>1, NotRetrievedFacts DEF CacheTyped
  <2>2. CASE files[Cache!t_(p)] # NoFile
    BY <1>0, <2>2 DEF CacheTyped, CachePlaces
  <2>3. QED
    BY <2>1, <2>2
<1>2. CacheWhole' /\ \A t \in Cache!Names : kept[t] \subseteq kept'[t]
  BY <1>0 DEF CacheWhole, CacheTyped
<1>3. \A q \in Procs : q # p => UNCHANGED OwnOf(q)
  BY <1>0 DEF OwnOf, CacheTyped
<1>4. CacheRetrieving(p)'
  BY <1>0 DEF CacheProcess, CacheRetrieving, CacheWhole, CacheTyped, Cache!t_
<1>5. CacheBuilding(p)'
  BY <1>0 DEF CacheProcess, CacheBuilding, CacheTyped, Cache!t_, Cache!File
<1>6. CacheDone(p)'
  BY <1>0 DEF CacheProcess, CacheRetrieving, CacheBuilding, CacheDone, CacheWhole,
     CacheTyped, Cache!t_, Cache!File
<1>7. QED
  BY <1>0, <1>1, <1>2, <1>3, <1>4, <1>5, <1>6, StepOf DEF CacheProcess

(* OpenCached keeps the invariant. *)
LEMMA OpenCachedIInv ==
  ASSUME Cache!CacheAssumption, CacheIInv, NEW p \in Procs, Cache!OpenCached(p)
  PROVE  CacheIInv'
<1> USE OutputsFacts DEF Cache!OpenCached, Cache!NotRetrieved
<1>0. Cache!t_(p) \in Cache!Names /\ CacheTyped /\ CacheWhole /\ CacheProcess(p)
  BY TargetAt DEF CacheIInv
<1>1. CacheTyped'
  <2>1. CASE files[Cache!t_(p)] = NoFile
    BY <1>0, <2>1, NotRetrievedFacts DEF CacheTyped
  <2>2. CASE files[Cache!t_(p)] # NoFile
    <3>1. /\ files[Cache!t_(p)] \in FileOrNone /\ Cache!Torn(files[Cache!t_(p)]) \in FileOrNone
          /\ local \in [Procs -> [Cache!Names -> FileOrNone]]
      BY <1>0, <2>2, FileFacts DEF CacheTyped, FileOrNone
    <3>2. local' \in [Procs -> [Cache!Names -> FileOrNone]]
      BY <1>0, <2>2, <3>1
    <3>3. at' \in [Procs -> CachePlaces] /\ reading' \in [Procs -> FileOrNone]
      BY <1>0, <2>2, <3>1 DEF CacheTyped, CachePlaces
    <3>4. QED
      BY <1>0, <2>2, <3>2, <3>3 DEF CacheTyped
  <2>3. QED
    BY <2>1, <2>2
<1>2. CacheWhole' /\ \A t \in Cache!Names : kept[t] \subseteq kept'[t]
  BY <1>0 DEF CacheWhole, CacheTyped
<1>3. \A q \in Procs : q # p => UNCHANGED OwnOf(q)
  BY <1>0 DEF OwnOf, CacheTyped
<1>4. CacheRetrieving(p)'
  BY <1>0 DEF CacheProcess, CacheRetrieving, CacheWhole, CacheTyped, Cache!t_
<1>5. CacheBuilding(p)'
  BY <1>0 DEF CacheProcess, CacheBuilding, CacheTyped, Cache!t_, Cache!File
<1>6. CacheDone(p)'
  BY <1>0 DEF CacheProcess, CacheRetrieving, CacheBuilding, CacheDone, CacheWhole,
     CacheTyped, Cache!t_, Cache!File
<1>7. QED
  BY <1>0, <1>1, <1>2, <1>3, <1>4, <1>5, <1>6, StepOf DEF CacheProcess

(* CopyCached keeps the invariant. *)
LEMMA CopyCachedIInv ==
  ASSUME Cache!CacheAssumption, CacheIInv, NEW p \in Procs, Cache!CopyCached(p)
  PROVE  CacheIInv'
<1> USE OutputsFacts DEF Cache!CopyCached, Cache!Goes
<1>0. Cache!t_(p) \in Cache!Names /\ CacheTyped /\ CacheWhole /\ CacheProcess(p)
  BY TargetAt DEF CacheIInv
<1>1. CacheTyped'
  BY <1>0, FileFacts DEF CacheTyped, CachePlaces, FileOrNone
<1>2. CacheWhole' /\ \A t \in Cache!Names : kept[t] \subseteq kept'[t]
  BY <1>0 DEF CacheWhole, CacheTyped
<1>3. \A q \in Procs : q # p => UNCHANGED OwnOf(q)
  BY <1>0 DEF OwnOf, CacheTyped
<1>4. CacheRetrieving(p)'
  BY <1>0 DEF CacheProcess, CacheRetrieving, CacheWhole, CacheTyped, Cache!t_
<1>5. CacheBuilding(p)'
  BY <1>0 DEF CacheProcess, CacheBuilding, CacheTyped, Cache!t_, Cache!File
<1>6. CacheDone(p)'
  BY <1>0 DEF CacheProcess, CacheRetrieving, CacheBuilding, CacheDone, CacheWhole,
     CacheTyped, Cache!t_, Cache!File
<1>7. QED
  BY <1>0, <1>1, <1>2, <1>3, <1>4, <1>5, <1>6, StepOf DEF CacheProcess

(* StatCached keeps the invariant. *)
LEMMA StatCachedIInv ==
  ASSUME Cache!CacheAssumption, CacheIInv, NEW p \in Procs, Cache!StatCached(p)
  PROVE  CacheIInv'
<1> USE OutputsFacts DEF Cache!StatCached, Cache!NotRetrieved
<1>0. Cache!t_(p) \in Cache!Names /\ CacheTyped /\ CacheWhole /\ CacheProcess(p)
  BY TargetAt DEF CacheIInv
<1>1. CacheTyped'
  <2>1. CASE files[Cache!t_(p)] = NoFile
    BY <1>0, <2>1, NotRetrievedFacts DEF CacheTyped
  <2>2. CASE files[Cache!t_(p)] # NoFile
    <3>1. /\ at \in [Procs -> CachePlaces] /\ turn \in [Procs -> 1..Len(Outputs)]
          /\ cached \in [Procs -> SUBSET Cache!Names] /\ reading \in [Procs -> FileOrNone]
          /\ NoFile \in FileOrNone /\ {"lookup", "done"} \subseteq CachePlaces
      BY <1>0 DEF CacheTyped, FileOrNone, CachePlaces
    <3>2. cached' \in [Procs -> SUBSET Cache!Names] /\ reading' \in [Procs -> FileOrNone]
      <4>1. cached[p] \cup {Cache!t_(p)} \in SUBSET Cache!Names
        BY <1>0, <3>1
      <4>2. QED
        BY <2>2, <3>1, <4>1
    <3>3. turn[p] < Len(Outputs) => turn[p] + 1 \in 1..Len(Outputs)
      BY <3>1
    <3>4. at' \in [Procs -> CachePlaces] /\ turn' \in [Procs -> 1..Len(Outputs)]
      BY <2>2, <3>1, <3>3
    <3>5. QED
      BY <1>0, <2>2, <3>2, <3>4 DEF CacheTyped
  <2>3. QED
    BY <2>1, <2>2
<1>2. CacheWhole' /\ \A t \in Cache!Names : kept[t] \subseteq kept'[t]
  BY <1>0 DEF CacheWhole, CacheTyped
<1>3. \A q \in Procs : q # p => UNCHANGED OwnOf(q)
  BY <1>0 DEF OwnOf, CacheTyped
<1>4. CacheRetrieving(p)' /\ CacheDone(p)'
  <2>1. CASE files[Cache!t_(p)] = NoFile
    BY <1>0, <2>1, NotRetrievedFacts DEF CacheRetrieving, CacheDone
  <2>2. CASE files[Cache!t_(p)] # NoFile
    <3>1. /\ at \in [Procs -> CachePlaces] /\ turn \in [Procs -> 1..Len(Outputs)]
          /\ cached \in [Procs -> SUBSET Cache!Names]
      BY <1>0 DEF CacheTyped
    <3>2. /\ cached[p] = {Outputs[i] : i \in 1..(turn[p] - 1)}
          /\ local[p][Cache!t_(p)] \in kept[Cache!t_(p)]
          /\ \A t \in cached[p] : local[p][t] \in kept[t]
      BY <1>0 DEF CacheProcess, CacheRetrieving
    <3>3. cached'[p] = {Outputs[i] : i \in 1..turn[p]}
      <4>1. cached'[p] = cached[p] \cup {Cache!t_(p)}
        BY <2>2, <3>1
      <4>2. 1..turn[p] = (1..(turn[p] - 1)) \cup {turn[p]}
        BY <3>1
      <4>3. Cache!t_(p) = Outputs[turn[p]]
        BY DEF Cache!t_
      <4> HIDE DEF Cache!StatCached
      <4>4. QED
        BY <3>2, <4>1, <4>2, <4>3
    <3>4. \A t \in cached'[p] : local'[p][t] \in kept'[t]
      BY <2>2, <3>1, <3>2
    <3>5. CASE turn[p] < Len(Outputs)
      <4>1. at'[p] = "lookup" /\ turn'[p] = turn[p] + 1 /\ turn[p] \in 1..Len(Outputs)
        BY <2>2, <3>1, <3>5
      <4>2. cached'[p] = {Outputs[i] : i \in 1..(turn'[p] - 1)}
        BY <3>3, <4>1
      <4> HIDE DEF Cache!StatCached
      <4>3. QED
        BY <3>4, <4>1, <4>2 DEF CacheRetrieving, CacheDone
    <3>6. CASE ~(turn[p] < Len(Outputs))
      <4>1. at'[p] = "done" /\ turn[p] = Len(Outputs)
        BY <2>2, <3>1, <3>6
      <4>2. cached'[p] = Cache!Names
        BY <3>3, <4>1
      <4> HIDE DEF Cache!StatCached
      <4>3. QED
        BY <3>4, <4>1, <4>2 DEF CacheRetrieving, CacheDone
    <3>7. QED
      BY <3>5, <3>6
  <2>3. QED
    BY <2>1, <2>2
<1>5. CacheBuilding(p)'
  BY <1>0 DEF CacheProcess, CacheBuilding, CacheTyped, Cache!t_, Cache!File
<1>6. QED
  BY <1>0, <1>1, <1>2, <1>3, <1>4, <1>5, StepOf DEF CacheProcess

(* BuildTargets keeps the invariant. *)
LEMMA BuildTargetsIInv ==
  ASSUME Cache!CacheAssumption, CacheIInv, NEW p \in Procs, Cache!BuildTargets(p)
  PROVE  CacheIInv'
<1> USE OutputsFacts DEF Cache!BuildTargets
<1>0. Cache!t_(p) \in Cache!Names /\ CacheTyped /\ CacheWhole /\ CacheProcess(p)
  BY TargetAt DEF CacheIInv
<1>1. CacheTyped'
  <2>1. Cache!File(p) \in FileOrNone /\ Cache!Torn(Cache!File(p)) \in FileOrNone
    BY <1>0, FileFacts DEF FileOrNone
  <2>2. /\ [t \in Cache!Names |-> Cache!File(p)] \in [Cache!Names -> FileOrNone]
        /\ [t \in Cache!Names |-> Cache!Torn(Cache!File(p))] \in [Cache!Names -> FileOrNone]
    BY <2>1
  <2>3. local \in [Procs -> [Cache!Names -> FileOrNone]] /\ at \in [Procs -> CachePlaces]
    BY <1>0 DEF CacheTyped
  <2>4. local' \in [Procs -> [Cache!Names -> FileOrNone]]
    BY <2>2, <2>3
  <2>5. at' \in [Procs -> CachePlaces] /\ turn' \in [Procs -> 1..Len(Outputs)]
    <3>1. 1 \in 1..Len(Outputs) /\ {"push", "idle"} \subseteq CachePlaces
          /\ turn \in [Procs -> 1..Len(Outputs)]
      BY <1>0 DEF CachePlaces, CacheTyped
    <3>2. QED
      BY <2>3, <3>1
  <2>6. QED
    BY <1>0, <2>4, <2>5 DEF CacheTyped
<1>2. CacheWhole' /\ \A t \in Cache!Names : kept[t] \subseteq kept'[t]
  BY <1>0 DEF CacheWhole, CacheTyped
<1>3. \A q \in Procs : q # p => UNCHANGED OwnOf(q)
  BY <1>0 DEF OwnOf, CacheTyped
<1>4. CacheRetrieving(p)'
  BY <1>0 DEF CacheProcess, CacheRetrieving, CacheWhole, CacheTyped, Cache!t_
<1>5. CacheBuilding(p)'
  <2>1. at'[p] \in {"push", "idle"} /\ cached'[p] = cached[p] /\ cached[p] = {}
    BY <1>0 DEF CacheProcess, CacheBuilding, CacheTyped
  <2>2. at'[p] = "push" => \A t \in Cache!Names : local'[p][t] = Cache!File(p)
    BY <1>0 DEF CacheTyped
  <2>3. Cache!File(p)' = Cache!File(p)
    BY DEF Cache!File
  <2>4. QED
    BY <2>1, <2>2, <2>3 DEF CacheBuilding
<1>6. CacheDone(p)'
  BY <1>0 DEF CacheProcess, CacheRetrieving, CacheBuilding, CacheDone, CacheWhole,
     CacheTyped, Cache!t_, Cache!File
<1>7. QED
  BY <1>0, <1>1, <1>2, <1>3, <1>4, <1>5, <1>6, StepOf DEF CacheProcess

(* PushStart keeps the invariant. *)
LEMMA PushStartIInv ==
  ASSUME Cache!CacheAssumption, CacheIInv, NEW p \in Procs, Cache!PushStart(p)
  PROVE  CacheIInv'
<1> USE OutputsFacts DEF Cache!PushStart, Cache!Pushed
<1>0. Cache!t_(p) \in Cache!Names /\ CacheTyped /\ CacheWhole /\ CacheProcess(p)
  BY TargetAt DEF CacheIInv
<1>V. Cache!Torn(local[p][Cache!t_(p)]) \in FileOrNone
  BY <1>0, FileFacts DEF CacheProcess, CacheBuilding, FileOrNone
<1>1. CacheTyped'
  <2>1. CASE files[Cache!t_(p)] # NoFile
    BY <1>0, <2>1, PushedFacts DEF CacheTyped
  <2>2. CASE files[Cache!t_(p)] = NoFile
    BY <1>0, <1>V, <2>2, TempWritten DEF CacheTyped, CachePlaces
  <2>3. QED
    BY <2>1, <2>2
<1>2. CacheWhole' /\ \A t \in Cache!Names : kept[t] \subseteq kept'[t]
  BY <1>0 DEF CacheWhole, CacheTyped
<1>3. \A q \in Procs : q # p => UNCHANGED OwnOf(q)
  BY <1>0, <1>V, TempWritten DEF OwnOf, CacheTyped
<1>4. CacheRetrieving(p)'
  BY <1>0 DEF CacheProcess, CacheRetrieving, CacheWhole, CacheTyped, Cache!t_
<1>5. CacheBuilding(p)'
  BY <1>0 DEF CacheProcess, CacheBuilding, CacheTyped, Cache!t_, Cache!File
<1>6. CacheDone(p)'
  BY <1>0 DEF CacheProcess, CacheRetrieving, CacheBuilding, CacheDone, CacheWhole,
     CacheTyped, Cache!t_, Cache!File
<1>7. QED
  BY <1>0, <1>1, <1>2, <1>3, <1>4, <1>5, <1>6, StepOf DEF CacheProcess

(* PushFill keeps the invariant. *)
LEMMA PushFillIInv ==
  ASSUME Cache!CacheAssumption, CacheIInv, NEW p \in Procs, Cache!PushFill(p)
  PROVE  CacheIInv'
<1> USE OutputsFacts DEF Cache!PushFill, Cache!Pushed
<1>0. Cache!t_(p) \in Cache!Names /\ CacheTyped /\ CacheWhole /\ CacheProcess(p)
  BY TargetAt DEF CacheIInv
<1>V. local[p][Cache!t_(p)] \in FileOrNone /\ local[p][Cache!t_(p)] = Cache!File(p)
  BY <1>0 DEF CacheProcess, CacheBuilding, CacheTyped
<1>1. CacheTyped'
  <2>1. CASE Cache!Pushed(p) /\ UNCHANGED temp
    BY <1>0, <2>1, PushedFacts DEF CacheTyped
  <2>2. CASE at' = [at EXCEPT ![p] = "rename"] /\ UNCHANGED turn
             /\ temp' = [temp EXCEPT ![pid[p]][Cache!t_(p)] = local[p][Cache!t_(p)]]
    BY <1>0, <1>V, <2>2, TempWritten DEF CacheTyped, CachePlaces
  <2>3. QED
    BY <2>1, <2>2
<1>2. CacheWhole' /\ \A t \in Cache!Names : kept[t] \subseteq kept'[t]
  BY <1>0 DEF CacheWhole, CacheTyped
<1>3. \A q \in Procs : q # p => UNCHANGED OwnOf(q)
  BY <1>0, <1>V, TempWritten DEF OwnOf, CacheTyped
<1>4. CacheRetrieving(p)'
  BY <1>0 DEF CacheProcess, CacheRetrieving, CacheWhole, CacheTyped, Cache!t_
<1>5. CacheBuilding(p)'
  <2>1. /\ cached'[p] = {} /\ \A t \in Cache!Names : local'[p][t] = Cache!File(p)'
    BY <1>0 DEF CacheProcess, CacheBuilding, Cache!File
  <2>2. at'[p] = "rename" =>
          temp'[pid[p]][Cache!t_(p)] = Cache!File(p)' /\ Cache!t_(p)' = Cache!t_(p)
    <3>1. CASE Cache!Pushed(p) /\ UNCHANGED temp
      BY <1>0, <3>1, PushedFacts
    <3>2. CASE at' = [at EXCEPT ![p] = "rename"] /\ UNCHANGED turn
               /\ temp' = [temp EXCEPT ![pid[p]][Cache!t_(p)] = local[p][Cache!t_(p)]]
      BY <1>0, <1>V, <3>2, TempWritten DEF Cache!File, Cache!t_
    <3>3. QED
      BY <3>1, <3>2
  <2>3. at'[p] # "build"
    BY <1>0, PushedFacts DEF CacheTyped
  <2>4. QED
    BY <2>1, <2>2, <2>3 DEF CacheBuilding
<1>6. CacheDone(p)'
  BY <1>0 DEF CacheProcess, CacheRetrieving, CacheBuilding, CacheDone, CacheWhole,
     CacheTyped, Cache!t_, Cache!File
<1>7. QED
  BY <1>0, <1>1, <1>2, <1>3, <1>4, <1>5, <1>6, StepOf DEF CacheProcess

(* PushRename keeps the invariant. *)
LEMMA PushRenameIInv ==
  ASSUME Cache!CacheAssumption, CacheIInv, NEW p \in Procs, Cache!PushRename(p)
  PROVE  CacheIInv'
<1> USE OutputsFacts DEF Cache!PushRename, Cache!Pushed
<1>0. Cache!t_(p) \in Cache!Names /\ CacheTyped /\ CacheWhole /\ CacheProcess(p)
  BY TargetAt DEF CacheIInv
<1>V. /\ temp[pid[p]][Cache!t_(p)] = Cache!File(p) /\ Cache!File(p) \in Files /\ Cache!File(p).whole
      /\ NoFile \in FileOrNone /\ Cache!File(p) \in FileOrNone
  BY <1>0, FileFacts DEF CacheProcess, CacheBuilding, FileOrNone
<1>T. /\ files' = [files EXCEPT ![Cache!t_(p)] = Cache!File(p)]
      /\ kept' = [kept EXCEPT ![Cache!t_(p)] = @ \cup {Cache!File(p)}]
      /\ files \in [Cache!Names -> FileOrNone] /\ kept \in [Cache!Names -> SUBSET Files]
  BY <1>0, <1>V DEF CacheTyped
<1>1. CacheTyped'
  <2>1. files' \in [Cache!Names -> FileOrNone] /\ kept' \in [Cache!Names -> SUBSET Files]
    <3>1. kept[Cache!t_(p)] \cup {Cache!File(p)} \in SUBSET Files
      BY <1>0, <1>V, <1>T
    <3>2. QED
      BY <1>0, <1>V, <1>T, <3>1
  <2>2. temp' \in [{pid[q] : q \in Procs} -> [Cache!Names -> FileOrNone]]
    BY <1>0, <1>V, TempWritten
  <2>3. QED
    BY <1>0, <2>1, <2>2, PushedFacts DEF CacheTyped
<1>2. CacheWhole' /\ \A t \in Cache!Names : kept[t] \subseteq kept'[t]
  <2>1. \A t \in Cache!Names : /\ kept[t] \subseteq kept'[t]
                         /\ kept'[t] \subseteq kept[t] \cup {Cache!File(p)}
                         /\ files'[t] \in {files[t], Cache!File(p)}
                         /\ files'[t] # files[t] => files'[t] \in kept'[t]
    BY <1>0, <1>T
  <2>2. QED
    BY <1>0, <1>V, <2>1 DEF CacheWhole
<1>3. \A q \in Procs : q # p => UNCHANGED OwnOf(q)
  BY <1>0, <1>V, TempWritten DEF OwnOf, CacheTyped
<1>4. CacheRetrieving(p)'
  BY <1>0 DEF CacheProcess, CacheRetrieving, CacheWhole, CacheTyped, Cache!t_
<1>5. CacheBuilding(p)'
  BY <1>0 DEF CacheProcess, CacheBuilding, CacheTyped, Cache!t_, Cache!File
<1>6. CacheDone(p)'
  BY <1>0 DEF CacheProcess, CacheRetrieving, CacheBuilding, CacheDone, CacheWhole,
     CacheTyped, Cache!t_, Cache!File
<1>7. QED
  BY <1>0, <1>1, <1>2, <1>3, <1>4, <1>5, <1>6, StepOf DEF CacheProcess

(* Again keeps the invariant. *)
LEMMA AgainIInv ==
  ASSUME Cache!CacheAssumption, CacheIInv, NEW p \in Procs, Cache!Again(p)
  PROVE  CacheIInv'
<1> USE OutputsFacts DEF Cache!Again
<1>0. Cache!t_(p) \in Cache!Names /\ CacheTyped /\ CacheWhole /\ CacheProcess(p)
  BY TargetAt DEF CacheIInv
<1>1. CacheTyped'
  BY <1>0, FileFacts DEF CacheTyped, CachePlaces, FileOrNone
<1>2. CacheWhole' /\ \A t \in Cache!Names : kept[t] \subseteq kept'[t]
  BY <1>0 DEF CacheWhole, CacheTyped
<1>3. \A q \in Procs : q # p => UNCHANGED OwnOf(q)
  BY <1>0 DEF OwnOf, CacheTyped
<1>4. CacheRetrieving(p)'
  BY <1>0 DEF CacheProcess, CacheRetrieving, CacheWhole, CacheTyped, Cache!t_
<1>5. CacheBuilding(p)'
  BY <1>0 DEF CacheProcess, CacheBuilding, CacheTyped, Cache!t_, Cache!File
<1>6. CacheDone(p)'
  BY <1>0 DEF CacheProcess, CacheRetrieving, CacheBuilding, CacheDone, CacheWhole,
     CacheTyped, Cache!t_, Cache!File
<1>7. QED
  BY <1>0, <1>1, <1>2, <1>3, <1>4, <1>5, <1>6, StepOf DEF CacheProcess

(* Somebody else deletes a file of the cache. *)
LEMMA EvictIInv ==
  ASSUME Cache!CacheAssumption, CacheIInv, NEW t \in Cache!Names, Cache!Evict(t)
  PROVE  CacheIInv'
<1> USE DEF Cache!Evict
<1>0. CacheTyped /\ CacheWhole
  BY DEF CacheIInv
<1>1. CacheTyped'
  BY <1>0 DEF CacheTyped, FileOrNone
<1>2. CacheWhole'
  BY <1>0 DEF CacheWhole, CacheTyped
<1>3. \A p \in Procs : CacheProcess(p)'
  <2>1. \A p \in Procs : UNCHANGED OwnOf(p)
    BY DEF OwnOf
  <2>2. QED
    BY <1>0, <2>1, Untouched DEF CacheIInv
<1>4. QED
  BY <1>1, <1>2, <1>3 DEF CacheIInv

(* CacheIInv holds at first, and is kept by every step, for processes whose   *)
(* temporary files have different names.                                      *)
LEMMA CacheSteps ==
  /\ Cache!CacheInit => CacheIInv
  /\ CacheIInv /\ [Cache!CacheNext]_cacheVars => CacheIInv'
<1>1. Cache!CacheInit => CacheIInv
  BY PartsAssumption, InitIInv
<1>2. CacheIInv /\ [Cache!CacheNext]_cacheVars => CacheIInv'
  <2> SUFFICES ASSUME CacheIInv, [Cache!CacheNext]_cacheVars
               PROVE  CacheIInv'
    OBVIOUS
  <2>1. ASSUME NEW p \in Procs,
               \/ Cache!OpenConfig(p) \/ Cache!DumpConfig(p) \/ Cache!Lookup(p)
               \/ Cache!OpenCached(p)
               \/ Cache!CopyCached(p) \/ Cache!StatCached(p) \/ Cache!BuildTargets(p)
        PROVE  CacheIInv'
    BY PartsAssumption, <2>1, OpenConfigIInv, DumpConfigIInv, LookupIInv, OpenCachedIInv,
       CopyCachedIInv,
       StatCachedIInv, BuildTargetsIInv
  <2>2. ASSUME NEW p \in Procs,
               Cache!PushStart(p) \/ Cache!PushFill(p) \/ Cache!PushRename(p) \/ Cache!Again(p)
        PROVE  CacheIInv'
    BY PartsAssumption, <2>2, PushStartIInv, PushFillIInv, PushRenameIInv, AgainIInv
  <2>3. ASSUME NEW t \in Cache!Names, Cache!Evict(t)
        PROVE  CacheIInv'
    BY PartsAssumption, <2>3, EvictIInv
  <2>4. CASE UNCHANGED cacheVars \/ Cache!BuildsOver
    <3>1. CacheTyped' /\ CacheWhole'
      BY <2>4 DEF CacheIInv, cacheVars, Cache!cacheVars, Cache!BuildsOver, CacheTyped,
         CacheWhole
    <3>2. \A p \in Procs : UNCHANGED OwnOf(p) /\ \A t \in Cache!Names : kept[t] \subseteq kept'[t]
      BY <2>4 DEF cacheVars, Cache!cacheVars, Cache!BuildsOver, OwnOf
    <3>3. \A p \in Procs : CacheProcess(p)'
      BY PartsAssumption, <3>2, Untouched DEF CacheIInv
    <3>4. QED
      BY <3>1, <3>3 DEF CacheIInv
  <2>5. QED
    BY <2>1, <2>2, <2>3, <2>4 DEF Cache!CacheNext
<1>3. QED
  BY <1>1, <1>2

(* However many processes share the cache, whichever of them are killed    *)
(* and whatever is deleted from it meanwhile: no name in the cache stands  *)
(* for a part of a file, and a build that ends well has either all of its  *)
(* targets from the cache or all from its own command (CachePushFunc's     *)
(* temporary name and rename, cached_targets of Task.execute).             *)
THEOREM CacheSoundCorrect == Spec => []CacheSound
<1> DEFINE Inv == part = "cache" => CacheIInv
<1>1. Init => Inv
  BY CacheSteps DEF Init
<1>2. Inv /\ [Next]_vars => Inv'
  BY CacheSteps DEF Next, vars
<1>3. Inv => CacheSound
  BY DEF CacheIInv, CacheWhole, CacheProcess, CacheDone, CacheSound, Cache!CacheSound
<1>4. QED
  BY <1>1, <1>2, <1>3, PTL DEF Spec

-----------------------------------------------------------------------------
(* The SD card (SdFiles). *)

(* The calls of each program after the open; a listing of the current        *)
(* directory begins with the first, one of a given directory with the third. *)
SdTo(op, to) == [op |-> op, to |-> to]
ListPlan ==
  <<Sd!Call("DIR_CURRENT"), SdTo("PATH_READ", "argument"),
    Sd!Call("DIR_CURRENT"), SdTo("PATH_READ", "start"),
    SdTo("PATH_WRITE", "argument"), Sd!Call("DIR_CHANGE"),
    Sd!Call("DIR_FIRST"), Sd!Call("DIR_NEXT"),
    SdTo("PATH_WRITE", "start"), Sd!Call("DIR_CHANGE"), Sd!Call("close")>>
ReadPlan ==
  <<Sd!Call("absolute"), SdTo("PATH_WRITE", "argument"), Sd!Call("DIR_CHANGE"),
    Sd!Call("DIR_FIRST"), Sd!Call("DIR_NEXT"), Sd!Call("found"),
    SdTo("PATH_WRITE", "name"), Sd!Call("OPEN"), Sd!Call("READ"), Sd!Call("CLOSE"),
    Sd!Call("close")>>
ChangePlan == <<SdTo("PATH_WRITE", "argument"), Sd!Call("DIR_CHANGE"), Sd!Call("close")>>
DeletePlan == <<SdTo("PATH_WRITE", "file"), Sd!Call("DELETE"), Sd!Call("close")>>
AskPlan == <<Sd!Call("DIR_CURRENT"), SdTo("PATH_READ", "start"), Sd!Call("close")>>
SdPlans == [list |-> ListPlan, read |-> ReadPlan, change |-> ChangePlan,
            delete |-> DeletePlan, pwd |-> AskPlan]
SdPlan == SdPlans[request.op]
SdFrom(k) == SubSeq(SdPlan, k, Len(SdPlan))

SdTyped ==
  /\ request \in Sd!Requests
  /\ cwd \in Dirs /\ userDir \in Dirs /\ start \in Dirs \cup {Unknown}
  /\ excused \in BOOLEAN

SdUserDir == ~excused => cwd = userDir

(* What is known before the k-th call of its plan is made. *)
SdListing(k) ==
  /\ k <= 6 => SdUserDir
  /\ k \in 5..10 /\ ~excused => start \in {userDir, Unknown}
  /\ k = 6 => path = <<request.dir>>
  /\ k \in 7..9 /\ ~excused => cwd = request.dir
  /\ k = 8 => dir \cup unlisted = Sd!Entries(cwd)
  /\ k = 9 => dir = Sd!Entries(cwd)
  /\ k = 10 => path = <<start>>
  /\ k = 11 => SdUserDir
SdReading(k) ==
  /\ k > 1 => request.dir \in Dirs
  /\ k = 3 => path = <<request.dir>>
  /\ k <= 3 => SdUserDir
  /\ k > 3 => excused /\ cwd = request.dir
  /\ k = 8 => path = <<cwd, request.name>>
  /\ k = 9 => opened = <<request.dir, request.name>>
  /\ k <= 9 => shown = <<>>
SdKnown(k) ==
  CASE request.op = "list" -> SdListing(k)
    [] request.op = "read" -> SdReading(k)
    [] request.op = "change" -> SdUserDir /\ (k = 2 => path = <<request.dir>>)
    [] OTHER -> SdUserDir

(* The inductive invariant.  SdSafe needs which directory is current before *)
(* each call, since no call says so: a listing has to find its way back.     *)
SdIInv ==
  /\ SdTyped
  /\ sdExit \in {"none", "ok", "error"}
  /\ sdExit = "none" => \/ sdTodo = Sd!Main(request) /\ SdUserDir /\ shown = <<>>
                        \/ \E k \in 1..Len(SdPlan) : sdTodo = SdFrom(k) /\ SdKnown(k)
  /\ sdExit = "ok" \/ (sdExit = "error" /\ request.op # "list") => SdUserDir
  /\ request.op # "read" => shown = <<>>
  /\ Sd!ReadsWhatWasAsked

(* How many calls each plan has. *)
LEMMA PlanFacts ==
  /\ Len(ListPlan) = 11 /\ Len(ReadPlan) = 11
  /\ Len(ChangePlan) = 3 /\ Len(DeletePlan) = 3 /\ Len(AskPlan) = 3
  BY DEF ListPlan, ReadPlan, ChangePlan, DeletePlan, AskPlan

(* The first call of the rest of a plan, and the rest after it. *)
LEMMA RestFacts ==
  ASSUME NEW s, NEW n \in Nat, NEW k \in 1..n
  PROVE  /\ Head(SubSeq(s, k, n)) = s[k]
         /\ k < n => Tail(SubSeq(s, k, n)) = SubSeq(s, k + 1, n)
<1> DEFINE S == {s[i] : i \in 1..n}
<1>1. \A i \in 1..n : s[i] \in S
  OBVIOUS
<1> HIDE DEF S
<1>2. /\ SubSeq(s, k, n) \in Seq(S)
      /\ Len(SubSeq(s, k, n)) = n - k + 1
      /\ \A i \in 1..(n - k + 1) : SubSeq(s, k, n)[i] = s[k + i - 1]
  BY <1>1, SubSeqProperties
<1>3. SubSeq(s, k, n) # <<>> /\ Head(SubSeq(s, k, n)) = s[k]
  <2>1. Len(SubSeq(s, k, n)) # 0 /\ 1 \in 1..(n - k + 1) /\ k + 1 - 1 = k
    BY <1>2
  <2>2. SubSeq(s, k, n)[1] = s[k + 1 - 1]
    BY <1>2, <2>1
  <2>3. SubSeq(s, k, n) # <<>>
    <3>1. Len(<<>>) = 0
      OBVIOUS
    <3>2. QED
      BY <2>1, <3>1
  <2>4. QED
    BY <1>2, <2>1, <2>2, <2>3, HeadTailProperties
<1>4. ASSUME k < n
      PROVE  Tail(SubSeq(s, k, n)) = SubSeq(s, k + 1, n)
  <2>1. /\ SubSeq(s, k + 1, n) \in Seq(S)
        /\ Len(SubSeq(s, k + 1, n)) = n - k
        /\ \A i \in 1..(n - k) : SubSeq(s, k + 1, n)[i] = s[k + 1 + i - 1]
    BY <1>1, <1>4, SubSeqProperties
  <2>2. /\ Tail(SubSeq(s, k, n)) \in Seq(S)
        /\ Len(Tail(SubSeq(s, k, n))) = n - k
        /\ \A i \in 1..(n - k) : Tail(SubSeq(s, k, n))[i] = SubSeq(s, k, n)[i + 1]
    BY <1>2, <1>3, HeadTailProperties
  <2>3. \A i \in 1..(n - k) : Tail(SubSeq(s, k, n))[i] = SubSeq(s, k + 1, n)[i]
    <3> TAKE i \in 1..(n - k)
    <3>1. i + 1 \in 1..(n - k + 1) /\ k + (i + 1) - 1 = k + 1 + i - 1
      OBVIOUS
    <3>2. SubSeq(s, k, n)[i + 1] = s[k + 1 + i - 1]
      BY <1>2, <3>1
    <3>3. QED
      BY <2>1, <2>2, <3>2
  <2>4. QED
    BY <2>1, <2>2, <2>3, SeqEqual
<1>5. QED
  BY <1>3, <1>4

(* After the open, the calls of main are a plan, or all of it but its start. *)
LEMMA MainList ==
  ASSUME NEW r, r.op = "list"
  PROVE  /\ Head(Sd!Main(r)).op = "open"
         /\ r.dir = Unknown => Tail(Sd!Main(r)) = SubSeq(ListPlan, 1, 11)
         /\ r.dir # Unknown => Tail(Sd!Main(r)) = SubSeq(ListPlan, 3, 11)
  BY DEF Sd!Main, ListPlan, SdTo, Sd!Call, Sd!ListDirContents, Sd!GetCurrentWorkingDirectory,
         Sd!GoToPath, Sd!GetCurDirContents

LEMMA MainOthers ==
  ASSUME NEW r, r.op \in {"read", "change", "delete", "pwd"}
  PROVE  /\ Head(Sd!Main(r)).op = "open"
         /\ Tail(Sd!Main(r)) = SubSeq(SdPlans[r.op], 1, Len(SdPlans[r.op]))
<1> USE DEF Sd!Main, SdPlans, SdTo, Sd!Call, Sd!GetCurrentWorkingDirectory, Sd!GoToPath,
            Sd!GetCurDirContents
<1>1. CASE r.op = "read"
  BY <1>1 DEF Sd!ReadFile, ReadPlan
<1>2. CASE r.op = "change"
  BY <1>2 DEF ChangePlan
<1>3. CASE r.op = "delete"
  BY <1>3 DEF Sd!DeleteFile, DeletePlan
<1>4. CASE r.op = "pwd"
  BY <1>4 DEF AskPlan
<1>5. QED
  BY <1>1, <1>2, <1>3, <1>4

(* The programs a request may name. *)
LEMMA RequestOps ==
  \A r \in Sd!Requests :
    /\ r.op \in {"list", "read", "change", "delete", "pwd"}
    /\ r.dir \in Dirs \cup {Unknown}
    /\ r.op = "change" => r.dir \in Dirs
  BY DEF Sd!Requests

(* The plans, call by call. *)
PlanHas(k, op) == SdPlan[k].op = op
PlanHasTo(k, op, to) == SdPlan[k].op = op /\ SdPlan[k].to = to
ListCalls(k) ==
  \/ k = 1 /\ PlanHas(k, "DIR_CURRENT")
  \/ k = 2 /\ PlanHasTo(k, "PATH_READ", "argument")
  \/ k = 3 /\ PlanHas(k, "DIR_CURRENT")
  \/ k = 4 /\ PlanHasTo(k, "PATH_READ", "start")
  \/ k = 5 /\ PlanHasTo(k, "PATH_WRITE", "argument")
  \/ k = 6 /\ PlanHas(k, "DIR_CHANGE")
  \/ k = 7 /\ PlanHas(k, "DIR_FIRST")
  \/ k = 8 /\ PlanHas(k, "DIR_NEXT")
  \/ k = 9 /\ PlanHasTo(k, "PATH_WRITE", "start")
  \/ k = 10 /\ PlanHas(k, "DIR_CHANGE")
  \/ k = 11 /\ PlanHas(k, "close")
ReadCalls(k) ==
  \/ k = 1 /\ PlanHas(k, "absolute")
  \/ k = 2 /\ PlanHasTo(k, "PATH_WRITE", "argument")
  \/ k = 3 /\ PlanHas(k, "DIR_CHANGE")
  \/ k = 4 /\ PlanHas(k, "DIR_FIRST")
  \/ k = 5 /\ PlanHas(k, "DIR_NEXT")
  \/ k = 6 /\ PlanHas(k, "found")
  \/ k = 7 /\ PlanHasTo(k, "PATH_WRITE", "name")
  \/ k = 8 /\ PlanHas(k, "OPEN")
  \/ k = 9 /\ PlanHas(k, "READ")
  \/ k = 10 /\ PlanHas(k, "CLOSE")
  \/ k = 11 /\ PlanHas(k, "close")
ShortCalls(k) ==
  \/ k = 1 /\ request.op = "change" /\ PlanHasTo(k, "PATH_WRITE", "argument")
  \/ k = 1 /\ request.op = "delete" /\ PlanHasTo(k, "PATH_WRITE", "file")
  \/ k = 1 /\ request.op = "pwd" /\ PlanHas(k, "DIR_CURRENT")
  \/ k = 2 /\ request.op = "change" /\ PlanHas(k, "DIR_CHANGE")
  \/ k = 2 /\ request.op = "delete" /\ PlanHas(k, "DELETE")
  \/ k = 2 /\ request.op = "pwd" /\ PlanHasTo(k, "PATH_READ", "start")
  \/ k = 3 /\ request.op \in {"change", "delete", "pwd"} /\ PlanHas(k, "close")

(* Each call of a plan has its place there. *)
LEMMA PlanCalls ==
  ASSUME request.op \in {"list", "read", "change", "delete", "pwd"},
         NEW k \in 1..Len(SdPlan)
  PROVE  \/ request.op = "list" /\ Len(SdPlan) = 11 /\ ListCalls(k)
         \/ request.op = "read" /\ Len(SdPlan) = 11 /\ ReadCalls(k)
         \/ request.op \in {"change", "delete", "pwd"} /\ Len(SdPlan) = 3 /\ ShortCalls(k)
<1>1. CASE request.op = "list"
  <2>1. SdPlan = ListPlan
    BY <1>1 DEF SdPlan, SdPlans
  <2>2. Len(SdPlan) = 11
    BY <2>1, PlanFacts
  <2>3. k \in {1, 2, 3, 4, 5, 6, 7, 8, 9, 10, 11}
    BY <2>2
  <2>4. ListCalls(k)
    BY <2>1, <2>3 DEF ListPlan, ListCalls, PlanHas, PlanHasTo, SdTo, Sd!Call
  <2>5. QED
    BY <1>1, <2>2, <2>4
<1>2. CASE request.op = "read"
  <2>1. SdPlan = ReadPlan
    BY <1>2 DEF SdPlan, SdPlans
  <2>2. Len(SdPlan) = 11
    BY <2>1, PlanFacts
  <2>3. k \in {1, 2, 3, 4, 5, 6, 7, 8, 9, 10, 11}
    BY <2>2
  <2>4. ReadCalls(k)
    BY <2>1, <2>3 DEF ReadPlan, ReadCalls, PlanHas, PlanHasTo, SdTo, Sd!Call
  <2>5. QED
    BY <1>2, <2>2, <2>4
<1>3. CASE request.op \in {"change", "delete", "pwd"}
  <2>1. \/ request.op = "change" /\ SdPlan = ChangePlan
        \/ request.op = "delete" /\ SdPlan = DeletePlan
        \/ request.op = "pwd" /\ SdPlan = AskPlan
    BY <1>3 DEF SdPlan, SdPlans
  <2>2. Len(SdPlan) = 3
    BY <2>1, PlanFacts
  <2>3. k \in {1, 2, 3}
    BY <2>2
  <2>4. ShortCalls(k)
    BY <2>1, <2>3 DEF ChangePlan, DeletePlan, AskPlan, ShortCalls, PlanHas, PlanHasTo, SdTo,
       Sd!Call
  <2>5. QED
    BY <1>3, <2>2, <2>4
<1>4. QED
  BY <1>1, <1>2, <1>3

(* The call a running program is about to make, when it is not the open. *)
SdAt(k) ==
  /\ k \in 1..Len(SdPlan)
  /\ SdKnown(k)
  /\ k < Len(SdPlan) => Tail(sdTodo) = SdFrom(k + 1)
  /\ \/ request.op = "list" /\ Len(SdPlan) = 11 /\ ListCalls(k)
     \/ request.op = "read" /\ Len(SdPlan) = 11 /\ ReadCalls(k)
     \/ request.op \in {"change", "delete", "pwd"} /\ Len(SdPlan) = 3 /\ ShortCalls(k)

(* A running program past its open is at some call of its plan. *)
LEMMA CallAt ==
  ASSUME SdIInv, sdExit = "none", Head(sdTodo).op # "open"
  PROVE  \E k : SdAt(k) /\ sdTodo = SdFrom(k) /\ Head(sdTodo) = SdPlan[k]
<1>1. request.op \in {"list", "read", "change", "delete", "pwd"}
  BY RequestOps DEF SdIInv, SdTyped
<1>2. Head(Sd!Main(request)).op = "open"
  BY <1>1, MainList, MainOthers
<1>3. PICK k \in 1..Len(SdPlan) : sdTodo = SdFrom(k) /\ SdKnown(k)
  BY <1>2 DEF SdIInv
<1>4. Len(SdPlan) \in Nat
  BY <1>1, <1>3, PlanCalls
<1>5. /\ Head(sdTodo) = SdPlan[k]
      /\ k < Len(SdPlan) => Tail(sdTodo) = SdFrom(k + 1)
  BY <1>3, <1>4, RestFacts DEF SdFrom
<1>6. QED
  BY <1>1, <1>3, <1>5, PlanCalls DEF SdAt

(* What is left of the plan after a call that is not its last one. *)
LEMMA RestOfPlan ==
  ASSUME NEW k, SdAt(k), SdPlan[k].op # "close"
  PROVE  k \in Nat /\ k + 1 \in 1..Len(SdPlan) /\ Tail(sdTodo) = SdFrom(k + 1)
<1>1. k < Len(SdPlan) /\ Len(SdPlan) \in Nat
  <2>1. CASE request.op = "list" /\ Len(SdPlan) = 11 /\ ListCalls(k)
    <3>1. k # 11
      BY <2>1 DEF ListCalls, PlanHas, PlanHasTo
    <3>2. QED
      BY <2>1, <3>1 DEF SdAt
  <2>2. CASE request.op = "read" /\ Len(SdPlan) = 11 /\ ReadCalls(k)
    <3>1. k # 11
      BY <2>2 DEF ReadCalls, PlanHas, PlanHasTo
    <3>2. QED
      BY <2>2, <3>1 DEF SdAt
  <2>3. CASE request.op \in {"change", "delete", "pwd"} /\ Len(SdPlan) = 3 /\ ShortCalls(k)
    <3>1. k # 3
      BY <2>3 DEF ShortCalls, PlanHas, PlanHasTo
    <3>2. QED
      BY <2>3, <3>1 DEF SdAt
  <2>4. QED
    BY <2>1, <2>2, <2>3 DEF SdAt
<1>2. k \in 1..Len(SdPlan) /\ Tail(sdTodo) = SdFrom(k + 1)
  BY <1>1 DEF SdAt
<1>3. QED
  BY <1>1, <1>2

(* A call that ends the program, or goes on with the next one. *)
LEMMA SdGoesOn ==
  ASSUME SdTyped', NEW k \in Nat, k + 1 \in 1..Len(SdPlan), Tail(sdTodo) = SdFrom(k + 1),
         request'.op = request.op, request.op # "read" => shown' = <<>>,
         Sd!ReadsWhatWasAsked',
         \/ sdExit' = "error"
         \/ sdExit' = "none" /\ sdTodo' = Tail(sdTodo) /\ SdKnown(k + 1)',
         request.op # "list" => SdUserDir'
  PROVE  SdIInv'
<1>1. SdPlan' = SdPlan
  BY DEF SdPlan
<1>2. ASSUME sdExit' = "none"
      PROVE  \E j \in 1..Len(SdPlan') : sdTodo' = SdFrom(j)' /\ SdKnown(j)'
  <2>1. sdTodo' = SdFrom(k + 1)' /\ SdKnown(k + 1)'
    BY <1>1, <1>2 DEF SdFrom
  <2>2. QED
    BY <1>1, <2>1
<1>3. QED
  BY <1>2 DEF SdIInv

(* SdIInv is kept by every step of the program. *)
LEMMA SdProgramSteps ==
  ASSUME SdIInv, NEW e \in Sd!Outcome, Sd!SdAssumption,
         \/ Sd!ACall(e) \/ Sd!CheckAbsolute \/ Sd!CheckFound
  PROVE  SdIInv'
<1> USE DEF Sd!Calls, Sd!Running, Sd!ErrorCheck, Sd!ErrorCheckDies, Sd!CheckedExit, Sd!BareExit,
            Sd!deviceVars, Sd!historyVars, Sd!sessionVars
<1>1. CASE Sd!WritePath(e)
  <2>1. PICK k : SdAt(k) /\ Head(sdTodo) = SdPlan[k]
    BY <1>1, CallAt DEF Sd!WritePath
  <2>2. \/ request.op = "list" /\ Len(SdPlan) = 11 /\ k = 5 /\ SdPlan[k].to = "argument"
        \/ request.op = "list" /\ Len(SdPlan) = 11 /\ k = 9 /\ SdPlan[k].to = "start"
        \/ request.op = "read" /\ Len(SdPlan) = 11 /\ k = 2 /\ SdPlan[k].to = "argument"
        \/ request.op = "read" /\ Len(SdPlan) = 11 /\ k = 7 /\ SdPlan[k].to = "name"
        \/ request.op = "change" /\ Len(SdPlan) = 3 /\ k = 1 /\ SdPlan[k].to = "argument"
        \/ request.op = "delete" /\ Len(SdPlan) = 3 /\ k = 1
    BY <1>1, <2>1 DEF Sd!WritePath, SdAt, ListCalls, ReadCalls, ShortCalls, PlanHas, PlanHasTo
  <2>3. SdTyped' /\ Sd!ReadsWhatWasAsked' /\ request'.op = request.op
        /\ (request.op # "read" => shown' = <<>>)
    BY <1>1 DEF Sd!WritePath, SdIInv, SdTyped, Sd!ReadsWhatWasAsked
  <2>4. sdExit' = "error" \/ (sdExit' = "none" /\ sdTodo' = Tail(sdTodo))
    BY <1>1 DEF Sd!WritePath
  <2>5. /\ sdExit' = "none" => SdKnown(k + 1)'
        /\ request.op # "list" => SdUserDir'
    BY <1>1, <2>1, <2>2 DEF Sd!WritePath, SdAt, SdKnown, SdListing, SdReading, SdUserDir
  <2>6. k \in Nat /\ k + 1 \in 1..Len(SdPlan) /\ Tail(sdTodo) = SdFrom(k + 1)
    BY <1>1, <2>1, RestOfPlan DEF Sd!WritePath
  <2>7. QED
    BY <2>3, <2>4, <2>5, <2>6, SdGoesOn
<1>2. CASE Sd!ChangeDir(e)
  <2>1. PICK k : SdAt(k) /\ Head(sdTodo) = SdPlan[k]
    BY <1>2, CallAt DEF Sd!ChangeDir
  <2>2. \/ request.op = "list" /\ Len(SdPlan) = 11 /\ k = 6
        \/ request.op = "list" /\ Len(SdPlan) = 11 /\ k = 10
        \/ request.op = "read" /\ Len(SdPlan) = 11 /\ k = 3
        \/ request.op = "change" /\ Len(SdPlan) = 3 /\ k = 2
    BY <1>2, <2>1 DEF Sd!ChangeDir, SdAt, ListCalls, ReadCalls, ShortCalls, PlanHas, PlanHasTo
  <2>3. /\ request.op = "list" /\ k = 10 => path = <<start>> /\ path[1] = start
        /\ ~(request.op = "list" /\ k = 10) => path = <<request.dir>> /\ path[1] = request.dir
    BY <2>1, <2>2 DEF SdAt, SdKnown, SdListing, SdReading
  <2>31. /\ path[1] \in Dirs \cup {Unknown}
         /\ path = <<Unknown>> <=> path[1] = Unknown
         /\ request.op \in {"read", "change"} => path[1] = request.dir /\ request.dir \in Dirs
    BY <2>1, <2>2, <2>3, RequestOps DEF SdAt, SdKnown, SdReading, SdIInv, SdTyped
  <2>32. /\ request' = request /\ shown' = shown /\ start' = start /\ cwd' \in Dirs
         /\ e # "error" /\ path[1] \in Dirs => cwd' = path[1]
    BY <1>2, <2>31 DEF Sd!ChangeDir, SdIInv, SdTyped, Sd!SdAssumption
  <2>33. SdTyped' /\ Sd!ReadsWhatWasAsked' /\ request'.op = request.op
         /\ (request.op # "read" => shown' = <<>>)
    BY <1>2, <2>32, RequestOps DEF Sd!ChangeDir, SdIInv, SdTyped, Sd!ReadsWhatWasAsked
  <2>4. sdExit' = "error" \/ (sdExit' = "none" /\ sdTodo' = Tail(sdTodo))
    BY <1>2 DEF Sd!ChangeDir
  <2>5. /\ sdExit' = "none" => SdKnown(k + 1)'
        /\ request.op # "list" => SdUserDir'
    <3>1. CASE request.op = "list" /\ k = 6
      <4>1. /\ sdExit' = "none" => e # "error"
            /\ excused' = (excused \/ request.dir = Unknown) /\ userDir' = userDir
        BY <1>2, <2>3, <2>31, <3>1 DEF Sd!ChangeDir
      <4>2. SdListing(6)
        BY <2>1, <3>1 DEF SdAt, SdKnown
      <4>3. ~excused => start \in {userDir, Unknown}
        BY <4>2 DEF SdListing
      <4>4. sdExit' = "none" /\ ~excused' => cwd' = request'.dir
        <5>1. path[1] = request.dir /\ request' = request
          BY <2>3, <2>32, <3>1
        <5>2. QED
          BY <2>31, <2>32, <4>1, <5>1
      <4>5. sdExit' = "none" => SdListing(7)'
        <5>1. sdExit' = "none" /\ ~excused' => start' \in {userDir', Unknown}
          BY <2>32, <4>1, <4>3
        <5>2. QED
          BY <4>4, <5>1 DEF SdListing
      <4>6. k + 1 = 7 /\ (k + 1)' = 7
        BY <3>1
      <4>7. QED
        BY <2>32, <3>1, <4>5, <4>6 DEF SdKnown
    <3>11. CASE request.op = "list" /\ k = 10
      <4>1. /\ sdExit' = "none" => e # "error"
            /\ excused' = (excused \/ start = Unknown) /\ userDir' = userDir
        BY <1>2, <2>3, <2>31, <3>11 DEF Sd!ChangeDir
      <4>2. SdListing(10)
        BY <2>1, <3>11 DEF SdAt, SdKnown
      <4>3. ~excused => start \in {userDir, Unknown}
        BY <4>2 DEF SdListing
      <4>4. sdExit' = "none" => SdUserDir'
        BY <2>3, <2>31, <2>32, <3>11, <4>1, <4>3 DEF SdIInv, SdTyped, SdUserDir
      <4>5. sdExit' = "none" => SdListing(11)'
        BY <4>4 DEF SdListing
      <4>6. k + 1 = 11 /\ (k + 1)' = 11
        BY <3>11
      <4>7. QED
        BY <2>32, <3>11, <4>5, <4>6 DEF SdKnown
    <3>2. CASE request.op = "read"
      BY <1>2, <2>1, <2>2, <2>31, <2>32, <3>2
         DEF Sd!ChangeDir, SdAt, SdKnown, SdReading, SdUserDir
    <3>3. CASE request.op = "change"
      BY <1>2, <2>1, <2>2, <2>31, <2>32, <3>3 DEF Sd!ChangeDir, SdAt, SdKnown, SdUserDir
    <3>4. QED
      BY <2>2, <3>1, <3>11, <3>2, <3>3
  <2>6. k \in Nat /\ k + 1 \in 1..Len(SdPlan) /\ Tail(sdTodo) = SdFrom(k + 1)
    BY <1>2, <2>1, RestOfPlan DEF Sd!ChangeDir
  <2>7. QED
    BY <2>33, <2>4, <2>5, <2>6, SdGoesOn
<1>3. CASE Sd!AskDir(e)
  <2>1. PICK k : SdAt(k) /\ Head(sdTodo) = SdPlan[k]
    BY <1>3, CallAt DEF Sd!AskDir
  <2>2. \/ request.op = "list" /\ Len(SdPlan) = 11 /\ k = 1
        \/ request.op = "list" /\ Len(SdPlan) = 11 /\ k = 3
        \/ request.op = "pwd" /\ Len(SdPlan) = 3 /\ k = 1
    BY <1>3, <2>1 DEF Sd!AskDir, SdAt, ListCalls, ReadCalls, ShortCalls, PlanHas, PlanHasTo
  <2>3. SdTyped' /\ Sd!ReadsWhatWasAsked' /\ request'.op = request.op
        /\ (request.op # "read" => shown' = <<>>)
    BY <1>3 DEF Sd!AskDir, SdIInv, SdTyped, Sd!ReadsWhatWasAsked
  <2>4. sdExit' = "error" \/ (sdExit' = "none" /\ sdTodo' = Tail(sdTodo))
    BY <1>3 DEF Sd!AskDir
  <2>5. /\ sdExit' = "none" => SdKnown(k + 1)'
        /\ request.op # "list" => SdUserDir'
    BY <1>3, <2>1, <2>2 DEF Sd!AskDir, SdAt, SdKnown, SdListing, SdUserDir
  <2>6. k \in Nat /\ k + 1 \in 1..Len(SdPlan) /\ Tail(sdTodo) = SdFrom(k + 1)
    BY <1>3, <2>1, RestOfPlan DEF Sd!AskDir
  <2>7. QED
    BY <2>3, <2>4, <2>5, <2>6, SdGoesOn
<1>4. CASE Sd!ReadDir(e)
  <2>1. PICK k : SdAt(k) /\ Head(sdTodo) = SdPlan[k]
    BY <1>4, CallAt DEF Sd!ReadDir
  <2>2. \/ request.op = "list" /\ Len(SdPlan) = 11 /\ k = 2 /\ SdPlan[k].to = "argument"
        \/ request.op = "list" /\ Len(SdPlan) = 11 /\ k = 4 /\ SdPlan[k].to = "start"
        \/ request.op = "pwd" /\ Len(SdPlan) = 3 /\ k = 2 /\ SdPlan[k].to = "start"
    BY <1>4, <2>1 DEF Sd!ReadDir, SdAt, ListCalls, ReadCalls, ShortCalls, PlanHas, PlanHasTo
  <2>3. /\ cwd' = cwd /\ userDir' = userDir /\ excused' = excused /\ path' = path
        /\ shown' = shown /\ card' = card /\ unlisted' = unlisted /\ dir' = dir
        /\ sdExit' = "none" /\ cwd \in Dirs
        /\ IF SdPlan[k].to = "start"
           THEN start' \in {cwd, Unknown} /\ request' = request
           ELSE start' = start /\ request.op = "list" /\
                \E d \in {cwd, Unknown} : request' = [request EXCEPT !.dir = d]
    BY <1>4, <2>1, <2>2 DEF Sd!ReadDir, SdIInv, SdTyped
  <2>31. request' \in Sd!Requests /\ request'.op = request.op
    BY <2>3 DEF SdIInv, SdTyped, Sd!Requests
  <2>32. request.op # "read" /\ shown = <<>>
    BY <2>2 DEF SdIInv
  <2>33. SdTyped' /\ Sd!ReadsWhatWasAsked' /\ request'.op = request.op
         /\ (request.op # "read" => shown' = <<>>)
    BY <2>3, <2>31, <2>32 DEF SdIInv, SdTyped, Sd!ReadsWhatWasAsked, Sd!NoPath
  <2>4. sdExit' = "error" \/ (sdExit' = "none" /\ sdTodo' = Tail(sdTodo))
    BY <1>4 DEF Sd!ReadDir
  <2>5. /\ sdExit' = "none" => SdKnown(k + 1)'
        /\ request.op # "list" => SdUserDir'
    BY <2>1, <2>2, <2>3, <2>31 DEF SdAt, SdKnown, SdListing, SdUserDir
  <2>6. k \in Nat /\ k + 1 \in 1..Len(SdPlan) /\ Tail(sdTodo) = SdFrom(k + 1)
    BY <1>4, <2>1, RestOfPlan DEF Sd!ReadDir
  <2>7. QED
    BY <2>33, <2>4, <2>5, <2>6, SdGoesOn
<1>5. CASE Sd!DirFirst(e)
  <2>1. PICK k : SdAt(k) /\ Head(sdTodo) = SdPlan[k]
    BY <1>5, CallAt DEF Sd!DirFirst
  <2>2. \/ request.op = "list" /\ Len(SdPlan) = 11 /\ k = 7
        \/ request.op = "read" /\ Len(SdPlan) = 11 /\ k = 4
    BY <1>5, <2>1 DEF Sd!DirFirst, SdAt, ListCalls, ReadCalls, ShortCalls, PlanHas, PlanHasTo
  <2>3. SdTyped' /\ Sd!ReadsWhatWasAsked' /\ request'.op = request.op
        /\ (request.op # "read" => shown' = <<>>)
    BY <1>5 DEF Sd!DirFirst, SdIInv, SdTyped, Sd!ReadsWhatWasAsked
  <2>4. sdExit' = "error" \/ (sdExit' = "none" /\ sdTodo' = Tail(sdTodo))
    BY <1>5 DEF Sd!DirFirst
  <2>5. /\ sdExit' = "none" => SdKnown(k + 1)'
        /\ request.op # "list" => SdUserDir'
    BY <1>5, <2>1, <2>2
       DEF Sd!DirFirst, SdAt, SdKnown, SdListing, SdReading, SdUserDir, Sd!Entries
  <2>6. k \in Nat /\ k + 1 \in 1..Len(SdPlan) /\ Tail(sdTodo) = SdFrom(k + 1)
    BY <1>5, <2>1, RestOfPlan DEF Sd!DirFirst
  <2>7. QED
    BY <2>3, <2>4, <2>5, <2>6, SdGoesOn
<1>6. CASE Sd!OpenFile(e)
  <2>1. PICK k : SdAt(k) /\ Head(sdTodo) = SdPlan[k]
    BY <1>6, CallAt DEF Sd!OpenFile
  <2>2. request.op = "read" /\ Len(SdPlan) = 11 /\ k = 8
    BY <1>6, <2>1 DEF Sd!OpenFile, SdAt, ListCalls, ReadCalls, ShortCalls, PlanHas, PlanHasTo
  <2>3. SdTyped' /\ Sd!ReadsWhatWasAsked' /\ request'.op = request.op
        /\ (request.op # "read" => shown' = <<>>)
    BY <1>6 DEF Sd!OpenFile, SdIInv, SdTyped, Sd!ReadsWhatWasAsked
  <2>4. sdExit' = "error" \/ (sdExit' = "none" /\ sdTodo' = Tail(sdTodo))
    BY <1>6 DEF Sd!OpenFile
  <2>5. /\ sdExit' = "none" => SdKnown(k + 1)'
        /\ request.op # "list" => SdUserDir'
    BY <1>6, <2>1, <2>2 DEF Sd!OpenFile, SdAt, SdKnown, SdReading, SdUserDir
  <2>6. k \in Nat /\ k + 1 \in 1..Len(SdPlan) /\ Tail(sdTodo) = SdFrom(k + 1)
    BY <1>6, <2>1, RestOfPlan DEF Sd!OpenFile
  <2>7. QED
    BY <2>3, <2>4, <2>5, <2>6, SdGoesOn
<1>7. CASE Sd!Read(e)
  <2>1. PICK k : SdAt(k) /\ Head(sdTodo) = SdPlan[k]
    BY <1>7, CallAt DEF Sd!Read
  <2>2. request.op = "read" /\ Len(SdPlan) = 11 /\ k = 9
    BY <1>7, <2>1 DEF Sd!Read, SdAt, ListCalls, ReadCalls, ShortCalls, PlanHas, PlanHasTo
  <2>3. SdTyped' /\ Sd!ReadsWhatWasAsked' /\ request'.op = request.op
        /\ (request.op # "read" => shown' = <<>>)
    BY <1>7, <2>1, <2>2, RequestOps
       DEF Sd!Read, SdAt, SdIInv, SdTyped, Sd!ReadsWhatWasAsked, SdKnown, SdReading, SdListing
  <2>4. sdExit' = "error" \/ (sdExit' = "none" /\ sdTodo' = Tail(sdTodo))
    BY <1>7 DEF Sd!Read
  <2>5. /\ sdExit' = "none" => SdKnown(k + 1)'
        /\ request.op # "list" => SdUserDir'
    BY <1>7, <2>1, <2>2 DEF Sd!Read, SdAt, SdKnown, SdReading, SdUserDir
  <2>6. k \in Nat /\ k + 1 \in 1..Len(SdPlan) /\ Tail(sdTodo) = SdFrom(k + 1)
    BY <1>7, <2>1, RestOfPlan DEF Sd!Read
  <2>7. QED
    BY <2>3, <2>4, <2>5, <2>6, SdGoesOn
<1>8. CASE Sd!CloseFile(e)
  <2>1. PICK k : SdAt(k) /\ Head(sdTodo) = SdPlan[k]
    BY <1>8, CallAt DEF Sd!CloseFile
  <2>2. request.op = "read" /\ Len(SdPlan) = 11 /\ k = 10
    BY <1>8, <2>1 DEF Sd!CloseFile, SdAt, ListCalls, ReadCalls, ShortCalls, PlanHas, PlanHasTo
  <2>3. SdTyped' /\ Sd!ReadsWhatWasAsked' /\ request'.op = request.op
        /\ (request.op # "read" => shown' = <<>>)
    BY <1>8 DEF Sd!CloseFile, SdIInv, SdTyped, Sd!ReadsWhatWasAsked
  <2>4. sdExit' = "error" \/ (sdExit' = "none" /\ sdTodo' = Tail(sdTodo))
    BY <1>8 DEF Sd!CloseFile
  <2>5. /\ sdExit' = "none" => SdKnown(k + 1)'
        /\ request.op # "list" => SdUserDir'
    BY <1>8, <2>1, <2>2 DEF Sd!CloseFile, SdAt, SdKnown, SdReading, SdUserDir
  <2>6. k \in Nat /\ k + 1 \in 1..Len(SdPlan) /\ Tail(sdTodo) = SdFrom(k + 1)
    BY <1>8, <2>1, RestOfPlan DEF Sd!CloseFile
  <2>7. QED
    BY <2>3, <2>4, <2>5, <2>6, SdGoesOn
<1>9. CASE Sd!Delete(e)
  <2>1. PICK k : SdAt(k) /\ Head(sdTodo) = SdPlan[k]
    BY <1>9, CallAt DEF Sd!Delete
  <2>2. request.op = "delete" /\ Len(SdPlan) = 3 /\ k = 2
    BY <1>9, <2>1 DEF Sd!Delete, SdAt, ListCalls, ReadCalls, ShortCalls, PlanHas, PlanHasTo
  <2>3. SdTyped' /\ Sd!ReadsWhatWasAsked' /\ request'.op = request.op
        /\ (request.op # "read" => shown' = <<>>)
    BY <1>9 DEF Sd!Delete, SdIInv, SdTyped, Sd!ReadsWhatWasAsked
  <2>4. sdExit' = "error" \/ (sdExit' = "none" /\ sdTodo' = Tail(sdTodo))
    BY <1>9 DEF Sd!Delete
  <2>5. /\ sdExit' = "none" => SdKnown(k + 1)'
        /\ request.op # "list" => SdUserDir'
    BY <1>9, <2>1, <2>2 DEF Sd!Delete, SdAt, SdKnown, SdUserDir
  <2>6. k \in Nat /\ k + 1 \in 1..Len(SdPlan) /\ Tail(sdTodo) = SdFrom(k + 1)
    BY <1>9, <2>1, RestOfPlan DEF Sd!Delete
  <2>7. QED
    BY <2>3, <2>4, <2>5, <2>6, SdGoesOn
<1>10. CASE Sd!CheckAbsolute
  <2>1. PICK k : SdAt(k) /\ Head(sdTodo) = SdPlan[k]
    BY <1>10, CallAt DEF Sd!CheckAbsolute
  <2>2. request.op = "read" /\ Len(SdPlan) = 11 /\ k = 1
    BY <1>10, <2>1
       DEF Sd!CheckAbsolute, SdAt, ListCalls, ReadCalls, ShortCalls, PlanHas, PlanHasTo
  <2>3. SdTyped' /\ Sd!ReadsWhatWasAsked' /\ request'.op = request.op
        /\ (request.op # "read" => shown' = <<>>)
    BY <1>10 DEF Sd!CheckAbsolute, SdIInv, SdTyped, Sd!ReadsWhatWasAsked
  <2>4. sdExit' = "error" \/ (sdExit' = "none" /\ sdTodo' = Tail(sdTodo))
    BY <1>10 DEF Sd!CheckAbsolute
  <2>5. /\ sdExit' = "none" => SdKnown(k + 1)'
        /\ request.op # "list" => SdUserDir'
    BY <1>10, <2>1, <2>2, RequestOps
       DEF Sd!CheckAbsolute, SdAt, SdIInv, SdTyped, SdKnown, SdReading, SdUserDir
  <2>6. k \in Nat /\ k + 1 \in 1..Len(SdPlan) /\ Tail(sdTodo) = SdFrom(k + 1)
    BY <1>10, <2>1, RestOfPlan DEF Sd!CheckAbsolute
  <2>7. QED
    BY <2>3, <2>4, <2>5, <2>6, SdGoesOn
<1>11. CASE Sd!CheckFound
  <2>1. PICK k : SdAt(k) /\ Head(sdTodo) = SdPlan[k]
    BY <1>11, CallAt DEF Sd!CheckFound
  <2>2. request.op = "read" /\ Len(SdPlan) = 11 /\ k = 6
    BY <1>11, <2>1 DEF Sd!CheckFound, SdAt, ListCalls, ReadCalls, ShortCalls, PlanHas, PlanHasTo
  <2>3. SdTyped' /\ Sd!ReadsWhatWasAsked' /\ request'.op = request.op
        /\ (request.op # "read" => shown' = <<>>)
    BY <1>11 DEF Sd!CheckFound, SdIInv, SdTyped, Sd!ReadsWhatWasAsked
  <2>4. sdExit' = "error" \/ (sdExit' = "none" /\ sdTodo' = Tail(sdTodo))
    BY <1>11 DEF Sd!CheckFound
  <2>5. /\ sdExit' = "none" => SdKnown(k + 1)'
        /\ request.op # "list" => SdUserDir'
    BY <1>11, <2>1, <2>2 DEF Sd!CheckFound, SdAt, SdKnown, SdReading, SdUserDir
  <2>6. k \in Nat /\ k + 1 \in 1..Len(SdPlan) /\ Tail(sdTodo) = SdFrom(k + 1)
    BY <1>11, <2>1, RestOfPlan DEF Sd!CheckFound
  <2>7. QED
    BY <2>3, <2>4, <2>5, <2>6, SdGoesOn
<1>12. CASE Sd!DirNext(e)
  <2>1. PICK k : SdAt(k) /\ sdTodo = SdFrom(k) /\ Head(sdTodo) = SdPlan[k]
    BY <1>12, CallAt DEF Sd!DirNext
  <2>2. \/ request.op = "list" /\ Len(SdPlan) = 11 /\ k = 8
        \/ request.op = "read" /\ Len(SdPlan) = 11 /\ k = 5
    BY <1>12, <2>1 DEF Sd!DirNext, SdAt, ListCalls, ReadCalls, ShortCalls, PlanHas, PlanHasTo
  <2>3. SdTyped' /\ Sd!ReadsWhatWasAsked' /\ request' = request /\ SdPlan' = SdPlan
        /\ (request.op # "read" => shown' = <<>>)
    BY <1>12 DEF Sd!DirNext, SdIInv, SdTyped, Sd!ReadsWhatWasAsked, SdPlan
  <2>4. sdExit' = "error" \/ (sdExit' = "none" /\ sdTodo' \in {sdTodo, Tail(sdTodo)})
    BY <1>12 DEF Sd!DirNext
  <2>5. request.op # "list" => SdKnown(k)' /\ SdKnown(k + 1)' /\ SdUserDir' = SdUserDir
    BY <1>12, <2>1, <2>2 DEF Sd!DirNext, SdAt, SdKnown, SdReading, SdUserDir
  <2>6. k \in Nat /\ k + 1 \in 1..Len(SdPlan) /\ Tail(sdTodo) = SdFrom(k + 1)
    BY <1>12, <2>1, RestOfPlan DEF Sd!DirNext
  <2>7. sdExit' = "error" => SdIInv'
    <3>1. request.op # "list" => SdUserDir
      BY <2>1, <2>2 DEF SdAt, SdKnown, SdReading, SdUserDir
    <3>2. QED
      BY <2>3, <2>5, <3>1 DEF SdIInv
  <2>8. ASSUME sdExit' = "none", NEW j \in 1..Len(SdPlan), sdTodo' = SdFrom(j), SdKnown(j)'
        PROVE  SdIInv'
    <3>1. sdTodo' = SdFrom(j)' /\ j \in 1..Len(SdPlan')
      BY <2>3, <2>8 DEF SdFrom
    <3>2. QED
      BY <2>3, <2>8, <3>1 DEF SdIInv
  <2>9. CASE request.op = "list" /\ sdExit' = "none"
    <3>1. k = 8 /\ SdListing(8)
      BY <2>1, <2>2, <2>9 DEF SdAt, SdKnown
    <3>2. PICK name \in unlisted :
            /\ unlisted' = unlisted \ {name} /\ dir' = dir \cup {name}
            /\ sdTodo' = IF unlisted = {name} THEN Tail(sdTodo) ELSE sdTodo
      BY <1>12 DEF Sd!DirNext
    <3>3. /\ cwd' = cwd /\ start' = start /\ card' = card /\ excused' = excused
          /\ userDir' = userDir
      BY <1>12 DEF Sd!DirNext
    <3>4. ~excused => cwd = request.dir /\ start \in {userDir, Unknown}
      BY <3>1 DEF SdListing
    <3>5. dir \cup unlisted = Sd!Entries(cwd) /\ Sd!Entries(cwd)' = Sd!Entries(cwd)
      BY <3>1, <3>3 DEF SdListing, Sd!Entries
    <3>6. ~excused' => cwd' = request'.dir /\ start' \in {userDir', Unknown}
      BY <2>3, <3>3, <3>4
    <3>7. CASE unlisted = {name}
      <4>1. sdTodo' = SdFrom(9)
        BY <2>6, <3>1, <3>2, <3>7
      <4>2. dir' = Sd!Entries(cwd)'
        BY <3>2, <3>5, <3>7
      <4>3. SdListing(9)'
        BY <3>6, <4>2 DEF SdListing
      <4>4. SdKnown(9)'
        BY <2>3, <2>9, <4>3 DEF SdKnown
      <4>5. Len(SdPlan) = 11
        BY <2>2
      <4>6. 9 \in 1..Len(SdPlan)
        BY <4>5
      <4>7. QED
        BY <2>8, <2>9, <4>1, <4>4, <4>6
    <3>8. CASE unlisted # {name}
      <4>1. sdTodo' = SdFrom(8)
        BY <2>1, <3>1, <3>2, <3>8
      <4>2. dir' \cup unlisted' = Sd!Entries(cwd)'
        BY <3>2, <3>5
      <4>3. SdListing(8)'
        BY <3>6, <4>2 DEF SdListing
      <4>4. SdKnown(8)'
        BY <2>3, <2>9, <4>3 DEF SdKnown
      <4>5. Len(SdPlan) = 11
        BY <2>2
      <4>6. 8 \in 1..Len(SdPlan)
        BY <4>5
      <4>7. QED
        BY <2>8, <2>9, <4>1, <4>4, <4>6
    <3>9. QED
      BY <3>7, <3>8
  <2>10. CASE request.op # "list" /\ sdExit' = "none"
    <3>1. sdTodo' = SdFrom(k) \/ sdTodo' = SdFrom(k + 1)
      BY <2>1, <2>4, <2>6, <2>10
    <3>2. k \in 1..Len(SdPlan)
      BY <2>1 DEF SdAt
    <3>3. QED
      BY <2>5, <2>6, <2>8, <2>10, <3>1, <3>2
  <2>11. QED
    BY <2>4, <2>7, <2>9, <2>10
<1>13. CASE Sd!CloseDevice(e)
  <2>1. PICK k : SdAt(k) /\ Head(sdTodo) = SdPlan[k]
    BY <1>13, CallAt DEF Sd!CloseDevice
  <2>2. \/ request.op = "list" /\ Len(SdPlan) = 11 /\ k = 11
        \/ request.op = "read" /\ Len(SdPlan) = 11 /\ k = 11
        \/ request.op \in {"change", "delete", "pwd"} /\ Len(SdPlan) = 3 /\ k = 3
    BY <1>13, <2>1
       DEF Sd!CloseDevice, SdAt, ListCalls, ReadCalls, ShortCalls, PlanHas, PlanHasTo
  <2>3. SdUserDir
    BY <2>1, <2>2 DEF SdAt, SdKnown, SdListing, SdReading, SdUserDir
  <2>4. /\ request' = request /\ cwd' = cwd /\ userDir' = userDir /\ start' = start
        /\ excused' = excused /\ shown' = shown /\ sdExit' \in {"ok", "error"}
    BY <1>13 DEF Sd!CloseDevice, Sd!CloseOrDie, Sd!NormalExit
  <2>5. /\ SdUserDir' /\ SdTyped' /\ Sd!ReadsWhatWasAsked'
        /\ request'.op # "read" => shown' = <<>>
    BY <2>3, <2>4 DEF SdUserDir, SdIInv, SdTyped, Sd!ReadsWhatWasAsked
  <2>6. QED
    BY <2>4, <2>5 DEF SdIInv
<1>14. CASE Sd!OpenDevice(e)
  <2>1. sdTodo = Sd!Main(request) /\ SdUserDir /\ shown = <<>>
    <3>1. ASSUME NEW k \in 1..Len(SdPlan), sdTodo = SdFrom(k), SdKnown(k)
          PROVE  FALSE
      <4>1. Len(SdPlan) \in Nat /\ SdPlan[k].op # "open"
        BY RequestOps, PlanCalls DEF SdIInv, SdTyped, ListCalls, ReadCalls, ShortCalls, PlanHas,
           PlanHasTo
      <4>2. Head(sdTodo) = SdPlan[k]
        BY <3>1, <4>1, RestFacts DEF SdFrom
      <4>3. QED
        BY <1>14, <4>1, <4>2 DEF Sd!OpenDevice
    <3>2. QED
      BY <1>14, <3>1 DEF Sd!OpenDevice, SdIInv
  <2>2. /\ request' = request /\ cwd' = cwd /\ userDir' = userDir /\ start' = start
        /\ excused' = excused /\ shown' = shown
        /\ sdExit' = "error" \/ (sdExit' = "none" /\ sdTodo' = Tail(sdTodo))
    BY <1>14 DEF Sd!OpenDevice, Sd!OpenOrDie
  <2>3. SdUserDir' /\ SdTyped' /\ Sd!ReadsWhatWasAsked' /\ shown' = <<>>
    BY <2>1, <2>2 DEF SdUserDir, SdIInv, SdTyped, Sd!ReadsWhatWasAsked
  <2>4. request.op \in {"list", "read", "change", "delete", "pwd"} /\ SdPlan' = SdPlan
    BY <2>2, RequestOps DEF SdIInv, SdTyped, SdPlan
  <2>5. ASSUME sdExit' = "none"
        PROVE  \E j \in 1..Len(SdPlan) : Tail(sdTodo) = SdFrom(j) /\ SdKnown(j)'
    <3>1. CASE request.op = "list"
      <4>1. SdPlan = ListPlan /\ Len(SdPlan) = 11
        BY <3>1, PlanFacts DEF SdPlan, SdPlans
      <4>2. Tail(sdTodo) = SdFrom(1) \/ Tail(sdTodo) = SdFrom(3)
        BY <2>1, <3>1, <4>1, MainList DEF SdFrom
      <4>3. SdListing(1)' /\ SdListing(3)'
        BY <2>3 DEF SdListing
      <4>4. SdKnown(1)' /\ SdKnown(3)'
        BY <2>2, <3>1, <4>3 DEF SdKnown
      <4>5. QED
        BY <4>1, <4>2, <4>4
    <3>2. CASE request.op # "list"
      <4>1. Tail(sdTodo) = SdFrom(1)
        BY <2>1, <2>4, <3>2, MainOthers DEF SdFrom, SdPlan
      <4>2. Len(SdPlan) \in {3, 11}
        BY <2>4, PlanFacts DEF SdPlan, SdPlans
      <4>3. SdReading(1)'
        BY <2>3 DEF SdReading
      <4>4. SdKnown(1)'
        BY <2>2, <2>3, <3>2, <4>3 DEF SdKnown
      <4>5. QED
        BY <4>1, <4>2, <4>4
    <3>3. QED
      BY <3>1, <3>2
  <2>6. ASSUME sdExit' = "none"
        PROVE  \E j \in 1..Len(SdPlan') : sdTodo' = SdFrom(j)' /\ SdKnown(j)'
    BY <2>2, <2>4, <2>5, <2>6 DEF SdFrom
  <2>7. QED
    BY <2>2, <2>3, <2>6 DEF SdIInv
<1>15. QED
  BY <1>14, <1>1, <1>2, <1>3, <1>4, <1>5, <1>6, <1>7, <1>8, <1>9, <1>10, <1>11, <1>12, <1>13
     DEF Sd!ACall

(* SdIInv is kept when the user runs another program. *)
LEMMA SdStartsNext ==
  ASSUME SdIInv, NEW r \in Sd!Requests, Sd!StartNext(r)
  PROVE  SdIInv'
<1>1. /\ request' = r /\ sdTodo' = Sd!Main(r) /\ sdExit' = "none" /\ start' = Unknown
      /\ shown' = <<>> /\ cwd' = cwd /\ userDir' = userDir /\ sdExit # "none"
      /\ excused' = (excused \/ (request.op = "list" /\ sdExit = "error"))
  BY DEF Sd!StartNext, Sd!Running, Sd!deviceVars, Sd!NoPath
<1>2. SdTyped' /\ Sd!ReadsWhatWasAsked'
  BY <1>1 DEF SdIInv, SdTyped, Sd!ReadsWhatWasAsked, Sd!NoPath
<1>3. SdUserDir'
  <2>1. CASE sdExit = "ok" \/ request.op # "list"
    <3>1. SdUserDir
      BY <1>1, <2>1 DEF SdIInv
    <3>2. QED
      BY <1>1, <3>1 DEF SdUserDir
  <2>2. CASE sdExit # "ok" /\ request.op = "list"
    BY <1>1, <2>2 DEF SdIInv, SdUserDir
  <2>3. QED
    BY <2>1, <2>2
<1>4. QED
  BY <1>1, <1>2, <1>3 DEF SdIInv

(* SdIInv holds at first. *)
LEMMA SdStarts ==
  ASSUME Sd!SdAssumption, Sd!Init
  PROVE  SdIInv
BY DEF Sd!Init, Sd!SessionInit, Sd!SdAssumption, Sd!NoPath, SdIInv, SdTyped, SdUserDir,
   Sd!ReadsWhatWasAsked

(* SdIInv is kept by every step. *)
LEMMA SdSteps ==
  ASSUME Sd!SdAssumption, SdIInv, Sd!Next \/ UNCHANGED sdVars
  PROVE  SdIInv'
<1>1. CASE UNCHANGED sdVars
  BY <1>1 DEF sdVars, SdIInv, SdTyped, SdUserDir, SdFrom, SdPlan, SdKnown, SdListing, SdReading,
     Sd!Entries, Sd!ReadsWhatWasAsked
<1>2. CASE Sd!Finished
  BY <1>1, <1>2 DEF Sd!Finished, Sd!vars, Sd!sessionVars, Sd!deviceVars, Sd!historyVars, sdVars
<1>3. "ok" \in Sd!Outcome
  BY DEF Sd!Outcome
<1>4. QED
  BY <1>1, <1>2, <1>3, SdProgramSteps, SdStartsNext DEF Sd!Next

(* What SdIInv says of the listing and of the current directory. *)
LEMMA SdPromises ==
  ASSUME SdIInv
  PROVE  Sd!SdSafe
<1>1. request.op \in {"list", "read", "change", "delete", "pwd"}
  BY RequestOps DEF SdIInv, SdTyped
<1>2. Sd!ListingComplete
  <2> SUFFICES ASSUME sdExit = "none", request.op = "list", ~excused,
                      sdTodo = Sd!GoToPath("start") \o <<Sd!Call("close")>>
               PROVE  dir = Sd!Entries(request.dir)
    BY DEF Sd!ListingComplete, Sd!Running
  <2>1. Head(sdTodo) = SdTo("PATH_WRITE", "start")
    BY DEF Sd!GoToPath, Sd!Call, SdTo
  <2>2. Head(sdTodo).op # "open" /\ Head(sdTodo).op = "PATH_WRITE" /\ Head(sdTodo).to = "start"
    BY <2>1 DEF SdTo
  <2>3. PICK k : SdAt(k) /\ Head(sdTodo) = SdPlan[k]
    BY <2>2, CallAt
  <2>4. k = 9
    BY <2>2, <2>3 DEF SdAt, ListCalls, PlanHas, PlanHasTo
  <2>5. SdListing(9)
    BY <2>3, <2>4 DEF SdAt, SdKnown
  <2>6. QED
    BY <2>5 DEF SdListing
<1>3. Sd!DirectoryKept
  <2>1. sdExit = "ok" => SdUserDir
    BY DEF SdIInv
  <2>2. ASSUME sdExit = "none", Head(sdTodo).op = "open"
        PROVE  SdUserDir
    <3>1. ASSUME NEW k \in 1..Len(SdPlan), sdTodo = SdFrom(k)
          PROVE  FALSE
      <4>1. Len(SdPlan) \in Nat /\ SdPlan[k].op # "open"
        BY <1>1, PlanCalls DEF ListCalls, ReadCalls, ShortCalls, PlanHas, PlanHasTo
      <4>2. Head(sdTodo) = SdPlan[k]
        BY <3>1, <4>1, RestFacts DEF SdFrom
      <4>3. QED
        BY <2>2, <4>1, <4>2
    <3>2. QED
      BY <2>2, <3>1 DEF SdIInv
  <2>3. ASSUME sdExit = "none", Head(sdTodo).op = "DELETE"
        PROVE  SdUserDir
    <3>1. PICK k : SdAt(k) /\ Head(sdTodo) = SdPlan[k]
      BY <2>3, CallAt
    <3>2. request.op = "delete"
      BY <2>3, <3>1 DEF SdAt, ListCalls, ReadCalls, ShortCalls, PlanHas, PlanHasTo
    <3>3. QED
      BY <3>1, <3>2 DEF SdAt, SdKnown
  <2>4. QED
    BY <2>1, <2>2, <2>3 DEF Sd!DirectoryKept, Sd!Running, SdUserDir
<1>4. QED
  BY <1>2, <1>3 DEF Sd!SdSafe, SdIInv

-----------------------------------------------------------------------------
(* The network configuration (TcpConfigure). *)

UnreadPlaces == {"args", "open", "defaults", "power", "associate", "updating", "rejoin",
                 "reassociate", "readIP", "pollIP"}

(* The inductive invariant.  That the test talks to the configured device    *)
(* needs that its address is nobody else's while its interface is up, and    *)
(* that what was read while it was up is this address or the static one.     *)
TcpIInv ==
  /\ tcpPc \in UnreadPlaces \cup {"close", "testing", "tested", "exit"}
  /\ tcpExit = "none" <=> tcpPc # "exit"
  /\ address \in Leases \cup {Static} /\ ipDefault \in {DHCP, Static}
  /\ neighbour \in Leases \cup {Zero}
  /\ link \in {"down", "starting", "joined", "up", "failed"}
  /\ link = "up" => address # neighbour
  /\ tcpPc \in UnreadPlaces => IPAddress \in {DHCP, Static}
  /\ tcpPc \notin {"tested", "exit"} => tested = "none"
  /\ tcpPc \in {"close", "testing"} /\ ~unread /\ ~early =>
       IPAddress = Static \/ (link = "up" /\ IPAddress = address)
  /\ tcpPc \in {"args", "open"} => tcpHandle = "none"
  /\ tcpPc \in {"testing", "tested"} /\ tcpHandle = "open" => unread
  /\ Tcp!TcpSafe

(* TcpIInv is kept by every step of the program. *)
LEMMA TcpProgramSteps ==
  ASSUME TcpIInv, Tcp!Program, Tcp!TcpAssumption
  PROVE  TcpIInv'
<1> USE DEF TcpIInv, UnreadPlaces, Tcp!TcpSafe, Tcp!TestsConfiguredDevice, Tcp!HandleClosed,
            Tcp!Running, Tcp!Unwatched, Tcp!argVars, Tcp!deviceVars, Tcp!sessionVars,
            Tcp!CheckedExit, Tcp!BareExit, Tcp!ErrorCheckDies, Tcp!TcpAssumption
<1>1. ASSUME NEW ssid \in BOOLEAN, Tcp!Args(ssid)
      PROVE  TcpIInv'
  BY <1>1 DEF Tcp!Args
<1>2. CASE Tcp!NoTest
  BY <1>2 DEF Tcp!NoTest
<1> SUFFICES ASSUME NEW e \in Tcp!Outcome,
                    \/ Tcp!Open(e) \/ Tcp!SetDefaults(e) \/ Tcp!Restart(e) \/ Tcp!PollStatus(e)
                    \/ Tcp!ReadEthernetIP(e) \/ Tcp!PollIP(e) \/ Tcp!Close(e)
                    \/ Tcp!TestOpen(e) \/ Tcp!TestEnd(e)
                    \/ \E status \in {"busy", "success", "failed"} : Tcp!PollUpdate(e, status)
             PROVE  TcpIInv'
  BY <1>1, <1>2 DEF Tcp!Program
<1> USE DEF Tcp!ErrorCheck
<1>3. CASE Tcp!Open(e)
  BY <1>3 DEF Tcp!Open
<1>4. CASE Tcp!SetDefaults(e)
  BY <1>4 DEF Tcp!SetDefaults
<1>5. CASE Tcp!Restart(e)
  BY <1>5 DEF Tcp!Restart
<1>6. CASE Tcp!PollStatus(e)
  BY <1>6 DEF Tcp!PollStatus
<1>7. CASE Tcp!ReadEthernetIP(e)
  BY <1>7 DEF Tcp!ReadEthernetIP, Tcp!Readings
<1>8. CASE Tcp!PollIP(e)
  BY <1>8 DEF Tcp!PollIP, Tcp!Readings
<1>9. CASE Tcp!Close(e)
  BY <1>9 DEF Tcp!Close
<1>10. CASE Tcp!TestOpen(e)
  BY <1>10 DEF Tcp!TestOpen, Tcp!Answering
<1>11. CASE Tcp!TestEnd(e)
  BY <1>11 DEF Tcp!TestEnd
<1>12. ASSUME NEW status \in {"busy", "success", "failed"}, Tcp!PollUpdate(e, status)
       PROVE  TcpIInv'
  BY <1>12 DEF Tcp!PollUpdate
<1>13. QED
  BY <1>3, <1>4, <1>5, <1>6, <1>7, <1>8, <1>9, <1>10, <1>11, <1>12

(* TcpIInv holds at first, and is kept by every step. *)
LEMMA TcpSteps ==
  ASSUME Tcp!TcpAssumption
  PROVE  /\ Tcp!Init => TcpIInv
         /\ TcpIInv /\ [Tcp!Next]_tcpVars => TcpIInv'
<1> USE DEF Tcp!TcpAssumption
<1>1. Tcp!Init => TcpIInv
  BY DEF Tcp!Init, Tcp!SessionInit, TcpIInv, UnreadPlaces, Tcp!TcpSafe,
         Tcp!TestsConfiguredDevice, Tcp!HandleClosed, Tcp!Running
<1>2. ASSUME TcpIInv, [Tcp!Next]_tcpVars
      PROVE  TcpIInv'
  <2>1. CASE Tcp!Program
    BY <1>2, <2>1, TcpProgramSteps
  <2> USE DEF TcpIInv, UnreadPlaces, Tcp!TcpSafe, Tcp!TestsConfiguredDevice,
              Tcp!HandleClosed, Tcp!Running, Tcp!Unwatched, Tcp!argVars, Tcp!deviceVars,
              Tcp!sessionVars
  <2>2. CASE Tcp!LinkStarts
    BY <1>2, <2>2 DEF Tcp!LinkStarts
  <2>3. CASE Tcp!LinkUp
    BY <1>2, <2>3 DEF Tcp!LinkUp
  <2>4. CASE Tcp!NeighbourMoves
    BY <1>2, <2>4 DEF Tcp!NeighbourMoves
  <2>5. CASE UNCHANGED tcpVars \/ Tcp!Finished
    BY <1>2, <2>5 DEF tcpVars, Tcp!Finished, Tcp!vars
  <2>6. QED
    BY <1>2, <2>1, <2>2, <2>3, <2>4, <2>5 DEF Tcp!Next
<1>3. QED
  BY <1>1, <1>2

-----------------------------------------------------------------------------
(* The programs paced by the host's clock (TimedPrograms). *)

(* The calls of each program, before, during and after its stream. *)
TimedPlaces ==
  [only      |-> {"open", "disable", "loop", "settings", "start", "begin", "target", "status",
                  "sleep", "stop", "close", "exit"},
   periodic  |-> {"open", "load", "start", "run", "stop", "close", "exit"},
   aperiodic |-> {"open", "initialize", "start", "write", "streamRead", "drain", "stop",
                  "close", "exit"},
   burst     |-> {"open", "disable", "settings", "burst", "close", "exit"},
   reboot    |-> {"open", "reboot", "poll", "close", "exit"}]
TimedStream == {"begin", "target", "status", "sleep", "run", "write", "streamRead", "drain",
                "stop"}

TimedTyped ==
  /\ timedProgram \in {"only", "periodic", "aperiodic", "burst", "reboot"}
  /\ timedPc \in TimedPlaces[timedProgram]
  /\ timedExit \in {"none", "ok", "error"}
  /\ timedExit = "none" <=> timedPc # "exit"
  /\ timedRound \in Nat /\ now \in Nat /\ beganAt \in Nat /\ t0 \in Nat /\ wake \in Nat
  /\ startedAt \in Nat /\ scansOut \in Nat /\ scansRead \in Nat /\ queuedValues \in Nat
  /\ lastReading \in Nat /\ readingOffset \in Nat /\ starved \in Nat
  /\ heldScans \in BOOLEAN /\ overran \in BOOLEAN /\ hitReconnectError \in BOOLEAN

(* Whose stream runs, and where the device is. *)
TimedDevice ==
  /\ timedPc \in TimedStream => timedStreaming = "own"
  /\ timedPc \notin TimedStream \cup {"exit"} => timedStreaming # "own"
  /\ timedExit = "ok" => timedStreaming # "own"
  /\ timedProgram = "reboot" =>
       /\ hitReconnectError =>
            devicePower \in {"down", "back"} /\ timedPc \in {"poll", "close", "exit"}
       /\ timedPc = "close" => hitReconnectError /\ devicePower = "back"
       /\ timedExit = "ok" => devicePower = "back"

(* The scans clocked so far are those of the time since the start. *)
TimedUnit == IF timedProgram = "only" THEN Period ELSE 1
TimedScans ==
  /\ timedPc \in {"loop", "load", "initialize", "start", "open", "disable", "settings"} =>
       scansOut = 0 /\ starved = 0
  /\ timedPc \in TimedStream =>
       /\ startedAt <= now
       /\ heldScans => scansOut = 0
       /\ ~heldScans => /\ TimedUnit * scansOut <= now - startedAt
                        /\ now - startedAt < TimedUnit * scansOut + TimedUnit
  /\ timedProgram = "only" /\ timedPc \in TimedStream \cup {"start"} => ~heldScans

(* stream_out_only: each iteration takes at least a period, and exactly one *)
(* if none overran.                                                        *)
TimedOnly ==
  timedProgram = "only" =>
    /\ timedPc \in {"open", "disable", "loop", "settings", "start", "begin"} =>
         timedRound = 0 /\ ~overran
    /\ timedPc \in {"target", "status", "sleep"} => timedRound < TimedReads
    /\ timedPc \in {"target", "status", "sleep", "stop"} =>
         /\ startedAt <= beganAt /\ t0 <= now
         /\ Period * readingOffset <= beganAt - startedAt
         /\ beganAt - startedAt < Period * readingOffset + Period
         /\ beganAt + Period * timedRound <= t0
         /\ ~overran => t0 = beganAt + Period * timedRound
    /\ timedPc \in {"status", "sleep"} => t0 - startedAt < Period * lastReading + Period
    /\ timedPc = "status" => Period * lastReading <= now - startedAt
    /\ timedPc = "sleep" => /\ t0 + Period <= wake
                            /\ ~overran => /\ wake = t0 + Period
                                           /\ Period * lastReading <= wake - startedAt
    /\ timedPc = "stop" => timedRound = TimedReads
    /\ timedPc \in {"stop", "close"} \/ timedExit = "ok" => scansOut >= TimedReads

TimedPeriodic ==
  timedProgram = "periodic" =>
    /\ timedPc = "run" => wake = startedAt + RunTime
    /\ timedPc \in {"stop", "close"} \/ timedExit = "ok" => heldScans \/ scansOut >= RunTime

(* The values written so far have been output, unless they are queued. *)
TimedAperiodic ==
  timedProgram = "aperiodic" =>
    /\ timedPc \in {"open", "initialize", "start"} => timedRound = 0
    /\ timedPc \in {"start"} => queuedValues = 2 * Chunk /\ beganAt <= now
    /\ timedPc \in {"write", "streamRead"} => timedRound < NumWrites
    /\ timedPc \in {"drain", "stop"} => timedRound = NumWrites /\ ~heldScans
    /\ timedPc \in {"write", "streamRead", "drain", "stop"} =>
         /\ beganAt <= startedAt
         /\ queuedValues + scansOut =
              starved + Chunk * (timedRound + IF timedPc = "streamRead" THEN 3 ELSE 2)
    /\ timedPc = "drain" => Chunk * (NumWrites + 2) + beganAt <= wake
    /\ timedPc \in {"stop", "close"} \/ timedExit = "ok" =>
         queuedValues <= (startedAt - beganAt) + starved

TimedIInv ==
  /\ TimedTyped /\ TimedDevice /\ TimedScans
  /\ TimedOnly /\ TimedPeriodic /\ TimedAperiodic

(* The constants are positive numbers. *)
LEMMA TimedConstants ==
  ASSUME Timed!TimedAssumption
  PROVE  /\ Period \in Nat /\ Period > 0 /\ TimedReads \in Nat /\ TimedReads > 0
         /\ Chunk \in Nat /\ Chunk > 0 /\ TimedScansPerRead \in Nat /\ TimedScansPerRead > 0
         /\ NumWrites \in Nat /\ NumWrites > 0 /\ RunTime \in Nat /\ RunTime > 0
         /\ Wrap \in Nat /\ Wrap > 0 /\ MaxTime \in Nat
  BY DEF Timed!TimedAssumption

(* The scan that ends a whole number of periods after the start. *)
LEMMA ScanDueAt ==
  ASSUME NEW P \in Nat, P > 0, NEW s \in Nat, NEW n \in Nat,
         P * s <= n, n < P * s + P
  PROVE  (n + 1) % P = 0 <=> n + 1 = P * s + P
<1> DEFINE q == (n + 1) \div P
           r == (n + 1) % P
<1>1. /\ q \in Int /\ r \in 0..(P - 1) /\ n + 1 = P * q + r
  OBVIOUS
<1> HIDE DEF q, r
<1>2. q >= s + 1 => P * q >= P * s + P
  BY <1>1
<1>3. q <= s => P * q <= P * s
  BY <1>1
<1>4. q >= s + 2 => P * q >= P * s + 2 * P
  BY <1>1
<1>5. r = 0 => n + 1 = P * s + P
  BY <1>1, <1>2, <1>3, <1>4
<1>6. n + 1 = P * s + P => r = 0
  <2> SUFFICES ASSUME n + 1 = P * s + P
               PROVE  r = 0
    OBVIOUS
  <2>1. q <= s + 1
    BY <1>1, <1>4
  <2>2. q >= s + 1
    BY <1>1, <1>3
  <2>3. QED
    BY <1>1, <2>1, <2>2
<1>7. r = 0 <=> n + 1 = P * s + P
  BY <1>5, <1>6
<1>8. QED
  BY ONLY <1>7, Zenon DEF r

LEMMA TimedProgramSteps ==
  ASSUME TimedIInv, Timed!Program, Timed!TimedAssumption
  PROVE  TimedIInv'
<1> USE TimedConstants
<1> USE DEF TimedIInv, TimedTyped, TimedPlaces, TimedStream, TimedDevice, TimedScans, TimedUnit,
            TimedOnly, TimedPeriodic, TimedAperiodic, Timed!At, Timed!Running, Timed!Unmoved,
            Timed!clockVars, Timed!programVars, Timed!deviceVars, Timed!sessionVars
<1>1. CASE Timed!BeginLoop
  <2>1. (TimedTyped /\ TimedDevice /\ TimedScans)'
    BY <1>1 DEF Timed!BeginLoop
  <2>2. TimedOnly' /\ TimedPeriodic'
    BY <1>1 DEF Timed!BeginLoop
  <2>3. TimedAperiodic'
    BY <1>1 DEF Timed!BeginLoop
  <2>4. QED
    BY <2>1, <2>2, <2>3
<1>2. CASE Timed!NextIteration
  <2>0. /\ Period \in Nat /\ timedRound \in Nat /\ scansOut \in Nat
    BY <1>2 DEF Timed!NextIteration
  <2>1. Period * (timedRound + 1) = Period * timedRound + Period
    BY <2>0
  <2>2. ASSUME timedRound + 1 >= TimedReads
        PROVE  scansOut >= TimedReads
    <3>1. timedProgram = "only" /\ timedPc = "sleep" /\ ~heldScans
      BY <1>2 DEF Timed!NextIteration
    <3>2. Period * timedRound + Period < Period * scansOut + Period
      BY <1>2, <3>1 DEF Timed!NextIteration
    <3>3. timedRound >= scansOut => Period * timedRound >= Period * scansOut
      BY <2>0
    <3>4. timedRound < scansOut
      BY <2>0, <3>2, <3>3
    <3>5. QED
      BY <2>0, <2>2, <3>4
  <2>3. TimedTyped' /\ TimedDevice' /\ TimedScans' /\ TimedPeriodic' /\ TimedAperiodic'
    BY <1>2 DEF Timed!NextIteration
  <2>4. /\ timedProgram = "only" /\ timedPc = "sleep" /\ timedRound < TimedReads
        /\ timedProgram' = "only" /\ timedPc' \in {"target", "stop"}
        /\ timedPc' = "stop" <=> timedRound + 1 >= TimedReads
        /\ timedRound' = timedRound + 1 /\ t0' = now /\ now' = now
        /\ UNCHANGED <<startedAt, beganAt, readingOffset, overran, scansOut, timedExit>>
        /\ timedExit = "none"
    BY <1>2 DEF Timed!NextIteration
  <2>5. /\ startedAt <= beganAt /\ t0 + Period <= now
        /\ Period * readingOffset <= beganAt - startedAt
        /\ beganAt - startedAt < Period * readingOffset + Period
        /\ beganAt + Period * timedRound <= t0
        /\ ~overran => t0 = beganAt + Period * timedRound /\ now = t0 + Period
    BY <1>2, <2>4 DEF Timed!NextIteration
  <2>6. /\ beganAt + Period * (timedRound + 1) <= now
        /\ ~overran => now = beganAt + Period * (timedRound + 1)
    BY <2>1, <2>5
  <2>7. TimedOnly'
    BY <2>2, <2>4, <2>5, <2>6 DEF TimedOnly
  <2>8. QED
    BY <2>3, <2>7
<1>3. CASE Timed!WakeUp
  BY <1>3 DEF Timed!WakeUp
<1>4. ASSUME NEW err \in {"ok", "LJME_RECONNECT_FAILED", "other"}, Timed!Poll(err)
      PROVE  TimedIInv'
  BY <1>4 DEF Timed!Poll
<1> SUFFICES ASSUME NEW e \in Timed!Outcome,
                    \/ Timed!Open(e) \/ Timed!DisableStreamIfEnabled(e)
                    \/ Timed!SetupStreamOut(e) \/ Timed!WriteSettings(e)
                    \/ Timed!PeriodicStreamOut(e) \/ Timed!InitializeAperiodicStreamOut(e)
                    \/ Timed!StreamStart(e) \/ Timed!ReadTarget(e)
                    \/ Timed!ReadBufferStatus(e) \/ Timed!WriteChunk(e)
                    \/ Timed!StreamRead(e) \/ Timed!StreamStop(e) \/ Timed!StreamBurst(e)
                    \/ Timed!WriteReboot(e) \/ Timed!Close(e)
             PROVE  TimedIInv'
  BY <1>1, <1>2, <1>3, <1>4 DEF Timed!Program
<1> USE DEF Timed!ErrorCheck, Timed!WriteNameOrDie, Timed!CheckedExit, Timed!BareExit,
            Timed!ErrorCheckDies, Timed!WriteNameOrDieDies, Timed!Outcome
<1>5. CASE Timed!Open(e)
  BY <1>5 DEF Timed!Open, Timed!OpenOrDie
<1>6. CASE Timed!DisableStreamIfEnabled(e)
  BY <1>6 DEF Timed!DisableStreamIfEnabled, Timed!AfterDisable
<1>7. CASE Timed!SetupStreamOut(e)
  BY <1>7 DEF Timed!SetupStreamOut
<1>8. CASE Timed!WriteSettings(e)
  <2>1. heldScans' \in BOOLEAN /\ (e = "ok" => heldScans' = FALSE)
    BY <1>8 DEF Timed!WriteSettings
  <2>2. QED
    BY <1>8, <2>1 DEF Timed!WriteSettings
<1>9. CASE Timed!PeriodicStreamOut(e)
  BY <1>9 DEF Timed!PeriodicStreamOut
<1>10. CASE Timed!InitializeAperiodicStreamOut(e)
  BY <1>10 DEF Timed!InitializeAperiodicStreamOut
<1>11. CASE Timed!StreamStart(e)
  BY <1>11 DEF Timed!StreamStart
<1>12. CASE Timed!ReadTarget(e)
  BY <1>12 DEF Timed!ReadTarget
<1>13. CASE Timed!ReadBufferStatus(e)
  <2>1. \A n \in Int : n % Wrap \in Nat
    BY SMT
  <2>2. PICK ms \in Timed!SleepTimes(now - t0) : wake' = now + ms
    BY <1>13 DEF Timed!ReadBufferStatus
  <2>3. now - t0 <= Period => ms = Period - (now - t0)
    BY <2>2 DEF Timed!SleepTimes
  <2>4. ms \in Nat
    <3>1. now \in Int /\ t0 \in Int
      OBVIOUS
    <3>2. Period - (now - t0) \in Int
      BY <3>1
    <3>3. now - t0 <= Period \/ ms = 0 \/ ms = (Period - (now - t0)) % Wrap
      BY <2>2 DEF Timed!SleepTimes
    <3>4. (Period - (now - t0)) % Wrap \in Nat
      BY <2>1, <3>2
    <3>5. QED
      BY <2>3, <3>1, <3>3, <3>4
  <2>5. TimedTyped' /\ TimedDevice' /\ TimedScans' /\ TimedPeriodic' /\ TimedAperiodic'
    BY <1>13, <2>2, <2>4 DEF Timed!ReadBufferStatus
  <2>6. /\ timedProgram = "only" /\ timedPc = "status" /\ timedExit = "none"
        /\ timedRound \in Nat /\ timedRound < TimedReads
        /\ timedPc' = "sleep" \/ (timedPc' = "exit" /\ timedExit' = "error")
        /\ timedPc' = "sleep" => timedExit' = "none"
        /\ UNCHANGED <<timedProgram, timedRound, beganAt, t0, startedAt, now, lastReading,
                       readingOffset, scansOut>>
    BY <1>13 DEF Timed!ReadBufferStatus
  <2>7. /\ startedAt <= beganAt /\ t0 <= now
        /\ Period * readingOffset <= beganAt - startedAt
        /\ beganAt - startedAt < Period * readingOffset + Period
        /\ beganAt + Period * timedRound <= t0
        /\ t0 - startedAt < Period * lastReading + Period
        /\ Period * lastReading <= now - startedAt
    BY <2>6
  <2>8. ASSUME ~overran'
        PROVE  /\ now - t0 <= Period /\ t0 = beganAt + Period * timedRound
               /\ wake' = t0 + Period /\ Period * lastReading <= wake' - startedAt
    <3>1. ~(overran \/ now - t0 > Period)
      <4>1. overran' = (overran \/ now - t0 > Period)
        BY <1>13 DEF Timed!ReadBufferStatus
      <4>2. QED
        BY <2>8, <4>1, Zenon
    <3>2. t0 = beganAt + Period * timedRound
      BY <2>6, <3>1
    <3>3. QED
      BY <2>2, <2>3, <2>7, <3>1, <3>2
  <2>9. t0 + Period <= wake'
    BY <2>2, <2>3, <2>4
  <2>10. TimedOnly'
    BY <2>6, <2>7, <2>8, <2>9 DEF TimedOnly
  <2>11. QED
    BY <2>5, <2>10
<1>14. CASE Timed!WriteChunk(e)
  BY <1>14 DEF Timed!WriteChunk
<1>15. CASE Timed!StreamRead(e)
  BY <1>15 DEF Timed!StreamRead, Timed!DrainUntil, Timed!StreamOutTime
<1>16. CASE Timed!StreamStop(e)
  BY <1>16 DEF Timed!StreamStop
<1>17. CASE Timed!StreamBurst(e)
  BY <1>17 DEF Timed!StreamBurst
<1>18. CASE Timed!WriteReboot(e)
  BY <1>18 DEF Timed!WriteReboot
<1>19. CASE Timed!Close(e)
  BY <1>19 DEF Timed!Close, Timed!CloseOrDie, Timed!NormalExit
<1>20. QED
  BY <1>5, <1>6, <1>7, <1>8, <1>9, <1>10, <1>11, <1>12, <1>13, <1>14, <1>15, <1>16, <1>17,
     <1>18, <1>19

(* TimedIInv is kept by a tick of the clock. *)
LEMMA TimedTick ==
  ASSUME TimedIInv, Timed!Tick, Timed!TimedAssumption
  PROVE  TimedIInv'
<1> USE TimedConstants
<1> USE DEF TimedIInv, TimedTyped, TimedPlaces, TimedStream, TimedDevice, TimedUnit,
            Timed!programVars, Timed!deviceVars, Timed!sessionVars, Timed!Tick, Timed!Asleep
<1>1. TimedTyped' /\ TimedDevice'
  OBVIOUS
<1>2. timedStreaming = "own" <=> timedPc \in TimedStream
  OBVIOUS
<1>3. Timed!ScanDue => timedPc \in TimedStream /\ ~heldScans
  BY <1>2 DEF Timed!ScanDue, Timed!Scans
<1>4. ASSUME timedPc \in TimedStream, ~heldScans
      PROVE  /\ Timed!ScanDue => now - startedAt + 1 = TimedUnit * scansOut + TimedUnit
             /\ ~Timed!ScanDue => now - startedAt + 1 < TimedUnit * scansOut + TimedUnit
             /\ TimedUnit * (scansOut + 1) = TimedUnit * scansOut + TimedUnit
  <2>1. /\ TimedUnit \in Nat /\ TimedUnit > 0 /\ scansOut \in Nat
        /\ now - startedAt \in Nat
        /\ TimedUnit * scansOut <= now - startedAt
        /\ now - startedAt < TimedUnit * scansOut + TimedUnit
    BY <1>4 DEF TimedScans
  <2>2. Timed!ScanDue <=> (now - startedAt + 1) % TimedUnit = 0
    <3>1. now + 1 - startedAt = now - startedAt + 1
      OBVIOUS
    <3>2. QED
      BY <1>2, <1>4, <3>1 DEF Timed!ScanDue, Timed!Scans
  <2> HIDE DEF TimedUnit
  <2>3. (now - startedAt + 1) % TimedUnit = 0
           <=> now - startedAt + 1 = TimedUnit * scansOut + TimedUnit
    BY <2>1, ScanDueAt
  <2>4. QED
    BY <2>1, <2>2, <2>3
<1>5. TimedScans'
  <2>1. CASE timedPc \in TimedStream /\ ~heldScans
    BY <1>4, <2>1 DEF TimedScans
  <2>2. CASE ~(timedPc \in TimedStream /\ ~heldScans)
    BY <1>3, <2>2 DEF TimedScans
  <2>3. QED
    BY <2>1, <2>2
<1>6. TimedOnly'
  BY DEF TimedOnly
<1>7. TimedPeriodic'
  BY DEF TimedPeriodic
<1>8. TimedAperiodic'
  BY <1>3 DEF TimedAperiodic
<1>9. QED
  BY <1>1, <1>5, <1>6, <1>7, <1>8

(* What TimedIInv says of a reading, of a return and of the streams. *)
LEMMA TimedPromises ==
  ASSUME TimedIInv, Timed!TimedAssumption
  PROVE  Timed!TimedSafe
<1> USE TimedConstants
<1> USE DEF TimedIInv, TimedTyped, TimedPlaces
<1>1. Timed!ReadingsInStep
  <2> SUFFICES ASSUME timedProgram = "only", timedPc = "sleep", ~overran
               PROVE  lastReading - readingOffset \in {timedRound, timedRound + 1}
    BY DEF Timed!ReadingsInStep
  <2>1. /\ Period * readingOffset <= beganAt - startedAt
        /\ beganAt - startedAt < Period * readingOffset + Period
        /\ t0 = beganAt + Period * timedRound
        /\ t0 - startedAt < Period * lastReading + Period
        /\ Period * lastReading <= t0 + Period - startedAt
    BY DEF TimedOnly
  <2>2. /\ Period * (readingOffset + timedRound) = Period * readingOffset + Period * timedRound
        /\ Period * (readingOffset + timedRound + 2)
             = Period * readingOffset + Period * timedRound + 2 * Period
        /\ Period * (lastReading + 1) = Period * lastReading + Period
    OBVIOUS
  <2>3. /\ Period * (readingOffset + timedRound) < Period * (lastReading + 1)
        /\ Period * lastReading < Period * (readingOffset + timedRound + 2)
    BY <2>1, <2>2
  <2>4. \A a, b \in Nat : a <= b => Period * a <= Period * b
    OBVIOUS
  <2>5. /\ readingOffset + timedRound < lastReading + 1
        /\ lastReading < readingOffset + timedRound + 2
    BY <2>3, <2>4
  <2>6. QED
    BY <2>5
<1>2. Timed!OutputRan
  BY DEF Timed!OutputRan, TimedOnly, TimedPeriodic, TimedAperiodic
<1>3. Timed!StreamsTold /\ Timed!RebootSeen
  BY DEF Timed!StreamsTold, Timed!RebootSeen, TimedDevice, TimedStream
<1>4. QED
  BY <1>1, <1>2, <1>3 DEF Timed!TimedSafe

(* TimedIInv holds at first, and is kept by every step. *)
LEMMA TimedSteps ==
  ASSUME Timed!TimedAssumption
  PROVE  /\ Timed!Init => TimedIInv
         /\ TimedIInv /\ [Timed!Next]_timedVars => TimedIInv'
<1> USE TimedConstants
<1> USE DEF TimedIInv, TimedTyped, TimedPlaces, TimedStream, TimedDevice, TimedScans, TimedUnit,
            TimedOnly, TimedPeriodic, TimedAperiodic
<1>1. Timed!Init => TimedIInv
  <2> SUFFICES ASSUME Timed!Init
               PROVE  TimedIInv
    OBVIOUS
  <2>1. TimedTyped
    <3>1. /\ timedProgram \in {"only", "periodic", "aperiodic", "burst", "reboot"}
          /\ timedPc = "open" /\ heldScans \in BOOLEAN
      BY DEF Timed!Init
    <3>2. "open" \in TimedPlaces[timedProgram]
      BY <3>1
    <3>3. QED
      BY <3>1, <3>2 DEF Timed!Init, Timed!SessionInit
  <2>2. TimedDevice /\ TimedScans
    BY DEF Timed!Init, Timed!SessionInit
  <2>3. TimedOnly
    BY DEF Timed!Init, Timed!SessionInit
  <2>4. TimedPeriodic /\ TimedAperiodic
    BY DEF Timed!Init, Timed!SessionInit
  <2>5. QED
    BY <2>1, <2>2, <2>3, <2>4
<1>2. ASSUME TimedIInv, [Timed!Next]_timedVars
      PROVE  TimedIInv'
  <2>1. CASE Timed!Program
    BY <1>2, <2>1, TimedProgramSteps
  <2>2. CASE Timed!Tick
    BY <1>2, <2>2, TimedTick
  <2> USE DEF Timed!clockVars, Timed!programVars, Timed!sessionVars, Timed!Unmoved
  <2>3. CASE Timed!GoesDown
    BY <1>2, <2>3 DEF Timed!GoesDown
  <2>4. CASE Timed!ComesBack
    BY <1>2, <2>4 DEF Timed!ComesBack
  <2>5. CASE UNCHANGED timedVars \/ Timed!Finished
    BY <1>2, <2>5 DEF timedVars, Timed!Finished, Timed!vars, Timed!deviceVars
  <2>6. QED
    BY <1>2, <2>1, <2>2, <2>3, <2>4, <2>5 DEF Timed!Next
<1>3. QED
  BY <1>1, <1>2

(* Whatever fails, whoever else is on the network and however the device   *)
(* restarts: a listing of the SD card is the whole directory, read_file    *)
(* prints the file it was asked for, and a relative path means what the    *)
(* user left it to mean (sd_util.hpp); the connection test talks to the    *)
(* device that was configured (t7_tcp_configure); the programs paced by    *)
(* the host's clock keep in step with the output, and announce a reboot    *)
(* after one only.  The exceptions are those UtilitiesSafe names.          *)
THEOREM UtilitiesSafeCorrect == Spec => []UtilitiesSafe
<1> DEFINE Inv ==
      /\ part = "sd" => SdIInv
      /\ part = "tcp" => TcpIInv
      /\ part = "timed" => TimedIInv
<1> USE PartsAssumption
<1>1. Init => Inv
  <2>1. Init /\ part = "sd" => SdIInv
    BY SdStarts DEF Init
  <2>2. Init /\ part = "tcp" => TcpIInv
    BY TcpSteps DEF Init
  <2>3. Init /\ part = "timed" => TimedIInv
    BY TimedSteps DEF Init
  <2>4. QED
    BY <2>1, <2>2, <2>3
<1>2. Inv /\ [Next]_vars => Inv'
  <2> SUFFICES ASSUME Inv, [Next]_vars
               PROVE  Inv'
    OBVIOUS
  <2>0. part' = part
    BY DEF Next, vars
  <2>1. ASSUME part = "sd"
        PROVE  SdIInv'
    BY <2>1, SdSteps DEF Next, vars
  <2>2. ASSUME part = "tcp"
        PROVE  TcpIInv'
    BY <2>2, TcpSteps DEF Next, vars
  <2>3. ASSUME part = "timed"
        PROVE  TimedIInv'
    BY <2>3, TimedSteps DEF Next, vars
  <2>4. QED
    BY <2>0, <2>1, <2>2, <2>3
<1>3. Inv => UtilitiesSafe
  BY SdPromises, TimedPromises DEF TcpIInv, UtilitiesSafe
<1>4. QED
  BY <1>1, <1>2, <1>3, PTL DEF Spec

-----------------------------------------------------------------------------
(* The configure checks (SConsConfigure). *)

(* Whether a test compiles is a yes or a no, and depends on the header only   *)
(* if its text includes it.                                                  *)
WorksType ==
  /\ \A text, flag, list, h : Works(text, flag, list, h) \in BOOLEAN
  /\ \A text, flag, list, h, g :
       ~Includes(text) => Works(text, flag, list, h) = Works(text, flag, list, g)

(* An object is recorded with the result of what it was made of. *)
ResultOf(object) ==
  object # Nothing =>
    \A h \in Headers :
      (Includes(object.was.text) => object.was.header = h)
        => object.result = (object.was.text # Nothing
                            /\ Works(object.was.text, object.was.flags, object.was.libs, h))

AnswersRight ==
  mode # "cache" => \A i \in DOMAIN answers : answers[i].misread \/ Configure!Right(answers[i])

ConfigLines == [i \in DOMAIN answers |-> [test |-> answers[i].test, yes |-> answers[i].yes]]

ConfTypes ==
  /\ script \in Scripts
  /\ stage \in {"idle", "reading", "active"}
  /\ context \in Nat \ {0} /\ place \in Nat \ {0}
  /\ stage = "active" => context <= Len(script)
  /\ answers \in Seq(ToSet(answers)) /\ libs \in Seq(ToSet(libs))
  /\ header \in Headers
  /\ database.tests \in [Configure!Numbers -> {database.tests[n] : n \in Configure!Numbers}]
  /\ entries \in [Configure!Numbers -> {entries[n] : n \in Configure!Numbers}]

ConfResults ==
  \A n \in Configure!Numbers : ResultOf(database.tests[n].object) /\ ResultOf(entries[n].object)

ConfConfigH ==
  /\ stage = "reading" => config_hs = ConfigLines
  /\ stage = "active" => config_h_text = ConfigLines

ConfIInv ==
  /\ ConfTypes /\ ConfResults /\ ConfConfigH /\ AnswersRight
  /\ stage # "idle" => Configure!LibsInOrder

LEMMA ConfInitial == Configure!ConfInit => ConfIInv
<1> SUFFICES ASSUME Configure!ConfInit PROVE ConfIInv
  OBVIOUS
<1>1. header \in Headers
  BY PartsAssumption DEF Configure!ConfInit, Configure!ConfigureAssumption
<1>2. ConfTypes
  BY <1>1 DEF Configure!ConfInit, ConfTypes, ToSet, Configure!NoTests
<1>3. ConfResults
  BY DEF Configure!ConfInit, ConfResults, ResultOf, Configure!NoTests, Configure!NoTest
<1>4. ConfConfigH /\ AnswersRight
  BY DEF Configure!ConfInit, ConfConfigH, AnswersRight
<1>5. stage = "idle"
  BY DEF Configure!ConfInit
<1>6. QED
  BY <1>2, <1>3, <1>4, <1>5 DEF ConfIInv

(* Steps that make no test. *)
LEMMA ConfOtherSteps ==
  ASSUME ConfIInv,
         \/ Configure!ConfEdit \/ Configure!ConfRun \/ Configure!Configure \/ Configure!Finish
         \/ Configure!ConfAbort \/ Configure!MainBuild \/ UNCHANGED configureVars
  PROVE  ConfIInv'
<1> USE DEF Configure!projectVars, Configure!runVars
<1>1. CASE Configure!ConfEdit
  <2>1. /\ stage = "idle" /\ header' \in Headers /\ script' \in Scripts /\ answers' = <<>>
        /\ UNCHANGED <<database, entries, stage, mode, context, place, libs, config_h_text, config_hs>>
    BY <1>1 DEF Configure!ConfEdit, ConfIInv, ConfTypes
  <2>2. ConfTypes'
    BY <2>1 DEF ConfIInv, ConfTypes, ToSet
  <2>3. ConfResults'
    BY <2>1 DEF ConfIInv, ConfResults, ResultOf
  <2>4. ConfConfigH' /\ AnswersRight'
    BY <2>1 DEF ConfConfigH, AnswersRight
  <2>5. QED
    BY <2>1, <2>2, <2>3, <2>4 DEF ConfIInv
<1>2. CASE Configure!ConfRun
  <2>1. /\ stage' = "reading" /\ context' = 1 /\ place' = 1 /\ entries' = database.tests
        /\ libs' = <<>> /\ answers' = <<>> /\ config_h_text' = <<>> /\ config_hs' = <<>>
        /\ UNCHANGED <<header, flags, script, database>>
    BY <1>2 DEF Configure!ConfRun
  <2>2. ConfTypes'
    BY <2>1 DEF ConfIInv, ConfTypes, ToSet
  <2>3. ConfResults'
    BY <2>1 DEF ConfIInv, ConfResults, ResultOf
  <2>4. ConfConfigH' /\ AnswersRight'
    BY <2>1 DEF ConfConfigH, AnswersRight, ConfigLines
  <2>5. Configure!LibsInOrder'
    <3> DEFINE found == {i \in DOMAIN answers : answers[i].yes /\ answers[i].test.lib # Nothing}
    <3>1. found' = {} /\ DOMAIN libs' = {}
      BY <2>1
    <3>2. [i \in {} |-> i] \in [DOMAIN libs' -> found']
      BY <3>1
    <3>3. QED
      BY <3>1, <3>2 DEF Configure!LibsInOrder
  <2>6. QED
    BY <2>2, <2>3, <2>4, <2>5 DEF ConfIInv
<1>3. CASE Configure!Configure
  <2>1. /\ stage = "reading" /\ context <= Len(script) /\ stage' = "active" /\ place' = 1
        /\ config_h_text' = config_hs
        /\ UNCHANGED <<header, flags, script, database, entries, mode, context, libs, answers, config_hs>>
    BY <1>3 DEF Configure!Configure
  <2>2. ConfTypes' /\ ConfResults' /\ ConfConfigH' /\ AnswersRight'
    BY <2>1 DEF ConfIInv, ConfTypes, ConfResults, ResultOf, ConfConfigH, ConfigLines,
                AnswersRight, Configure!Right
  <2>3. Configure!LibsInOrder'
    BY <2>1 DEF ConfIInv, Configure!LibsInOrder
  <2>4. QED
    BY <2>2, <2>3 DEF ConfIInv
<1>4. CASE Configure!Finish
  <2>1. /\ stage = "active" /\ stage' = "reading" /\ context' = context + 1
        /\ config_hs' = config_h_text
        /\ UNCHANGED <<header, flags, script, database, entries, mode, place, libs, answers, config_h_text>>
    BY <1>4 DEF Configure!Finish
  <2>2. ConfTypes' /\ ConfResults' /\ ConfConfigH' /\ AnswersRight'
    BY <2>1 DEF ConfIInv, ConfTypes, ConfResults, ResultOf, ConfConfigH, ConfigLines,
                AnswersRight, Configure!Right
  <2>3. Configure!LibsInOrder'
    BY <2>1 DEF ConfIInv, Configure!LibsInOrder
  <2>4. QED
    BY <2>2, <2>3 DEF ConfIInv
<1>5. CASE Configure!ConfAbort
  <2>1. /\ stage' = "idle" /\ answers' = <<>>
        /\ UNCHANGED <<header, flags, script, database, entries, mode, context, place, libs>>
    BY <1>5 DEF Configure!ConfAbort
  <2>2. QED
    BY <2>1 DEF ConfIInv, ConfTypes, ConfResults, ResultOf, ConfConfigH, AnswersRight, ToSet
<1>6. CASE Configure!MainBuild
  <2>1. /\ stage' = "idle" /\ database'.tests = entries
        /\ UNCHANGED <<header, flags, script, entries, mode, context, place, libs, answers>>
    BY <1>6 DEF Configure!MainBuild
  <2>2. QED
    BY <2>1 DEF ConfIInv, ConfTypes, ConfResults, ResultOf, ConfConfigH, AnswersRight,
                Configure!Right
<1>7. CASE UNCHANGED configureVars
  <2>1. UNCHANGED <<header, flags, script, database, stage, mode, context, place, entries, libs,
                    answers, config_h_text, config_hs>>
    BY <1>7 DEF configureVars
  <2>2. ConfTypes' /\ ConfResults' /\ ConfConfigH' /\ AnswersRight'
    BY <2>1 DEF ConfIInv, ConfTypes, ConfResults, ResultOf, ConfConfigH, ConfigLines,
                AnswersRight, Configure!Right
  <2>3. stage # "idle" => Configure!LibsInOrder'
    BY <2>1 DEF ConfIInv, Configure!LibsInOrder
  <2>4. QED
    BY <2>1, <2>2, <2>3 DEF ConfIInv
<1>8. QED
  BY <1>1, <1>2, <1>3, <1>4, <1>5, <1>6, <1>7

(* What a test records and answers. *)
LEMMA ConfRecorded ==
  ASSUME WorksType, ConfIInv, Configure!TryBuild
  PROVE  ResultOf(Configure!objectEntry)
<1> DEFINE made == Configure!MadeOf(header)
           text == Configure!sourceText
<1>1. CASE Configure!ObjectCurrent
  <2>1. Configure!objectEntry = entries[counter].object /\ counter \in Configure!Numbers
    BY <1>1 DEF Configure!TryBuild, Configure!objectEntry, Configure!tested
  <2>2. QED
    BY <2>1 DEF ConfIInv, ConfResults
<1>2. CASE ~Configure!ObjectCurrent
  <2>1. /\ Configure!objectEntry.was = made
        /\ Configure!objectEntry.result = Configure!compiled
    BY <1>2 DEF Configure!objectEntry
  <2>2. /\ made.text = text /\ made.flags = flags /\ made.libs = Configure!libsTried
        /\ made.header = IF Configure!usesHeader THEN header ELSE Nothing
    BY DEF Configure!MadeOf
  <2>3. ASSUME NEW h \in Headers, Includes(text) => made.header = h
        PROVE  Configure!compiled
                 = (text # Nothing /\ Works(text, flags, Configure!libsTried, h))
    <3>1. CASE text = Nothing
      BY <3>1 DEF Configure!compiled
    <3>2. CASE text # Nothing /\ Includes(text)
      <4>1. h = header
        BY <2>2, <2>3, <3>2 DEF Configure!usesHeader
      <4>2. QED
        BY <4>1 DEF Configure!compiled
    <3>3. CASE text # Nothing /\ ~Includes(text)
      <4>1. Works(text, flags, Configure!libsTried, h) = Works(text, flags, Configure!libsTried, header)
        BY <3>3 DEF WorksType
      <4>2. QED
        BY <4>1 DEF Configure!compiled
    <3>4. QED
      BY <3>1, <3>2, <3>3
  <2>4. QED
    BY <2>1, <2>2, <2>3 DEF ResultOf
<1>3. QED
  BY <1>1, <1>2

LEMMA ConfAnswered ==
  ASSUME WorksType, ConfIInv, Configure!TryBuild, mode # "cache",
         Configure!sourceText = Configure!test.text, Configure!test.text # Nothing,
         Configure!objectEntry.seen = Configure!objectEntry.was,
         Configure!usesHeader => Configure!headerSigSeen = header
  PROVE  Configure!objectEntry.result
           = Works(Configure!test.text, flags, Configure!libsTried, header)
<1> DEFINE text == Configure!test.text
           seen == Configure!MadeOf(Configure!headerSigSeen)
<1>0. Works(text, flags, Configure!libsTried, header) \in BOOLEAN
  BY DEF WorksType
<1>1. CASE Configure!ObjectCurrent
  <2>1. /\ Configure!objectEntry = entries[counter].object
        /\ Configure!objectEntry # Nothing /\ Configure!objectEntry.seen = seen
    BY <1>1 DEF Configure!objectEntry, Configure!tested, Configure!ObjectCurrent
  <2>2. Configure!objectEntry.was = seen
    BY <2>1
  <2>3. /\ seen.text = text /\ seen.flags = flags /\ seen.libs = Configure!libsTried
        /\ seen.header = IF Configure!usesHeader THEN Configure!headerSigSeen ELSE Nothing
    BY DEF Configure!MadeOf
  <2>4. Includes(text) => seen.header = header
    BY <2>3 DEF Configure!usesHeader
  <2>5. header \in Headers
    BY DEF ConfIInv, ConfTypes
  <2>6. Configure!objectEntry.result = (text # Nothing /\ Works(text, flags, Configure!libsTried, header))
    BY <2>1, <2>2, <2>3, <2>4, <2>5, ConfRecorded DEF ResultOf
  <2>7. QED
    BY <1>0, <2>6
<1>2. CASE ~Configure!ObjectCurrent
  BY <1>0, <1>2 DEF Configure!objectEntry, Configure!compiled
<1>3. QED
  BY <1>1, <1>2

(* A test that is answered: its answer is right or misread, it stands in     *)
(* config.h, and its library in LIBS if it was found.                        *)
LEMMA ConfTryBuild ==
  ASSUME WorksType, ConfIInv, Configure!TryBuild
  PROVE  ConfIInv'
<1> DEFINE object == Configure!objectEntry
           answer == [test |-> Configure!test, libs |-> Configure!libsTried, yes |-> object.result,
                      misread |-> Configure!sourceText # Configure!test.text
                                  \/ object.seen # object.was
                                  \/ (Configure!usesHeader /\ Configure!headerSigSeen # header)]
           entry == [source |-> IF Configure!SourceCurrent THEN Configure!tested.source
                                ELSE Configure!test.text,
                     object |-> object]
           line == [test |-> Configure!test, yes |-> object.result]
<1>1. /\ stage = "active" /\ place <= Len(script[context]) /\ counter \in Configure!Numbers
      /\ entries' = [entries EXCEPT ![counter] = entry]
      /\ answers' = Append(answers, answer) /\ place' = place + 1
      /\ libs' = IF object.result THEN Configure!libsTried ELSE libs
      /\ config_h_text' = Append(config_h_text, line)
      /\ UNCHANGED <<header, flags, script, database, stage, mode, context, config_hs>>
  BY DEF Configure!TryBuild
<1>2. answer.test = Configure!test /\ answer.libs = Configure!libsTried /\ answer.yes = object.result
      /\ line.test = Configure!test /\ line.yes = object.result /\ entry.object = object
  OBVIOUS
<1>3. Configure!test.text # Nothing
  <2>1. script \in Seq(Configure!ToSet(script)) /\ context \in DOMAIN script
    <3>1. script \in Seq(Configure!ToSet(script))
      BY PartsAssumption DEF Configure!ConfigureAssumption, ConfIInv, ConfTypes
    <3>2. QED
      BY <1>1, <3>1 DEF ConfIInv, ConfTypes
  <2>2. script[context] \in Configure!ToSet(script)
    BY <2>1 DEF Configure!ToSet
  <2>3. script[context] \in Seq(Configure!ToSet(script[context]))
    BY <2>2, PartsAssumption DEF Configure!ConfigureAssumption, ConfIInv, ConfTypes
  <2>4. place \in DOMAIN script[context]
    BY <1>1, <2>3 DEF ConfIInv, ConfTypes
  <2>5. Configure!test \in Configure!ToSet(script[context])
    BY <2>4 DEF Configure!ToSet, Configure!test
  <2>6. QED
    BY <2>2, <2>5, PartsAssumption DEF Configure!ConfigureAssumption, ConfIInv, ConfTypes
<1>4. mode # "cache" => answer.misread \/ Configure!Right(answer)
  <2> SUFFICES ASSUME mode # "cache", ~answer.misread PROVE Configure!Right(answer)
    OBVIOUS
  <2>1. /\ Configure!sourceText = Configure!test.text
        /\ object.seen = object.was
        /\ Configure!usesHeader => Configure!headerSigSeen = header
    OBVIOUS
  <2>2. object.result = Works(Configure!test.text, flags, Configure!libsTried, header)
    BY <1>3, <2>1, ConfAnswered
  <2> HIDE DEF answer
  <2>3. QED
    BY <1>2, <2>2 DEF Configure!Right
<1>5. answers \in Seq(ToSet(answers)) /\ libs \in Seq(ToSet(libs))
  BY DEF ConfIInv, ConfTypes
<1>6. ResultOf(object)
  BY ConfRecorded
<1> HIDE DEF answer, entry, line, object
<1>7. /\ answers' \in Seq(ToSet(answers')) /\ Len(answers') = Len(answers) + 1
      /\ DOMAIN answers' = 1..(Len(answers) + 1) /\ DOMAIN answers = 1..Len(answers)
      /\ Len(answers) \in Nat
      /\ answers'[Len(answers) + 1] = answer
      /\ \A i \in DOMAIN answers : answers'[i] = answers[i]
  <2>1. answers \in Seq(ToSet(answers) \cup {answer})
    BY <1>5
  <2>2. /\ answers' \in Seq(ToSet(answers) \cup {answer}) /\ Len(answers') = Len(answers) + 1
        /\ answers'[Len(answers) + 1] = answer
        /\ \A i \in 1..Len(answers) : answers'[i] = answers[i]
    BY <1>1, <2>1
  <2>3. answers' \in Seq(ToSet(answers'))
    BY <2>2 DEF ToSet
  <2>4. QED
    BY <1>5, <2>2, <2>3
<1>8. ConfTypes'
  <2>1. libs' \in Seq(ToSet(libs'))
    <3>1. libs \in Seq(ToSet(libs) \cup {Configure!test.lib})
      BY <1>5
    <3>2. libs' = libs \/ libs' = Append(libs, Configure!test.lib)
      BY <1>1 DEF Configure!libsTried
    <3>3. libs' \in Seq(ToSet(libs) \cup {Configure!test.lib})
      BY <3>1, <3>2
    <3>4. QED
      BY <3>3 DEF ToSet
  <2>2. entries' \in [Configure!Numbers -> {entries'[n] : n \in Configure!Numbers}]
    BY <1>1 DEF ConfIInv, ConfTypes
  <2>3. QED
    BY <1>1, <1>7, <2>1, <2>2 DEF ConfIInv, ConfTypes
<1>9. ConfResults'
  BY <1>1, <1>2, <1>6 DEF ConfIInv, ConfResults, ConfTypes, ResultOf
<1>10. ConfConfigH'
  <2>1. config_h_text = ConfigLines
    BY <1>1 DEF ConfIInv, ConfConfigH
  <2>2. ConfigLines \in Seq({ConfigLines[i] : i \in DOMAIN answers}) /\ Len(ConfigLines) = Len(answers)
    BY <1>5 DEF ConfigLines
  <2>3. line = [test |-> answer.test, yes |-> answer.yes]
    BY <1>2 DEF line
  <2>4. Append(ConfigLines, line) = ConfigLines'
    BY <1>7, <2>2, <2>3 DEF ConfigLines
  <2>5. QED
    BY <1>1, <2>1, <2>4 DEF ConfConfigH
<1>11. AnswersRight'
  <2>1. \A a : Configure!Right(a)' = Configure!Right(a)
    BY <1>1 DEF Configure!Right
  <2>2. QED
    BY <1>1, <1>4, <1>7, <2>1 DEF ConfIInv, AnswersRight
<1>12. Configure!LibsInOrder'
  <2> DEFINE Found(s) == {i \in DOMAIN s : s[i].yes /\ s[i].test.lib # Nothing}
             last == Len(answers) + 1
  <2>1. Configure!LibsInOrder
    BY <1>1 DEF ConfIInv
  <2>2. PICK by \in [DOMAIN libs -> Found(answers)] :
          /\ \A i \in DOMAIN libs : libs[i] = answers[by[i]].test.lib
          /\ \A i \in DOMAIN libs, j \in DOMAIN libs : i < j => by[i] < by[j]
          /\ \A k \in Found(answers) : \E i \in DOMAIN libs : by[i] = k
    BY <2>1 DEF Configure!LibsInOrder
  <2>3. \A k \in Found(answers) : k \in Found(answers') /\ k < last
    BY <1>7
  <2>4. CASE object.result /\ Configure!test.lib # Nothing
    <3> DEFINE n == Len(libs) + 1
               more == [i \in DOMAIN libs' |-> IF i = n THEN last ELSE by[i]]
    <3>1. /\ libs' = Append(libs, Configure!test.lib) /\ DOMAIN libs' = 1..n
          /\ DOMAIN libs = 1..(n - 1) /\ n \in Nat /\ libs'[n] = Configure!test.lib
          /\ \A i \in DOMAIN libs : libs'[i] = libs[i]
      BY <1>1, <1>5, <2>4 DEF Configure!libsTried
    <3>2. last \in Found(answers')
      <4>1. last \in DOMAIN answers' /\ answers'[last] = answer
        BY <1>7
      <4>2. answer.yes /\ answer.test.lib # Nothing
        BY <1>2, <2>4
      <4>3. QED
        BY <4>1, <4>2
    <3>3. Found(answers') = Found(answers) \cup {last}
      BY <1>7, <3>2
    <3>4. more \in [DOMAIN libs' -> Found(answers')]
      BY <3>1, <3>3
    <3>5. \A i \in DOMAIN libs' : libs'[i] = answers'[more[i]].test.lib
      BY <1>2, <1>7, <2>2, <3>1
    <3>6. \A i \in DOMAIN libs', j \in DOMAIN libs' : i < j => more[i] < more[j]
      BY <2>2, <2>3, <3>1
    <3>7. \A k \in Found(answers') : \E i \in DOMAIN libs' : more[i] = k
      BY <2>2, <2>3, <3>1, <3>3
    <3> HIDE DEF more
    <3>8. QED
      BY <3>4, <3>5, <3>6, <3>7 DEF Configure!LibsInOrder
  <2>5. CASE ~(object.result /\ Configure!test.lib # Nothing)
    <3>1. libs' = libs
      BY <1>1, <2>5 DEF Configure!libsTried
    <3>2. Found(answers') = Found(answers)
      BY <1>2, <1>7, <2>5
    <3>3. \A i \in DOMAIN libs : answers'[by[i]] = answers[by[i]]
      BY <1>7, <2>2
    <3>4. QED
      BY <2>2, <3>1, <3>2, <3>3 DEF Configure!LibsInOrder
  <2>6. QED
    BY <2>4, <2>5
<1>13. QED
  BY <1>8, <1>9, <1>10, <1>11, <1>12 DEF ConfIInv

LEMMA ConfSteps ==
  ASSUME WorksType
  PROVE  /\ Configure!ConfInit => ConfIInv
         /\ ConfIInv /\ Configure!ConfNext => ConfIInv'
         /\ ConfIInv /\ UNCHANGED configureVars => ConfIInv'
<1>1. Configure!ConfOver => UNCHANGED configureVars
  BY DEF Configure!ConfOver, configureVars, Configure!confVars, Configure!projectVars,
         Configure!runVars
<1>2. QED
  BY <1>1, ConfInitial, ConfOtherSteps, ConfTryBuild DEF Configure!ConfNext

(* For any SConstructs, headers and flags, and any number of runs, edits and *)
(* aborts between them: what a test of a run without --config=cache answers  *)
(* is what compiling it now would say, unless the answer is marked as        *)
(* misread; config.h has every answer in order, and LIBS the libraries that  *)
(* were found (SConfBuildTask, SConfBase.TryBuild, CheckLib).                *)
THEOREM AnswersExplainedCorrect == ASSUME WorksType PROVE Spec => []AnswersExplained
<1> DEFINE Inv == part = "configure" => ConfIInv
<1>1. Init => Inv
  BY ConfSteps DEF Init
<1>2. Inv /\ [Next]_vars => Inv'
  BY ConfSteps DEF Next, vars
<1>3. Inv => AnswersExplained
  BY DEF ConfIInv, ConfConfigH, ConfigLines, AnswersRight, AnswersExplained,
         Configure!AnswersExplained
<1>4. QED
  BY <1>1, <1>2, <1>3, PTL DEF Spec

-----------------------------------------------------------------------------
(* The actions of the worker threads (SConsAction). *)

(* A thread that executes a list is at one of its actions, and has the       *)
(* outcomes of those before it; all of them were successes or are excused,   *)
(* unless the last one gave the error that ends the list.                    *)
ActsInTurn(t) ==
  LET list == thread[t].list
      reached == thread[t].turn
      before == IF thread[t].at \in {"restore", "done"} THEN reached ELSE reached - 1
      good == thread[t].result = None
  IN /\ thread[t].at \in {"idle", "start", "chdir", "execute", "restore", "done"}
     /\ thread[t].at = "chdir" => Actions!Act(t).chdir # None
     /\ thread[t].at # "idle" =>
          /\ list \in Lists /\ reached \in DOMAIN list
          /\ ran[t] \in Seq(ToSet(ran[t])) /\ Len(ran[t]) = before
          /\ thread[t].at \in {"start", "chdir", "execute"} => good
          /\ good => \A i \in DOMAIN ran[t] :
                       Actions!Failure(ran[t][i]) => Actions!Excused(list[i], ran[t][i])
          /\ good /\ thread[t].at = "done" => reached = Len(list)

(* While no two actions have overlapped, one thread at most is away from the *)
(* top; it is where its action asks it to be, and goes back to the top.      *)
ActionsApart ==
  ~overlap =>
    /\ ~misplaced
    /\ \A t, u \in Threads : t # u /\ Actions!Moved(t) => ~Actions!Inside(u)
    /\ \A t \in Threads :
         /\ Actions!Moved(t) => actionCwd = Actions!Act(t).chdir
         /\ Actions!Inside(t) /\ Actions!Act(t).chdir # None => thread[t].save = Top
    /\ (\A t \in Threads : ~Actions!Moved(t)) => actionCwd = Top

Fields == {"list", "turn", "at", "save", "result"}
ActionTypes ==
  /\ thread = [t \in Threads |-> thread[t]]
  /\ ran = [t \in Threads |-> ran[t]]
  /\ \A t \in Threads : thread[t] \in [Fields -> {thread[t][f] : f \in Fields}]
  /\ overlap \in BOOLEAN /\ misplaced \in BOOLEAN

ActionIInv == ActionTypes /\ (\A t \in Threads : ActsInTurn(t)) /\ ActionsApart

LEMMA ActionListType ==
  ASSUME NEW list \in Lists
  PROVE  list # <<>> /\ Len(list) \in Nat /\ DOMAIN list = 1..Len(list) /\ Len(list) > 0
<1>1. list \in Seq(Actions!ToSet(list)) \ {<<>>}
  BY PartsAssumption DEF Actions!ActionAssumption
<1>2. QED
  BY <1>1

LEMMA ActionInitial == Actions!ActionInit => ActionIInv
<1> SUFFICES ASSUME Actions!ActionInit PROVE ActionIInv
  OBVIOUS
<1>1. \A t \in Threads : thread[t] = Actions!Idle /\ ran[t] = <<>>
  BY DEF Actions!ActionInit
<1>2. ActionTypes
  BY <1>1 DEF ActionTypes, Actions!ActionInit, Actions!Idle, Fields
<1>3. \A t \in Threads : ActsInTurn(t)
  BY <1>1 DEF ActsInTurn, Actions!Idle
<1>4. ActionsApart
  BY <1>1 DEF ActionsApart, Actions!ActionInit, Actions!Idle, Actions!Moved, Actions!Inside
<1>5. QED
  BY <1>2, <1>3, <1>4 DEF ActionIInv

(* A step of thread t, which gives it the record new and outcomes of its own, *)
(* changes nothing of the other threads.                                     *)
ActionMoves(t, new, outcomes) ==
  /\ new \in [Fields -> {new[f] : f \in Fields}]
  /\ thread' = [thread EXCEPT ![t] = new]
  /\ ran' = [ran EXCEPT ![t] = outcomes]
  /\ overlap' \in BOOLEAN /\ misplaced' \in BOOLEAN

Same(u) ==
  /\ thread'[u] = thread[u] /\ ActsInTurn(u)'
  /\ Actions!Moved(u)' = Actions!Moved(u) /\ Actions!Inside(u)' = Actions!Inside(u)
  /\ Actions!Act(u)' = Actions!Act(u)

LEMMA ActionOthers ==
  ASSUME ActionIInv, NEW t \in Threads, NEW new, NEW outcomes, ActionMoves(t, new, outcomes)
  PROVE  /\ thread'[t] = new /\ ran'[t] = outcomes /\ ActionTypes'
         /\ \A u \in Threads \ {t} : Same(u)
<1>1. thread'[t] = new /\ ran'[t] = outcomes
  BY DEF ActionIInv, ActionTypes, ActionMoves
<1>2. ASSUME NEW u \in Threads \ {t} PROVE Same(u)
  <2>1. thread'[u] = thread[u] /\ ran'[u] = ran[u]
    BY DEF ActionIInv, ActionTypes, ActionMoves
  <2>2. ActsInTurn(u)
    BY DEF ActionIInv
  <2>3. Actions!Act(u)' = Actions!Act(u)
    BY <2>1 DEF Actions!Act
  <2>4. ActsInTurn(u)'
    BY <2>1, <2>2, <2>3 DEF ActsInTurn
  <2>5. Actions!Moved(u)' = Actions!Moved(u) /\ Actions!Inside(u)' = Actions!Inside(u)
    BY <2>1, <2>3 DEF Actions!Moved, Actions!Inside
  <2>6. QED
    BY <2>1, <2>3, <2>4, <2>5 DEF Same
<1>3. ActionTypes'
  <2>1. \A u \in Threads : thread'[u] \in [Fields -> {thread'[u][f] : f \in Fields}]
    BY <1>1, <1>2 DEF ActionIInv, ActionTypes, ActionMoves, Same
  <2>2. QED
    BY <2>1 DEF ActionIInv, ActionTypes, ActionMoves
<1>4. QED
  BY <1>1, <1>2, <1>3

(* A list that is executed, and the action the thread is at. *)
LEMMA ActionAt ==
  ASSUME ActionIInv, NEW t \in Threads, thread[t].at # "idle"
  PROVE  /\ thread[t].list \in Lists /\ thread[t].list # <<>>
         /\ DOMAIN thread[t].list = 1..Len(thread[t].list) /\ Len(thread[t].list) \in Nat
         /\ thread[t].turn \in 1..Len(thread[t].list)
         /\ ran[t] \in Seq(ToSet(ran[t])) /\ DOMAIN ran[t] = 1..Len(ran[t])
<1>1. ActsInTurn(t)
  BY DEF ActionIInv
<1>2. thread[t].list \in Lists /\ thread[t].turn \in DOMAIN thread[t].list
      /\ ran[t] \in Seq(ToSet(ran[t]))
  BY <1>1 DEF ActsInTurn
<1>3. QED
  BY <1>2, ActionListType

LEMMA ActionExecute ==
  ASSUME ActionIInv, NEW t \in Threads, NEW list \in Lists, Actions!Execute(t, list)
  PROVE  ActionIInv'
<1> DEFINE new == [Actions!Idle EXCEPT !.list = list, !.at = "start"]
<1>1. /\ thread[t].at = "idle" /\ thread' = [thread EXCEPT ![t] = new]
      /\ ran' = [ran EXCEPT ![t] = <<>>]
      /\ UNCHANGED <<actionCwd, overlap, misplaced>>
  BY DEF Actions!Execute
<1>2. ActionMoves(t, new, <<>>)
  <2>1. new \in [Fields -> {new[f] : f \in Fields}]
    BY DEF Actions!Idle, Fields
  <2>2. overlap' \in BOOLEAN /\ misplaced' \in BOOLEAN
    BY <1>1 DEF ActionIInv, ActionTypes
  <2> HIDE DEF new
  <2>3. QED
    BY <1>1, <2>1, <2>2 DEF ActionMoves
<1> HIDE DEF new
<1>3. thread'[t] = new /\ ran'[t] = <<>> /\ ActionTypes' /\ \A u \in Threads \ {t} : Same(u)
  BY <1>2, ActionOthers, Zenon
<1>5. ActsInTurn(t)'
  BY <1>3, ActionListType DEF ActsInTurn, Actions!Idle, new
<1>6. ~Actions!Moved(t)' /\ ~Actions!Inside(t)' /\ ~Actions!Moved(t)
  BY <1>1, <1>3 DEF Actions!Moved, Actions!Inside, Actions!Idle, new
<1>7. ActionsApart'
  BY <1>1, <1>3, <1>6 DEF ActionIInv, ActionsApart, Same
<1>8. QED
  BY <1>3, <1>5, <1>7 DEF ActionIInv, Same

LEMMA ActionStart ==
  ASSUME ActionIInv, NEW t \in Threads, Actions!Start(t)
  PROVE  ActionIInv'
<1> DEFINE away == Actions!Act(t).chdir # None
           new == [thread[t] EXCEPT !.at = IF away THEN "chdir" ELSE "execute",
                                    !.save = IF away THEN actionCwd ELSE None]
<1>1. /\ thread[t].at = "start" /\ thread' = [thread EXCEPT ![t] = new]
      /\ overlap' = (overlap \/ \E u \in Threads \ {t} :
                                  Actions!Moved(u) \/ (Actions!Inside(u) /\ away))
      /\ UNCHANGED <<actionCwd, ran, misplaced>>
  BY DEF Actions!Start, ActionIInv, ActionTypes
<1>2. ActionMoves(t, new, ran[t])
  <2>1. ran = [ran EXCEPT ![t] = ran[t]]
    BY DEF ActionIInv, ActionTypes
  <2>2. new \in [Fields -> {new[f] : f \in Fields}]
    BY DEF ActionIInv, ActionTypes, Fields
  <2>3. overlap' \in BOOLEAN /\ misplaced' \in BOOLEAN
    BY <1>1 DEF ActionIInv, ActionTypes
  <2> HIDE DEF new
  <2>4. QED
    BY <1>1, <2>1, <2>2, <2>3 DEF ActionMoves
<1>3. /\ new.list = thread[t].list /\ new.turn = thread[t].turn
      /\ new.result = thread[t].result
      /\ new.at = IF away THEN "chdir" ELSE "execute"
      /\ new.save = IF away THEN actionCwd ELSE None
  BY DEF ActionIInv, ActionTypes, Fields
<1> HIDE DEF new
<1>4. thread'[t] = new /\ ran'[t] = ran[t] /\ ActionTypes' /\ \A u \in Threads \ {t} : Same(u)
  BY <1>2, ActionOthers, Zenon
<1>5. ActsInTurn(t)'
  BY <1>1, <1>3, <1>4 DEF ActsInTurn, ActionIInv, Actions!Act
<1>6. Actions!Act(t)' = Actions!Act(t)
  BY <1>3, <1>4 DEF Actions!Act
<1>7. /\ ~Actions!Moved(t) /\ ~Actions!Moved(t)'
      /\ thread'[t].save = IF away THEN actionCwd ELSE None
  BY <1>1, <1>3, <1>4, <1>6 DEF Actions!Moved
<1>8. ActionsApart'
  <2> SUFFICES ASSUME ~overlap' PROVE ActionsApart'
    BY DEF ActionsApart
  <2>1. /\ ~overlap
        /\ \A u \in Threads \ {t} : ~Actions!Moved(u) /\ ~(Actions!Inside(u) /\ away)
    BY <1>1
  <2>2. actionCwd = Top
    BY <1>7, <2>1 DEF ActionIInv, ActionsApart
  <2>3. QED
    BY <1>1, <1>4, <1>6, <1>7, <2>1, <2>2 DEF ActionIInv, ActionsApart, Same
<1>9. QED
  BY <1>4, <1>5, <1>8 DEF ActionIInv, Same

LEMMA ActionChangeDirectory ==
  ASSUME ActionIInv, NEW t \in Threads, Actions!ChangeDirectory(t)
  PROVE  ActionIInv'
<1> DEFINE new == [thread[t] EXCEPT !.at = "execute"]
<1>1. /\ thread[t].at = "chdir" /\ thread' = [thread EXCEPT ![t] = new]
      /\ overlap' = (overlap \/ \E u \in Threads \ {t} : Actions!Inside(u))
      /\ actionCwd' = Actions!Act(t).chdir
      /\ UNCHANGED <<ran, misplaced>>
  BY DEF Actions!ChangeDirectory, ActionIInv, ActionTypes
<1>2. ActionMoves(t, new, ran[t])
  <2>1. ran = [ran EXCEPT ![t] = ran[t]]
    BY DEF ActionIInv, ActionTypes
  <2>2. new \in [Fields -> {new[f] : f \in Fields}]
    BY DEF ActionIInv, ActionTypes, Fields
  <2>3. overlap' \in BOOLEAN /\ misplaced' \in BOOLEAN
    BY <1>1 DEF ActionIInv, ActionTypes
  <2> HIDE DEF new
  <2>4. QED
    BY <1>1, <2>1, <2>2, <2>3 DEF ActionMoves
<1>3. /\ new.list = thread[t].list /\ new.turn = thread[t].turn
      /\ new.result = thread[t].result /\ new.at = "execute" /\ new.save = thread[t].save
  BY DEF ActionIInv, ActionTypes, Fields
<1> HIDE DEF new
<1>4. thread'[t] = new /\ ran'[t] = ran[t] /\ ActionTypes' /\ \A u \in Threads \ {t} : Same(u)
  BY <1>2, ActionOthers, Zenon
<1>5. ActsInTurn(t)'
  BY <1>1, <1>3, <1>4 DEF ActsInTurn, ActionIInv
<1>6. Actions!Act(t)' = Actions!Act(t) /\ Actions!Inside(t)
  BY <1>1, <1>3, <1>4 DEF Actions!Act, Actions!Inside
<1>7. thread'[t].save = thread[t].save
  BY <1>3, <1>4
<1>8. ActionsApart'
  <2> SUFFICES ASSUME ~overlap' PROVE ActionsApart'
    BY DEF ActionsApart
  <2>1. ~overlap /\ \A u \in Threads \ {t} : ~Actions!Inside(u) /\ ~Actions!Moved(u)
    BY <1>1 DEF Actions!Inside, Actions!Moved
  <2>2. Actions!Moved(t)' \/ Actions!Act(t).chdir = None
    BY <1>3, <1>4, <1>6 DEF Actions!Moved
  <2>3. Actions!Act(t).chdir # None
    BY <1>1 DEF ActionIInv, ActsInTurn
  <2>4. QED
    BY <1>1, <1>4, <1>6, <1>7, <2>1, <2>2, <2>3 DEF ActionIInv, ActionsApart, Same
<1>9. QED
  BY <1>4, <1>5, <1>8 DEF ActionIInv, Same

(* An outcome for which execute returns no error is a success or excused. *)
LEMMA ActionResult ==
  ASSUME NEW t \in Threads, NEW o \in Actions!Outcomes(Actions!Act(t).kind),
         Actions!execute(t, o) = None, Actions!Failure(o)
  PROVE  Actions!Excused(Actions!Act(t), o)
<1> USE PartsAssumption DEF Actions!ActionAssumption
<1>1. None \notin Actions!Numbers /\ None \notin Actions!BuildErrors
  OBVIOUS
<1>2. o.status \in Actions!Numbers \/ (o.does = "OSError" /\ o.status = None)
  BY DEF Actions!Outcomes, Actions!Numbers
<1>3. o.does = "ExplicitExit" => o.status = 0
  BY DEF Actions!Outcomes
<1>4. o.status \in Actions!Numbers => Actions!convert_to_BuildError(o) \in Actions!BuildErrors
  BY <1>3 DEF Actions!convert_to_BuildError, Actions!BuildError, Actions!BuildErrors
<1>5. o.does \in {"returns", "OSError", "UserError", "ExplicitExit", "BuildError", "Exception"}
  BY DEF Actions!Outcomes
<1>6. ~Actions!Raises(o)
  <2> SUFFICES ASSUME Actions!Raises(o) PROVE FALSE
    OBVIOUS
  <2>1. o.status \in Actions!Numbers
    BY <1>2 DEF Actions!Raises
  <2>2. Actions!execute(t, o) \in Actions!BuildErrors
    BY <1>4, <2>1 DEF Actions!execute
  <2>3. QED
    BY <1>1, <2>2
<1>7. CASE Actions!StatusTrue(o.status) /\ ~(Actions!Act(t).kind = "command" /\ Actions!Act(t).ignore)
  <2>1. o.status \in Actions!Numbers
    BY <1>2, <1>7 DEF Actions!StatusTrue
  <2>2. Actions!execute(t, o) \in Actions!BuildErrors
    BY <1>4, <1>7, <2>1 DEF Actions!execute
  <2>3. QED
    BY <1>1, <2>2
<1>8. CASE Actions!Act(t).kind = "command" /\ Actions!Act(t).ignore
  BY <1>8 DEF Actions!Excused
<1>9. CASE ~Actions!StatusTrue(o.status)
  <2>1. o.does \in {"returns", "OSError"}
    BY <1>5, <1>6 DEF Actions!Raises
  <2>2. o.does = "OSError" => o.status \in {13, None}
    BY DEF Actions!Outcomes
  <2>3. o.status \in {0, None}
    BY <1>9 DEF Actions!StatusTrue
  <2>4. CASE o.does = "OSError"
    <3>1. o.status = None
      BY <2>2, <2>3, <2>4, <1>1 DEF Actions!Numbers
    <3>2. QED
      BY <2>4, <3>1 DEF Actions!Excused
  <2>5. CASE o.does = "returns"
    BY <1>1, <1>2, <2>3, <2>5 DEF Actions!Failure
  <2>6. QED
    BY <2>1, <2>4, <2>5
<1>10. QED
  BY <1>7, <1>8, <1>9

LEMMA ActionRun ==
  ASSUME ActionIInv, NEW t \in Threads, Actions!Run(t)
  PROVE  ActionIInv'
<1>1. PICK o \in Actions!Outcomes(Actions!Act(t).kind) :
        /\ ran' = [ran EXCEPT ![t] = Append(ran[t], o)]
        /\ thread' = [thread EXCEPT ![t] = [thread[t] EXCEPT !.at = "restore",
                                              !.result = Actions!execute(t, o)]]
  BY DEF Actions!Run, ActionIInv, ActionTypes
<1> DEFINE new == [thread[t] EXCEPT !.at = "restore", !.result = Actions!execute(t, o)]
           outcomes == Append(ran[t], o)
<1>2. /\ thread[t].at = "execute"
      /\ misplaced' = (misplaced \/ actionCwd # Actions!Place(t))
      /\ UNCHANGED <<actionCwd, overlap>>
  BY DEF Actions!Run
<1>3. ActionMoves(t, new, outcomes)
  <2>1. new \in [Fields -> {new[f] : f \in Fields}]
    BY DEF ActionIInv, ActionTypes, Fields
  <2>2. overlap' \in BOOLEAN /\ misplaced' \in BOOLEAN
    BY <1>2 DEF ActionIInv, ActionTypes
  <2> HIDE DEF new
  <2>3. QED
    BY <1>1, <2>1, <2>2 DEF ActionMoves, new
<1>4. /\ new.list = thread[t].list /\ new.turn = thread[t].turn /\ new.at = "restore"
      /\ new.save = thread[t].save /\ new.result = Actions!execute(t, o)
  BY DEF ActionIInv, ActionTypes, Fields
<1> HIDE DEF new
<1>5. thread'[t] = new /\ ran'[t] = outcomes /\ ActionTypes' /\ \A u \in Threads \ {t} : Same(u)
  BY <1>3, ActionOthers, Zenon
<1>6. /\ thread[t].list \in Lists /\ thread[t].turn \in DOMAIN thread[t].list
      /\ ran[t] \in Seq(ToSet(ran[t])) /\ Len(ran[t]) = thread[t].turn - 1
      /\ \A i \in DOMAIN ran[t] :
           Actions!Failure(ran[t][i]) => Actions!Excused(thread[t].list[i], ran[t][i])
      /\ thread[t].turn \in Nat
  BY <1>2, ActionAt DEF ActionIInv, ActsInTurn
<1>7. ActsInTurn(t)'
  <2>1. /\ outcomes \in Seq(ToSet(outcomes)) /\ Len(outcomes) = thread[t].turn
        /\ DOMAIN outcomes = 1..thread[t].turn
        /\ \A i \in DOMAIN outcomes : IF i = thread[t].turn THEN outcomes[i] = o
                                      ELSE i \in DOMAIN ran[t] /\ outcomes[i] = ran[t][i]
    <3>1. ran[t] \in Seq(ToSet(ran[t]) \cup {o})
      BY <1>6
    <3>2. /\ outcomes \in Seq(ToSet(ran[t]) \cup {o}) /\ Len(outcomes) = Len(ran[t]) + 1
          /\ \A i \in 1..Len(outcomes) : IF i = Len(ran[t]) + 1 THEN outcomes[i] = o
                                         ELSE outcomes[i] = ran[t][i]
      BY <3>1
    <3>3. outcomes \in Seq(ToSet(outcomes))
      BY <3>2 DEF ToSet
    <3>4. QED
      BY <1>6, <3>2, <3>3
  <2>2. Actions!execute(t, o) = None /\ Actions!Failure(o)
          => Actions!Excused(thread[t].list[thread[t].turn], o)
    BY ActionResult DEF Actions!Act
  <2> HIDE DEF outcomes
  <2>3. QED
    BY <1>4, <1>5, <1>6, <2>1, <2>2 DEF ActsInTurn
<1>8. Actions!Act(t)' = Actions!Act(t)
  BY <1>4, <1>5 DEF Actions!Act
<1>9. /\ Actions!Inside(t) /\ Actions!Inside(t)'
      /\ Actions!Moved(t)' = Actions!Moved(t)
      /\ Actions!Moved(t) = (Actions!Act(t).chdir # None)
      /\ thread'[t].save = thread[t].save
  BY <1>2, <1>4, <1>5, <1>8 DEF Actions!Inside, Actions!Moved
<1>10. ActionsApart'
  <2> SUFFICES ASSUME ~overlap' PROVE ActionsApart'
    BY DEF ActionsApart
  <2>1. \A u \in Threads \ {t} : ~Actions!Moved(u)
    BY <1>2, <1>9 DEF ActionIInv, ActionsApart
  <2>2. actionCwd = Actions!Place(t)
    <3>1. CASE Actions!Moved(t)
      BY <1>2, <1>9, <3>1 DEF ActionIInv, ActionsApart, Actions!Place
    <3>2. CASE ~Actions!Moved(t)
      BY <1>2, <1>9, <2>1, <3>2 DEF ActionIInv, ActionsApart, Actions!Place
    <3>3. QED
      BY <3>1, <3>2
  <2>3. QED
    BY <1>2, <1>5, <1>8, <1>9, <2>2 DEF ActionIInv, ActionsApart, Same
<1>11. QED
  BY <1>5, <1>7, <1>10 DEF ActionIInv, Same

LEMMA ActionRestore ==
  ASSUME ActionIInv, NEW t \in Threads, Actions!Restore(t)
  PROVE  ActionIInv'
<1> DEFINE new == Actions!NextTurn(t)
           over == thread[t].result # None \/ thread[t].turn = Len(thread[t].list)
<1>1. /\ thread[t].at = "restore" /\ thread' = [thread EXCEPT ![t] = new]
      /\ actionCwd' = Actions!Restored(t)
      /\ UNCHANGED <<ran, overlap, misplaced>>
  BY DEF Actions!Restore
<1>2. /\ new \in [Fields -> {new[f] : f \in Fields}]
      /\ new.list = thread[t].list /\ new.save = thread[t].save /\ new.result = thread[t].result
      /\ new.at = IF over THEN "done" ELSE "start"
      /\ new.turn = IF over THEN thread[t].turn ELSE thread[t].turn + 1
  BY DEF ActionIInv, ActionTypes, Fields, Actions!NextTurn
<1> HIDE DEF new
<1>3. ActionMoves(t, new, ran[t])
  BY <1>1, <1>2 DEF ActionMoves, ActionIInv, ActionTypes
<1>4. thread'[t] = new /\ ran'[t] = ran[t] /\ ActionTypes' /\ \A u \in Threads \ {t} : Same(u)
  BY <1>3, ActionOthers, Zenon
<1>5. ActsInTurn(t)'
  <2>1. /\ thread[t].list \in Lists /\ Len(thread[t].list) \in Nat
        /\ DOMAIN thread[t].list = 1..Len(thread[t].list)
        /\ thread[t].turn \in 1..Len(thread[t].list)
    BY <1>1, ActionAt
  <2>2. ActsInTurn(t)
    BY DEF ActionIInv
  <2>3. CASE over
    BY <1>1, <1>2, <1>4, <2>1, <2>2, <2>3 DEF ActsInTurn
  <2>4. CASE ~over
    BY <1>1, <1>2, <1>4, <2>1, <2>2, <2>4 DEF ActsInTurn
  <2>5. QED
    BY <2>3, <2>4
<1>6. ~Actions!Moved(t)' /\ ~Actions!Inside(t)' /\ Actions!Inside(t)
      /\ Actions!Moved(t) = (Actions!Act(t).chdir # None)
  BY <1>1, <1>2, <1>4 DEF Actions!Moved, Actions!Inside
<1>7. ActionsApart'
  <2> SUFFICES ASSUME ~overlap' PROVE ActionsApart'
    BY DEF ActionsApart
  <2>1. \A u \in Threads \ {t} : ~Actions!Moved(u)
    BY <1>1, <1>6 DEF ActionIInv, ActionsApart
  <2>2. actionCwd' = Top
    BY <1>1, <1>6, <2>1 DEF ActionIInv, ActionsApart, Actions!Restored
  <2>3. QED
    BY <1>1, <1>4, <1>6, <2>1, <2>2 DEF ActionIInv, ActionsApart, Same
<1>8. QED
  BY <1>4, <1>5, <1>7 DEF ActionIInv, Same

LEMMA ActionFinish ==
  ASSUME ActionIInv, NEW t \in Threads, Actions!Finish(t)
  PROVE  ActionIInv'
<1>1. /\ thread[t].at = "done" /\ thread' = [thread EXCEPT ![t] = Actions!Idle]
      /\ UNCHANGED <<actionCwd, ran, overlap, misplaced>>
  BY DEF Actions!Finish
<1>2. ActionMoves(t, Actions!Idle, ran[t])
  BY <1>1 DEF ActionMoves, ActionIInv, ActionTypes, Actions!Idle, Fields
<1>3. /\ thread'[t] = Actions!Idle /\ ran'[t] = ran[t] /\ ActionTypes'
      /\ \A u \in Threads \ {t} : Same(u)
  BY <1>2, ActionOthers, Zenon
<1>4. ActsInTurn(t)'
  BY <1>3 DEF ActsInTurn, Actions!Idle
<1>5. ~Actions!Moved(t)' /\ ~Actions!Inside(t)' /\ ~Actions!Moved(t)
  BY <1>1, <1>3 DEF Actions!Moved, Actions!Inside, Actions!Idle
<1>6. ActionsApart'
  BY <1>1, <1>3, <1>5 DEF ActionIInv, ActionsApart, Same
<1>7. QED
  BY <1>3, <1>4, <1>6 DEF ActionIInv, Same

LEMMA ActionSteps ==
  /\ Actions!ActionInit => ActionIInv
  /\ ActionIInv /\ Actions!ActionNext => ActionIInv'
  /\ ActionIInv /\ UNCHANGED actionsVars => ActionIInv'
<1>1. ActionIInv /\ Actions!ActionNext => ActionIInv'
  BY ActionExecute, ActionStart, ActionChangeDirectory, ActionRun, ActionRestore, ActionFinish
     DEF Actions!ActionNext
<1>2. ActionIInv /\ UNCHANGED actionsVars => ActionIInv'
  BY DEF actionsVars, ActionIInv, ActionTypes, ActsInTurn, ActionsApart, Actions!Moved,
         Actions!Inside, Actions!Act
<1>3. QED
  BY <1>1, <1>2, ActionInitial

(* For any threads and any lists of commands and functions: an action that   *)
(* asks for a directory runs in it and every other one at the top, whatever  *)
(* failed before, while no two actions overlap of which one moves            *)
(* (_ActionAction.__call__); and a list that ends without an error has made  *)
(* every action, and each of them succeeded or is excused by its "-" or by   *)
(* an OSError without a number.                                              *)
THEOREM ActionsSoundCorrect == Spec => []ActionsSound
<1> DEFINE Inv == part = "actions" => ActionIInv
<1>1. Init => Inv
  BY ActionSteps DEF Init
<1>2. Inv /\ [Next]_vars => Inv'
  BY ActionSteps DEF Next, vars
<1>3. Inv => ActionsSound
  <2> SUFFICES ASSUME ActionIInv PROVE Actions!RunsInPlace /\ Actions!MadeByAll
    BY DEF ActionsSound
  <2>1. Actions!RunsInPlace
    BY DEF ActionIInv, ActionsApart, Actions!RunsInPlace
  <2>2. Actions!MadeByAll
    BY DEF ActionIInv, ActsInTurn, Actions!MadeByAll
  <2>3. QED
    BY <2>1, <2>2
<1>4. QED
  BY <1>1, <1>2, <1>3, PTL DEF Spec

-----------------------------------------------------------------------------
(* The calls of builders (SConsBuilder). *)

SourceNodes == Calls!Targets \cup UNION {Calls!ToSet(slist) : slist \in SourceLists}
BatchTypes == [targets : TargetLists, sources : Seq(SourceNodes)]
ExecutorTypes == [action : {Action[b] : b \in Builders}, env : Envs, batches : Seq(BatchTypes)]
NodeTypes == [builder : Builders \cup {Unset}, env : Envs \cup {Unset},
              sources : Seq(SourceNodes), executor : Nat, side_effect : BOOLEAN]

CallTypes ==
  /\ node \in [Calls!Targets -> NodeTypes]
  /\ executors \in Seq(ExecutorTypes)
  /\ batchOf \in [Builders \X Envs -> Nat]
  /\ builderCalls \in 0 .. MaxCalls

(* t is made by the i-th batch of the executor x. *)
Makes(x, i, t) ==
  /\ x \in DOMAIN executors /\ i \in DOMAIN executors[x].batches
  /\ t \in Calls!ToSet(executors[x].batches[i].targets)

MakerContents(x) == Contents[<<executors[x].action, executors[x].env>>]

(* What a node knows of how it is made: nothing, or a builder and an         *)
(* executor that makes it.                                                   *)
NodesKnow ==
  \A t \in Calls!Targets :
    /\ node[t].builder = Unset <=> node[t].executor = 0
    /\ node[t].builder # Unset => /\ node[t].env \in Envs
                                  /\ ~node[t].side_effect
                                  /\ \E i \in Nat : Makes(node[t].executor, i, t)
    /\ node[t].builder = Unset /\ ~node[t].side_effect => node[t].sources = <<>>

(* Whatever makes a node, in use or not, has its sources and, unless the     *)
(* recipe was replaced, its recipe.                                          *)
MakersAgree ==
  \A t \in Calls!Targets, x \in Nat, i \in Nat : Makes(x, i, t) =>
    /\ node[t].builder # Unset
    /\ executors[x].batches[i].sources = node[t].sources
    /\ t \notin replaced => MakerContents(x) = Calls!Recipe(node[t].builder, node[t].env)

(* A builder that may be called again keeps one executor with one batch.     *)
MultiAlone ==
  \A t \in Calls!Targets, x \in Nat, i \in Nat :
    Makes(x, i, t) /\ node[t].builder \in Multi =>
      x = node[t].executor /\ Len(executors[x].batches) = 1

(* An executor that takes batches is of that builder and environment, and    *)
(* makes nothing for a builder that may be called again.                     *)
BatchesApart ==
  \A b \in Builders, e \in Envs : LET x == batchOf[<<b, e>>] IN x # 0 =>
    /\ x \in DOMAIN executors
    /\ executors[x].action = Action[b] /\ executors[x].env = e
    /\ \A t \in Calls!Targets, i \in Nat : Makes(x, i, t) => node[t].builder \notin Multi

(* Every batch is of a call. *)
BatchesCounted == \A x \in DOMAIN executors : Len(executors[x].batches) <= builderCalls

CallIInv ==
  CallTypes /\ NodesKnow /\ MakersAgree /\ MultiAlone /\ BatchesApart /\ BatchesCounted

(* A set that holds 0 and with every k - 1 also k holds every number up to n. *)
LEMMA UpwardsTo ==
  ASSUME NEW n \in Nat, NEW T \in SUBSET (0 .. n), 0 \in T,
         \A k \in 1 .. n : k - 1 \in T => k \in T
  PROVE  T = 0 .. n
<1> DEFINE R == (0 .. n) \ T
<1> SUFFICES ASSUME R # {} PROVE FALSE
  OBVIOUS
<1>1. R \in SUBSET Nat
  OBVIOUS
<1> HIDE DEF R
<1>2. PICK k \in R : \A y \in R : k <= y
  BY <1>1, NatMin
<1>3. k \in 1 .. n /\ k \notin T /\ k - 1 \in 0 .. n
  BY <1>2 DEF R
<1>4. k - 1 \notin R
  BY <1>2, <1>3
<1>5. QED
  BY <1>3, <1>4 DEF R

(* The list Added(s, l) is built up element by element: the lists f[i] of    *)
(* its recursion exist, and are lists of nodes.                              *)
LEMMA AddedStepwise ==
  ASSUME NEW S, NEW s \in Seq(S), NEW l \in Seq(S)
  PROVE  \E f \in [0 .. Len(l) -> Seq(S)] :
           /\ f[0] = s /\ Calls!Added(s, l) = f[Len(l)]
           /\ \A i \in 1 .. Len(l) :
                f[i] = IF l[i] \in Calls!ToSet(f[i - 1]) THEN f[i - 1] ELSE Append(f[i - 1], l[i])
<1> DEFINE n == Len(l)
           Grown(q, i) == IF l[i] \in Calls!ToSet(q) THEN q ELSE Append(q, l[i])
           Step(f) == [i \in 0 .. n |->
                         IF i = 0 THEN s
                         ELSE IF l[i] \in Calls!ToSet(f[i - 1]) THEN f[i - 1]
                         ELSE Append(f[i - 1], l[i])]
           upTo == CHOOSE f : f = Step(f)
           Chain(k, g) == /\ g \in [0 .. k -> Seq(S)] /\ g[0] = s
                          /\ \A i \in 1 .. k : g[i] = Grown(g[i - 1], i)
           T == {k \in 0 .. n : \E g : Chain(k, g)}
<1>0. n \in Nat /\ DOMAIN l = 1 .. n /\ \A i \in 1 .. n : l[i] \in S
  OBVIOUS
<1>1. Calls!Added(s, l) = upTo[n]
  BY DEF Calls!Added
<1> HIDE DEF n
<1>2. \A i \in 1 .. n, q \in Seq(S) : Grown(q, i) \in Seq(S)
  BY <1>0
<1>3. n \in T
  <2> HIDE DEF Grown
  <2>1. 0 \in T
    <3> DEFINE g == [i \in 0 .. 0 |-> s]
    <3>1. Chain(0, g)
      OBVIOUS
    <3> HIDE DEF Chain, g
    <3>2. QED
      BY <1>0, <3>1
  <2>2. ASSUME NEW k \in 1 .. n, k - 1 \in T
        PROVE  k \in T
    <3>1. PICK g : Chain(k - 1, g)
      BY <2>2
    <3> DEFINE h == [i \in 0 .. k |-> IF i = k THEN Grown(g[k - 1], k) ELSE g[i]]
    <3>2. Grown(g[k - 1], k) \in Seq(S)
      BY <1>0, <1>2, <3>1
    <3>3. h \in [0 .. k -> Seq(S)] /\ h[0] = s
      BY <1>0, <3>1, <3>2
    <3>4. ASSUME NEW i \in 1 .. k
          PROVE  h[i] = Grown(h[i - 1], i)
      <4>1. CASE i = k
        <5>1. h[i] = Grown(g[k - 1], k) /\ h[i - 1] = g[k - 1]
          BY <1>0, <4>1
        <5>2. QED
          BY <4>1, <5>1
      <4>2. CASE i # k
        <5>1. h[i] = g[i] /\ h[i - 1] = g[i - 1] /\ i \in 1 .. k - 1
          BY <1>0, <4>2
        <5>2. QED
          BY <3>1, <5>1
      <4>3. QED
        BY <4>1, <4>2
    <3> HIDE DEF h
    <3>5. Chain(k, h)
      BY <3>3, <3>4
    <3> HIDE DEF Chain
    <3>6. QED
      BY <1>0, <3>5
  <2>3. T \in SUBSET (0 .. n)
    OBVIOUS
  <2> HIDE DEF T
  <2>4. T = 0 .. n
    BY <1>0, <2>1, <2>2, <2>3, UpwardsTo
  <2>5. QED
    BY <1>0, <2>4
<1>4. PICK g : Chain(n, g)
  BY <1>3
<1>5. g = Step(g)
  <2>1. ASSUME NEW i \in 0 .. n
        PROVE  g[i] = Step(g)[i]
    <3>1. CASE i = 0
      BY <1>4, <3>1
    <3>2. CASE i # 0
      <4>1. i \in 1 .. n
        BY <1>0, <3>2
      <4>2. g[i] = Grown(g[i - 1], i)
        BY <1>4, <4>1
      <4>3. Step(g)[i] = Grown(g[i - 1], i)
        BY <3>2
      <4>4. QED
        BY <4>2, <4>3
    <3>3. QED
      BY <3>1, <3>2
  <2>2. g \in [0 .. n -> Seq(S)]
    BY <1>4
  <2> HIDE DEF Chain
  <2>3. QED
    BY <2>1, <2>2
<1>6. upTo = Step(upTo)
  <2> HIDE DEF Step
  <2>1. QED
    BY <1>5
<1> HIDE DEF upTo
<1>7. /\ upTo[0] = s
      /\ \A i \in 1 .. n : upTo[i] = Grown(upTo[i - 1], i)
  <2>1. \A i \in 0 .. n : upTo[i] = Step(upTo)[i]
    <3> HIDE DEF Step
    <3>1. QED
      BY <1>6
  <2>2. Step(upTo)[0] = s /\ \A i \in 1 .. n : Step(upTo)[i] = Grown(upTo[i - 1], i)
    BY <1>0
  <2>3. \A i \in 1 .. n : i \in 0 .. n
    BY <1>0
  <2> HIDE DEF Step, Grown
  <2>4. QED
    BY <1>0, <2>1, <2>2, <2>3
<1> DEFINE U == {k \in 0 .. n : upTo[k] = g[k]}
<1>8. U = 0 .. n
  <2>1. 0 \in U
    BY <1>0, <1>4, <1>7
  <2>2. \A k \in 1 .. n : k - 1 \in U => k \in U
    <3> HIDE DEF Grown
    <3>1. QED
      BY <1>0, <1>4, <1>7
  <2>3. U \in SUBSET (0 .. n)
    OBVIOUS
  <2> HIDE DEF U
  <2>4. QED
    BY <1>0, <2>1, <2>2, <2>3, UpwardsTo
<1>9. upTo[n] = g[n]
  BY <1>0, <1>8
<1>10. QED
  BY <1>1, <1>4, <1>9 DEF n

(* What is added to a list of nodes leaves a list of nodes. *)
LEMMA AddedTyped ==
  ASSUME NEW S, NEW s \in Seq(S), NEW l \in Seq(S)
  PROVE  Calls!Added(s, l) \in Seq(S)
<1>1. Len(l) \in 0 .. Len(l)
  OBVIOUS
<1>2. QED
  BY <1>1, AddedStepwise

(* Adding what is there already changes nothing. *)
LEMMA AddedSame ==
  ASSUME NEW S, NEW l \in Seq(S)
  PROVE  Calls!Added(l, l) = l
<1>1. PICK f \in [0 .. Len(l) -> Seq(S)] :
           /\ f[0] = l /\ Calls!Added(l, l) = f[Len(l)]
           /\ \A i \in 1 .. Len(l) :
                f[i] = IF l[i] \in Calls!ToSet(f[i - 1]) THEN f[i - 1] ELSE Append(f[i - 1], l[i])
  BY AddedStepwise
<1>2. Len(l) \in Nat /\ DOMAIN l = 1 .. Len(l)
  OBVIOUS
<1>3. \A i \in 1 .. Len(l) : l[i] \in Calls!ToSet(l)
  BY <1>2 DEF Calls!ToSet
<1> DEFINE T == {k \in 0 .. Len(l) : f[k] = l}
<1>4. 0 \in T /\ \A k \in 1 .. Len(l) : k - 1 \in T => k \in T
  BY <1>1, <1>2, <1>3
<1>5. T = 0 .. Len(l)
  <2>1. T \in SUBSET (0 .. Len(l))
    OBVIOUS
  <2> HIDE DEF T
  <2>2. QED
    BY <1>2, <1>4, <2>1, UpwardsTo
<1>6. QED
  BY <1>1, <1>2, <1>5

(* Adding a list to nothing gives the list, when it names nothing twice. *)
LEMMA AddedFresh ==
  ASSUME NEW S, NEW l \in Seq(S),
         \A i \in DOMAIN l, j \in DOMAIN l : l[i] = l[j] => i = j
  PROVE  Calls!Added(<<>>, l) = l
<1>1. PICK f \in [0 .. Len(l) -> Seq(S)] :
           /\ f[0] = <<>> /\ Calls!Added(<<>>, l) = f[Len(l)]
           /\ \A i \in 1 .. Len(l) :
                f[i] = IF l[i] \in Calls!ToSet(f[i - 1]) THEN f[i - 1] ELSE Append(f[i - 1], l[i])
  <2> DEFINE none == <<>>
  <2>1. none \in Seq(S)
    OBVIOUS
  <2> HIDE DEF none
  <2>2. \E f \in [0 .. Len(l) -> Seq(S)] :
           /\ f[0] = none /\ Calls!Added(none, l) = f[Len(l)]
           /\ \A i \in 1 .. Len(l) :
                f[i] = IF l[i] \in Calls!ToSet(f[i - 1]) THEN f[i - 1] ELSE Append(f[i - 1], l[i])
    BY <2>1, AddedStepwise
  <2>3. QED
    BY <2>2 DEF none
<1>2. Len(l) \in Nat /\ DOMAIN l = 1 .. Len(l)
  OBVIOUS
<1> DEFINE Piece(k) == Len(f[k]) = k /\ \A j \in 1 .. k : f[k][j] = l[j]
           T == {k \in 0 .. Len(l) : Piece(k)}
<1>3. 0 \in T
  BY <1>1, <1>2
<1>4. ASSUME NEW k \in 1 .. Len(l), k - 1 \in T
      PROVE  k \in T
  <2>1. f[k - 1] \in Seq(S) /\ Len(f[k - 1]) = k - 1 /\ \A j \in 1 .. k - 1 : f[k - 1][j] = l[j]
    BY <1>1, <1>2, <1>4
  <2>2. l[k] \notin Calls!ToSet(f[k - 1])
    <3>1. DOMAIN f[k - 1] = 1 .. k - 1
      BY <2>1
    <3>2. ASSUME NEW j \in 1 .. k - 1
          PROVE  f[k - 1][j] # l[k]
      <4>1. j \in DOMAIN l /\ k \in DOMAIN l /\ j # k
        BY <1>2
      <4>2. l[j] # l[k]
        BY <4>1
      <4>3. QED
        BY <2>1, <4>2
    <3>3. QED
      BY <3>1, <3>2 DEF Calls!ToSet
  <2>3. f[k] = Append(f[k - 1], l[k])
    BY <1>1, <2>2
  <2>4. l[k] \in S
    BY <1>2
  <2>5. Len(f[k]) = k /\ \A j \in 1 .. k : f[k][j] = l[j]
    BY <1>2, <2>1, <2>3, <2>4
  <2>6. QED
    BY <1>2, <2>5
<1>5. T = 0 .. Len(l)
  <2>1. T \in SUBSET (0 .. Len(l))
    OBVIOUS
  <2> HIDE DEF T
  <2>2. QED
    BY <1>2, <1>3, <1>4, <2>1, UpwardsTo
<1>6. Piece(Len(l)) /\ f[Len(l)] \in Seq(S)
  BY <1>1, <1>2, <1>5
<1>7. f[Len(l)] = l
  BY <1>2, <1>6
<1>8. QED
  BY <1>1, <1>7

(* What the assumptions say of the lists of a call. *)
LEMMA CallLists ==
  ASSUME NEW tlist \in TargetLists, NEW slist \in SourceLists
  PROVE  /\ tlist[1] \in Calls!ToSet(tlist) /\ Calls!ToSet(tlist) \subseteq Calls!Targets
         /\ slist \in Seq(SourceNodes) /\ Calls!Added(<<>>, slist) = slist
         /\ Calls!Added(slist, slist) = slist
<1>1. /\ tlist \in Seq(Calls!ToSet(tlist)) /\ slist \in Seq(Calls!ToSet(slist)) /\ tlist # <<>>
      /\ \A i \in DOMAIN slist, j \in DOMAIN slist : slist[i] = slist[j] => i = j
  BY PartsAssumption DEF PartsAssumption, Calls!BuilderAssumption
<1>2. tlist[1] \in Calls!ToSet(tlist)
  BY <1>1
<1>3. Calls!ToSet(tlist) \subseteq Calls!Targets
  BY DEF Calls!Targets
<1>4. slist \in Seq(SourceNodes)
  <2>1. Calls!ToSet(slist) \subseteq SourceNodes
    BY DEF SourceNodes
  <2> HIDE DEF SourceNodes
  <2>2. \A i \in 1 .. Len(slist) : slist[i] \in SourceNodes
    BY <1>1, <2>1
  <2>3. QED
    BY <1>1, <2>2
<1>5. Calls!Added(<<>>, slist) = slist
  BY <1>1, AddedFresh
<1>6. Calls!Added(slist, slist) = slist
  BY <1>1, AddedSame
<1>7. QED
  BY <1>2, <1>3, <1>4, <1>5, <1>6

(* The types of what the executors hold. *)
LEMMA ExecutorTyped ==
  ASSUME CallTypes, NEW x \in DOMAIN executors
  PROVE  /\ x \in Nat \ {0} /\ executors[x] \in ExecutorTypes
         /\ executors[x].batches \in Seq(BatchTypes)
         /\ Len(executors[x].batches) \in Nat
         /\ DOMAIN executors[x].batches = 1 .. Len(executors[x].batches)
         /\ \A i \in DOMAIN executors[x].batches : executors[x].batches[i] \in BatchTypes
<1>1. executors[x] \in ExecutorTypes /\ x \in Nat \ {0}
  BY DEF CallTypes
<1>2. executors[x].batches \in Seq(BatchTypes)
  BY <1>1 DEF ExecutorTypes
<1>3. QED
  BY <1>1, <1>2

(* The targets of an executor with one batch. *)
LEMMA OneBatch ==
  ASSUME CallTypes, NEW x \in DOMAIN executors, Len(executors[x].batches) = 1
  PROVE  Calls!AllTargets(x) = executors[x].batches[1].targets
<1> DEFINE targets == executors[x].batches[1].targets
           Step(f) == [i \in 0 .. 1 |->
                         IF i = 0 THEN <<>> ELSE f[i - 1] \o executors[x].batches[i].targets]
           upTo == CHOOSE f : f = Step(f)
           g == [i \in 0 .. 1 |-> IF i = 0 THEN <<>> ELSE targets]
<1>1. Calls!AllTargets(x) = upTo[1]
  BY DEF Calls!AllTargets
<1>2. \E S : targets \in Seq(S)
  <2>1. executors[x].batches[1] \in BatchTypes
    BY ExecutorTyped
  <2>2. targets \in TargetLists
    BY <2>1 DEF BatchTypes
  <2>3. QED
    BY <2>2, PartsAssumption DEF PartsAssumption, Calls!BuilderAssumption
<1>3. <<>> \o targets = targets
  BY <1>2
<1>4. g = Step(g)
  BY <1>3
<1>5. upTo = Step(upTo)
  <2> HIDE DEF Step, g
  <2>1. QED
    BY <1>4
<1> HIDE DEF upTo
<1>6. upTo[0] = <<>> /\ upTo[1] = upTo[0] \o targets
  BY <1>5
<1>7. QED
  BY <1>1, <1>3, <1>6

(* What a call that is not refused finds: its targets are no side effects;   *)
(* those that have a builder have the sources of the call, or the builder of *)
(* the call and its list of targets.                                         *)
LEMMA NotRefused ==
  ASSUME CallIInv, NEW b \in Builders, NEW e \in Envs, NEW tlist \in TargetLists,
         NEW slist \in SourceLists, ~Calls!node_errors(b, e, tlist, slist),
         NEW t \in Calls!ToSet(tlist)
  PROVE  /\ t \in Calls!Targets /\ ~node[t].side_effect
         /\ node[t].builder # Unset /\ b \notin Multi => node[t].sources = slist
         /\ node[t].builder # Unset /\ b \in Multi =>
              /\ node[t].builder = b /\ node[t].executor \in DOMAIN executors
              /\ Len(executors[node[t].executor].batches) = 1
              /\ Makes(node[t].executor, 1, t)
              /\ executors[node[t].executor].batches[1].targets = tlist
<1>1. /\ t \in Calls!Targets /\ ~node[t].side_effect
      /\ node[t].builder # Unset /\ b \notin Multi => node[t].sources = slist
      /\ node[t].builder # Unset /\ b \in Multi =>
           node[t].builder = b /\ Calls!AllTargets(node[t].executor) = tlist
  BY CallLists DEF Calls!node_errors
<1>2. ASSUME node[t].builder # Unset, b \in Multi
      PROVE  /\ node[t].executor \in DOMAIN executors
             /\ Len(executors[node[t].executor].batches) = 1
             /\ Makes(node[t].executor, 1, t)
             /\ executors[node[t].executor].batches[1].targets = tlist
  <2>1. PICK i \in Nat : Makes(node[t].executor, i, t)
    BY <1>1, <1>2 DEF CallIInv, NodesKnow
  <2>2. node[t].executor \in DOMAIN executors /\ node[t].executor \in Nat
    BY <2>1, ExecutorTyped DEF Makes, CallIInv
  <2>3. Len(executors[node[t].executor].batches) = 1
    BY <1>1, <1>2, <2>1, <2>2 DEF CallIInv, MultiAlone
  <2>4. i = 1
    BY <2>1, <2>2, <2>3, ExecutorTyped DEF CallIInv, Makes
  <2>5. QED
    BY <1>1, <1>2, <2>1, <2>2, <2>3, <2>4, OneBatch DEF CallIInv
<1>3. QED
  BY <1>1, <1>2

(* The nodes after a call that gives them the executor x. *)
Given(b, e, tlist, slist, x) ==
  [t \in Calls!Targets |->
     IF t \notin Calls!ToSet(tlist) THEN node[t]
     ELSE [node[t] EXCEPT !.builder = b, !.env = e, !.executor = x,
                          !.sources = Calls!Added(@, slist)]]

Replaced(b, e, tlist) ==
  replaced \cup {t \in Calls!ToSet(tlist) :
    node[t].builder # Unset /\ Calls!Recipe(node[t].builder, node[t].env) # Calls!Recipe(b, e)}

(* The fields of a target after a call. *)
LEMMA GivenFields ==
  ASSUME CallTypes, NEW b \in Builders, NEW e \in Envs, NEW tlist \in TargetLists,
         NEW slist \in SourceLists, NEW x \in Nat,
         node' = Given(b, e, tlist, slist, x)
  PROVE  /\ node' \in [Calls!Targets -> NodeTypes]
         /\ \A t \in Calls!Targets :
              /\ t \notin Calls!ToSet(tlist) => node'[t] = node[t]
              /\ t \in Calls!ToSet(tlist) =>
                   /\ node'[t].builder = b /\ node'[t].env = e /\ node'[t].executor = x
                   /\ node'[t].side_effect = node[t].side_effect
                   /\ node'[t].sources = Calls!Added(node[t].sources, slist)
<1>1. ASSUME NEW t \in Calls!Targets
      PROVE  /\ node'[t] \in NodeTypes
             /\ t \notin Calls!ToSet(tlist) => node'[t] = node[t]
             /\ t \in Calls!ToSet(tlist) =>
                   /\ node'[t].builder = b /\ node'[t].env = e /\ node'[t].executor = x
                   /\ node'[t].side_effect = node[t].side_effect
                   /\ node'[t].sources = Calls!Added(node[t].sources, slist)
  <2>1. node[t] \in NodeTypes
    BY DEF CallTypes
  <2>2. Calls!Added(node[t].sources, slist) \in Seq(SourceNodes)
    <3>1. slist \in Seq(SourceNodes) /\ node[t].sources \in Seq(SourceNodes)
      BY <2>1, CallLists DEF NodeTypes
    <3> HIDE DEF SourceNodes
    <3>2. QED
      BY <3>1, AddedTyped
  <2>3. node'[t] = IF t \notin Calls!ToSet(tlist) THEN node[t]
                   ELSE [node[t] EXCEPT !.builder = b, !.env = e, !.executor = x,
                           !.sources = Calls!Added(node[t].sources, slist)]
    BY DEF Given
  <2> HIDE DEF SourceNodes
  <2>4. QED
    BY <2>1, <2>2, <2>3 DEF NodeTypes
<1>2. DOMAIN node' = Calls!Targets /\ node' = [t \in Calls!Targets |-> node'[t]]
  BY DEF Given
<1>3. QED
  BY <1>1, <1>2

(* A call that leaves a new batch: the i0-th of the executor x. *)
NewBatch(b, e, tlist, slist, x, i0) ==
  /\ node' = Given(b, e, tlist, slist, x)
  /\ replaced' = Replaced(b, e, tlist)
  /\ executors' \in Seq(ExecutorTypes)
  /\ \A y \in DOMAIN executors :
       /\ y \in DOMAIN executors' /\ MakerContents(y)' = MakerContents(y)
       /\ executors'[y].action = executors[y].action /\ executors'[y].env = executors[y].env
       /\ y # x => executors'[y] = executors[y]
       /\ \A i \in DOMAIN executors[y].batches :
            executors'[y].batches[i].sources = executors[y].batches[i].sources
  /\ DOMAIN executors' \subseteq DOMAIN executors \cup {x}
  /\ \A y \in Nat, i \in Nat, t \in Calls!Targets :
       Makes(y, i, t)' <=> Makes(y, i, t) \/ (y = x /\ i = i0 /\ t \in Calls!ToSet(tlist))
  /\ executors'[x].batches[i0].sources = slist
  /\ executors'[x].action = Action[b] /\ executors'[x].env = e
  /\ x \in DOMAIN executors' /\ i0 \in Nat
  /\ b \in Multi => x \notin DOMAIN executors /\ Len(executors'[x].batches) = 1
  /\ x \in DOMAIN executors => b \in Batching /\ batchOf[<<b, e>>] = x
  /\ batchOf' = IF b \in Batching THEN [batchOf EXCEPT ![<<b, e>>] = x] ELSE batchOf
  /\ Len(executors'[x].batches) <= builderCalls + 1

(* Every call that leaves a new batch, in a new executor or in one there is, *)
(* keeps the invariant.                                                      *)
LEMMA NewBatchKeeps ==
  ASSUME CallIInv, NEW b \in Builders, NEW e \in Envs, NEW tlist \in TargetLists,
         NEW slist \in SourceLists, ~Calls!node_errors(b, e, tlist, slist),
         b \in Multi => node[tlist[1]].executor = 0,
         NEW x, NEW i0, NewBatch(b, e, tlist, slist, x, i0),
         builderCalls < MaxCalls, builderCalls' = builderCalls + 1
  PROVE  CallIInv'
<1> DEFINE T == Calls!ToSet(tlist)
<1>0. /\ T \subseteq Calls!Targets /\ tlist[1] \in T
      /\ Multi \subseteq Builders /\ Batching \subseteq Builders \ Multi /\ Unset \notin Builders
      /\ MaxCalls \in Nat
  BY CallLists, PartsAssumption DEF PartsAssumption, Calls!BuilderAssumption
<1>1. x \in Nat \ {0}
  BY DEF NewBatch
<1>2. /\ node' \in [Calls!Targets -> NodeTypes]
      /\ \A t \in Calls!Targets :
              /\ t \notin T => node'[t] = node[t]
              /\ t \in T =>
                   /\ node'[t].builder = b /\ node'[t].env = e /\ node'[t].executor = x
                   /\ node'[t].side_effect = node[t].side_effect
                   /\ node'[t].sources = Calls!Added(node[t].sources, slist)
  BY <1>1, GivenFields DEF NewBatch, CallIInv
<1>3. ASSUME b \in Multi, NEW t \in T
      PROVE  node[t].builder = Unset
  <2> SUFFICES ASSUME node[t].builder # Unset PROVE FALSE
    OBVIOUS
  <2>1. Makes(node[t].executor, 1, t) /\ executors[node[t].executor].batches[1].targets = tlist
        /\ node[t].executor \in DOMAIN executors
    BY <1>3, NotRefused
  <2>2. Makes(node[t].executor, 1, tlist[1]) /\ node[t].executor \in Nat
    BY <1>0, <2>1, ExecutorTyped DEF Makes, CallIInv
  <2>3. node[tlist[1]].builder # Unset
    BY <1>0, <2>2 DEF CallIInv, MakersAgree
  <2>4. QED
    BY <1>0, <1>3, <2>3 DEF CallIInv, NodesKnow
<1>4. \A t \in T : node[t].builder # Unset => b \notin Multi /\ node[t].sources = slist
  BY <1>3, NotRefused
<1>5. \A t \in T : ~node'[t].side_effect /\ node'[t].sources = slist
  <2> SUFFICES ASSUME NEW t \in T
               PROVE  ~node'[t].side_effect /\ node'[t].sources = slist
    OBVIOUS
  <2>1. ~node[t].side_effect
    BY NotRefused
  <2>2. node[t].sources = slist \/ node[t].sources = <<>>
    BY <1>0, <1>4, <2>1 DEF CallIInv, NodesKnow
  <2>3. QED
    BY <1>0, <1>2, <2>1, <2>2, CallLists
<1>6. CallTypes'
  <2>1. batchOf' \in [Builders \X Envs -> Nat]
    BY <1>1 DEF NewBatch, CallIInv, CallTypes
  <2>2. builderCalls' \in 0 .. MaxCalls
    BY <1>0 DEF CallIInv, CallTypes
  <2>3. QED
    BY <1>2, <2>1, <2>2 DEF NewBatch, CallTypes
<1>7. \A y \in Nat, i \in Nat, t \in Calls!Targets :
        Makes(y, i, t)' <=> Makes(y, i, t) \/ (y = x /\ i = i0 /\ t \in T)
  BY DEF NewBatch
<1>8. NodesKnow'
  <2> SUFFICES ASSUME NEW t \in Calls!Targets
               PROVE  /\ node'[t].builder = Unset <=> node'[t].executor = 0
                      /\ node'[t].builder # Unset =>
                           /\ node'[t].env \in Envs
                           /\ ~node'[t].side_effect
                           /\ \E y \in Nat, i \in Nat : y = node'[t].executor /\ Makes(y, i, t)'
                      /\ node'[t].builder = Unset /\ ~node'[t].side_effect =>
                           node'[t].sources = <<>>
    BY DEF NodesKnow, Makes
  <2>1. CASE t \in T
    <3>1. Makes(x, i0, t)' /\ i0 \in Nat
      BY <1>1, <1>7, <2>1 DEF NewBatch
    <3>2. QED
      BY <1>0, <1>1, <1>2, <1>5, <2>1, <3>1
  <2>2. CASE t \notin T
    <3>1. node'[t] = node[t] /\ node[t].executor \in Nat
      BY <1>2, <2>2 DEF CallIInv, CallTypes, NodeTypes
    <3>2. \A y \in Nat, i \in Nat : Makes(y, i, t) => Makes(y, i, t)'
      BY <1>7
    <3>3. node[t].builder # Unset =>
            \E y \in Nat, i \in Nat : y = node[t].executor /\ Makes(y, i, t)
      BY <3>1 DEF CallIInv, NodesKnow
    <3>4. QED
      BY <3>1, <3>2, <3>3 DEF CallIInv, NodesKnow
  <2>3. QED
    BY <2>1, <2>2
<1>9. MakersAgree'
  <2> SUFFICES ASSUME NEW t \in Calls!Targets, NEW y \in Nat, NEW i \in Nat, Makes(y, i, t)'
               PROVE  /\ node'[t].builder # Unset
                      /\ executors'[y].batches[i].sources = node'[t].sources
                      /\ t \notin replaced' =>
                           MakerContents(y)' = Calls!Recipe(node'[t].builder, node'[t].env)
    BY DEF MakersAgree, Makes, MakerContents, Calls!Recipe
  <2>1. CASE Makes(y, i, t)
    <3>1. /\ node[t].builder # Unset
          /\ executors[y].batches[i].sources = node[t].sources
          /\ t \notin replaced => MakerContents(y) = Calls!Recipe(node[t].builder, node[t].env)
      BY <2>1 DEF CallIInv, MakersAgree
    <3>2. /\ executors'[y].batches[i].sources = executors[y].batches[i].sources
          /\ MakerContents(y)' = MakerContents(y)
      BY <2>1 DEF NewBatch, Makes
    <3>3. /\ node'[t].builder # Unset /\ node'[t].sources = node[t].sources
      BY <1>0, <1>2, <1>4, <1>5, <3>1
    <3>4. t \notin replaced' =>
            /\ t \notin replaced
            /\ Calls!Recipe(node'[t].builder, node'[t].env)
                 = Calls!Recipe(node[t].builder, node[t].env)
      BY <1>2, <3>1 DEF NewBatch, Replaced
    <3>5. QED
      BY <3>1, <3>2, <3>3, <3>4
  <2>2. CASE y = x /\ i = i0 /\ t \in T
    <3>1. MakerContents(y)' = Calls!Recipe(b, e)
      BY <2>2 DEF NewBatch, MakerContents, Calls!Recipe
    <3>2. QED
      BY <1>0, <1>2, <1>5, <2>2, <3>1 DEF NewBatch
  <2>3. QED
    BY <1>7, <2>1, <2>2
<1>10. MultiAlone'
  <2> SUFFICES ASSUME NEW t \in Calls!Targets, NEW y \in Nat, NEW i \in Nat, Makes(y, i, t)',
                      node'[t].builder \in Multi
               PROVE  y = node'[t].executor /\ Len(executors'[y].batches) = 1
    BY DEF MultiAlone, Makes
  <2>1. CASE t \in T
    <3>1. b \in Multi
      BY <1>2, <2>1
    <3>2. ~Makes(y, i, t)
      BY <1>3, <2>1, <3>1 DEF CallIInv, MakersAgree
    <3>3. QED
      BY <1>2, <1>7, <2>1, <3>1, <3>2 DEF NewBatch
  <2>2. CASE t \notin T
    <3>1. Makes(y, i, t) /\ node'[t] = node[t]
      BY <1>2, <1>7, <2>2
    <3>2. y = node[t].executor /\ Len(executors[y].batches) = 1 /\ y \in DOMAIN executors
      BY <3>1 DEF CallIInv, MultiAlone, Makes
    <3>3. y # x
      <4> SUFFICES ASSUME y = x PROVE FALSE
        OBVIOUS
      <4>1. batchOf[<<b, e>>] = x
        BY <3>2 DEF NewBatch
      <4>2. QED
        BY <1>1, <3>1, <4>1 DEF CallIInv, BatchesApart
    <3>4. QED
      BY <3>1, <3>2, <3>3 DEF NewBatch
  <2>3. QED
    BY <2>1, <2>2
<1>11. BatchesApart'
  <2> SUFFICES ASSUME NEW c \in Builders, NEW f \in Envs, NEW y, y = batchOf'[<<c, f>>],
                      y # 0
               PROVE  /\ y \in DOMAIN executors'
                      /\ executors'[y].action = Action[c] /\ executors'[y].env = f
                      /\ \A t \in Calls!Targets, i \in Nat :
                           Makes(y, i, t)' => node'[t].builder \notin Multi
    BY DEF BatchesApart, Makes
  <2>1. CASE b \in Batching /\ <<c, f>> = <<b, e>>
    <3>1. y = x /\ c = b /\ f = e /\ b \notin Multi
      BY <1>0, <2>1 DEF NewBatch, CallIInv, CallTypes
    <3>2. ASSUME NEW t \in Calls!Targets, NEW i \in Nat, Makes(y, i, t)'
          PROVE  node'[t].builder \notin Multi
      <4>1. CASE t \in T
        BY <1>2, <3>1, <4>1
      <4>2. CASE t \notin T
        <5>1. Makes(x, i, t) /\ node'[t] = node[t]
          <6>1. y \in Nat /\ (Makes(y, i, t) \/ t \in T)
            BY <1>1, <1>7, <3>1, <3>2
          <6>2. QED
            BY <1>2, <3>1, <4>2, <6>1
        <5>2. batchOf[<<b, e>>] = x
          BY <5>1 DEF NewBatch, Makes
        <5>3. QED
          BY <1>1, <5>1, <5>2 DEF CallIInv, BatchesApart
      <4>3. QED
        BY <4>1, <4>2
    <3>3. QED
      BY <3>1, <3>2 DEF NewBatch
  <2>2. CASE ~(b \in Batching /\ <<c, f>> = <<b, e>>)
    <3>1. y = batchOf[<<c, f>>]
      BY <2>2 DEF NewBatch, CallIInv, CallTypes
    <3>2. /\ y \in DOMAIN executors /\ executors[y].action = Action[c] /\ executors[y].env = f
          /\ \A t \in Calls!Targets, i \in Nat : Makes(y, i, t) => node[t].builder \notin Multi
      BY <3>1 DEF CallIInv, BatchesApart
    <3>3. ASSUME NEW t \in Calls!Targets, NEW i \in Nat, Makes(y, i, t)'
          PROVE  node'[t].builder \notin Multi
      <4>1. CASE Makes(y, i, t)
        <5>1. node[t].builder # Unset
          BY <3>2, <4>1, ExecutorTyped DEF CallIInv, MakersAgree
        <5>2. QED
          BY <1>2, <1>4, <3>2, <4>1, <5>1
      <4>2. CASE ~Makes(y, i, t)
        <5>1. y = x /\ t \in T
          <6>1. y \in Nat
            BY <3>2, ExecutorTyped DEF CallIInv
          <6>2. QED
            BY <1>7, <3>3, <4>2, <6>1
        <5>2. b \in Batching
          BY <3>2, <5>1 DEF NewBatch
        <5>3. QED
          BY <1>0, <1>2, <5>1, <5>2
      <4>3. QED
        BY <4>1, <4>2
    <3>4. QED
      BY <3>2, <3>3 DEF NewBatch
  <2>3. QED
    BY <2>1, <2>2
<1>12. BatchesCounted'
  <2> SUFFICES ASSUME NEW y \in DOMAIN executors'
               PROVE  Len(executors'[y].batches) <= builderCalls + 1
    BY DEF BatchesCounted
  <2>1. CASE y = x
    BY <2>1 DEF NewBatch
  <2>2. CASE y # x
    <3>1. y \in DOMAIN executors /\ executors'[y] = executors[y]
      BY <2>2 DEF NewBatch
    <3>2. Len(executors[y].batches) \in Nat /\ Len(executors[y].batches) <= builderCalls
          /\ builderCalls \in Nat
      BY <3>1, <1>0, ExecutorTyped DEF CallIInv, BatchesCounted, CallTypes
    <3>3. QED
      BY <3>1, <3>2
  <2>3. QED
    BY <2>1, <2>2
<1>13. QED
  BY <1>6, <1>8, <1>9, <1>10, <1>11, <1>12 DEF CallIInv

(* A call without an executor to go on with makes a new one. *)
LEMMA NewExecutorKeeps ==
  ASSUME CallIInv, NEW b \in Builders, NEW e \in Envs, NEW tlist \in TargetLists,
         NEW slist \in SourceLists, ~Calls!node_errors(b, e, tlist, slist),
         b \in Multi => node[tlist[1]].executor = 0,
         b \in Batching => batchOf[<<b, e>>] = 0,
         executors' = Append(executors, Calls!NewExecutor(b, e, tlist, slist)),
         batchOf' = IF b \in Batching THEN [batchOf EXCEPT ![<<b, e>>] = Len(executors) + 1]
                    ELSE batchOf,
         node' = Given(b, e, tlist, slist, Len(executors) + 1),
         replaced' = Replaced(b, e, tlist),
         builderCalls < MaxCalls, builderCalls' = builderCalls + 1
  PROVE  CallIInv'
<1> DEFINE x == Len(executors) + 1
           new == [action |-> Action[b], env |-> e,
                   batches |-> <<[targets |-> tlist, sources |-> slist]>>]
<1>1. executors \in Seq(ExecutorTypes) /\ builderCalls \in 0 .. MaxCalls
      /\ DOMAIN executors = 1 .. Len(executors) /\ Len(executors) \in Nat
  BY DEF CallIInv, CallTypes
<1>2. new \in ExecutorTypes
  <2>1. [targets |-> tlist, sources |-> slist] \in BatchTypes
    BY CallLists DEF BatchTypes
  <2>2. <<[targets |-> tlist, sources |-> slist]>> \in Seq(BatchTypes)
    BY <2>1
  <2>3. QED
    BY <2>2 DEF ExecutorTypes
<1>3. /\ executors' = Append(executors, new)
      /\ executors' \in Seq(ExecutorTypes)
      /\ DOMAIN executors' = DOMAIN executors \cup {x} /\ x \notin DOMAIN executors
      /\ x \in Nat /\ executors'[x] = new
      /\ \A y \in DOMAIN executors : executors'[y] = executors[y]
  <2>1. executors' = Append(executors, new)
    BY DEF Calls!NewExecutor, Calls!Batch
  <2> HIDE DEF new
  <2>2. QED
    BY <1>1, <1>2, <2>1
<1>4. new.batches[1] = [targets |-> tlist, sources |-> slist] /\ Len(new.batches) = 1
      /\ DOMAIN new.batches = {1}
  OBVIOUS
<1> HIDE DEF x, new
<1>5. ASSUME NEW y \in Nat, NEW i \in Nat, NEW t \in Calls!Targets
      PROVE  Makes(y, i, t)' <=> Makes(y, i, t) \/ (y = x /\ i = 1 /\ t \in Calls!ToSet(tlist))
  <2>1. CASE y = x
    BY <1>3, <1>4, <2>1 DEF Makes
  <2>2. CASE y # x
    BY <1>3, <2>2 DEF Makes
  <2>3. QED
    BY <2>1, <2>2
<1>6. new.action = Action[b] /\ new.env = e
  BY DEF new
<1>7. NewBatch(b, e, tlist, slist, x, 1)
  <2>1. /\ node' = Given(b, e, tlist, slist, x)
        /\ batchOf' = IF b \in Batching THEN [batchOf EXCEPT ![<<b, e>>] = x] ELSE batchOf
    BY DEF x
  <2>2. Len(executors'[x].batches) <= builderCalls + 1
    BY <1>1, <1>3, <1>4
  <2>3. \A y \in DOMAIN executors : y # x /\ MakerContents(y)' = MakerContents(y)
    BY <1>3 DEF MakerContents
  <2>4. \A y \in Nat, i \in Nat, t \in Calls!Targets :
          Makes(y, i, t)' <=> Makes(y, i, t) \/ (y = x /\ i = 1 /\ t \in Calls!ToSet(tlist))
    BY <1>5
  <2>5. \A y \in DOMAIN executors :
          /\ y \in DOMAIN executors' /\ MakerContents(y)' = MakerContents(y)
          /\ executors'[y].action = executors[y].action /\ executors'[y].env = executors[y].env
          /\ y # x => executors'[y] = executors[y]
          /\ \A i \in DOMAIN executors[y].batches :
               executors'[y].batches[i].sources = executors[y].batches[i].sources
    BY <1>3, <2>3
  <2>6. /\ executors'[x].batches[1].sources = slist
        /\ executors'[x].action = Action[b] /\ executors'[x].env = e
        /\ Len(executors'[x].batches) = 1
    BY <1>3, <1>4, <1>6
  <2>7. QED
    BY <1>3, <2>1, <2>2, <2>4, <2>5, <2>6 DEF NewBatch
<1>8. QED
  BY <1>7, NewBatchKeeps

(* What a sequence is. *)
LEMMA IsSeq ==
  ASSUME NEW S, NEW n \in Nat, NEW s \in [1 .. n -> S]
  PROVE  s \in Seq(S)
OBVIOUS

(* A call of a builder that takes batches adds one to the executor there is. *)
LEMMA AddBatchKeeps ==
  ASSUME CallIInv, NEW b \in Builders, NEW e \in Envs, NEW tlist \in TargetLists,
         NEW slist \in SourceLists, ~Calls!node_errors(b, e, tlist, slist),
         b \in Batching, NEW x, x = batchOf[<<b, e>>], x # 0,
         executors' = [executors EXCEPT ![x].batches = Append(@, Calls!Batch(tlist, slist))],
         batchOf' = [batchOf EXCEPT ![<<b, e>>] = x],
         node' = Given(b, e, tlist, slist, x),
         replaced' = Replaced(b, e, tlist),
         builderCalls < MaxCalls, builderCalls' = builderCalls + 1
  PROVE  CallIInv'
<1> DEFINE old == executors[x].batches
           new == [targets |-> tlist, sources |-> slist]
           i0 == Len(old) + 1
<1>1. /\ x \in DOMAIN executors /\ executors[x].action = Action[b] /\ executors[x].env = e
      /\ b \notin Multi
  BY PartsAssumption DEF PartsAssumption, Calls!BuilderAssumption, CallIInv, BatchesApart
<1>2. /\ executors \in Seq(ExecutorTypes) /\ executors[x] \in ExecutorTypes
      /\ old \in Seq(BatchTypes) /\ Len(old) \in Nat /\ DOMAIN old = 1 .. Len(old)
      /\ Len(old) <= builderCalls /\ builderCalls \in Nat
  <2>1. builderCalls \in Nat /\ executors \in Seq(ExecutorTypes)
    BY PartsAssumption DEF PartsAssumption, Calls!BuilderAssumption, CallIInv, CallTypes
  <2>2. QED
    BY <1>1, <2>1, ExecutorTyped DEF CallIInv, BatchesCounted
<1>3. new \in BatchTypes
  BY CallLists DEF BatchTypes
<1>4. /\ Append(old, new) \in Seq(BatchTypes) /\ Len(Append(old, new)) = i0
      /\ DOMAIN Append(old, new) = DOMAIN old \cup {i0} /\ i0 \notin DOMAIN old /\ i0 \in Nat
      /\ \A i \in DOMAIN old : Append(old, new)[i] = old[i]
      /\ Append(old, new)[i0] = new
  <2> HIDE DEF old, new
  <2>1. Append(old, new) \in Seq(BatchTypes) /\ Len(Append(old, new)) = Len(old) + 1
    BY <1>2, <1>3
  <2>2. DOMAIN Append(old, new) = 1 .. (Len(old) + 1)
    BY <2>1
  <2>3. /\ \A i \in DOMAIN old : Append(old, new)[i] = old[i]
        /\ Append(old, new)[Len(old) + 1] = new
    BY <1>2, <1>3
  <2>4. QED
    BY <1>2, <2>1, <2>2, <2>3
<1>5. /\ executors' = [executors EXCEPT ![x].batches = Append(old, new)]
      /\ DOMAIN executors' = DOMAIN executors
      /\ \A y \in DOMAIN executors : y # x => executors'[y] = executors[y]
      /\ executors'[x].batches = Append(old, new)
      /\ executors'[x].action = executors[x].action /\ executors'[x].env = executors[x].env
      /\ executors'[x] \in ExecutorTypes
  <2>1. executors' = [executors EXCEPT ![x].batches = Append(old, new)]
    BY DEF Calls!Batch
  <2> DEFINE more == Append(old, new)
  <2>2. more \in Seq(BatchTypes)
    BY <1>4
  <2> HIDE DEF more, old, new
  <2>3. executors'[x] = [executors[x] EXCEPT !.batches = more]
    BY <1>1, <2>1 DEF more
  <2>4. QED
    BY <1>1, <1>2, <2>1, <2>2, <2>3 DEF ExecutorTypes, more
<1>6. new.targets = tlist /\ new.sources = slist
  OBVIOUS
<1> HIDE DEF old, new, i0
<1>7. executors' \in Seq(ExecutorTypes)
  <2>1. \A y \in DOMAIN executors : executors[y] \in ExecutorTypes
    BY <1>2
  <2>2. \A y \in DOMAIN executors : executors'[y] \in ExecutorTypes
    BY <1>5, <2>1
  <2>3. DOMAIN executors = 1 .. Len(executors) /\ Len(executors) \in Nat
    BY <1>2
  <2>4. executors' = [y \in DOMAIN executors |-> executors'[y]]
    BY <1>5
  <2>5. executors' \in [1 .. Len(executors) -> ExecutorTypes]
    BY <2>2, <2>3, <2>4
  <2>6. QED
    BY <2>3, <2>5, IsSeq
<1>8. ASSUME NEW y \in Nat, NEW i \in Nat, NEW t \in Calls!Targets
      PROVE  Makes(y, i, t)' <=> Makes(y, i, t) \/ (y = x /\ i = i0 /\ t \in Calls!ToSet(tlist))
  <2>1. CASE y = x
    <3>1. old = executors[x].batches
      BY DEF old
    <3>2. DOMAIN executors'[x].batches = DOMAIN old \cup {i0} /\ x \in DOMAIN executors'
      BY <1>1, <1>4, <1>5
    <3>3. \A j \in DOMAIN old : executors'[x].batches[j].targets = old[j].targets
      BY <1>4, <1>5
    <3>4. executors'[x].batches[i0].targets = tlist
      BY <1>4, <1>5, <1>6
    <3>5. Makes(x, i, t)' <=> i \in DOMAIN old \cup {i0}
                              /\ t \in Calls!ToSet(executors'[x].batches[i].targets)
      BY <3>2 DEF Makes
    <3>6. Makes(x, i, t) <=> i \in DOMAIN old /\ t \in Calls!ToSet(old[i].targets)
      BY <1>1, <3>1 DEF Makes
    <3>7. QED
      BY <1>4, <2>1, <3>3, <3>4, <3>5, <3>6
  <2>2. CASE y # x
    BY <1>5, <2>2 DEF Makes
  <2>3. QED
    BY <2>1, <2>2
<1>9. NewBatch(b, e, tlist, slist, x, i0)
  <2>1. Len(executors'[x].batches) <= builderCalls + 1
    BY <1>2, <1>4, <1>5 DEF i0
  <2>2. ASSUME NEW y \in DOMAIN executors
        PROVE  /\ MakerContents(y)' = MakerContents(y)
               /\ executors'[y].action = executors[y].action /\ executors'[y].env = executors[y].env
               /\ \A i \in DOMAIN executors[y].batches :
                    executors'[y].batches[i].sources = executors[y].batches[i].sources
    <3>1. executors'[y].action = executors[y].action /\ executors'[y].env = executors[y].env
      BY <1>5
    <3>2. \A i \in DOMAIN executors[y].batches :
            executors'[y].batches[i].sources = executors[y].batches[i].sources
      BY <1>4, <1>5 DEF old
    <3>3. QED
      BY <3>1, <3>2 DEF MakerContents
  <2>3. QED
    BY <1>1, <1>4, <1>5, <1>6, <1>7, <1>8, <2>1, <2>2 DEF NewBatch
<1>10. QED
  BY <1>1, <1>9, NewBatchKeeps

(* A call of a builder that may be called again adds sources to the executor *)
(* of its targets.                                                           *)
LEMMA CallAgainKeeps ==
  ASSUME CallIInv, NEW b \in Builders, NEW e \in Envs, NEW tlist \in TargetLists,
         NEW slist \in SourceLists, ~Calls!node_errors(b, e, tlist, slist),
         b \in Multi, NEW x, x = node[tlist[1]].executor, x # 0,
         executors' = Calls!add_sources(x, slist), batchOf' = batchOf,
         node' = Given(b, e, tlist, slist, x),
         replaced' = Replaced(b, e, tlist),
         builderCalls < MaxCalls, builderCalls' = builderCalls + 1
  PROVE  CallIInv'
<1> DEFINE T == Calls!ToSet(tlist)
           old == executors[x].batches
           more == Calls!Added(old[1].sources, slist)
<1>1. T \subseteq Calls!Targets /\ tlist[1] \in T /\ Unset \notin Builders /\ MaxCalls \in Nat
  BY CallLists, PartsAssumption DEF PartsAssumption, Calls!BuilderAssumption
<1>2. node[tlist[1]].builder # Unset
  BY <1>1 DEF CallIInv, NodesKnow
<1>3. /\ x \in DOMAIN executors /\ Len(old) = 1 /\ old[1].targets = tlist
      /\ x \in Nat \ {0} /\ executors[x] \in ExecutorTypes
      /\ old \in Seq(BatchTypes) /\ old[1] \in BatchTypes /\ DOMAIN old = {1}
  <2>1. x \in DOMAIN executors /\ Len(old) = 1 /\ old[1].targets = tlist
    BY <1>1, <1>2, NotRefused
  <2>2. QED
    BY <2>1, ExecutorTyped DEF CallIInv
<1>4. \A t \in T : /\ Makes(x, 1, t) /\ node[t].builder # Unset
                   /\ old[1].sources = node[t].sources
                   /\ t \notin replaced =>
                        MakerContents(x) = Calls!Recipe(node[t].builder, node[t].env)
  <2> SUFFICES ASSUME NEW t \in T
               PROVE  /\ Makes(x, 1, t) /\ node[t].builder # Unset
                      /\ old[1].sources = node[t].sources
                      /\ t \notin replaced =>
                           MakerContents(x) = Calls!Recipe(node[t].builder, node[t].env)
    OBVIOUS
  <2>1. Makes(x, 1, t)
    BY <1>3 DEF Makes
  <2>2. QED
    BY <1>1, <1>3, <2>1 DEF CallIInv, MakersAgree
<1>5. \A t \in T : node[t].builder = b /\ node[t].executor = x /\ ~node[t].side_effect
  <2> SUFFICES ASSUME NEW t \in T
               PROVE  node[t].builder = b /\ node[t].executor = x /\ ~node[t].side_effect
    OBVIOUS
  <2>1. node[t].builder = b /\ ~node[t].side_effect
    BY <1>4, NotRefused
  <2>2. QED
    BY <1>1, <1>3, <1>4, <2>1 DEF CallIInv, MultiAlone
<1>6. /\ node' \in [Calls!Targets -> NodeTypes]
      /\ \A t \in Calls!Targets :
              /\ t \notin T => node'[t] = node[t]
              /\ t \in T =>
                   /\ node'[t].builder = b /\ node'[t].env = e /\ node'[t].executor = x
                   /\ node'[t].side_effect = node[t].side_effect
                   /\ node'[t].sources = more
  BY <1>3, <1>4, GivenFields DEF CallIInv
<1>7. more \in Seq(SourceNodes)
  <2>1. slist \in Seq(SourceNodes) /\ old[1].sources \in Seq(SourceNodes)
    BY <1>3, CallLists DEF BatchTypes
  <2> HIDE DEF SourceNodes, old
  <2>2. QED
    BY <2>1, AddedTyped
<1>8. /\ DOMAIN executors' = DOMAIN executors
      /\ \A y \in DOMAIN executors : y # x => executors'[y] = executors[y]
      /\ executors'[x] = [executors[x] EXCEPT !.batches = [old EXCEPT ![1].sources = more]]
  BY <1>3 DEF Calls!add_sources
<1>9. /\ executors'[x] \in ExecutorTypes
      /\ executors'[x].action = executors[x].action /\ executors'[x].env = executors[x].env
      /\ DOMAIN executors'[x].batches = {1} /\ Len(executors'[x].batches) = 1
      /\ executors'[x].batches[1].targets = tlist
      /\ executors'[x].batches[1].sources = more
  <2> DEFINE batches == [old EXCEPT ![1].sources = more]
  <2> HIDE DEF old, more, SourceNodes
  <2>1. batches[1] = [old[1] EXCEPT !.sources = more]
    BY <1>3
  <2>2. batches[1] \in BatchTypes /\ batches[1].targets = tlist /\ batches[1].sources = more
    BY <1>3, <1>7, <2>1 DEF BatchTypes
  <2>3. DOMAIN batches = {1} /\ batches = [i \in 1 .. 1 |-> batches[1]]
    <3>1. {1} = 1 .. 1
      OBVIOUS
    <3>2. DOMAIN batches = DOMAIN old /\ batches = [i \in DOMAIN old |-> batches[i]]
      OBVIOUS
    <3> HIDE DEF batches
    <3>3. QED
      BY <1>3, <3>1, <3>2
  <2> HIDE DEF batches
  <2>4. batches \in Seq(BatchTypes) /\ Len(batches) = 1
    BY <2>2, <2>3
  <2>5. executors'[x] = [executors[x] EXCEPT !.batches = batches]
    BY <1>8 DEF batches
  <2>6. QED
    BY <1>3, <2>2, <2>3, <2>4, <2>5 DEF ExecutorTypes
<1> HIDE DEF old, more
<1>10. executors' \in Seq(ExecutorTypes)
  <2>1. executors \in Seq(ExecutorTypes)
    BY DEF CallIInv, CallTypes
  <2>2. \A y \in DOMAIN executors : executors'[y] \in ExecutorTypes
    BY <1>8, <1>9, <2>1
  <2>3. DOMAIN executors = 1 .. Len(executors) /\ Len(executors) \in Nat
    BY <2>1
  <2>4. executors' \in [1 .. Len(executors) -> ExecutorTypes]
    <3>1. executors' = [y \in DOMAIN executors |-> executors'[y]]
      BY <1>8 DEF Calls!add_sources
    <3>2. QED
      BY <2>2, <2>3, <3>1
  <2>5. QED
    BY <2>3, <2>4
<1>11. \A y \in Nat, i \in Nat, t \in Calls!Targets : Makes(y, i, t)' <=> Makes(y, i, t)
  <2> SUFFICES ASSUME NEW y \in Nat, NEW i \in Nat, NEW t \in Calls!Targets
               PROVE  Makes(y, i, t)' <=> Makes(y, i, t)
    OBVIOUS
  <2>1. CASE y = x
    <3>1. Makes(x, i, t)' <=> i = 1 /\ t \in T
      BY <1>3, <1>8, <1>9 DEF Makes
    <3>2. old = executors[x].batches
      BY DEF old
    <3>3. Makes(x, i, t) <=> i = 1 /\ t \in T
      BY <1>3, <3>2 DEF Makes
    <3>4. QED
      BY <2>1, <3>1, <3>3
  <2>2. CASE y # x
    BY <1>8, <2>2 DEF Makes
  <2>3. QED
    BY <2>1, <2>2
<1>12. \A y \in DOMAIN executors : MakerContents(y)' = MakerContents(y)
  BY <1>8, <1>9 DEF MakerContents
<1>13. \A t \in Calls!Targets :
          /\ node'[t].builder = node[t].builder /\ node'[t].executor = node[t].executor
          /\ node'[t].side_effect = node[t].side_effect
          /\ node[t].builder = Unset => node'[t] = node[t]
  BY <1>4, <1>5, <1>6
<1>14. CallTypes'
  <2>1. builderCalls' \in 0 .. MaxCalls
    BY <1>1 DEF CallIInv, CallTypes
  <2>2. QED
    BY <1>6, <1>10, <2>1 DEF CallIInv, CallTypes
<1>15. NodesKnow'
  <2> SUFFICES ASSUME NEW t \in Calls!Targets
               PROVE  /\ node'[t].builder = Unset <=> node'[t].executor = 0
                      /\ node'[t].builder # Unset =>
                           /\ node'[t].env \in Envs
                           /\ ~node'[t].side_effect
                           /\ \E y \in Nat, i \in Nat : y = node'[t].executor /\ Makes(y, i, t)'
                      /\ node'[t].builder = Unset /\ ~node'[t].side_effect =>
                           node'[t].sources = <<>>
    BY DEF NodesKnow, Makes
  <2>1. /\ node[t].builder = Unset <=> node[t].executor = 0
        /\ node[t].builder # Unset =>
             /\ node[t].env \in Envs /\ ~node[t].side_effect
             /\ \E y \in Nat, i \in Nat : y = node[t].executor /\ Makes(y, i, t)
        /\ node[t].builder = Unset /\ ~node[t].side_effect => node[t].sources = <<>>
    <3>1. node[t].executor \in Nat
      BY DEF CallIInv, CallTypes, NodeTypes
    <3>2. QED
      BY <3>1 DEF CallIInv, NodesKnow
  <2>2. node'[t].env \in {node[t].env, e}
    BY <1>6
  <2>3. QED
    BY <1>11, <1>13, <2>1, <2>2
<1>16. MakersAgree'
  <2> SUFFICES ASSUME NEW t \in Calls!Targets, NEW y \in Nat, NEW i \in Nat, Makes(y, i, t)'
               PROVE  /\ node'[t].builder # Unset
                      /\ executors'[y].batches[i].sources = node'[t].sources
                      /\ t \notin replaced' =>
                           MakerContents(y)' = Calls!Recipe(node'[t].builder, node'[t].env)
    BY DEF MakersAgree, Makes, MakerContents, Calls!Recipe
  <2>1. /\ Makes(y, i, t) /\ node[t].builder # Unset /\ y \in DOMAIN executors
        /\ i \in DOMAIN executors[y].batches
        /\ executors[y].batches[i].sources = node[t].sources
        /\ t \notin replaced => MakerContents(y) = Calls!Recipe(node[t].builder, node[t].env)
    BY <1>11 DEF CallIInv, MakersAgree, Makes
  <2>2. CASE t \in T
    <3>1. y = x
      BY <1>5, <2>1, <2>2 DEF CallIInv, MultiAlone
    <3>2. i = 1
      BY <1>3, <2>1, <3>1 DEF old
    <3>3. t \notin replaced' =>
            /\ t \notin replaced
            /\ Calls!Recipe(node'[t].builder, node'[t].env)
                 = Calls!Recipe(node[t].builder, node[t].env)
      BY <1>6, <2>1, <2>2 DEF Replaced
    <3>4. QED
      BY <1>1, <1>6, <1>9, <1>12, <2>1, <2>2, <3>1, <3>2, <3>3
  <2>3. CASE t \notin T
    <3>1. node'[t] = node[t] /\ (t \notin replaced' => t \notin replaced)
      BY <1>6, <2>3 DEF Replaced
    <3>2. y # x
      BY <1>3, <2>1, <2>3 DEF Makes, old
    <3>3. QED
      BY <1>8, <1>12, <2>1, <3>1, <3>2
  <2>4. QED
    BY <2>2, <2>3
<1>17. MultiAlone'
  <2> SUFFICES ASSUME NEW t \in Calls!Targets, NEW y \in Nat, NEW i \in Nat, Makes(y, i, t)',
                      node'[t].builder \in Multi
               PROVE  y = node'[t].executor /\ Len(executors'[y].batches) = 1
    BY DEF MultiAlone, Makes
  <2>1. y = node[t].executor /\ Len(executors[y].batches) = 1 /\ y \in DOMAIN executors
    BY <1>11, <1>13 DEF CallIInv, MultiAlone, Makes
  <2>2. QED
    BY <1>8, <1>9, <1>13, <2>1
<1>18. BatchesApart'
  <2> SUFFICES ASSUME NEW c \in Builders, NEW f \in Envs, NEW y, y = batchOf[<<c, f>>], y # 0
               PROVE  /\ y \in DOMAIN executors'
                      /\ executors'[y].action = Action[c] /\ executors'[y].env = f
                      /\ \A t \in Calls!Targets, i \in Nat :
                           Makes(y, i, t)' => node'[t].builder \notin Multi
    BY DEF BatchesApart, Makes
  <2>1. /\ y \in DOMAIN executors /\ executors[y].action = Action[c] /\ executors[y].env = f
        /\ \A t \in Calls!Targets, i \in Nat : Makes(y, i, t) => node[t].builder \notin Multi
    BY DEF CallIInv, BatchesApart
  <2>2. y \in Nat
    BY <2>1, ExecutorTyped DEF CallIInv
  <2>3. \A t \in Calls!Targets, i \in Nat : Makes(y, i, t)' => node'[t].builder \notin Multi
    BY <1>11, <1>13, <2>1, <2>2
  <2>4. QED
    BY <1>8, <1>9, <2>1, <2>3
<1>19. BatchesCounted'
  <2> SUFFICES ASSUME NEW y \in DOMAIN executors'
               PROVE  Len(executors'[y].batches) <= builderCalls + 1
    BY DEF BatchesCounted
  <2>1. /\ Len(executors'[y].batches) = Len(executors[y].batches) /\ y \in DOMAIN executors
        /\ builderCalls \in Nat
    <3>1. builderCalls \in Nat
      BY <1>1 DEF CallIInv, CallTypes
    <3>2. Len(executors[x].batches) = 1
      BY <1>3 DEF old
    <3>3. QED
      BY <1>8, <1>9, <3>1, <3>2
  <2>2. Len(executors[y].batches) \in Nat /\ Len(executors[y].batches) <= builderCalls
    BY <2>1, ExecutorTyped DEF CallIInv, BatchesCounted
  <2>3. QED
    BY <2>1, <2>2
<1>20. QED
  BY <1>14, <1>15, <1>16, <1>17, <1>18, <1>19 DEF CallIInv

(* Every call that is not refused. *)
LEMMA CallKeeps ==
  ASSUME CallIInv, NEW b \in Builders, NEW e \in Envs, NEW tlist \in TargetLists,
         NEW slist \in SourceLists, Calls!Call(b, e, tlist, slist),
         builderCalls < MaxCalls, builderCalls' = builderCalls + 1
  PROVE  CallIInv'
<1> DEFINE old == node[tlist[1]].executor
           x == IF b \in Multi /\ old # 0 THEN old
                ELSE IF b \in Batching /\ batchOf[<<b, e>>] # 0 THEN batchOf[<<b, e>>]
                ELSE Len(executors) + 1
<1>1. /\ ~Calls!node_errors(b, e, tlist, slist)
      /\ executors' = IF x > Len(executors)
                      THEN Append(executors, Calls!NewExecutor(b, e, tlist, slist))
                      ELSE IF b \in Multi THEN Calls!add_sources(x, slist)
                      ELSE [executors EXCEPT ![x].batches = Append(@, Calls!Batch(tlist, slist))]
      /\ batchOf' = IF b \in Batching THEN [batchOf EXCEPT ![<<b, e>>] = x] ELSE batchOf
      /\ node' = Given(b, e, tlist, slist, x)
      /\ replaced' = Replaced(b, e, tlist)
  BY DEF Calls!Call, Calls!execute, Given, Replaced
<1>2. /\ Len(executors) \in Nat /\ DOMAIN executors = 1 .. Len(executors)
      /\ Batching \subseteq Builders \ Multi /\ tlist[1] \in Calls!ToSet(tlist)
      /\ tlist[1] \in Calls!Targets
  BY PartsAssumption, CallLists
     DEF PartsAssumption, Calls!BuilderAssumption, CallIInv, CallTypes
<1> HIDE DEF old
<1>3. CASE b \in Multi /\ old # 0
  <2>1. x = old /\ old = node[tlist[1]].executor
    BY <1>3 DEF old
  <2>2. node[tlist[1]].builder # Unset
    BY <1>2, <1>3, <2>1 DEF CallIInv, NodesKnow
  <2>3. old \in DOMAIN executors
    BY <1>1, <1>2, <1>3, <2>1, <2>2, NotRefused
  <2> HIDE DEF x
  <2>4. executors' = Calls!add_sources(old, slist) /\ batchOf' = batchOf
    BY <1>1, <1>2, <1>3, <2>1, <2>3
  <2>5. node' = Given(b, e, tlist, slist, old)
    BY <1>1, <2>1
  <2>6. QED
    BY <1>1, <1>3, <2>1, <2>4, <2>5, CallAgainKeeps
<1>4. CASE b \in Batching /\ batchOf[<<b, e>>] # 0
  <2>1. x = batchOf[<<b, e>>] /\ b \notin Multi
    BY <1>2, <1>4
  <2>2. x \in DOMAIN executors
    BY <1>4, <2>1 DEF CallIInv, BatchesApart
  <2> HIDE DEF x
  <2>3. /\ executors' = [executors EXCEPT ![x].batches = Append(@, Calls!Batch(tlist, slist))]
        /\ batchOf' = [batchOf EXCEPT ![<<b, e>>] = x] /\ x # 0
    <3>1. ~(x > Len(executors)) /\ x # 0
      BY <1>2, <2>2
    <3>2. executors' = IF x > Len(executors)
                       THEN Append(executors, Calls!NewExecutor(b, e, tlist, slist))
                       ELSE IF b \in Multi THEN Calls!add_sources(x, slist)
                       ELSE [executors EXCEPT ![x].batches = Append(@, Calls!Batch(tlist, slist))]
      BY <1>1
    <3>3. executors' = [executors EXCEPT ![x].batches = Append(@, Calls!Batch(tlist, slist))]
      BY <2>1, <3>1, <3>2, Zenon
    <3>4. QED
      BY <1>1, <1>4, <3>1, <3>3
  <2>4. QED
    BY <1>1, <1>4, <2>1, <2>3, AddBatchKeeps
<1>5. CASE ~(b \in Multi /\ old # 0) /\ ~(b \in Batching /\ batchOf[<<b, e>>] # 0)
  <2>1. x = Len(executors) + 1
    BY <1>5
  <2>2. /\ b \in Multi => node[tlist[1]].executor = 0
        /\ b \in Batching => batchOf[<<b, e>>] = 0
    BY <1>5 DEF old
  <2> HIDE DEF x
  <2>3. executors' = Append(executors, Calls!NewExecutor(b, e, tlist, slist))
    <3>1. x > Len(executors)
      BY <1>2, <2>1
    <3>2. executors' = IF x > Len(executors)
                       THEN Append(executors, Calls!NewExecutor(b, e, tlist, slist))
                       ELSE IF b \in Multi THEN Calls!add_sources(x, slist)
                       ELSE [executors EXCEPT ![x].batches = Append(@, Calls!Batch(tlist, slist))]
      BY <1>1
    <3>3. QED
      BY <3>1, <3>2, Zenon
  <2>4. QED
    BY <1>1, <2>1, <2>2, <2>3, NewExecutorKeeps
<1>6. QED
  BY <1>3, <1>4, <1>5

(* A step that makes nothing may change only what a node without a builder   *)
(* is a side effect of.                                                      *)
LEMMA NothingMadeKeeps ==
  ASSUME CallIInv, node' \in [Calls!Targets -> NodeTypes],
         \A t \in Calls!Targets : node'[t] # node[t] =>
           /\ node[t].builder = Unset /\ node'[t].builder = Unset
           /\ node'[t].executor = node[t].executor /\ node'[t].side_effect,
         UNCHANGED <<executors, batchOf, replaced>>,
         builderCalls' \in builderCalls .. MaxCalls
  PROVE  CallIInv'
<1>1. \A x \in Nat, i \in Nat, t \in Calls!Targets : Makes(x, i, t)' <=> Makes(x, i, t)
  BY DEF Makes
<1>2. \A x \in Nat, i \in Nat, t \in Calls!Targets : Makes(x, i, t) => node'[t] = node[t]
  BY DEF CallIInv, MakersAgree
<1>3. builderCalls \in Nat /\ builderCalls' \in Nat /\ builderCalls <= builderCalls'
      /\ builderCalls' \in 0 .. MaxCalls
  BY PartsAssumption DEF PartsAssumption, Calls!BuilderAssumption, CallIInv, CallTypes
<1>4. CallTypes'
  BY <1>3 DEF CallIInv, CallTypes
<1>5. NodesKnow'
  <2> SUFFICES ASSUME NEW t \in Calls!Targets
               PROVE  /\ node'[t].builder = Unset <=> node'[t].executor = 0
                      /\ node'[t].builder # Unset =>
                           /\ node'[t].env \in Envs /\ ~node'[t].side_effect
                           /\ \E i \in Nat : Makes(node'[t].executor, i, t)
                      /\ node'[t].builder = Unset /\ ~node'[t].side_effect =>
                           node'[t].sources = <<>>
    BY DEF NodesKnow, Makes
  <2>1. /\ node[t].builder = Unset <=> node[t].executor = 0
        /\ node[t].builder # Unset =>
             /\ node[t].env \in Envs /\ ~node[t].side_effect
             /\ \E i \in Nat : Makes(node[t].executor, i, t)
        /\ node[t].builder = Unset /\ ~node[t].side_effect => node[t].sources = <<>>
    BY DEF CallIInv, NodesKnow
  <2>2. CASE node'[t] = node[t]
    BY <2>1, <2>2
  <2>3. CASE node'[t] # node[t]
    BY <2>1, <2>3
  <2>4. QED
    BY <2>2, <2>3
<1>6. MakersAgree'
  <2> SUFFICES ASSUME NEW t \in Calls!Targets, NEW x \in Nat, NEW i \in Nat, Makes(x, i, t)'
               PROVE  /\ node'[t].builder # Unset
                      /\ executors[x].batches[i].sources = node'[t].sources
                      /\ t \notin replaced =>
                           MakerContents(x) = Calls!Recipe(node'[t].builder, node'[t].env)
    BY DEF MakersAgree, Makes, MakerContents, Calls!Recipe
  <2>1. Makes(x, i, t) /\ node'[t] = node[t]
    BY <1>1, <1>2
  <2>2. QED
    BY <2>1 DEF CallIInv, MakersAgree
<1>7. MultiAlone'
  <2> SUFFICES ASSUME NEW t \in Calls!Targets, NEW x \in Nat, NEW i \in Nat, Makes(x, i, t)',
                      node'[t].builder \in Multi
               PROVE  x = node'[t].executor /\ Len(executors[x].batches) = 1
    BY DEF MultiAlone, Makes
  <2>1. Makes(x, i, t) /\ node'[t] = node[t]
    BY <1>1, <1>2
  <2>2. QED
    BY <2>1 DEF CallIInv, MultiAlone
<1>8. BatchesApart'
  <2>1. executors' = executors /\ batchOf' = batchOf
    OBVIOUS
  <2> SUFFICES ASSUME NEW c \in Builders, NEW f \in Envs, NEW y, y = batchOf[<<c, f>>], y # 0
               PROVE  /\ y \in DOMAIN executors'
                      /\ executors'[y].action = Action[c] /\ executors'[y].env = f
                      /\ \A t \in Calls!Targets, i \in Nat :
                           Makes(y, i, t)' => node'[t].builder \notin Multi
    BY <2>1 DEF BatchesApart, Makes
  <2>2. /\ y \in DOMAIN executors /\ executors[y].action = Action[c] /\ executors[y].env = f
        /\ \A t \in Calls!Targets, i \in Nat : Makes(y, i, t) => node[t].builder \notin Multi
    BY DEF CallIInv, BatchesApart
  <2>3. y \in Nat
    BY <2>2, ExecutorTyped DEF CallIInv
  <2>4. QED
    BY <1>1, <1>2, <2>1, <2>2, <2>3
<1>9. BatchesCounted'
  <2> SUFFICES ASSUME NEW x \in DOMAIN executors
               PROVE  Len(executors[x].batches) <= builderCalls'
    BY DEF BatchesCounted
  <2>1. Len(executors[x].batches) \in Nat /\ Len(executors[x].batches) <= builderCalls
    BY ExecutorTyped DEF CallIInv, BatchesCounted
  <2>2. QED
    BY <1>3, <2>1
<1>10. QED
  BY <1>4, <1>5, <1>6, <1>7, <1>8, <1>9 DEF CallIInv

(* Env.SideEffect gives a node without a builder the target as a source. *)
LEMMA SideEffectKeeps ==
  ASSUME CallIInv, NEW t \in Calls!Targets, NEW target \in Calls!Targets,
         Calls!SideEffect(t, target), builderCalls < MaxCalls,
         builderCalls' = builderCalls + 1
  PROVE  CallIInv'
<1> DEFINE grown == Calls!Added(node[t].sources, <<target>>)
<1>1. node \in [Calls!Targets -> NodeTypes] /\ node[t] \in NodeTypes /\ node[t].builder = Unset
  BY DEF CallIInv, CallTypes, Calls!SideEffect
<1>2. grown \in Seq(SourceNodes)
  <2>1. target \in SourceNodes /\ node[t].sources \in Seq(SourceNodes)
    BY <1>1 DEF SourceNodes, NodeTypes
  <2> HIDE DEF SourceNodes
  <2>2. <<target>> \in Seq(SourceNodes)
    BY <2>1
  <2>3. QED
    BY <2>1, <2>2, AddedTyped
<1>3. node' = [node EXCEPT ![t].side_effect = TRUE, ![t].sources = grown]
  BY DEF Calls!SideEffect
<1> HIDE DEF grown, SourceNodes
<1>4. /\ node'[t] = [node[t] EXCEPT !.side_effect = TRUE, !.sources = grown]
      /\ \A s \in Calls!Targets \ {t} : node'[s] = node[s]
  BY <1>1, <1>3
<1>5. /\ node'[t] \in NodeTypes /\ node'[t].builder = Unset
      /\ node'[t].executor = node[t].executor /\ node'[t].side_effect
  BY <1>1, <1>2, <1>4 DEF NodeTypes
<1>6. node' \in [Calls!Targets -> NodeTypes]
  BY <1>1, <1>3, <1>4, <1>5
<1>7. builderCalls' \in builderCalls .. MaxCalls
  BY PartsAssumption DEF PartsAssumption, Calls!BuilderAssumption, CallIInv, CallTypes
<1>8. UNCHANGED <<executors, batchOf, replaced>>
  BY DEF Calls!SideEffect
<1>9. \A s \in Calls!Targets : node'[s] # node[s] =>
        /\ node[s].builder = Unset /\ node'[s].builder = Unset
        /\ node'[s].executor = node[s].executor /\ node'[s].side_effect
  BY <1>1, <1>4, <1>5
<1>10. QED
  BY <1>6, <1>7, <1>8, <1>9, NothingMadeKeeps

(* The invariant holds before any call. *)
LEMMA CallsInitial == Calls!BuilderInit => CallIInv
<1> SUFFICES ASSUME Calls!BuilderInit PROVE CallIInv
  OBVIOUS
<1>1. /\ MaxCalls \in Nat /\ executors = <<>> /\ builderCalls = 0
      /\ batchOf = [k \in Builders \X Envs |-> 0]
      /\ node = [t \in Calls!Targets |-> [builder |-> Unset, env |-> Unset, sources |-> <<>>,
                                          executor |-> 0, side_effect |-> FALSE]]
  BY PartsAssumption DEF PartsAssumption, Calls!BuilderAssumption, Calls!BuilderInit
<1>2. DOMAIN executors = {} /\ \A x, i, t : ~Makes(x, i, t)
  BY <1>1 DEF Makes
<1>3. CallTypes
  <2>1. node \in [Calls!Targets -> NodeTypes]
    <3> HIDE DEF SourceNodes
    <3>1. QED
      BY <1>1 DEF NodeTypes
  <2>2. executors \in Seq(ExecutorTypes)
    BY <1>1
  <2>3. batchOf \in [Builders \X Envs -> Nat] /\ builderCalls \in 0 .. MaxCalls
    BY <1>1
  <2>4. QED
    BY <2>1, <2>2, <2>3 DEF CallTypes
<1>4. NodesKnow
  BY <1>1 DEF NodesKnow
<1>5. \A b \in Builders, e \in Envs : batchOf[<<b, e>>] = 0
  BY <1>1
<1>6. QED
  BY <1>2, <1>3, <1>4, <1>5
  DEF CallIInv, MakersAgree, MultiAlone, BatchesApart, BatchesCounted

(* The invariant holds at first and is kept by every step. *)
LEMMA CallSteps ==
  /\ Calls!BuilderInit => CallIInv
  /\ CallIInv /\ Calls!BuilderNext => CallIInv'
  /\ CallIInv /\ UNCHANGED buildersVars => CallIInv'
<1>1. ASSUME CallIInv, UNCHANGED <<node, executors, batchOf, replaced>>,
             builderCalls' \in builderCalls .. MaxCalls
      PROVE  CallIInv'
  BY <1>1, NothingMadeKeeps DEF CallIInv, CallTypes
<1>2. CallIInv => builderCalls \in builderCalls .. MaxCalls
                  /\ (builderCalls < MaxCalls => builderCalls + 1 \in builderCalls .. MaxCalls)
  BY PartsAssumption DEF PartsAssumption, Calls!BuilderAssumption, CallIInv, CallTypes
<1>3. CallIInv /\ UNCHANGED buildersVars => CallIInv'
  BY <1>1, <1>2 DEF buildersVars
<1>4. ASSUME CallIInv, Calls!BuilderNext
      PROVE  CallIInv'
  <2>1. CASE Calls!AllRead
    BY <1>3, <1>4, <2>1 DEF Calls!AllRead, Calls!builderVars, buildersVars
  <2>2. CASE Calls!Declare
    <3>1. builderCalls < MaxCalls /\ builderCalls' = builderCalls + 1
      BY <2>2 DEF Calls!Declare
    <3>2. ASSUME NEW b \in Builders, NEW e \in Envs, NEW tlist \in TargetLists,
                 NEW slist \in SourceLists, Calls!Call(b, e, tlist, slist)
          PROVE  CallIInv'
      BY <1>4, <3>1, <3>2, CallKeeps
    <3>3. ASSUME NEW t \in Calls!Targets, NEW target \in Calls!Targets,
                 Calls!SideEffect(t, target)
          PROVE  CallIInv'
      BY <1>4, <3>1, <3>3, SideEffectKeeps
    <3>4. ASSUME NEW suffix \in NewSuffixes, Calls!add_action(suffix)
          PROVE  CallIInv'
      BY <1>1, <1>2, <1>4, <3>1, <3>4 DEF Calls!add_action
    <3>5. ASSUME NEW suffix \in NewSuffixes, NEW e \in Envs, Calls!Program(e, suffix)
          PROVE  CallIInv'
      BY <1>1, <1>2, <1>4, <3>1, <3>5 DEF Calls!Program
    <3>6. QED
      BY <2>2, <3>2, <3>3, <3>4, <3>5 DEF Calls!Declare
  <2>3. QED
    BY <1>4, <2>1, <2>2 DEF Calls!BuilderNext
<1>5. QED
  BY <1>3, <1>4, CallsInitial

(* What OneRecipe asks of the executors in use follows for all of them. *)
LEMMA RecipesAgree ==
  ASSUME CallIInv
  PROVE  Calls!OneRecipe
<1> SUFFICES ASSUME NEW t \in Calls!Targets, t \notin replaced
             PROVE  /\ \A m \in Calls!Making(t), n \in Calls!Making(t) :
                         /\ Calls!BatchAt(m).sources = Calls!BatchAt(n).sources
                         /\ Contents[<<executors[m[1]].action, executors[m[1]].env>>]
                              = Contents[<<executors[n[1]].action, executors[n[1]].env>>]
                    /\ node[t].builder # Unset =>
                         \E m \in Calls!Making(t) : Calls!BatchAt(m).sources = node[t].sources
  BY DEF Calls!OneRecipe
<1>1. \A s \in Calls!Targets : node[s].executor # 0 => node[s].executor \in DOMAIN executors
  BY DEF CallIInv, NodesKnow, Makes
<1>2. ASSUME NEW m \in Calls!Making(t)
      PROVE  /\ Calls!BatchAt(m).sources = node[t].sources
             /\ Contents[<<executors[m[1]].action, executors[m[1]].env>>]
                  = Calls!Recipe(node[t].builder, node[t].env)
  <2>1. /\ m[1] \in Calls!InUse /\ m[2] \in 1 .. MaxCalls
        /\ m[2] <= Len(executors[m[1]].batches)
        /\ Calls!Contains(executors[m[1]].batches[m[2]].targets, t)
    BY DEF Calls!Making
  <2>2. m[1] \in DOMAIN executors
    BY <1>1, <2>1 DEF Calls!InUse
  <2>3. /\ m[1] \in Nat /\ m[2] \in Nat /\ m[2] \in DOMAIN executors[m[1]].batches
    <3>1. /\ m[1] \in Nat /\ Len(executors[m[1]].batches) \in Nat
          /\ DOMAIN executors[m[1]].batches = 1 .. Len(executors[m[1]].batches)
      BY <2>2, ExecutorTyped DEF CallIInv
    <3>2. m[2] \in Nat /\ 1 <= m[2]
      BY <2>1, PartsAssumption DEF PartsAssumption, Calls!BuilderAssumption
    <3>3. QED
      BY <2>1, <3>1, <3>2
  <2>4. t \in Calls!ToSet(executors[m[1]].batches[m[2]].targets)
    BY <2>1 DEF Calls!Contains, Calls!ToSet
  <2>5. Makes(m[1], m[2], t)
    BY <2>2, <2>3, <2>4 DEF Makes
  <2>6. QED
    BY <2>3, <2>5 DEF CallIInv, MakersAgree, MakerContents, Calls!BatchAt
<1>3. ASSUME node[t].builder # Unset
      PROVE  \E m \in Calls!Making(t) : Calls!BatchAt(m).sources = node[t].sources
  <2> DEFINE x == node[t].executor
  <2>1. PICK i \in Nat : Makes(x, i, t)
    BY <1>3 DEF CallIInv, NodesKnow
  <2>2. /\ x \in DOMAIN executors /\ x # 0 /\ i \in DOMAIN executors[x].batches
        /\ t \in Calls!ToSet(executors[x].batches[i].targets)
    BY <1>3, <2>1 DEF CallIInv, NodesKnow, Makes
  <2>3. x \in Calls!InUse
    BY <2>2 DEF Calls!InUse
  <2>4. /\ i \in 1 .. Len(executors[x].batches) /\ Len(executors[x].batches) \in Nat
        /\ Len(executors[x].batches) <= builderCalls
        /\ builderCalls \in 0 .. MaxCalls /\ MaxCalls \in Nat
    BY <2>2, ExecutorTyped, PartsAssumption
       DEF CallIInv, CallTypes, BatchesCounted, PartsAssumption, Calls!BuilderAssumption
  <2>5. i \in 1 .. MaxCalls /\ i <= Len(executors[x].batches)
    BY <2>4
  <2>6. Calls!Contains(executors[x].batches[i].targets, t)
    <3>1. executors[x].batches[i].targets \in TargetLists
      BY <2>2, ExecutorTyped DEF CallIInv, BatchTypes
    <3>2. executors[x].batches[i].targets \in Seq(Calls!ToSet(executors[x].batches[i].targets))
      BY <3>1, PartsAssumption DEF PartsAssumption, Calls!BuilderAssumption
    <3>3. DOMAIN executors[x].batches[i].targets = 1 .. Len(executors[x].batches[i].targets)
      BY <3>2
    <3>4. QED
      BY <2>2, <3>3 DEF Calls!Contains, Calls!ToSet
  <2> HIDE DEF x
  <2>7. <<x, i>> \in Calls!Making(t)
    BY <2>3, <2>5, <2>6 DEF Calls!Making
  <2>8. QED
    BY <1>2, <2>7
<1>4. QED
  BY <1>2, <1>3

(* For any builders, environments and lists of targets and sources: whatever *)
(* calls name a target (Builder.__call__, Executor, Environment.SideEffect), *)
(* the batches that make it have the same sources, which are the target's    *)
(* own, and the same command, unless a call in the same environment replaced *)
(* the command.                                                              *)
THEOREM OneRecipeCorrect == Spec => []OneRecipe
<1> DEFINE Inv == part = "builders" => CallIInv
<1>1. Init => Inv
  BY CallSteps DEF Init
<1>2. Inv /\ [Next]_vars => Inv'
  BY CallSteps DEF Next, vars
<1>3. Inv => OneRecipe
  BY RecipesAgree DEF OneRecipe
<1>4. QED
  BY <1>1, <1>2, <1>3, PTL DEF Spec
=============================================================================
