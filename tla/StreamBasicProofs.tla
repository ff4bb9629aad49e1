--------------------------- MODULE StreamBasicProofs ---------------------------
(***************************************************************************)
(* Proofs about StreamBasic, for every read size, buffer size, number of   *)
(* channels and number of reads, and for a scan clock of any length.       *)
(***************************************************************************)
EXTENDS StreamBasic, FiniteSetTheorems, TLAPS

USE StreamDeviceAssumption, NumChannelsAssumption, NumReadsAssumption
USE DEF StreamDeviceAssumption, NumChannelsAssumption, NumReadsAssumption

(* The types of the bounds, without the rest of their assumption. *)
LEMMA ConstantTypes == MaxScans \in Nat /\ ScansPerRead \in Nat \ {0}
  OBVIOUS

(* The first n positions are n positions. *)
LEMMA InitialSegment ==
  ASSUME NEW n \in Nat
  PROVE  IsFiniteSet(1..n) /\ Cardinality(1..n) = n
<1>1. IsFiniteSet(1..n) /\ Cardinality(1..n) = IF 1 > n THEN 0 ELSE n - 1 + 1
  BY FS_Interval
<1>2. QED
  BY <1>1, SMT

(* A quotient whose division leaves no remainder. *)
LEMMA ExactQuotient ==
  ASSUME NEW a \in Nat, NEW n \in Nat \ {0}
  PROVE  (a * n) \div n = a
  BY SMT

(* CountAndOutputNumSkippedScans: every skipped scan has a dummy sample in  *)
(* each channel, so the quotient it returns is the number of scans.        *)
LEMMA CountSkippedIsCardinality ==
  ASSUME NEW D, IsFiniteSet(D)
  PROVE  CountSkippedScans(D \X (1..NumChannels)) = Cardinality(D)
<1>1. IsFiniteSet(1..NumChannels) /\ Cardinality(1..NumChannels) = NumChannels
  BY FS_Interval
<1>2. Cardinality(D) \in Nat
  BY FS_CardinalityType
<1>3. Cardinality(D \X (1..NumChannels)) = Cardinality(D) * NumChannels
  BY <1>1, FS_Product
<1>4. QED
  BY <1>2, <1>3, ExactQuotient DEF CountSkippedScans

(* Reading on from position n: the skipped scans of the window behind n    *)
(* add to those up to n.                                                   *)
LEMMA SkippedUpTo ==
  ASSUME NEW L, NEW n \in Nat, NEW m \in Nat
  PROVE  /\ IsFiniteSet(L \cap (1..n))
         /\ IsFiniteSet(((n + 1)..(n + m)) \cap L)
         /\ Cardinality(L \cap (1..n)) \in Nat
         /\ Cardinality(L \cap (1..(n + m)))
              = Cardinality(L \cap (1..n)) + Cardinality(((n + 1)..(n + m)) \cap L)
<1> DEFINE A == L \cap (1..n)
           B == ((n + 1)..(n + m)) \cap L
<1>1. IsFiniteSet(1..n) /\ IsFiniteSet((n + 1)..(n + m))
  BY FS_Interval
<1>2. IsFiniteSet(A) /\ IsFiniteSet(B)
  BY <1>1, FS_Intersection
<1>3. L \cap (1..(n + m)) = A \cup B
  OBVIOUS
<1>4. Cardinality(A \cap B) = 0
  <2>1. A \cap B = {}
    OBVIOUS
  <2>2. QED
    BY <2>1, FS_EmptySet
<1>5. Cardinality(A) \in Nat /\ Cardinality(B) \in Nat
  BY <1>2, FS_CardinalityType
<1>6. Cardinality(A \cup B) = Cardinality(A) + Cardinality(B)
  <2>1. Cardinality(A \cup B) = Cardinality(A) + Cardinality(B) - Cardinality(A \cap B)
    BY <1>2, FS_Union
  <2> HIDE DEF A, B
  <2>2. QED
    BY <2>1, <1>4, <1>5
<1>7. QED
  BY <1>2, <1>3, <1>5, <1>6

-----------------------------------------------------------------------------
(* The positions the three ends of the pipeline have reached, and what can *)
(* have been lost.                                                         *)
PipelineOrder ==
  /\ taken <= sent
  /\ sent <= clock
  /\ lost \subseteq 1..clock

BeforeStream == {"open", "prepare", "configure", "start"}
InStream == {"read", "status", "count", "stop"}

(* Where the program is in its loop. *)
LoopPosition ==
  /\ Counted <= taken
  /\ pc \in BeforeStream => taken = 0 /\ iteration = 0
  /\ pc \in {"read", "stop", "close"} => taken = Counted
  /\ pc \in {"status", "count"} =>
       /\ taken = Counted + ScansPerRead
       /\ aData = (((Counted + 1)..(Counted + ScansPerRead)) \cap lost) \X (1..NumChannels)
  /\ pc \in {"read", "status", "count"} => iteration < NumReads
  /\ pc \in {"stop", "close"} => iteration = NumReads

(* Whose stream the device is running. *)
StreamOwner ==
  /\ pc \in BeforeStream => (streaming <=> leftover)
  /\ pc \in InStream => streaming /\ ~leftover
  /\ pc = "close" => ~streaming /\ ~leftover
  /\ leftover => taken = 0 /\ exit # "ok"

(* The process and its handle. *)
ProcessState ==
  /\ exit = "none" <=> pc # "exit"
  /\ exit = "none" => (handle = IF pc = "open" THEN "none" ELSE "open")

(* The inductive invariant.  SkipTotalExact alone is not inductive: that   *)
(* the count of the next read adds exactly its gaps needs aData to be that *)
(* read's window, and the gaps of earlier windows to be settled, because   *)
(* scans are lost at the clock's end of the pipeline only.                 *)
IInv ==
  /\ TypeOK
  /\ PipelineOrder
  /\ LoopPosition
  /\ StreamOwner
  /\ ProcessState
  /\ SkipTotalExact
  /\ NormalExitComplete
  /\ BareExitBeforeStreamOnly

-----------------------------------------------------------------------------
(* How Counted follows iteration. *)
LEMMA CountedFacts ==
  ASSUME iteration \in Nat
  PROVE  /\ Counted \in Nat
         /\ (iteration' = iteration) => Counted' = Counted
         /\ (iteration' = iteration + 1) => Counted' = Counted + ScansPerRead
         /\ iteration = 0 => Counted = 0
         /\ iteration = NumReads => Counted = NumReads * ScansPerRead
  BY SMT DEF Counted

(* The invariant holds before OpenOrDie. *)
LEMMA InitIInv == Init => IInv
<1> SUFFICES ASSUME Init PROVE IInv
  OBVIOUS
<1> USE DEF Init, SessionInit, DeviceInit
<1>1. Counted = 0
  BY CountedFacts
<1>2. lost \cap (1..Counted) = {} /\ Cardinality({}) = 0
  BY <1>1, FS_EmptySet
<1>3. TypeOK
  <2>1. SessionTypeOK
    BY DEF SessionTypeOK
  <2>2. streaming \in BOOLEAN /\ leftover \in BOOLEAN /\ recovering \in BOOLEAN
    BY Zenon
  <2>3. DeviceTypeOK
    BY <2>2, SMT DEF DeviceTypeOK
  <2>4. QED
    BY <2>1, <2>2, <2>3 DEF TypeOK, PCs, Outcome
<1>4. PipelineOrder /\ LoopPosition /\ StreamOwner /\ ProcessState
  BY <1>1 DEF PipelineOrder, LoopPosition, StreamOwner, ProcessState, BeforeStream,
     InStream
<1>5. SkipTotalExact /\ NormalExitComplete /\ BareExitBeforeStreamOnly
  BY <1>2 DEF SkipTotalExact, NormalExitComplete, BareExitBeforeStreamOnly
<1>6. QED
  BY <1>3, <1>4, <1>5 DEF IInv

(* A step of the program that leaves the device and the loop alone.        *)
LEMMA QuietStep ==
  ASSUME IInv, iteration' = iteration, lost' = lost, taken' = taken,
         totalSkippedScans' = totalSkippedScans
  PROVE  SkipTotalExact' /\ Counted' = Counted
<1>1. iteration \in Nat
  BY DEF IInv, TypeOK
<1>2. Counted' = Counted
  BY <1>1, CountedFacts
<1>3. QED
  BY <1>2 DEF IInv, SkipTotalExact

(* OpenOrDie. *)
LEMMA OpenIInv == ASSUME IInv, NEW e \in Outcome, Open(e) PROVE IInv'
<1> USE DEF Open, OpenOrDie, deviceVars, readVars, CheckedExit
<1>1. SkipTotalExact' /\ Counted' = Counted
  BY QuietStep
<1>2. TypeOK'
  BY DEF IInv, TypeOK, SessionTypeOK, DeviceTypeOK, PCs
<1>3. PipelineOrder'
  BY DEF IInv, PipelineOrder
<1>4. LoopPosition'
  BY <1>1 DEF IInv, LoopPosition, BeforeStream
<1>5. StreamOwner'
  BY DEF IInv, StreamOwner, BeforeStream, InStream
<1>6. ProcessState'
  BY DEF IInv, ProcessState
<1>7. NormalExitComplete' /\ BareExitBeforeStreamOnly'
  BY DEF IInv, NormalExitComplete, BareExitBeforeStreamOnly, ProcessState, LoopPosition,
         BeforeStream
<1>8. QED
  BY <1>1, <1>2, <1>3, <1>4, <1>5, <1>6, <1>7 DEF IInv

(* LJM_GetHandleInfo and LJM_NamesToAddresses. *)
LEMMA PrepareIInv == ASSUME IInv, NEW e \in Outcome, Prepare(e) PROVE IInv'
<1> USE DEF Prepare, deviceVars, readVars, sessionVars, ErrorCheck, CheckedExit
<1>1. SkipTotalExact' /\ Counted' = Counted
  BY QuietStep
<1>2. TypeOK'
  BY DEF IInv, TypeOK, SessionTypeOK, DeviceTypeOK, PCs
<1>3. PipelineOrder'
  BY DEF IInv, PipelineOrder
<1>4. LoopPosition'
  BY <1>1 DEF IInv, LoopPosition, BeforeStream
<1>5. StreamOwner'
  BY DEF IInv, StreamOwner, BeforeStream, InStream
<1>6. ProcessState'
  BY DEF IInv, ProcessState
<1>7. NormalExitComplete' /\ BareExitBeforeStreamOnly'
  BY DEF IInv, NormalExitComplete, BareExitBeforeStreamOnly, ProcessState, LoopPosition,
         BeforeStream
<1>8. QED
  BY <1>1, <1>2, <1>3, <1>4, <1>5, <1>6, <1>7 DEF IInv

(* The WriteNameOrDie calls, which may leave the handle open behind them. *)
LEMMA HardcodedConfigureStreamIInv == ASSUME IInv, NEW e \in Outcome, HardcodedConfigureStream(e) PROVE IInv'
<1> USE DEF HardcodedConfigureStream, WriteNameOrDie, deviceVars, readVars, sessionVars, BareExit
<1>1. SkipTotalExact' /\ Counted' = Counted
  BY QuietStep
<1>2. TypeOK'
  BY DEF IInv, TypeOK, SessionTypeOK, DeviceTypeOK, PCs
<1>3. PipelineOrder'
  BY DEF IInv, PipelineOrder
<1>4. LoopPosition'
  BY <1>1 DEF IInv, LoopPosition, BeforeStream
<1>5. StreamOwner'
  BY DEF IInv, StreamOwner, BeforeStream, InStream
<1>6. ProcessState'
  BY DEF IInv, ProcessState
<1>7. NormalExitComplete' /\ BareExitBeforeStreamOnly'
  BY DEF IInv, NormalExitComplete, BareExitBeforeStreamOnly, ProcessState, LoopPosition,
         BeforeStream, StreamOwner
<1>8. QED
  BY <1>1, <1>2, <1>3, <1>4, <1>5, <1>6, <1>7 DEF IInv

(* LJM_GetStreamTCPReceiveBufferStatus. *)
LEMMA ReceiveBufferStatusIInv == ASSUME IInv, NEW e \in Outcome, ReceiveBufferStatus(e) PROVE IInv'
<1> USE DEF ReceiveBufferStatus, deviceVars, readVars, sessionVars, ErrorCheck, CheckedExit
<1>1. SkipTotalExact' /\ Counted' = Counted
  BY QuietStep
<1>2. TypeOK'
  BY DEF IInv, TypeOK, SessionTypeOK, DeviceTypeOK, PCs
<1>3. PipelineOrder'
  BY DEF IInv, PipelineOrder
<1>4. LoopPosition'
  BY <1>1 DEF IInv, LoopPosition, BeforeStream
<1>5. StreamOwner'
  BY DEF IInv, StreamOwner, BeforeStream, InStream
<1>6. ProcessState'
  BY DEF IInv, ProcessState
<1>7. NormalExitComplete' /\ BareExitBeforeStreamOnly'
  BY DEF IInv, NormalExitComplete, BareExitBeforeStreamOnly, ProcessState, LoopPosition,
         BeforeStream
<1>8. QED
  BY <1>1, <1>2, <1>3, <1>4, <1>5, <1>6, <1>7 DEF IInv

(* LJM_eStreamStart starts a new scan clock, so nothing is lost and nothing read yet. *)
LEMMA StartIInv == ASSUME IInv, NEW e \in Outcome, Start(e) PROVE IInv'
<1> USE DEF Start, ErrorCheck, CheckedExit, readVars, sessionVars
<1>1. CASE e = "error"
  <2> USE <1>1 DEF deviceVars, ErrorCheckDies
  <2>1. SkipTotalExact' /\ Counted' = Counted
    BY QuietStep
  <2>2. TypeOK'
    BY DEF IInv, TypeOK, SessionTypeOK, DeviceTypeOK, PCs
  <2>3. PipelineOrder' /\ LoopPosition'
    BY <2>1 DEF IInv, PipelineOrder, LoopPosition, BeforeStream
  <2>4. StreamOwner' /\ ProcessState'
    BY DEF IInv, StreamOwner, ProcessState, BeforeStream, InStream
  <2>5. NormalExitComplete' /\ BareExitBeforeStreamOnly'
    BY DEF NormalExitComplete, BareExitBeforeStreamOnly, ProcessState
  <2>6. QED
    BY <2>1, <2>2, <2>3, <2>4, <2>5 DEF IInv
<1>2. CASE e # "error"
  <2> USE <1>2 DEF StreamStarted, ErrorCheckDies, Outcome
  <2>1. pc' = "read" /\ iteration = 0 /\ iteration' = 0
    BY DEF IInv, LoopPosition, BeforeStream
  <2>2. Counted = 0 /\ Counted' = Counted
    BY <2>1, CountedFacts
  <2>3. SkipTotalExact'
    <3>1. lost \cap (1..Counted) = {} /\ lost' \cap (1..Counted') = {}
      BY <2>2
    <3>2. QED
      BY <3>1 DEF IInv, SkipTotalExact
  <2>4. TypeOK'
    <3>1. DeviceTypeOK'
      <4>1. streaming' \in BOOLEAN /\ recovering' \in BOOLEAN /\ lost' \in SUBSET (1..MaxScans)
        OBVIOUS
      <4>2. clock' \in 0..MaxScans /\ sent' \in 0..MaxScans /\ taken' \in 0..MaxScans
        BY ConstantTypes
      <4>3. QED
        BY <4>1, <4>2 DEF DeviceTypeOK
    <3>2. QED
      BY <3>1 DEF IInv, TypeOK, SessionTypeOK, PCs
  <2>5. PipelineOrder' /\ LoopPosition'
    BY <2>1, <2>2 DEF PipelineOrder, LoopPosition, BeforeStream
  <2>6. StreamOwner' /\ ProcessState'
    BY DEF IInv, StreamOwner, ProcessState, BeforeStream, InStream
  <2>7. NormalExitComplete' /\ BareExitBeforeStreamOnly'
    BY DEF IInv, NormalExitComplete, BareExitBeforeStreamOnly, ProcessState
  <2>8. QED
    BY <2>3, <2>4, <2>5, <2>6, <2>7 DEF IInv
<1>3. QED
  BY <1>1, <1>2

(* LJM_eStreamRead: aData becomes the window behind the last read. *)
LEMMA ReadIInv == ASSUME IInv, NEW e \in Outcome, Read(e) PROVE IInv'
<1> USE DEF Read, ErrorCheck, CheckedExit, sessionVars
<1>1. CASE e = "error"
  <2> USE <1>1 DEF deviceVars, ErrorCheckDies
  <2>1. SkipTotalExact' /\ Counted' = Counted
    BY QuietStep
  <2>2. TypeOK'
    BY DEF IInv, TypeOK, SessionTypeOK, DeviceTypeOK, PCs
  <2>3. PipelineOrder' /\ LoopPosition'
    BY <2>1 DEF IInv, PipelineOrder, LoopPosition, BeforeStream
  <2>4. StreamOwner' /\ ProcessState'
    BY DEF IInv, StreamOwner, ProcessState, BeforeStream, InStream
  <2>5. NormalExitComplete' /\ BareExitBeforeStreamOnly'
    BY DEF NormalExitComplete, BareExitBeforeStreamOnly, ProcessState
  <2>6. QED
    BY <2>1, <2>2, <2>3, <2>4, <2>5 DEF IInv
<1>2. CASE e # "error"
  <2> USE <1>2 DEF StreamReadDone, ReadReady, ErrorCheckDies, Outcome
  <2>1. /\ pc' \in {"status", "count"}
        /\ iteration' = iteration /\ lost' = lost /\ iteration \in Nat
        /\ totalSkippedScans' = totalSkippedScans
    BY DEF IInv, TypeOK
  <2>2. Counted' = Counted /\ Counted \in Nat /\ taken = Counted
    BY <2>1, CountedFacts DEF IInv, LoopPosition
  <2>3. SkipTotalExact'
    BY <2>1, <2>2 DEF IInv, SkipTotalExact
  <2>4. DeviceTypeOK' /\ PipelineOrder'
    <3>1. UNCHANGED <<streaming, clock, lost, recovering, sent>>
      OBVIOUS
    <3>2. taken' \in 0..MaxScans /\ taken' <= sent
      BY ConstantTypes DEF IInv, TypeOK, DeviceTypeOK
    <3>3. QED
      BY <3>1, <3>2 DEF IInv, TypeOK, DeviceTypeOK, PipelineOrder
  <2>5. aData' = ((((Counted + 1)..(Counted + ScansPerRead)) \cap lost) \X (1..NumChannels))
    BY <2>2 DEF ReadData, Window
  <2>6. TypeOK'
    <3>1. lost \subseteq 1..MaxScans
      BY DEF IInv, TypeOK, DeviceTypeOK
    <3>2. aData' \subseteq (1..MaxScans) \X (1..NumChannels)
      BY <2>5, <3>1
    <3>3. QED
      BY <2>1, <2>4, <3>2 DEF IInv, TypeOK, SessionTypeOK, PCs
  <2>7. LoopPosition'
    BY <2>1, <2>2, <2>5 DEF IInv, LoopPosition, BeforeStream
  <2>8. StreamOwner' /\ ProcessState'
    BY <2>1 DEF IInv, StreamOwner, ProcessState, BeforeStream, InStream
  <2>9. NormalExitComplete' /\ BareExitBeforeStreamOnly'
    BY <2>1 DEF IInv, NormalExitComplete, BareExitBeforeStreamOnly, ProcessState
  <2>10. QED
    BY <2>3, <2>4, <2>6, <2>7, <2>8, <2>9 DEF IInv
<1>3. QED
  BY <1>1, <1>2

(* The heart of the proof: the count adds the gaps of exactly the scans by *)
(* which the end of the iteration advances.                                *)
LEMMA CountIInv == ASSUME IInv, Count PROVE IInv'
<1> USE DEF Count, sessionVars, deviceVars
<1> DEFINE D == ((Counted + 1)..(Counted + ScansPerRead)) \cap lost
<1>1. /\ iteration \in Nat /\ iteration < NumReads /\ iteration' = iteration + 1
      /\ taken = Counted + ScansPerRead
      /\ aData = D \X (1..NumChannels)
  BY DEF IInv, TypeOK, LoopPosition
<1>2. Counted \in Nat /\ Counted' = Counted + ScansPerRead
  BY <1>1, CountedFacts
<1>3. /\ IsFiniteSet(D)
      /\ Cardinality(lost \cap (1..(Counted + ScansPerRead)))
           = Cardinality(lost \cap (1..Counted)) + Cardinality(D)
  BY <1>2, SkippedUpTo
<1>4. SkipTotalExact'
  <2>1. CountSkippedScans(aData) = Cardinality(D)
    BY <1>1, <1>3, CountSkippedIsCardinality
  <2>2. QED
    BY <1>2, <1>3, <2>1 DEF IInv, SkipTotalExact, AddSkipped
<1>5. TypeOK'
  <2>1. totalSkippedScans' \in 0..MaxScans
    <3> DEFINE G == lost \cap (1..Counted')
    <3>1. IsFiniteSet(1..MaxScans) /\ Cardinality(1..MaxScans) = MaxScans
      BY ConstantTypes, InitialSegment
    <3>2. G \in SUBSET (1..MaxScans)
      BY DEF IInv, TypeOK, DeviceTypeOK
    <3>3. IsFiniteSet(G) /\ Cardinality(G) <= MaxScans
      BY <3>1, <3>2, FS_Subset
    <3>4. Cardinality(G) \in Nat
      BY <3>3, FS_CardinalityType
    <3>5. totalSkippedScans' = Cardinality(G)
      BY <1>4 DEF SkipTotalExact
    <3> HIDE DEF G
    <3>6. QED
      BY <3>3, <3>4, <3>5
  <2>2. QED
    BY <1>1, <2>1 DEF IInv, TypeOK, SessionTypeOK, DeviceTypeOK, PCs
<1>6. PipelineOrder' /\ LoopPosition'
  BY <1>1, <1>2 DEF IInv, PipelineOrder, LoopPosition, BeforeStream, TypeOK
<1>7. StreamOwner' /\ ProcessState'
  BY DEF IInv, StreamOwner, ProcessState, BeforeStream, InStream
<1>8. NormalExitComplete' /\ BareExitBeforeStreamOnly'
  BY DEF IInv, NormalExitComplete, BareExitBeforeStreamOnly, ProcessState
<1>9. QED
  BY <1>4, <1>5, <1>6, <1>7, <1>8 DEF IInv

(* LJM_eStreamStop. *)
LEMMA StopIInv == ASSUME IInv, NEW e \in Outcome, Stop(e) PROVE IInv'
<1> USE DEF Stop, ErrorCheck, CheckedExit, readVars, sessionVars, deviceVars, StreamStopped,
            ErrorCheckDies
<1>1. UNCHANGED <<clock, lost, recovering, sent, taken>>
  OBVIOUS
<1>2. SkipTotalExact' /\ Counted' = Counted
  BY <1>1, QuietStep
<1>3. TypeOK'
  <2>1. streaming' \in BOOLEAN
    BY DEF IInv, TypeOK, DeviceTypeOK
  <2>2. QED
    BY <1>1, <2>1 DEF IInv, TypeOK, SessionTypeOK, DeviceTypeOK, PCs
<1>4. PipelineOrder' /\ LoopPosition'
  BY <1>1, <1>2 DEF IInv, PipelineOrder, LoopPosition, BeforeStream
<1>5. StreamOwner' /\ ProcessState'
  BY <1>1 DEF IInv, StreamOwner, ProcessState, BeforeStream, InStream, Outcome
<1>6. NormalExitComplete' /\ BareExitBeforeStreamOnly'
  BY <1>1 DEF IInv, NormalExitComplete, BareExitBeforeStreamOnly, ProcessState
<1>7. QED
  BY <1>2, <1>3, <1>4, <1>5, <1>6 DEF IInv

(* CloseOrDie and the end of main. *)
LEMMA CloseIInv == ASSUME IInv, NEW e \in Outcome, Close(e) PROVE IInv'
<1> USE DEF Close, CloseOrDie, CheckedExit, NormalExit, readVars, deviceVars
<1>1. SkipTotalExact' /\ Counted' = Counted
  BY QuietStep
<1>2. TypeOK'
  BY DEF IInv, TypeOK, SessionTypeOK, DeviceTypeOK, PCs
<1>3. PipelineOrder' /\ LoopPosition'
  BY <1>1 DEF IInv, PipelineOrder, LoopPosition, BeforeStream
<1>4. StreamOwner' /\ ProcessState'
  BY DEF IInv, StreamOwner, ProcessState, BeforeStream, InStream
<1>5. BareExitBeforeStreamOnly'
  BY DEF BareExitBeforeStreamOnly, ProcessState
<1>6. NormalExitComplete'
  <2>1. iteration = NumReads /\ taken = Counted /\ ~streaming
    BY DEF IInv, LoopPosition, StreamOwner
  <2>2. Counted = NumReads * ScansPerRead
    BY <2>1, CountedFacts
  <2>3. totalSkippedScans = Cardinality(lost \cap (1..taken))
    BY <2>1 DEF IInv, SkipTotalExact
  <2>4. handle' = "closed"
    BY DEF IInv, ProcessState
  <2>5. QED
    BY <2>1, <2>2, <2>3, <2>4 DEF NormalExitComplete
<1>7. QED
  BY <1>1, <1>2, <1>3, <1>4, <1>5, <1>6 DEF IInv

(* A device step loses scans, if any, ahead of everything already read.    *)
LEMMA DeviceIInv == ASSUME IInv, Device PROVE IInv'
<1> USE DEF Device, sessionVars, programVars
<1>1. /\ UNCHANGED <<streaming, taken>>
      /\ taken' <= sent' /\ sent' <= clock'
      /\ clock' \in 0..MaxScans /\ sent' \in 0..MaxScans
      /\ recovering' \in BOOLEAN
      /\ lost' = lost \/ (lost' = lost \cup {clock + 1} /\ clock' = clock + 1)
      /\ clock <= clock'
      /\ streaming \/ UNCHANGED <<clock, lost, sent>>
  <2>1. CASE ClockScan
    <3>1. /\ streaming /\ clock < MaxScans /\ clock' = clock + 1
          /\ UNCHANGED <<streaming, sent, taken>>
          /\ \/ lost' = lost \cup {clock + 1} /\ recovering' = TRUE
             \/ lost' = lost /\ recovering' = recovering
      BY <2>1, Zenon DEF ClockScan
    <3>2. clock \in 0..MaxScans /\ sent \in 0..MaxScans /\ taken \in 0..MaxScans
          /\ taken <= sent /\ sent <= clock
      BY DEF IInv, TypeOK, DeviceTypeOK, PipelineOrder
    <3>3. recovering' \in BOOLEAN
      BY <3>1 DEF IInv, TypeOK, DeviceTypeOK
    <3>4. /\ taken' <= sent' /\ sent' <= clock' /\ clock <= clock'
          /\ clock' \in 0..MaxScans /\ sent' \in 0..MaxScans
      BY <3>1, <3>2, ConstantTypes
    <3>5. QED
      BY <3>1, <3>3, <3>4
  <2>2. CASE EndRecovery
    <3>1. /\ streaming /\ recovering' \in BOOLEAN
          /\ UNCHANGED <<streaming, clock, lost, sent, taken>>
      BY <2>2, Zenon DEF EndRecovery
    <3>2. QED
      BY <3>1, ConstantTypes DEF IInv, TypeOK, DeviceTypeOK, PipelineOrder
  <2>3. CASE LibraryReceives
    BY <2>3 DEF LibraryReceives, Transfer, IInv, TypeOK, DeviceTypeOK, PipelineOrder
  <2>4. QED
    BY <2>1, <2>2, <2>3
<1>2. /\ clock \in Nat /\ clock' \in Nat /\ taken \in Nat /\ taken <= clock
      /\ iteration \in Nat /\ Counted <= taken /\ iteration' = iteration
      /\ lost \subseteq 1..clock
  BY <1>1 DEF IInv, TypeOK, DeviceTypeOK, PipelineOrder, LoopPosition
<1>3. Counted' = Counted /\ Counted \in Nat
  BY <1>2, CountedFacts
<1>4. lost' \cap (1..Counted') = lost \cap (1..Counted)
  BY <1>1, <1>2, <1>3
<1>5. lost' \subseteq 1..clock'
  <2>1. lost \subseteq 1..clock'
    <3>1. 1..clock \subseteq 1..clock'
      BY <1>1, <1>2
    <3>2. QED
      BY <1>2, <3>1
  <2>2. CASE lost' = lost
    BY <2>1, <2>2
  <2>3. CASE lost' = lost \cup {clock + 1} /\ clock' = clock + 1
    <3>1. clock + 1 \in 1..clock'
      BY <2>3, <1>2
    <3>2. QED
      BY <2>1, <2>3, <3>1
  <2>4. QED
    BY <1>1, <2>2, <2>3
<1>6. SkipTotalExact'
  BY <1>4 DEF IInv, SkipTotalExact
<1>7. TypeOK'
  <2>1. lost' \in SUBSET (1..MaxScans)
    BY <1>1, <1>2, <1>5
  <2>2. DeviceTypeOK'
    BY <1>1, <2>1 DEF IInv, TypeOK, DeviceTypeOK
  <2>3. QED
    BY <2>2 DEF IInv, TypeOK, SessionTypeOK
<1>8. PipelineOrder'
  BY <1>1, <1>5 DEF PipelineOrder
<1>9. LoopPosition'
  <2>1. pc \in {"status", "count"} =>
          ((Counted + 1)..(Counted + ScansPerRead)) \cap lost'
            = ((Counted + 1)..(Counted + ScansPerRead)) \cap lost
    BY <1>1, <1>2, <1>3, ConstantTypes DEF IInv, LoopPosition
  <2>2. QED
    BY <1>1, <1>3, <2>1 DEF IInv, LoopPosition, BeforeStream
<1>10. StreamOwner' /\ ProcessState'
  BY <1>1 DEF IInv, StreamOwner, ProcessState, BeforeStream, InStream
<1>11. NormalExitComplete' /\ BareExitBeforeStreamOnly'
  BY <1>1 DEF IInv, NormalExitComplete, BareExitBeforeStreamOnly
<1>12. QED
  BY <1>6, <1>7, <1>8, <1>9, <1>10, <1>11 DEF IInv

(* A step that changes nothing. *)
LEMMA StutterIInv == ASSUME IInv, UNCHANGED vars PROVE IInv'
<1> USE DEF vars, sessionVars, deviceVars, programVars
<1>1. SkipTotalExact' /\ Counted' = Counted
  BY QuietStep
<1>2. TypeOK' /\ PipelineOrder'
  BY DEF IInv, TypeOK, SessionTypeOK, DeviceTypeOK, PipelineOrder
<1>3. LoopPosition' /\ StreamOwner' /\ ProcessState'
  BY <1>1 DEF IInv, LoopPosition, StreamOwner, ProcessState, BeforeStream, InStream
<1>4. NormalExitComplete' /\ BareExitBeforeStreamOnly'
  BY DEF IInv, NormalExitComplete, BareExitBeforeStreamOnly
<1>5. QED
  BY <1>1, <1>2, <1>3, <1>4 DEF IInv

(* Every step of the program and of the device keeps the invariant. *)
LEMMA NextIInv == IInv /\ [Next]_vars => IInv'
<1> SUFFICES ASSUME IInv, [Next]_vars PROVE IInv'
  OBVIOUS
<1>1. ASSUME NEW e \in Outcome, Call(e) PROVE IInv'
  BY <1>1, OpenIInv, PrepareIInv, HardcodedConfigureStreamIInv, StartIInv, ReadIInv,
     ReceiveBufferStatusIInv, StopIInv, CloseIInv DEF Call
<1>2. CASE Count
  BY <1>2, CountIInv
<1>3. CASE Device
  BY <1>3, DeviceIInv
<1>4. CASE Finished \/ UNCHANGED vars
  BY <1>4, StutterIInv DEF Finished
<1>5. QED
  BY <1>1, <1>2, <1>3, <1>4 DEF Next

(* The inductive invariant holds throughout. *)
THEOREM Inductive == Spec => []IInv
  BY InitIInv, NextIInv, PTL DEF Spec

-----------------------------------------------------------------------------
(* Type correctness of the program, its session and the device.            *)
THEOREM TypeCorrect == Spec => []TypeOK
<1>1. IInv => TypeOK
  BY DEF IInv
<1>2. QED
  BY <1>1, Inductive, PTL

(* The running total of skipped scans is exact at the end of every          *)
(* iteration (lines 187-194).                                              *)
THEOREM SkipTotalCorrect == Spec => []SkipTotalExact
<1>1. IInv => SkipTotalExact
  BY DEF IInv
<1>2. QED
  BY <1>1, Inductive, PTL

(* Another program's stream is never read from (line 157).                 *)
THEOREM LeftoverCorrect == Spec => []LeftoverStreamRefused
<1>1. IInv => LeftoverStreamRefused
  BY DEF IInv, StreamOwner, LeftoverStreamRefused
<1>2. QED
  BY <1>1, Inductive, PTL

(* Return from main means the whole job is done, and an exit without       *)
(* LJM_CloseAll happens before the stream only (lines 67-74, 92-123).      *)
THEOREM ExitsCorrect == Spec => []ExitsExplained
<1>1. IInv => ExitsExplained
  BY DEF IInv, ExitsExplained
<1>2. QED
  BY <1>1, Inductive, PTL

-----------------------------------------------------------------------------
(* StreamBasic implements ScanLedger. *)

(* A call that neither reads data nor counts it: the ledger stands still,  *)
(* or ends with the process.                                               *)
LEMMA LedgerQuiet ==
  ASSUME IInv, pc # "exit", iteration' = iteration, lost' = lost,
         totalSkippedScans' = totalSkippedScans
  PROVE  Ledger!LedgerNext \/ UNCHANGED Ledger!ledgerVars
<1>1. Counted' = Counted
  BY CountedFacts DEF IInv, TypeOK
<1>2. lost' \cap (1..Counted') = lost \cap (1..Counted)
  BY <1>1
<1>3. Running
  BY DEF IInv, ProcessState, Running
<1>4. CASE Running'
  BY <1>1, <1>2, <1>3, <1>4 DEF Ledger!ledgerVars
<1>5. CASE ~Running'
  BY <1>1, <1>2, <1>3, <1>5 DEF Ledger!LedgerNext, Ledger!End
<1>6. QED
  BY <1>4, <1>5

(* The end of an iteration delivers the scans it read and admits to their  *)
(* gaps.                                                                   *)
LEMMA LedgerCount ==
  ASSUME IInv, Count
  PROVE  Ledger!LedgerNext
<1> USE DEF Count, sessionVars, deviceVars
<1> DEFINE D == ((Counted + 1)..(Counted + ScansPerRead)) \cap lost
<1>1. /\ iteration \in Nat /\ iteration < NumReads /\ iteration' = iteration + 1
      /\ aData = D \X (1..NumChannels)
      /\ Running /\ Running' = Running
  BY DEF IInv, TypeOK, LoopPosition, ProcessState, Running
<1>2. Counted \in Nat /\ Counted' = Counted + ScansPerRead
  BY <1>1, CountedFacts
<1>3. Counted < NumReads * ScansPerRead
  BY <1>1, SMT DEF Counted
<1>4. IsFiniteSet(D)
  BY <1>2, SkippedUpTo
<1>5. totalSkippedScans' = totalSkippedScans + Cardinality(D)
  BY <1>1, <1>4, CountSkippedIsCardinality DEF AddSkipped
<1>6. lost' \cap (1..Counted') = (lost \cap (1..Counted)) \cup D
  BY <1>2
<1>7. D \in SUBSET ((Counted + 1)..(Counted + ScansPerRead))
  OBVIOUS
<1> HIDE DEF D
<1>8. Ledger!Cardinality(D) = Cardinality(D)
  BY DEF Cardinality, Ledger!Cardinality
<1>9. Ledger!Deliver
  BY <1>1, <1>2, <1>3, <1>5, <1>6, <1>7, <1>8 DEF Ledger!Deliver
<1>10. QED
  BY <1>9 DEF Ledger!LedgerNext

(* Scans lost on the device are in nobody's ledger yet.                    *)
LEMMA LedgerDevice ==
  ASSUME IInv, Device
  PROVE  UNCHANGED Ledger!ledgerVars
<1> USE DEF Device, sessionVars, programVars
<1>1. iteration' = iteration /\ totalSkippedScans' = totalSkippedScans /\ exit' = exit
  OBVIOUS
<1>2. Counted' = Counted /\ Counted \in Nat
  BY <1>1, CountedFacts DEF IInv, TypeOK
<1>3. clock \in Nat /\ Counted <= clock
  <2>1. clock \in Nat /\ sent \in Nat /\ taken \in Nat
    BY ConstantTypes DEF IInv, TypeOK, DeviceTypeOK
  <2>2. QED
    BY <2>1, <1>2 DEF IInv, PipelineOrder, LoopPosition
<1>4. lost' = lost \/ lost' = lost \cup {clock + 1}
  <2>1. CASE ClockScan
    BY <2>1, Zenon DEF ClockScan
  <2>2. CASE EndRecovery \/ LibraryReceives
    BY <2>2, Zenon DEF EndRecovery, LibraryReceives, Transfer
  <2>3. QED
    BY <2>1, <2>2
<1>5. lost' \cap (1..Counted') = lost \cap (1..Counted)
  BY <1>2, <1>3, <1>4
<1>6. QED
  BY <1>1, <1>2, <1>5 DEF Ledger!ledgerVars, Running

(* An empty ledger. *)
LEMMA LedgerInitially == Init => Ledger!LedgerInit
<1> SUFFICES ASSUME Init PROVE Ledger!LedgerInit
  OBVIOUS
<1> USE DEF Init, SessionInit, DeviceInit
<1>1. Counted = 0
  BY CountedFacts
<1>2. QED
  BY <1>1 DEF Ledger!LedgerInit, Running

(* Every step is one of the ledger, or leaves it alone. *)
LEMMA LedgerStep == IInv /\ [Next]_vars => [Ledger!LedgerNext]_Ledger!ledgerVars
<1> SUFFICES ASSUME IInv, [Next]_vars
             PROVE  Ledger!LedgerNext \/ UNCHANGED Ledger!ledgerVars
  OBVIOUS
<1>1. ASSUME NEW e \in Outcome, Call(e)
      PROVE  Ledger!LedgerNext \/ UNCHANGED Ledger!ledgerVars
  <2>1. iteration' = iteration /\ totalSkippedScans' = totalSkippedScans /\ pc # "exit"
    BY <1>1 DEF Call, Open, Prepare, HardcodedConfigureStream, Start, Read,
       ReceiveBufferStatus, Stop, Close, readVars
  <2>2. CASE lost' = lost
    BY <2>1, <2>2, LedgerQuiet
  <2>3. CASE lost' # lost
    <3>1. Start(e) /\ e # "error"
      BY <1>1, <2>3 DEF Call, Open, Prepare, HardcodedConfigureStream, Start, Read,
         ReceiveBufferStatus, Stop, Close, deviceVars, StreamStopped, StreamReadDone
    <3>2. exit' = exit /\ iteration = 0
      BY <3>1 DEF IInv, LoopPosition, BeforeStream, Start, ErrorCheck, ErrorCheckDies,
         Outcome, sessionVars
    <3>3. Counted = 0 /\ Counted' = 0
      BY <2>1, <3>2, CountedFacts
    <3>4. lost' \cap (1..Counted') = {} /\ lost \cap (1..Counted) = {}
      BY <3>3
    <3>5. QED
      BY <2>1, <3>2, <3>3, <3>4 DEF Ledger!ledgerVars, Running
  <2>4. QED
    BY <2>2, <2>3
<1>2. CASE Count
  BY <1>2, LedgerCount
<1>3. CASE Device
  BY <1>3, LedgerDevice
<1>4. CASE Finished \/ UNCHANGED vars
  BY <1>4 DEF Finished, vars, sessionVars, deviceVars, programVars, Ledger!ledgerVars,
     Running, Counted
<1>5. QED
  BY <1>1, <1>2, <1>3, <1>4 DEF Next

(* The program implements the ledger: whatever the device loses, each read *)
(* reaches the reader once, in order, with its gaps reported (lines        *)
(* 163-197).                                                               *)
THEOREM RefinesLedger == Spec => ImplementsLedger
<1>1. QED
  BY LedgerInitially, LedgerStep, Inductive, PTL DEF Spec, ImplementsLedger,
     Ledger!LedgerSpec

===============================================================================
