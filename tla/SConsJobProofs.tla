---------------------------- MODULE SConsJobProofs ----------------------------
(***************************************************************************)
(* Proofs that the reference counts of SConsJob stay exact and that its    *)
(* walk loses no node, for any number of nodes and workers, any dependency *)
(* graphs and any options.                                                 *)
(***************************************************************************)
EXTENDS SConsJob, FiniteSetTheorems, WellFoundedInduction, NaturalsInduction, TLAPS

(* A task names nodes to post-process; the sentinel of a worker names none. *)
Tasks == [targets : Seq(Nodes), node : Nodes \cup {NoNode}, top : BOOLEAN, exc : BOOLEAN]

NodesTyped ==
  /\ graph \in Graphs
  /\ waiting_parents \in [Nodes -> SUBSET Nodes]
  /\ ref_count \in [Nodes -> Int]
  /\ top_targets_left \in Seq(Nodes)

TasksTyped ==
  /\ task \in Tasks
  /\ requestQueue \in Seq(Tasks)
  /\ resultsQueue \in Seq([task : Tasks, ok : BOOLEAN])
  /\ interrupted \in BOOLEAN
  /\ worker \in [Workers -> [task : Tasks, skip : BOOLEAN] \cup {Idle, Gone}]

(* No task has been handed out yet: nothing is on the stack, the main thread *)
(* has none in hand, and all that the workers are sent is sentinels.         *)
NothingHandedOut ==
  /\ candidates = <<>>
  /\ pc \in {"find", "collect", "join", "cleanup", "postfunc", "exited"}
  /\ requestQueue \in Seq({Sentinel})
  /\ resultsQueue = <<>>
  /\ worker \in [Workers -> {Idle, Gone}]

TopTaken == current_top \in Nodes \/ NothingHandedOut

(* The inductive invariant.  RefCountExact alone is not inductive: that a     *)
(* count is reduced by the right number needs every task to name nodes only, *)
(* and a task that stops the build is given the current target of the command *)
(* line (fail_stop), so there must be one whenever a task can fail.          *)
IInv == NodesTyped /\ TasksTyped /\ TopTaken /\ RefCountExact

-----------------------------------------------------------------------------
(* Counting. *)

(* The nodes that list p as a waiting parent. *)
WaitedFor(p) == {n \in Nodes : p \in waiting_parents[n]}

(* Taking part of a finite set away takes its size away. *)
LEMMA CountLess ==
  ASSUME NEW S, NEW T \in SUBSET S, IsFiniteSet(S)
  PROVE  /\ Cardinality(S) \in Nat
         /\ Cardinality(T) \in Nat
         /\ Cardinality(S \ T) = Cardinality(S) - Cardinality(T)
<1>1. IsFiniteSet(T)
  BY FS_Subset
<1>2. S \cap T = T
  OBVIOUS
<1>3. Cardinality(S \ T) = Cardinality(S) - Cardinality(S \cap T)
  BY FS_Difference
<1>4. QED
  BY <1>1, <1>2, <1>3, FS_CardinalityType

(* So does adding elements that were not there. *)
LEMMA CountMore ==
  ASSUME NEW S, NEW T, IsFiniteSet(S), IsFiniteSet(T), S \cap T = {}
  PROVE  /\ Cardinality(S) \in Nat
         /\ Cardinality(T) \in Nat
         /\ Cardinality(S \cup T) = Cardinality(S) + Cardinality(T)
<1>1. Cardinality(S \cup T) = Cardinality(S) + Cardinality(T) - Cardinality(S \cap T)
  BY FS_Union
<1>2. Cardinality(S \cap T) = 0
  BY FS_EmptySet
<1>3. QED
  BY <1>1, <1>2, FS_CardinalityType

(* The counts stay exact when nothing waits any more for the nodes of "over" *)
(* (will_not_build, postprocess).                                            *)
LEMMA LeavingIsExact ==
  ASSUME GraphAssumption, NodesTyped, RefCountExact,
         NEW over \in SUBSET Nodes,
         waiting_parents' = [n \in Nodes |-> IF n \in over THEN {}
                                             ELSE waiting_parents[n]],
         ref_count' = [p \in Nodes |->
           ref_count[p] - Cardinality({n \in over : p \in waiting_parents[n]})]
  PROVE  /\ waiting_parents' \in [Nodes -> SUBSET Nodes]
         /\ ref_count' \in [Nodes -> Int]
         /\ RefCountExact'
<1>1. waiting_parents' \in [Nodes -> SUBSET Nodes]
  BY DEF NodesTyped
<1>2. ASSUME NEW p \in Nodes
      PROVE  ref_count'[p] \in Int /\ ref_count'[p] = Cardinality(WaitedFor(p)')
  <2> DEFINE left == {n \in over : p \in waiting_parents[n]}
  <2>1. left \in SUBSET WaitedFor(p)
    BY DEF WaitedFor
  <2>2. WaitedFor(p)' = WaitedFor(p) \ left
    BY DEF WaitedFor
  <2>3. IsFiniteSet(WaitedFor(p))
    BY FS_Subset DEF GraphAssumption, WaitedFor
  <2>4. /\ Cardinality(WaitedFor(p)) \in Nat
        /\ Cardinality(left) \in Nat
        /\ Cardinality(WaitedFor(p) \ left) = Cardinality(WaitedFor(p)) - Cardinality(left)
    BY <2>1, <2>3, CountLess
  <2>5. ref_count[p] = Cardinality(WaitedFor(p))
    BY DEF RefCountExact, WaitedFor
  <2>6. ref_count'[p] = ref_count[p] - Cardinality(left)
    OBVIOUS
  <2>7. QED
    BY <2>2, <2>4, <2>5, <2>6
<1>3. ref_count' \in [Nodes -> Int]
  BY <1>2
<1>4. RefCountExact'
  BY <1>2 DEF RefCountExact, WaitedFor
<1>5. QED
  BY <1>1, <1>3, <1>4

(* They stay exact when n starts to wait for some nodes, some of which it may *)
(* be waiting for already (add_to_waiting_parents).                           *)
LEMMA WaitingIsExact ==
  ASSUME GraphAssumption, NodesTyped, RefCountExact,
         NEW n \in Nodes, NEW children \in SUBSET Nodes, WaitFor(n, children)
  PROVE  /\ waiting_parents' \in [Nodes -> SUBSET Nodes]
         /\ ref_count' \in [Nodes -> Int]
         /\ RefCountExact'
<1> DEFINE more == {c \in children : n \notin waiting_parents[c]}
<1>1. waiting_parents' = [c \in Nodes |-> IF c \in children
                                          THEN waiting_parents[c] \cup {n}
                                          ELSE waiting_parents[c]]
  BY DEF WaitFor
<1>2. ref_count' = [ref_count EXCEPT ![n] = @ + Cardinality(more)]
  BY DEF WaitFor
<1>3. waiting_parents' \in [Nodes -> SUBSET Nodes]
  BY <1>1 DEF NodesTyped
<1>4. IsFiniteSet(more) /\ IsFiniteSet(WaitedFor(n))
  BY FS_Subset DEF GraphAssumption, WaitedFor
<1>5. WaitedFor(n) \cap more = {}
  BY DEF WaitedFor
<1>6. WaitedFor(n)' = WaitedFor(n) \cup more
  <2>1. ASSUME NEW c \in Nodes
        PROVE  c \in WaitedFor(n)' <=> c \in WaitedFor(n) \cup more
    BY <1>1 DEF WaitedFor, NodesTyped
  <2>2. more \subseteq Nodes
    OBVIOUS
  <2>3. QED
    BY <2>1, <2>2 DEF WaitedFor
<1>7. /\ Cardinality(WaitedFor(n)) \in Nat
      /\ Cardinality(more) \in Nat
      /\ Cardinality(WaitedFor(n)') = Cardinality(WaitedFor(n)) + Cardinality(more)
  BY <1>4, <1>5, <1>6, CountMore
<1>8. ref_count'[n] = Cardinality(WaitedFor(n)')
  BY <1>2, <1>7 DEF RefCountExact, WaitedFor, NodesTyped
<1>9. ASSUME NEW p \in Nodes, p # n
      PROVE  ref_count'[p] = Cardinality(WaitedFor(p)')
  <2>1. WaitedFor(p)' = WaitedFor(p)
    BY <1>1, <1>9 DEF WaitedFor, NodesTyped
  <2>2. ref_count'[p] = ref_count[p]
    BY <1>2, <1>9 DEF NodesTyped
  <2>3. QED
    BY <2>1, <2>2 DEF RefCountExact, WaitedFor
<1>10. ref_count' \in [Nodes -> Int]
  BY <1>2, <1>7 DEF NodesTyped
<1>11. RefCountExact'
  BY <1>8, <1>9 DEF RefCountExact, WaitedFor
<1>12. QED
  BY <1>3, <1>10, <1>11

(* Nothing changes when no node starts or stops to wait. *)
LEMMA SameCounts ==
  ASSUME NodesTyped, RefCountExact, UNCHANGED <<graph, waiting_parents, ref_count>>,
         top_targets_left' \in Seq(Nodes)
  PROVE  NodesTyped' /\ RefCountExact'
BY DEF NodesTyped, RefCountExact

(* will_not_build, for whatever nodes and mark. *)
LEMMA WillNotBuildIsExact ==
  ASSUME GraphAssumption, NodesTyped, RefCountExact,
         NEW nodes, NEW mark, will_not_build(nodes, mark),
         UNCHANGED <<graph, top_targets_left>>
  PROVE  NodesTyped' /\ RefCountExact'
<1> DEFINE gone == WaitClosure(nodes)
<1>1. gone \in SUBSET Nodes
  BY DEF WaitClosure
<1>2. /\ waiting_parents' = [n \in Nodes |-> IF n \in gone THEN {}
                                             ELSE waiting_parents[n]]
      /\ ref_count' = [p \in Nodes |->
           ref_count[p] - Cardinality({n \in gone : p \in waiting_parents[n]})]
  BY DEF will_not_build
<1> HIDE DEF gone
<1>3. /\ waiting_parents' \in [Nodes -> SUBSET Nodes]
      /\ ref_count' \in [Nodes -> Int]
      /\ RefCountExact'
  BY <1>1, <1>2, LeavingIsExact
<1>4. QED
  BY <1>3 DEF NodesTyped

-----------------------------------------------------------------------------
(* The operations of the task master. *)

(* The lists of the graph hold nodes, and the task of a node is one. *)
LEMMA GraphFacts ==
  ASSUME GraphAssumption, NodesTyped
  PROVE  /\ graph.peers \in [Nodes -> Seq(Nodes)]
         /\ graph.effects \in [Nodes -> Seq(Nodes)]
         /\ \A n \in Nodes, exc \in BOOLEAN : Task(n, exc) \in Tasks
<1>1. /\ graph.peers \in [Nodes -> Seq(Nodes)]
      /\ graph.effects \in [Nodes -> Seq(Nodes)]
  BY DEF GraphAssumption, NodesTyped
<1>2. QED
  BY <1>1 DEF Task, Tasks, get_all_targets

(* A candidate that is taken leaves the list of the targets typed, and there *)
(* is a current target from then on.                                         *)
LEMMA PopFacts ==
  ASSUME NodesTyped, TopTaken, NEW n, Pop(n)
  PROVE  top_targets_left' \in Seq(Nodes) /\ current_top' \in Nodes
<1>1. CASE candidates # <<>>
  BY <1>1 DEF Pop, NodesTyped, TopTaken, NothingHandedOut
<1>2. CASE candidates = <<>>
  <2>1. top_targets_left # <<>> /\ top_targets_left \in Seq(Nodes)
    BY <1>2 DEF Pop, HasCandidate, NodesTyped
  <2>2. /\ n = Last(top_targets_left)
        /\ top_targets_left' = Front(top_targets_left)
        /\ current_top' = n
    BY <1>2 DEF Pop, Next_candidate
  <2>3. QED
    BY <2>1, <2>2 DEF Last, Front
<1>3. QED
  BY <1>1, <1>2

(* Looking at a candidate changes the counts only when it has to wait for    *)
(* children.                                                                 *)
LEMMA SearchIsExact ==
  ASSUME GraphAssumption, NodesTyped, TopTaken, RefCountExact, Search
  PROVE  NodesTyped' /\ RefCountExact' /\ current_top' \in Nodes
<1>1. CASE AlreadyHandled
  <2>1. Pop(Next_candidate) /\ UNCHANGED <<graph, waiting_parents, ref_count>>
    BY <1>1 DEF AlreadyHandled, Search, nodeVars
  <2>2. QED
    BY <2>1, PopFacts, SameCounts
<1>2. ASSUME NEW n \in Nodes, SkipFailed(n, options.random)
      PROVE  NodesTyped' /\ RefCountExact' /\ current_top' \in Nodes
  <2>1. Pop(n) /\ UNCHANGED <<graph, waiting_parents, ref_count>>
    BY <1>2 DEF SkipFailed, Examined, Considering, Search
  <2>2. QED
    BY <2>1, PopFacts, SameCounts
<1>3. ASSUME NEW n \in Nodes, WaitForSideEffects(n)
      PROVE  NodesTyped' /\ RefCountExact' /\ current_top' \in Nodes
  <2>1. Pop(n) /\ UNCHANGED <<graph, waiting_parents, ref_count>>
    BY <1>3 DEF WaitForSideEffects, Examined, Considering, Search
  <2>2. QED
    BY <2>1, PopFacts, SameCounts
<1>4. ASSUME NEW n \in Nodes, WaitForChildren(n, options.random)
      PROVE  NodesTyped' /\ RefCountExact' /\ current_top' \in Nodes
  <2>1. Pop(n) /\ UNCHANGED graph
    BY <1>4 DEF WaitForChildren, Examined, Considering, Search
  <2>2. WaitFor(n, NotReady(n)) /\ NotReady(n) \in SUBSET Nodes
    BY <1>4 DEF WaitForChildren, NotReady
  <2>3. /\ waiting_parents' \in [Nodes -> SUBSET Nodes]
        /\ ref_count' \in [Nodes -> Int]
        /\ RefCountExact'
    BY <2>2, WaitingIsExact
  <2>4. QED
    BY <2>1, <2>3, PopFacts DEF NodesTyped
<1>5. QED
  BY <1>1, <1>2, <1>3, <1>4 DEF Search

(* The end of a task leaves the counts exact, whether its targets were made, *)
(* failed, or failed and stopped the build, and leaves a task to be          *)
(* post-processed.                                                           *)
LEMMA do_failedIsExact ==
  ASSUME GraphAssumption, NodesTyped, RefCountExact, task \in Tasks,
         current_top \in Nodes, NEW status, do_failed(status), UNCHANGED graph
  PROVE  /\ NodesTyped' /\ RefCountExact'
         /\ task' \in Tasks /\ current_top' \in Nodes
<1>1. ASSUME executed_with_callbacks(task), UNCHANGED task
      PROVE  /\ NodesTyped' /\ RefCountExact'
             /\ task' \in Tasks /\ current_top' \in Nodes
  BY <1>1, SameCounts DEF executed_with_callbacks, tmVars, NodesTyped
<1>2. ASSUME fail_continue(task), UNCHANGED task
      PROVE  /\ NodesTyped' /\ RefCountExact'
             /\ task' \in Tasks /\ current_top' \in Nodes
  BY <1>2, WillNotBuildIsExact DEF fail_continue
<1>3. ASSUME fail_stop(task),
             task' = [task EXCEPT !.targets = <<current_top>>, !.top = TRUE]
      PROVE  /\ NodesTyped' /\ RefCountExact'
             /\ task' \in Tasks /\ current_top' \in Nodes
  <2>1. NodesTyped' /\ RefCountExact' /\ current_top' \in Nodes
    BY <1>3, WillNotBuildIsExact DEF fail_stop
  <2>2. <<current_top>> \in Seq(Nodes)
    OBVIOUS
  <2>3. task' \in Tasks
    BY <1>3, <2>2 DEF Tasks
  <2>4. QED
    BY <2>1, <2>3
<1>4. QED
  BY <1>1, <1>2, <1>3 DEF do_failed

(* Post-processing lets the parents of the targets, and of the side effects  *)
(* that were not visited meanwhile, go.                                      *)
LEMMA postprocessIsExact ==
  ASSUME GraphAssumption, NodesTyped, RefCountExact, task \in Tasks,
         postprocess(task), UNCHANGED graph
  PROVE  NodesTyped' /\ RefCountExact' /\ UNCHANGED current_top
<1> DEFINE targets == ToSet(task.targets)
           effects == UNION {ToSet(graph.effects[t]) : t \in targets}
           calm == [n \in Nodes |-> IF n \in effects /\ state[n] = executing
                                    THEN no_state ELSE state[n]]
           over == targets \cup {s \in effects : calm[s] = no_state}
<1>1. targets \in SUBSET Nodes
  BY DEF Tasks, ToSet
<1>2. effects \in SUBSET Nodes
  <2>1. \A t \in targets : ToSet(graph.effects[t]) \subseteq Nodes
    BY <1>1, GraphFacts DEF ToSet
  <2>2. QED
    BY <2>1
<1>3. over \in SUBSET Nodes
  BY <1>1, <1>2
<1>4. /\ waiting_parents' = [n \in Nodes |-> IF n \in over THEN {}
                                             ELSE waiting_parents[n]]
      /\ ref_count' = [p \in Nodes |->
           ref_count[p] - Cardinality({n \in over : p \in waiting_parents[n]})]
      /\ UNCHANGED <<top_targets_left, current_top>>
  BY DEF postprocess
<1> HIDE DEF over
<1>5. /\ waiting_parents' \in [Nodes -> SUBSET Nodes]
      /\ ref_count' \in [Nodes -> Int]
      /\ RefCountExact'
  BY <1>3, <1>4, LeavingIsExact
<1>6. QED
  BY <1>4, <1>5 DEF NodesTyped

-----------------------------------------------------------------------------
(* The steps of the build. *)

(* The invariant holds when the walk starts. *)
LEMMA InitIInv ==
  ASSUME GraphAssumption, Init
  PROVE  IInv
<1>1. /\ graph \in Graphs
      /\ waiting_parents = [n \in Nodes |-> {}]
      /\ ref_count = [n \in Nodes |-> 0]
      /\ candidates = <<>>
      /\ top_targets_left = Reverse(graph.tops)
  BY DEF Init, TaskmasterInit, NodeInit
<1>2. top_targets_left \in Seq(Nodes)
  <2>1. graph.tops \in Seq(Nodes)
    BY <1>1 DEF GraphAssumption
  <2>2. QED
    BY <1>1, <2>1 DEF Reverse
<1>3. NodesTyped
  BY <1>1, <1>2 DEF NodesTyped
<1>4. RefCountExact
  <2>1. \A p \in Nodes : {n \in Nodes : p \in waiting_parents[n]} = {}
    BY <1>1
  <2>2. Cardinality({}) = 0
    BY FS_EmptySet
  <2>3. QED
    BY <1>1, <2>1, <2>2 DEF RefCountExact
<1>5. Sentinel \in Tasks
  BY DEF Sentinel, Tasks
<1>6. TasksTyped
  <2>1. worker \in [Workers -> {Idle, Gone}]
    BY DEF Init
  <2>2. worker \in [Workers -> [task : Tasks, skip : BOOLEAN] \cup {Idle, Gone}]
    BY <2>1
  <2>3. \A S : <<>> \in Seq(S)
    OBVIOUS
  <2>4. QED
    BY <1>5, <2>2, <2>3 DEF Init, TasksTyped, NoTask
<1>7. TopTaken
  BY <1>1 DEF Init, TopTaken, NothingHandedOut
<1>8. QED
  BY <1>3, <1>4, <1>6, <1>7 DEF IInv

(* What is in the queues and with the workers when they are left alone. *)
LEMMA SameTasks ==
  ASSUME TasksTyped, UNCHANGED <<requestQueue, resultsQueue, worker>>,
         task' \in Tasks, interrupted' \in BOOLEAN
  PROVE  TasksTyped'
BY DEF TasksTyped

(* IInv is kept by Search. *)
LEMMA SearchIInv ==
  ASSUME GraphAssumption, IInv, Search
  PROVE  IInv'
<1>1. NodesTyped' /\ RefCountExact' /\ current_top' \in Nodes
  BY SearchIsExact DEF IInv
<1>2. TasksTyped'
  BY SameTasks DEF Search, jobVars, IInv, TasksTyped
<1>3. QED
  BY <1>1, <1>2 DEF IInv, TopTaken

(* IInv is kept by Next_task. *)
LEMMA Next_taskIInv ==
  ASSUME GraphAssumption, IInv, Next_task
  PROVE  IInv'
<1>1. PICK n \in Nodes : /\ HandOut(n, options.mode = "clean")
                         /\ task' = Task(n, ChildrenUnknown(n))
  BY DEF Next_task
<1>2. Pop(n) /\ UNCHANGED <<graph, waiting_parents, ref_count>>
  BY <1>1 DEF HandOut, Considering, Next_task
<1>3. NodesTyped' /\ RefCountExact' /\ current_top' \in Nodes
  BY <1>2, PopFacts, SameCounts DEF IInv
<1>4. ChildrenUnknown(n) \in BOOLEAN
  BY DEF ChildrenUnknown
<1>5. task' \in Tasks
  BY <1>1, <1>4, GraphFacts DEF IInv
<1>6. TasksTyped'
  BY <1>5, SameTasks DEF Next_task, IInv, TasksTyped
<1>7. QED
  BY <1>3, <1>6 DEF IInv, TopTaken

(* IInv is kept by NoMoreTasks. *)
LEMMA NoMoreTasksIInv ==
  ASSUME GraphAssumption, IInv, NoMoreTasks
  PROVE  IInv'
<1>1. CASE GiveUpCandidates
  <2>1. NodesTyped' /\ RefCountExact'
    BY <1>1, WillNotBuildIsExact DEF GiveUpCandidates, NoMoreTasks, IInv
  <2>2. TopTaken'
    BY <1>1 DEF GiveUpCandidates, NoMoreTasks, IInv, TopTaken, NothingHandedOut
  <2>3. TasksTyped'
    BY SameTasks DEF NoMoreTasks, IInv, TasksTyped
  <2>4. QED
    BY <2>1, <2>2, <2>3 DEF IInv
<1>2. CASE UNCHANGED <<nodeVars, tmVars>>
  <2>1. NodesTyped' /\ RefCountExact'
    BY <1>2, SameCounts DEF nodeVars, tmVars, NoMoreTasks, IInv, NodesTyped
  <2>2. TopTaken'
    BY <1>2 DEF tmVars, NoMoreTasks, IInv, TopTaken, NothingHandedOut
  <2>3. TasksTyped'
    BY SameTasks DEF NoMoreTasks, IInv, TasksTyped
  <2>4. QED
    BY <2>1, <2>2, <2>3 DEF IInv
<1>3. QED
  BY <1>1, <1>2 DEF NoMoreTasks

(* A step that hands no task out, takes none and leaves the nodes and the    *)
(* tasks alone: IInv is kept.                                                *)
LEMMA AsideIInv ==
  ASSUME IInv,
         UNCHANGED <<graph, waiting_parents, ref_count, candidates, top_targets_left,
                     current_top, task, requestQueue, resultsQueue, worker>>,
         interrupted' \in BOOLEAN,
         \/ current_top \in Nodes
         \/ pc' \in {"find", "collect", "join", "cleanup", "postfunc", "exited"}
  PROVE  IInv'
<1>1. NodesTyped' /\ RefCountExact'
  BY SameCounts DEF IInv, NodesTyped
<1>2. TasksTyped'
  BY SameTasks DEF IInv, TasksTyped
<1>3. TopTaken'
  BY DEF IInv, TopTaken, NothingHandedOut
<1>4. QED
  BY <1>1, <1>2, <1>3 DEF IInv

(* While a task is in hand there is a current target. *)
LEMMA InHand ==
  ASSUME IInv,
         \/ pc \in {"prepare", "put", "execute", "executed", "failed", "postprocess"}
         \/ resultsQueue # <<>>
  PROVE  current_top \in Nodes
BY DEF IInv, TopTaken, NothingHandedOut

(* IInv is kept by Prepare, Execute, Cleanup, Postfunc and Interrupt. *)
LEMMA MainAsideIInv ==
  ASSUME IInv, Prepare \/ Execute \/ Cleanup \/ Postfunc \/ Interrupt
  PROVE  IInv'
<1>1. UNCHANGED <<graph, waiting_parents, ref_count, candidates, top_targets_left,
                  current_top, task, requestQueue, resultsQueue, worker>>
  BY DEF Prepare, Execute, Cleanup, Postfunc, Interrupt, nodeVars, tmVars
<1>2. \/ current_top \in Nodes
      \/ pc' \in {"find", "collect", "join", "cleanup", "postfunc", "exited"}
  BY InHand DEF Prepare, Execute, Cleanup, Postfunc, Interrupt, IInv, TopTaken,
                NothingHandedOut
<1>3. interrupted' \in BOOLEAN
  BY DEF Prepare, Execute, Cleanup, Postfunc, Interrupt, IInv, TasksTyped
<1>4. QED
  BY <1>1, <1>2, <1>3, AsideIInv

(* IInv is kept by Put. *)
LEMMA PutIInv ==
  ASSUME IInv, Put
  PROVE  IInv'
<1>1. current_top \in Nodes /\ UNCHANGED current_top
  BY InHand DEF Put, tmVars
<1>2. NodesTyped' /\ RefCountExact'
  BY SameCounts DEF Put, nodeVars, tmVars, IInv, NodesTyped
<1>3. TasksTyped'
  BY DEF Put, IInv, TasksTyped
<1>4. QED
  BY <1>1, <1>2, <1>3 DEF IInv, TopTaken

(* IInv is kept by Collect. *)
LEMMA CollectIInv ==
  ASSUME IInv, Collect
  PROVE  IInv'
<1>1. current_top \in Nodes /\ UNCHANGED current_top
  BY InHand DEF Collect, tmVars
<1>2. NodesTyped' /\ RefCountExact'
  BY SameCounts DEF Collect, nodeVars, tmVars, IInv, NodesTyped
<1>3. TasksTyped'
  <2> DEFINE Results == [task : Tasks, ok : BOOLEAN]
  <2>1. resultsQueue \in Seq(Results) /\ resultsQueue # <<>>
    BY DEF Collect, IInv, TasksTyped
  <2> HIDE DEF Results
  <2>2. Head(resultsQueue) \in Results /\ Tail(resultsQueue) \in Seq(Results)
    BY <2>1
  <2> USE DEF Results
  <2>3. QED
    BY <2>2 DEF Collect, IInv, TasksTyped
<1>4. QED
  BY <1>1, <1>2, <1>3 DEF IInv, TopTaken

(* IInv is kept by Executed and by Failed. *)
LEMMA EndOfTaskIInv ==
  ASSUME GraphAssumption, IInv, Executed \/ Failed
  PROVE  IInv'
<1>1. current_top \in Nodes
  BY InHand DEF Executed, Failed
<1>2. /\ task \in Tasks /\ interrupted' \in BOOLEAN
      /\ UNCHANGED <<graph, requestQueue, resultsQueue, worker>>
  BY DEF IInv, TasksTyped, Executed, Failed
<1>3. CASE \E status : do_failed(status)
  <2>1. /\ NodesTyped' /\ RefCountExact'
        /\ task' \in Tasks /\ current_top' \in Nodes
    BY <1>1, <1>2, <1>3, do_failedIsExact DEF IInv
  <2>2. QED
    BY <1>2, <2>1, SameTasks DEF IInv, TopTaken
<1>4. CASE /\ UNCHANGED task
           /\ UNCHANGED <<waiting_parents, ref_count, top_targets_left, current_top>>
  <2>1. NodesTyped' /\ RefCountExact'
    BY <1>2, <1>4, SameCounts DEF IInv, NodesTyped
  <2>2. QED
    BY <1>1, <1>2, <1>4, <2>1, SameTasks DEF IInv, TopTaken
<1>5. \/ \E status : do_failed(status)
      \/ /\ UNCHANGED task
         /\ UNCHANGED <<waiting_parents, ref_count, top_targets_left, current_top>>
  BY DEF Executed, Failed, executed_with_callbacks, executed_without_callbacks,
         nodeVars, tmVars
<1>6. QED
  BY <1>3, <1>4, <1>5

(* IInv is kept by Postprocess. *)
LEMMA PostprocessIInv ==
  ASSUME GraphAssumption, IInv, Postprocess
  PROVE  IInv'
<1>1. current_top \in Nodes
  BY InHand DEF Postprocess
<1>2. NodesTyped' /\ RefCountExact' /\ UNCHANGED current_top
  BY postprocessIsExact DEF Postprocess, IInv, TasksTyped
<1>3. TasksTyped'
  BY SameTasks DEF Postprocess, IInv, TasksTyped
<1>4. QED
  BY <1>1, <1>2, <1>3 DEF IInv, TopTaken

(* The sentinel is a task of no target, and queues of tasks may be put       *)
(* together.                                                                 *)
LEMMA SentinelTyped == Sentinel \in Tasks
BY DEF Sentinel, Tasks

(* A sequence over a set is one over every larger set. *)
LEMMA WiderSeq ==
  ASSUME NEW S, NEW T, NEW s \in Seq(S), S \subseteq T
  PROVE  s \in Seq(T)
OBVIOUS

(* So is the concatenation of two sequences over a set. *)
LEMMA ConcatSeq ==
  ASSUME NEW S, NEW s \in Seq(S), NEW t \in Seq(S)
  PROVE  s \o t \in Seq(S)
OBVIOUS

(* IInv is kept by Join. *)
LEMMA JoinIInv ==
  ASSUME WorkersAssumption, IInv, Join
  PROVE  IInv'
<1> DEFINE sentinels == [i \in 1 .. Cardinality(Workers) |-> Sentinel]
<1>1. requestQueue' = requestQueue \o sentinels
  BY DEF Join
<1>2. sentinels \in Seq({Sentinel})
  <2>1. Cardinality(Workers) \in Nat
    BY FS_CardinalityType DEF WorkersAssumption
  <2>2. QED
    BY <2>1
<1>3. sentinels \in Seq(Tasks)
  BY <1>2, SentinelTyped, WiderSeq
<1> HIDE DEF sentinels
<1>4. NodesTyped' /\ RefCountExact'
  BY SameCounts DEF Join, nodeVars, tmVars, IInv, NodesTyped
<1>5. TasksTyped'
  <2>1. requestQueue' \in Seq(Tasks)
    BY <1>1, <1>3, ConcatSeq DEF IInv, TasksTyped
  <2>2. QED
    BY <2>1 DEF Join, IInv, TasksTyped
<1>6. TopTaken'
  <2>1. NothingHandedOut => requestQueue' \in Seq({Sentinel})
    BY <1>1, <1>2, ConcatSeq DEF NothingHandedOut
  <2>2. QED
    BY <2>1 DEF Join, tmVars, IInv, TopTaken, NothingHandedOut
<1>7. QED
  BY <1>4, <1>5, <1>6 DEF IInv

(* IInv is kept by Get: a worker that has been sent a task before there is a *)
(* current target has been sent a sentinel.                                  *)
LEMMA GetIInv ==
  ASSUME IInv, NEW w \in Workers, Get(w)
  PROVE  IInv'
<1>1. NodesTyped' /\ RefCountExact'
  BY SameCounts DEF Get, nodeVars, tmVars, IInv, NodesTyped
<1>2. requestQueue \in Seq(Tasks) /\ requestQueue # <<>>
  BY DEF Get, IInv, TasksTyped
<1>3. /\ Head(requestQueue) \in Tasks /\ Tail(requestQueue) \in Seq(Tasks)
      /\ interrupted \in BOOLEAN
  BY <1>2 DEF IInv, TasksTyped
<1>4. worker' \in [Workers -> [task : Tasks, skip : BOOLEAN] \cup {Idle, Gone}]
  <2>1. CASE Head(requestQueue) = Sentinel
    BY <2>1 DEF Get, IInv, TasksTyped
  <2>2. CASE Head(requestQueue) # Sentinel
    <3>1. [task |-> Head(requestQueue), skip |-> interrupted]
            \in [task : Tasks, skip : BOOLEAN]
      BY <1>3
    <3>2. QED
      BY <2>2, <3>1 DEF Get, IInv, TasksTyped
  <2>3. QED
    BY <2>1, <2>2
<1>5. TasksTyped'
  BY <1>3, <1>4 DEF Get, IInv, TasksTyped
<1>6. TopTaken'
  <2>1. CASE current_top \in Nodes
    BY <2>1 DEF Get, tmVars, TopTaken
  <2>2. CASE NothingHandedOut
    <3>1. requestQueue \in Seq({Sentinel})
      BY <2>2 DEF NothingHandedOut
    <3>2. Head(requestQueue) = Sentinel /\ Tail(requestQueue) \in Seq({Sentinel})
      BY <1>2, <3>1
    <3>3. QED
      BY <2>2, <3>2 DEF Get, tmVars, TopTaken, NothingHandedOut
  <2>3. QED
    BY <2>1, <2>2 DEF IInv, TopTaken
<1>7. QED
  BY <1>1, <1>5, <1>6 DEF IInv

(* IInv is kept by Finish: the result of a worker is that of the task it had. *)
LEMMA FinishIInv ==
  ASSUME IInv, NEW w \in Workers, Finish(w)
  PROVE  IInv'
<1>1. NodesTyped' /\ RefCountExact'
  BY SameCounts DEF Finish, nodeVars, IInv, NodesTyped
<1>2. worker[w] \in [task : Tasks, skip : BOOLEAN]
  BY DEF Finish, IInv, TasksTyped
<1>3. current_top \in Nodes /\ UNCHANGED current_top
  BY DEF Finish, IInv, TopTaken, NothingHandedOut
<1>4. TasksTyped'
  <2> DEFINE Results == [task : Tasks, ok : BOOLEAN]
             result == [task |-> worker[w].task,
                        ok |-> ~worker[w].skip /\ ~ExecuteFails(worker[w].task)]
  <2>1. result \in Results
    BY <1>2
  <2>2. resultsQueue' = Append(resultsQueue, result) /\ resultsQueue \in Seq(Results)
    BY DEF Finish, IInv, TasksTyped
  <2> HIDE DEF Results, result
  <2>3. resultsQueue' \in Seq(Results)
    BY <2>1, <2>2
  <2> USE DEF Results
  <2>4. QED
    BY <2>3 DEF Finish, IInv, TasksTyped
<1>5. QED
  BY <1>1, <1>3, <1>4 DEF IInv, TopTaken

-----------------------------------------------------------------------------
(* IInv is an invariant of the build. *)
THEOREM Inductive == Spec => []IInv
<1> USE GraphAssumption, WorkersAssumption
<1>1. Init => IInv
  BY InitIInv
<1>2. IInv /\ [Next]_vars => IInv'
  <2> SUFFICES ASSUME IInv, [Next]_vars
               PROVE  IInv'
    OBVIOUS
  <2>1. CASE UNCHANGED vars
    BY <2>1, AsideIInv
    DEF vars, nodeVars, tmVars, jobVars, IInv, TasksTyped, TopTaken,
        NothingHandedOut
  <2>2. CASE Main
    <3>1. \/ Search \/ Next_task \/ NoMoreTasks \/ Put \/ Collect \/ Postprocess \/ Join
          \/ Executed \/ Failed
          \/ Prepare \/ Execute \/ Cleanup \/ Postfunc
      BY <2>2 DEF Main
    <3>2. QED
      BY <3>1, SearchIInv, Next_taskIInv, NoMoreTasksIInv, PutIInv, CollectIInv,
         PostprocessIInv, JoinIInv, EndOfTaskIInv, MainAsideIInv
  <2>3. CASE Interrupt
    BY <2>3, MainAsideIInv
  <2>4. CASE Terminated
    BY <2>1, <2>4 DEF Terminated
  <2>5. ASSUME NEW w \in pool, Get(w) \/ Finish(w)
        PROVE  IInv'
    <3>1. w \in Workers
      BY DEF pool
    <3>2. QED
      BY <2>5, <3>1, GetIInv, FinishIInv
  <2>6. QED
    BY <2>1, <2>2, <2>3, <2>4, <2>5 DEF Next
<1>3. QED
  BY <1>1, <1>2, PTL DEF Spec

(* However a build goes - with commands that fail, -k, -i, a signal - the    *)
(* reference count of a node is the number of nodes it waits for.            *)
THEOREM RefCountExactCorrect == Spec => []RefCountExact
<1>1. IInv => RefCountExact
  BY DEF IInv
<1>2. QED
  BY <1>1, Inductive, PTL

-----------------------------------------------------------------------------
(* The walk loses no node.                                                   *)
(*                                                                           *)
(* WalkSound alone is not inductive.  That the parents of a node which is    *)
(* over are found again needs the stack, the waiting parents and the side    *)
(* effects together (PendingKept), between the end of a task and its         *)
(* post-processing as well; that a side effect which somebody waits for is   *)
(* released by the task it is a side effect of, and is not a task of its own *)
(* by then, needs the children of every task to be done (TasksUnderWay) and  *)
(* the targets of an executor to leave the walk together (PeersAgree).  Once *)
(* something fails none of this is promised: a failure is for good.          *)

(* The fields of the nodes that the walk works on. *)
WalkTyped ==
  /\ state \in [Nodes -> no_state .. failed]
  /\ waiting_s_e \in [Nodes -> SUBSET Nodes]
  /\ implicit \in [Nodes -> Seq(Nodes) \cup {Unscanned}]
  /\ candidates \in Seq(Nodes)
  /\ pending_children \subseteq Nodes

(* A worker leaves a task aside only after a signal, which stops the walk. *)
SkipsWhenStopped ==
  /\ interrupted => stopped
  /\ \A w \in Workers : worker[w] \notin {Idle, Gone} /\ worker[w].skip => stopped

Walking == pc \in {"find", "prepare", "put", "execute", "collect", "executed",
                   "failed", "postprocess"}

(* A failure that no later step takes back: every target of an executor has  *)
(* failed, and none of them is a side effect.                                *)
FailedForGood ==
  \E t \in Nodes : \A n \in ToSet(graph.peers[t]) :
    state[n] = failed /\ ~side_effect(n)

(* The targets of an executor leave the walk together. *)
PeersAgree ==
  \A n \in Nodes : \A m \in ToSet(graph.peers[n]) :
    state[n] > pending => state[m] = state[n]

Done(n) == state[n] \in {up_to_date, executed}

(* A task under way: a side effect is a task of its own only when what it is *)
(* a side effect of is done.                                                 *)
UnderWay(t) ==
  /\ t.node \in Nodes
  /\ t.targets = graph.peers[t.node]
  /\ \A u \in Nodes : u \in graph.built /\ t.node \in ToSet(graph.effects[u]) => Done(u)

TasksUnderWay ==
  /\ pc \notin {"find", "collect"} => UnderWay(task)
  /\ \A i \in DOMAIN requestQueue : UnderWay(requestQueue[i])
  /\ \A w \in Workers : worker[w] \notin {Idle, Gone} => UnderWay(worker[w].task)
  /\ \A i \in DOMAIN resultsQueue : UnderWay(resultsQueue[i].task)

(* Only what has a builder can fail before its file is looked for, and only  *)
(* what is executing is executed.                                            *)
FailuresBuilt ==
  /\ pc = "prepare" /\ task.exc => has_builder(task.node)
  /\ pc = "failed" => has_builder(task.node)
  /\ \A i \in DOMAIN resultsQueue :
       resultsQueue[i].ok \/ has_builder(resultsQueue[i].task.node)
  /\ pc = "put" /\ building => \A n \in ToSet(task.targets) : state[n] = executing

SideEffectsWaited ==
  \A s \in Nodes : \A n \in waiting_s_e[s] :
    n \in graph.built /\ \E u \in ToSet(graph.peers[n]) : s \in ToSet(graph.effects[u])

Effects(t) == UNION {ToSet(graph.effects[n]) : n \in ToSet(t.targets)}

(* A pending node is on the stack, waits for a child, or waits for a side    *)
(* effect of a task that is not post-processed yet.                          *)
PendingKept ==
  \A n \in Nodes : state[n] = pending =>
    \/ n \in ToSet(candidates)
    \/ \E c \in Nodes : n \in waiting_parents[c]
    \/ \E s \in Nodes : /\ n \in waiting_s_e[s]
                        /\ \/ state[s] = executing
                           \/ pc = "postprocess" /\ s \in Effects(task)

(* Of a build, a suspect of a cycle is waited for and unfinished, or the task *)
(* in hand is about to let its parents go.                                    *)
SuspectsKept ==
  building => \A n \in pending_children :
    /\ waiting_parents[n] # {}
    /\ \/ state[n] \in {pending, executing}
       \/ pc \notin {"find", "put", "collect"} /\ n \in ToSet(task.targets)
       \/ pc = "postprocess" /\ n \in Effects(task) /\ state[n] = no_state

(* Nothing has failed so far.                                                *)
NoneFailed == \A n \in Nodes : state[n] # failed

(* What holds of the walk until something fails.                             *)
Unharmed == /\ NoneFailed /\ PeersAgree /\ TasksUnderWay /\ FailuresBuilt
            /\ SideEffectsWaited /\ PendingKept /\ SuspectsKept

(* The inductive invariant: while the walk goes on it was stopped, or        *)
(* something has failed for good, or nothing is lost.                        *)
WInv == WalkTyped /\ SkipsWhenStopped
        /\ (Walking => stopped \/ FailedForGood \/ Unharmed)

-----------------------------------------------------------------------------
(* The lists of nodes.  They are functions defined by recursion over the     *)
(* places of a list.                                                         *)

(* A set of naturals that is not empty has a least one.                      *)
LEMMA NatMin ==
  ASSUME NEW T \in SUBSET Nat, T # {}
  PROVE  \E x \in T : \A y \in T : x <= y
<1>1. PICK x \in T : \A y \in T : <<y, x>> \notin OpToRel(<, Nat)
  BY WFMin, NatLessThanWellFounded
<1>2. \A y \in T : ~(y < x)
  BY <1>1 DEF OpToRel
<1>3. QED
  BY <1>2

(* What holds for 0, and for i if it does for i - 1, holds for every i. *)
LEMMA UpwardsTo ==
  ASSUME NEW n \in Nat, NEW T \in SUBSET (0 .. n), 0 \in T,
         \A i \in 1 .. n : i - 1 \in T => i \in T
  PROVE  T = 0 .. n
<1> DEFINE L == (0 .. n) \ T
<1> SUFFICES ASSUME L # {} PROVE FALSE
  OBVIOUS
<1>1. L \in SUBSET Nat
  OBVIOUS
<1> HIDE DEF L
<1>2. PICK i \in L : \A j \in L : i <= j
  BY <1>1, NatMin
<1> USE DEF L
<1>3. i \in 1 .. n
  BY <1>2
<1>4. i - 1 \in T
  BY <1>2, <1>3
<1>5. QED
  BY <1>2, <1>3, <1>4

(* A function defined by recursion up to n: it exists if each step stays in  *)
(* the set.                                                                  *)
Steps(S, n) == [1 .. n -> [S -> S]]
Chains(S, n, a, F) ==
  {g \in [0 .. n -> S] : g[0] = a /\ \A i \in 1 .. n : g[i] = F[i][g[i - 1]]}

(* A function defined by recursion over 0 .. n exists: it is built up from   *)
(* 0, and the least place it could not reach does not exist.                 *)
LEMMA RecursionExists ==
  ASSUME NEW S, NEW a \in S, NEW n \in Nat, NEW F \in Steps(S, n)
  PROVE  \E g : g \in Chains(S, n, a, F)
<1> DEFINE T == {k \in 0 .. n : \E g : g \in Chains(S, k, a, F)}
<1>0. \A i \in 1 .. n, x \in S : F[i][x] \in S
  BY DEF Steps
<1>1. 0 \in T
  <2> DEFINE g == [i \in 0 .. 0 |-> a]
  <2>1. g \in Chains(S, 0, a, F)
    BY DEF Chains
  <2>2. QED
    BY <2>1
<1>2. ASSUME NEW k \in 1 .. n, k - 1 \in T
      PROVE  k \in T
  <2>1. PICK g \in [0 .. k - 1 -> S] :
          g[0] = a /\ \A i \in 1 .. k - 1 : g[i] = F[i][g[i - 1]]
    BY <1>2 DEF Chains
  <2> DEFINE h == [i \in 0 .. k |-> IF i = k THEN F[k][g[k - 1]] ELSE g[i]]
  <2>2. F[k][g[k - 1]] \in S
    BY <1>0, <2>1
  <2>3. h \in [0 .. k -> S]
    BY <2>2
  <2>4. h[0] = a
    BY <2>1
  <2>5. ASSUME NEW i \in 1 .. k
        PROVE  h[i] = F[i][h[i - 1]]
    <3>1. CASE i = k
      BY <3>1
    <3>2. CASE i # k
      BY <2>1, <3>2
    <3>3. QED
      BY <3>1, <3>2
  <2> HIDE DEF h
  <2>6. h \in Chains(S, k, a, F)
    BY <2>3, <2>4, <2>5 DEF Chains
  <2>7. k \in 0 .. n
    OBVIOUS
  <2>8. QED
    BY <2>6, <2>7
<1>3. T = 0 .. n
  <2>1. T \in SUBSET (0 .. n)
    OBVIOUS
  <2> HIDE DEF T
  <2>2. QED
    BY <1>1, <1>2, <2>1, UpwardsTo
<1>4. n \in T
  <2> HIDE DEF T
  <2>1. QED
    BY <1>3
<1>5. QED
  BY <1>4

(* The elements of a list that grows. *)
LEMMA AppendElements ==
  ASSUME NEW S, NEW q \in Seq(S), NEW x \in S
  PROVE  Append(q, x) \in Seq(S) /\ ToSet(Append(q, x)) = ToSet(q) \cup {x}
<1>1. /\ Append(q, x) \in Seq(S) /\ DOMAIN Append(q, x) = 1 .. Len(q) + 1
      /\ DOMAIN q = 1 .. Len(q) /\ Len(q) \in Nat
      /\ \A i \in 1 .. Len(q) : Append(q, x)[i] = q[i]
      /\ Append(q, x)[Len(q) + 1] = x
  OBVIOUS
<1>2. QED
  BY <1>1 DEF ToSet

(* The elements of two lists put together.                                   *)
LEMMA ConcatElements ==
  ASSUME NEW S, NEW q \in Seq(S), NEW r \in Seq(S)
  PROVE  q \o r \in Seq(S) /\ ToSet(q \o r) = ToSet(q) \cup ToSet(r)
<1>1. /\ q \o r \in Seq(S) /\ DOMAIN (q \o r) = 1 .. Len(q) + Len(r)
      /\ DOMAIN q = 1 .. Len(q) /\ DOMAIN r = 1 .. Len(r)
      /\ Len(q) \in Nat /\ Len(r) \in Nat
      /\ \A i \in 1 .. Len(q) + Len(r) :
           (q \o r)[i] = IF i <= Len(q) THEN q[i] ELSE r[i - Len(q)]
  OBVIOUS
<1> DEFINE t == q \o r
<1>2. ASSUME NEW i \in DOMAIN t
      PROVE  t[i] \in ToSet(q) \cup ToSet(r)
  <2>1. CASE i <= Len(q)
    BY <1>1, <2>1 DEF ToSet
  <2>2. CASE i > Len(q)
    <3>1. i - Len(q) \in DOMAIN r /\ t[i] = r[i - Len(q)]
      BY <1>1, <2>2
    <3>2. QED
      BY <3>1 DEF ToSet
  <2>3. QED
    BY <1>1, <2>1, <2>2
<1>3. ASSUME NEW i \in DOMAIN q
      PROVE  q[i] \in ToSet(t)
  <2>1. i \in DOMAIN t /\ t[i] = q[i]
    BY <1>1
  <2>2. QED
    BY <2>1 DEF ToSet
<1>4. ASSUME NEW i \in DOMAIN r
      PROVE  r[i] \in ToSet(t)
  <2>1. i + Len(q) \in DOMAIN t /\ t[i + Len(q)] = r[i]
    BY <1>1
  <2>2. QED
    BY <2>1 DEF ToSet
<1> HIDE DEF t
<1>5. ToSet(t) = ToSet(q) \cup ToSet(r)
  BY <1>2, <1>3, <1>4 DEF ToSet
<1>6. QED
  BY <1>1, <1>5 DEF t

(* The chosen places of a list: a list of the elements at these places. *)
LEMMA SelectedList ==
  ASSUME NEW S, NEW s \in Seq(S), NEW places \in SUBSET DOMAIN s
  PROVE  /\ Selected(s, places) \in Seq(S)
         /\ ToSet(Selected(s, places)) = {s[i] : i \in places}
<1> DEFINE n == Len(s)
           step[i \in 1 .. n] == [q \in Seq(S) |-> IF i \in places THEN Append(q, s[i]) ELSE q]
           Step(f) == [i \in 0 .. n |->
                         IF i = 0 THEN <<>>
                         ELSE IF i \in places THEN Append(f[i - 1], s[i]) ELSE f[i - 1]]
           upTo == CHOOSE f : f = Step(f)
<1>0. n \in Nat /\ DOMAIN s = 1 .. n /\ \A i \in 1 .. n : s[i] \in S
  OBVIOUS
<1>1. Selected(s, places) = upTo[n]
  BY DEF Selected
<1> HIDE DEF n
<1>2. upTo = Step(upTo)
  <2>1. /\ step \in [1 .. n -> [Seq(S) -> Seq(S)]]
        /\ \A i \in 1 .. n, q \in Seq(S) :
             step[i][q] = IF i \in places THEN Append(q, s[i]) ELSE q
    <3>1. \A i \in 1 .. n, q \in Seq(S) : Append(q, s[i]) \in Seq(S)
      BY <1>0
    <3>2. QED
      BY <3>1
  <2>2. <<>> \in Seq(S)
    OBVIOUS
  <2> HIDE DEF step
  <2>3. PICK g \in [0 .. n -> Seq(S)] :
          g[0] = <<>> /\ \A i \in 1 .. n : g[i] = step[i][g[i - 1]]
    <3> DEFINE Q == Seq(S)
               none == <<>>
    <3>1. step \in Steps(Q, n) /\ none \in Q
      BY <2>1, <2>2 DEF Steps
    <3> HIDE DEF Q, none
    <3>2. PICK g : g \in Chains(Q, n, none, step)
      BY <1>0, <3>1, RecursionExists
    <3>3. QED
      BY <3>2 DEF Q, none, Chains
  <2>4. ASSUME NEW i \in 0 .. n
        PROVE  g[i] = Step(g)[i]
    <3>1. CASE i = 0
      BY <2>3, <3>1
    <3>2. CASE i # 0
      <4>1. i \in 1 .. n /\ i - 1 \in 0 .. n
        BY <3>2, <1>0
      <4>2. g[i - 1] \in Seq(S)
        BY <4>1
      <4>3. QED
        BY <2>1, <2>3, <3>2, <4>1, <4>2
    <3>3. QED
      BY <3>1, <3>2
  <2>5. g = Step(g)
    BY <2>4
  <2> HIDE DEF Step
  <2>6. QED
    BY <2>5
<1> HIDE DEF upTo
<1>3. ASSUME NEW i \in 0 .. n
      PROVE  upTo[i] = IF i = 0 THEN <<>>
                       ELSE IF i \in places THEN Append(upTo[i - 1], s[i]) ELSE upTo[i - 1]
  <2>1. Step(upTo)[i] = IF i = 0 THEN <<>>
                        ELSE IF i \in places THEN Append(upTo[i - 1], s[i]) ELSE upTo[i - 1]
    OBVIOUS
  <2> HIDE DEF Step
  <2>2. QED
    BY <1>2, <2>1
<1> DEFINE T == {k \in 0 .. n : /\ upTo[k] \in Seq(S)
                                /\ ToSet(upTo[k]) = {s[i] : i \in places \cap (1 .. k)}}
<1>4. 0 \in T
  <2>1. upTo[0] = <<>> /\ 0 \in 0 .. n
    BY <1>0, <1>3
  <2>2. ToSet(<<>>) = {} /\ <<>> \in Seq(S)
    BY DEF ToSet
  <2>3. {s[i] : i \in places \cap (1 .. 0)} = {}
    OBVIOUS
  <2>4. QED
    BY <2>1, <2>2, <2>3
<1>5. ASSUME NEW k \in 1 .. n, k - 1 \in T
      PROVE  k \in T
  <2>1. upTo[k - 1] \in Seq(S) /\ ToSet(upTo[k - 1]) = {s[i] : i \in places \cap (1 .. k - 1)}
    BY <1>5
  <2>2. CASE k \in places
    <3>1. upTo[k] = Append(upTo[k - 1], s[k])
      <4>1. k \in 0 .. n /\ k # 0
        BY <1>0
      <4> HIDE DEF T
      <4>2. QED
        BY ONLY <1>3, <2>2, <4>1
    <3>2. upTo[k] \in Seq(S) /\ ToSet(upTo[k]) = ToSet(upTo[k - 1]) \cup {s[k]}
      BY <1>0, <2>1, <3>1, AppendElements
    <3>3. places \cap (1 .. k) = (places \cap (1 .. k - 1)) \cup {k}
      BY <1>0, <2>2
    <3>4. QED
      BY <1>0, <2>1, <3>2, <3>3
  <2>3. CASE k \notin places
    <3>1. upTo[k] = upTo[k - 1]
      BY <1>0, <1>3, <2>3
    <3>2. places \cap (1 .. k) = places \cap (1 .. k - 1)
      BY <1>0, <2>3
    <3>3. QED
      BY <1>0, <2>1, <3>1, <3>2
  <2>4. QED
    BY <2>2, <2>3
<1>6. T = 0 .. n
  <2>1. T \in SUBSET (0 .. n)
    OBVIOUS
  <2> HIDE DEF T
  <2>2. QED
    BY <1>0, <1>4, <1>5, <2>1, UpwardsTo
<1>7. n \in T
  <2> HIDE DEF T
  <2>1. QED
    BY <1>0, <1>6
<1>8. places \cap (1 .. n) = places
  BY <1>0
<1>9. QED
  BY <1>1, <1>7, <1>8

(* The concatenation of the lists of some elements: a list that has all of   *)
(* theirs.                                                                   *)
LEMMA ConcatList ==
  ASSUME NEW S, NEW X, NEW s \in Seq(X), NEW f, \A x \in X : f[x] \in Seq(S)
  PROVE  /\ Concat(f, s) \in Seq(S)
         /\ \A x \in ToSet(s) : ToSet(f[x]) \subseteq ToSet(Concat(f, s))
<1> DEFINE n == Len(s)
           step[i \in 1 .. n] == [q \in Seq(S) |-> q \o f[s[i]]]
           Step(g) == [i \in 0 .. n |-> IF i = 0 THEN <<>> ELSE g[i - 1] \o f[s[i]]]
           upTo == CHOOSE g : g = Step(g)
<1>0. n \in Nat /\ DOMAIN s = 1 .. n /\ \A i \in 1 .. n : f[s[i]] \in Seq(S)
  OBVIOUS
<1>1. Concat(f, s) = upTo[n]
  BY DEF Concat
<1> HIDE DEF n
<1>2. upTo = Step(upTo)
  <2>1. /\ step \in Steps(Seq(S), n)
        /\ \A i \in 1 .. n, q \in Seq(S) : step[i][q] = q \o f[s[i]]
    <3>1. \A i \in 1 .. n, q \in Seq(S) : q \o f[s[i]] \in Seq(S)
      BY <1>0, ConcatElements
    <3>2. QED
      BY <3>1 DEF Steps
  <2>2. <<>> \in Seq(S)
    OBVIOUS
  <2> HIDE DEF step
  <2>3. PICK g \in [0 .. n -> Seq(S)] :
          g[0] = <<>> /\ \A i \in 1 .. n : g[i] = step[i][g[i - 1]]
    <3> DEFINE Q == Seq(S)
               none == <<>>
    <3>1. step \in Steps(Q, n) /\ none \in Q
      BY <2>1, <2>2
    <3> HIDE DEF Q, none
    <3>2. PICK g : g \in Chains(Q, n, none, step)
      BY <1>0, <3>1, RecursionExists
    <3>3. QED
      BY <3>2 DEF Q, none, Chains
  <2>4. ASSUME NEW i \in 0 .. n
        PROVE  g[i] = Step(g)[i]
    <3>1. CASE i = 0
      BY <2>3, <3>1
    <3>2. CASE i # 0
      <4>1. i \in 1 .. n /\ i - 1 \in 0 .. n
        BY <3>2, <1>0
      <4>2. g[i - 1] \in Seq(S)
        BY <4>1
      <4>3. QED
        BY <2>1, <2>3, <3>2, <4>1, <4>2
    <3>3. QED
      BY <3>1, <3>2
  <2>5. g = Step(g)
    BY <2>4
  <2> HIDE DEF Step
  <2>6. QED
    BY <2>5
<1> HIDE DEF upTo
<1>3. ASSUME NEW i \in 0 .. n
      PROVE  upTo[i] = IF i = 0 THEN <<>> ELSE upTo[i - 1] \o f[s[i]]
  <2>1. Step(upTo)[i] = IF i = 0 THEN <<>> ELSE upTo[i - 1] \o f[s[i]]
    OBVIOUS
  <2> HIDE DEF Step
  <2>2. QED
    BY <1>2, <2>1
<1> DEFINE T == {k \in 0 .. n : /\ upTo[k] \in Seq(S)
                                /\ \A i \in 1 .. k : ToSet(f[s[i]]) \subseteq ToSet(upTo[k])}
<1>4. 0 \in T
  <2>1. upTo[0] = <<>> /\ 0 \in 0 .. n
    BY <1>0, <1>3
  <2>2. <<>> \in Seq(S) /\ 1 .. 0 = {}
    OBVIOUS
  <2>3. QED
    BY <2>1, <2>2
<1>5. ASSUME NEW k \in 1 .. n, k - 1 \in T
      PROVE  k \in T
  <2>1. /\ upTo[k - 1] \in Seq(S)
        /\ \A i \in 1 .. k - 1 : ToSet(f[s[i]]) \subseteq ToSet(upTo[k - 1])
    BY <1>5
  <2>2. upTo[k] = upTo[k - 1] \o f[s[k]]
    <3>1. k \in 0 .. n /\ k # 0
      BY <1>0
    <3> HIDE DEF T
    <3>2. QED
      BY ONLY <1>3, <3>1
  <2>3. /\ upTo[k] \in Seq(S)
        /\ ToSet(upTo[k]) = ToSet(upTo[k - 1]) \cup ToSet(f[s[k]])
    BY <1>0, <2>1, <2>2, ConcatElements
  <2>4. \A i \in 1 .. k : i = k \/ i \in 1 .. k - 1
    BY <1>0
  <2>5. QED
    BY <1>0, <2>1, <2>3, <2>4
<1>6. T = 0 .. n
  <2>1. T \in SUBSET (0 .. n)
    OBVIOUS
  <2> HIDE DEF T
  <2>2. QED
    BY <1>0, <1>4, <1>5, <2>1, UpwardsTo
<1>7. n \in T
  <2> HIDE DEF T
  <2>1. QED
    BY <1>0, <1>6
<1>8. QED
  BY <1>0, <1>1, <1>7 DEF ToSet

(* UniqueList drops no element: the first occurrence of each stays. *)
LEMMA UniqueElements ==
  ASSUME NEW s \in Seq(Nodes)
  PROVE  /\ UniqueList[s] \in Seq(Nodes)
         /\ ToSet(UniqueList[s]) = ToSet(s)
<1> DEFINE first == {i \in DOMAIN s : \A j \in 1 .. i - 1 : s[j] # s[i]}
<1>1. UniqueList[s] = Selected(s, first)
  BY DEF UniqueList
<1>2. first \in SUBSET DOMAIN s
  OBVIOUS
<1>3. ASSUME NEW i \in DOMAIN s
      PROVE  \E j \in first : s[j] = s[i]
  <2> DEFINE same == {j \in DOMAIN s : s[j] = s[i]}
  <2>1. same \in SUBSET Nat /\ same # {}
    OBVIOUS
  <2> HIDE DEF same
  <2>2. PICK j \in same : \A k \in same : j <= k
    BY <2>1, NatMin
  <2> USE DEF same
  <2>3. j \in DOMAIN s /\ s[j] = s[i]
    BY <2>2
  <2>4. ASSUME NEW k \in 1 .. j - 1
        PROVE  s[k] # s[j]
    <3>1. k \in DOMAIN s /\ ~(j <= k)
      BY <2>3
    <3>2. QED
      BY <2>2, <2>3, <3>1
  <2>5. QED
    BY <2>3, <2>4
<1> HIDE DEF first
<1>4. /\ Selected(s, first) \in Seq(Nodes)
      /\ ToSet(Selected(s, first)) = {s[i] : i \in first}
  BY <1>2, SelectedList
<1>5. QED
  BY <1>1, <1>2, <1>3, <1>4 DEF ToSet

(* A finite set as a list, in whatever order. *)
LEMMA SetAsList ==
  ASSUME NEW S, IsFiniteSet(S)
  PROVE  /\ SetToSeq(S) \in Seq(S)
         /\ \A f \in SetToSeqs(S) : f \in Seq(S) /\ ToSet(f) = S
<1> DEFINE n == Cardinality(S)
<1>1. n \in Nat /\ ExistsBijection(1 .. n, S)
  BY FS_CardinalityType
<1>2. SetToSeq(S) \in Seq(S)
  <2>1. PICK f \in [1 .. n -> S] : IsInjective(f)
    BY <1>1 DEF ExistsBijection, Bijection, Injection
  <2>2. SetToSeq(S) \in [1 .. n -> S]
    BY <2>1 DEF SetToSeq
  <2> HIDE DEF n
  <2>3. QED
    BY <1>1, <2>2
<1>3. ASSUME NEW f \in SetToSeqs(S)
      PROVE  f \in Seq(S) /\ ToSet(f) = S
  <2>1. f \in [1 .. n -> S] /\ \A i, j \in 1 .. n : i # j => f[i] # f[j]
    BY DEF SetToSeqs
  <2>2. Cardinality(1 .. n) = n
    BY <1>1, FS_Interval
  <2> HIDE DEF n
  <2>3. f \in Injection(1 .. n, S)
    BY <2>1 DEF Injection, IsInjective
  <2>4. f \in Surjection(1 .. n, S)
    BY <1>1, <2>2, <2>3, FS_Injection DEF n
  <2>5. \A x \in S : \E i \in 1 .. n : f[i] = x
    BY <2>4 DEF Surjection
  <2>6. f \in Seq(S) /\ DOMAIN f = 1 .. n
    BY <1>1, <2>1
  <2>7. QED
    BY <2>1, <2>5, <2>6 DEF ToSet
<1>4. QED
  BY <1>2, <1>3

-----------------------------------------------------------------------------
(* What the declarations make of the graph of the build. *)
LEMMA Shape ==
  ASSUME GraphAssumption, GraphShape, NodesTyped
  PROVE  /\ graph.kids \in [Nodes -> Seq(Nodes)]
         /\ graph.prereq \in [Nodes -> Seq(Nodes)]
         /\ graph.includes \in [Nodes -> SUBSET Nodes]
         /\ graph.peers \in [Nodes -> Seq(Nodes)]
         /\ graph.effects \in [Nodes -> Seq(Nodes)]
         /\ \A n \in Nodes : /\ n \in ToSet(graph.peers[n])
                             /\ ToSet(graph.peers[n]) \subseteq Nodes
                             /\ ToSet(graph.effects[n]) \subseteq Nodes
                             /\ n \notin graph.built => graph.peers[n] = <<n>>
         /\ \A n \in Nodes : \A m \in ToSet(graph.peers[n]) :
              graph.peers[m] = graph.peers[n] /\ (m \in graph.built <=> n \in graph.built)
         /\ \A n \in Nodes : \A s \in ToSet(graph.effects[n]) :
              s \notin graph.built /\ n \in ToSet(graph.kids[s])
         /\ \A n \in Nodes : n \in graph.unscanned \cup graph.broken => n \in graph.built
<1>1. /\ graph.peers \in [Nodes -> Seq(Nodes)]
      /\ graph.effects \in [Nodes -> Seq(Nodes)]
      /\ graph.kids \in [Nodes -> Seq(Nodes)] /\ graph.prereq \in [Nodes -> Seq(Nodes)]
      /\ graph.includes \in [Nodes -> SUBSET Nodes]
      /\ \A n \in Nodes : /\ n \in ToSet(graph.peers[n])
                          /\ \A m \in ToSet(graph.peers[n]) : graph.peers[m] = graph.peers[n]
                          /\ n \notin graph.built => graph.peers[n] = <<n>>
                          /\ \A s \in ToSet(graph.effects[n]) :
                               s \notin graph.built /\ n \in ToSet(graph.kids[s])
      /\ graph.unscanned \cup graph.broken \subseteq graph.built
  BY DEF GraphAssumption, GraphShape, NodesTyped
<1>2. \A n \in Nodes : /\ ToSet(graph.peers[n]) \subseteq Nodes
                       /\ ToSet(graph.effects[n]) \subseteq Nodes
  <2>1. \A q \in Seq(Nodes) : ToSet(q) \subseteq Nodes
    BY DEF ToSet
  <2>2. QED
    BY <1>1, <2>1
<1>3. ASSUME NEW n \in Nodes, NEW m \in ToSet(graph.peers[n])
      PROVE  m \in graph.built <=> n \in graph.built
  <2>1. /\ m \in Nodes /\ graph.peers[m] = graph.peers[n]
        /\ n \in ToSet(graph.peers[m])
    BY <1>1, <1>2
  <2>2. \A x, y : x \in ToSet(<<y>>) => x = y
    BY DEF ToSet
  <2>3. m \notin graph.built => graph.peers[m] = <<m>>
    BY <1>1, <2>1
  <2>4. n \notin graph.built => graph.peers[n] = <<n>>
    BY <1>1
  <2>5. m \notin graph.built => n = m
    BY <2>1, <2>2, <2>3
  <2>6. n \notin graph.built => m = n
    BY <1>3, <2>2, <2>4
  <2>7. QED
    BY <2>5, <2>6
<1>4. QED
  BY <1>1, <1>2, <1>3

(* A scan finds nodes. *)
LEMMA ImplicitDepsTyped ==
  ASSUME GraphAssumption, GraphShape, NodesTyped, NEW sources \in SUBSET Nodes
  PROVE  get_implicit_deps(sources) \in Seq(Nodes)
<1> DEFINE n == Cardinality(Nodes)
           found(S) == UNION {graph.includes[m] : m \in {x \in S : Readable(x)}}
           step[i \in 1 .. n] == [q \in SUBSET Nodes |-> q \cup found(q)]
           Step(g) == [i \in 0 .. n |-> IF i = 0 THEN found(sources)
                                       ELSE LET before == g[i - 1]
                                            IN before \cup found(before)]
           reach == CHOOSE g : g = Step(g)
<1>0. n \in Nat
  BY FS_CardinalityType DEF GraphAssumption
<1>1. get_implicit_deps(sources) = SetToSeq(reach[n] \ sources)
  BY DEF get_implicit_deps
<1> HIDE DEF n
<1>2. \A q \in SUBSET Nodes : found(q) \in SUBSET Nodes
  BY Shape
<1> HIDE DEF found
<1>3. PICK g \in [0 .. n -> SUBSET Nodes] :
        g[0] = found(sources) /\ \A i \in 1 .. n : g[i] = step[i][g[i - 1]]
  <2> DEFINE Q == SUBSET Nodes
             first == found(sources)
  <2>1. step \in Steps(Q, n) /\ first \in Q
    BY <1>2 DEF Steps
  <2> HIDE DEF Q, first, step
  <2>2. PICK g : g \in Chains(Q, n, first, step)
    BY <1>0, <2>1, RecursionExists
  <2>3. QED
    BY <2>2 DEF Q, first, Chains
<1>4. ASSUME NEW i \in 0 .. n
      PROVE  g[i] = Step(g)[i]
  <2>1. CASE i = 0
    BY <1>3, <2>1
  <2>2. CASE i # 0
    <3>1. i \in 1 .. n /\ i - 1 \in 0 .. n
      BY <2>2, <1>0
    <3>2. g[i - 1] \in SUBSET Nodes /\ step[i][g[i - 1]] = g[i - 1] \cup found(g[i - 1])
      BY <3>1
    <3>3. QED
      BY <1>3, <2>2, <3>1, <3>2
  <2>3. QED
    BY <2>1, <2>2
<1>5. g = Step(g)
  BY <1>4
<1>6. reach = Step(reach)
  <2> HIDE DEF Step
  <2>1. QED
    BY <1>5
<1> HIDE DEF reach
<1>7. ASSUME NEW i \in 0 .. n
      PROVE  reach[i] = IF i = 0 THEN found(sources)
                        ELSE reach[i - 1] \cup found(reach[i - 1])
  <2>1. Step(reach)[i] = IF i = 0 THEN found(sources)
                         ELSE reach[i - 1] \cup found(reach[i - 1])
    OBVIOUS
  <2> HIDE DEF Step
  <2>2. QED
    BY <1>6, <2>1
<1> DEFINE T == {k \in 0 .. n : reach[k] \in SUBSET Nodes}
<1>8. 0 \in T
  <2>1. 0 \in 0 .. n
    BY <1>0
  <2>2. reach[0] = found(sources)
    BY ONLY <1>7, <2>1
  <2>3. QED
    BY <1>2, <2>1, <2>2
<1>9. ASSUME NEW k \in 1 .. n, k - 1 \in T
      PROVE  k \in T
  <2>1. reach[k - 1] \in SUBSET Nodes
    BY <1>9
  <2>2. reach[k] = reach[k - 1] \cup found(reach[k - 1]) /\ k \in 0 .. n
    <3>1. k \in 0 .. n /\ k # 0
      BY <1>0
    <3> HIDE DEF T
    <3>2. QED
      BY ONLY <1>7, <3>1
  <2>3. QED
    BY <1>2, <2>1, <2>2
<1>10. T = 0 .. n
  <2>1. T \in SUBSET (0 .. n)
    OBVIOUS
  <2> HIDE DEF T
  <2>2. QED
    BY <1>0, <1>8, <1>9, <2>1, UpwardsTo
<1>11. n \in T
  <2> HIDE DEF T
  <2>1. QED
    BY <1>0, <1>10
<1> DEFINE D == reach[n] \ sources
<1>12. IsFiniteSet(D) /\ D \subseteq Nodes
  BY <1>11, FS_Subset DEF GraphAssumption
<1> HIDE DEF D
<1>13. SetToSeq(D) \in Seq(Nodes)
  BY <1>12, SetAsList, WiderSeq
<1>14. QED
  BY <1>1, <1>13 DEF D

(* What waits for some nodes is reached from them, they included. *)
LEMMA ClosureAbove ==
  ASSUME GraphAssumption, NodesTyped, NEW S \in SUBSET Nodes
  PROVE  S \subseteq WaitClosure(S)
<1> DEFINE n == Cardinality(Nodes)
           parents(q) == UNION {waiting_parents[m] : m \in q}
           step[i \in 1 .. n] == [q \in SUBSET Nodes |-> q \cup parents(q)]
           Step(g) == [i \in 0 .. n |-> IF i = 0 THEN S
                                       ELSE LET below == g[i - 1]
                                            IN below \cup parents(below)]
           up == CHOOSE g : g = Step(g)
<1>0. n \in Nat
  BY FS_CardinalityType DEF GraphAssumption
<1>1. WaitClosure(S) = {m \in up[n] : m \in Nodes}
  BY DEF WaitClosure
<1> HIDE DEF n
<1>2. \A q \in SUBSET Nodes : parents(q) \in SUBSET Nodes
  BY DEF NodesTyped
<1> HIDE DEF parents
<1>3. PICK g \in [0 .. n -> SUBSET Nodes] :
        g[0] = S /\ \A i \in 1 .. n : g[i] = step[i][g[i - 1]]
  <2> DEFINE Q == SUBSET Nodes
  <2>1. step \in Steps(Q, n) /\ S \in Q
    BY <1>2 DEF Steps
  <2> HIDE DEF Q, step
  <2>2. PICK g : g \in Chains(Q, n, S, step)
    BY <1>0, <2>1, RecursionExists
  <2>3. QED
    BY <2>2 DEF Q, Chains
<1>4. ASSUME NEW i \in 0 .. n
      PROVE  g[i] = Step(g)[i]
  <2>1. CASE i = 0
    BY <1>3, <2>1
  <2>2. CASE i # 0
    <3>1. i \in 1 .. n /\ i - 1 \in 0 .. n
      BY <2>2, <1>0
    <3>2. g[i - 1] \in SUBSET Nodes /\ step[i][g[i - 1]] = g[i - 1] \cup parents(g[i - 1])
      BY <3>1
    <3>3. QED
      BY <1>3, <2>2, <3>1, <3>2
  <2>3. QED
    BY <2>1, <2>2
<1>5. g = Step(g)
  BY <1>4
<1>6. up = Step(up)
  <2> HIDE DEF Step
  <2>1. QED
    BY <1>5
<1> HIDE DEF up
<1>7. ASSUME NEW i \in 0 .. n
      PROVE  up[i] = IF i = 0 THEN S ELSE up[i - 1] \cup parents(up[i - 1])
  <2>1. Step(up)[i] = IF i = 0 THEN S ELSE up[i - 1] \cup parents(up[i - 1])
    OBVIOUS
  <2> HIDE DEF Step
  <2>2. QED
    BY <1>6, <2>1
<1> DEFINE T == {k \in 0 .. n : S \subseteq up[k]}
<1>8. 0 \in T
  <2>1. 0 \in 0 .. n
    BY <1>0
  <2>2. up[0] = S
    BY ONLY <1>7, <2>1
  <2>3. QED
    BY <2>1, <2>2
<1>9. ASSUME NEW k \in 1 .. n, k - 1 \in T
      PROVE  k \in T
  <2>1. S \subseteq up[k - 1]
    BY <1>9
  <2>2. up[k] = up[k - 1] \cup parents(up[k - 1]) /\ k \in 0 .. n
    <3>1. k \in 0 .. n /\ k # 0
      BY <1>0
    <3> HIDE DEF T
    <3>2. QED
      BY ONLY <1>7, <3>1
  <2>3. QED
    BY <2>1, <2>2
<1>10. T = 0 .. n
  <2>1. T \in SUBSET (0 .. n)
    OBVIOUS
  <2> HIDE DEF T
  <2>2. QED
    BY <1>0, <1>8, <1>9, <2>1, UpwardsTo
<1>11. n \in T
  <2> HIDE DEF T
  <2>1. QED
    BY <1>0, <1>10
<1>12. QED
  BY <1>1, <1>11

(* The scan of a node leaves lists of nodes; the targets of its executor are *)
(* scanned.                                                                  *)
LEMMA ScannedTyped ==
  ASSUME GraphAssumption, GraphShape, NodesTyped, WalkTyped, NEW n \in Nodes
  PROVE  /\ Scanned(n) \in [Nodes -> Seq(Nodes) \cup {Unscanned}]
         /\ \A t \in ToSet(graph.peers[n]) : Scanned(n)[t] \in Seq(Nodes)
<1> DEFINE targets == ToSet(graph.peers[n])
           sources == ToSet(Concat(graph.kids, graph.peers[n]))
           found == get_implicit_deps(sources)
<1>1. /\ implicit \in [Nodes -> Seq(Nodes) \cup {Unscanned}]
      /\ targets \subseteq Nodes
  BY Shape DEF WalkTyped
<1>2. CASE ~has_builder(n)
  <2>1. \A t \in targets : t = n
    <3>1. graph.peers[n] = <<n>>
      BY <1>2, Shape DEF has_builder
    <3>2. QED
      BY <3>1 DEF ToSet
  <2>2. Scanned(n) = [implicit EXCEPT ![n] = IF @ = Unscanned THEN <<>> ELSE @]
    BY <1>2 DEF Scanned
  <2>3. <<>> \in Seq(Nodes)
    OBVIOUS
  <2> HIDE DEF targets
  <2>4. QED
    BY <1>1, <2>1, <2>2, <2>3 DEF targets
<1>3. CASE has_builder(n) /\ \A t \in targets : implicit[t] # Unscanned
  <2>1. Scanned(n) = implicit
    BY <1>3 DEF Scanned
  <2>2. QED
    BY <1>1, <1>3, <2>1
<1>4. CASE has_builder(n) /\ ~\A t \in targets : implicit[t] # Unscanned
  <2>1. Scanned(n) = [m \in Nodes |->
             IF m \notin targets THEN implicit[m]
             ELSE IF implicit[m] = Unscanned THEN found
             ELSE UniqueList[implicit[m] \o found]]
    BY <1>4 DEF Scanned
  <2>2. found \in Seq(Nodes)
    <3>1. Concat(graph.kids, graph.peers[n]) \in Seq(Nodes)
      BY Shape, ConcatList
    <3>2. sources \in SUBSET Nodes
      BY <3>1 DEF ToSet
    <3>3. QED
      BY <3>2, ImplicitDepsTyped
  <2> HIDE DEF found, targets
  <2>3. ASSUME NEW m \in Nodes, implicit[m] # Unscanned
        PROVE  UniqueList[implicit[m] \o found] \in Seq(Nodes)
    <3>1. implicit[m] \o found \in Seq(Nodes)
      BY <1>1, <2>2, <2>3, ConcatElements
    <3>2. QED
      BY <3>1, UniqueElements
  <2>4. ASSUME NEW m \in Nodes
        PROVE  /\ Scanned(n)[m] \in Seq(Nodes) \cup {Unscanned}
               /\ m \in targets => Scanned(n)[m] \in Seq(Nodes)
    BY <1>1, <2>1, <2>2, <2>3
  <2>5. QED
    BY <1>1, <2>1, <2>4 DEF targets
<1>5. QED
  BY <1>2, <1>3, <1>4

(* A list is one over its elements. *)
LEMMA SeqOverElements ==
  ASSUME NEW S, NEW s \in Seq(S)
  PROVE  s \in Seq(ToSet(s))
<1>1. Len(s) \in Nat /\ DOMAIN s = 1 .. Len(s) /\ s = [i \in 1 .. Len(s) |-> s[i]]
  OBVIOUS
<1>2. \A i \in 1 .. Len(s) : s[i] \in ToSet(s)
  BY <1>1 DEF ToSet
<1>3. QED
  BY <1>1, <1>2

(* The children of a node are nodes; a node without a builder has all that   *)
(* was declared for it among them.                                           *)
LEMMA ChildrenTyped ==
  ASSUME GraphAssumption, GraphShape, NodesTyped, WalkTyped, NEW n \in Nodes
  PROVE  /\ Children(n) \in Seq(Nodes)
         /\ n \notin graph.built => ToSet(graph.kids[n]) \subseteq ToSet(Children(n))
<1> DEFINE targets == ToSet(graph.peers[n])
           lists == [t \in targets |-> graph.kids[t] \o Scanned(n)[t]]
           all == Concat(lists, graph.peers[n])
<1>1. graph.peers[n] \in Seq(targets)
  BY Shape, SeqOverElements
<1>2. ASSUME NEW t \in targets
      PROVE  lists[t] \in Seq(Nodes) /\ ToSet(graph.kids[t]) \subseteq ToSet(lists[t])
  <2>1. graph.kids[t] \in Seq(Nodes) /\ Scanned(n)[t] \in Seq(Nodes)
    BY Shape, ScannedTyped
  <2>2. lists[t] = graph.kids[t] \o Scanned(n)[t]
    OBVIOUS
  <2>3. QED
    BY <2>1, <2>2, ConcatElements
<1> HIDE DEF lists
<1>3. /\ all \in Seq(Nodes)
      /\ \A t \in targets : ToSet(lists[t]) \subseteq ToSet(all)
  BY <1>1, <1>2, ConcatList
<1>4. get_all_children(n, Scanned(n)) = UniqueList[all]
  BY DEF get_all_children, lists
<1> HIDE DEF all
<1>5. /\ UniqueList[all] \in Seq(Nodes)
      /\ ToSet(UniqueList[all]) = ToSet(all)
  BY <1>3, UniqueElements
<1>6. get_all_prerequisites(n) \in Seq(Nodes)
  <2>1. Concat(graph.prereq, graph.peers[n]) \in Seq(Nodes)
    BY Shape, ConcatList
  <2>2. UniqueList[Concat(graph.prereq, graph.peers[n])] \in Seq(Nodes)
    BY <2>1, UniqueElements
  <2>3. <<>> \in Seq(Nodes)
    OBVIOUS
  <2>4. QED
    BY <2>2, <2>3 DEF get_all_prerequisites
<1>7. /\ Children(n) \in Seq(Nodes)
      /\ ToSet(Children(n)) = ToSet(get_all_prerequisites(n)) \cup ToSet(all)
  BY <1>4, <1>5, <1>6, ConcatElements DEF Children
<1>8. n \in targets
  BY Shape
<1>9. QED
  BY <1>2, <1>3, <1>7, <1>8

(* The children in some states. *)
LEMMA InStateElements ==
  ASSUME GraphAssumption, GraphShape, NodesTyped, WalkTyped, NEW n \in Nodes, NEW S
  PROVE  /\ InState(n, S) \in Seq(Nodes)
         /\ ToSet(InState(n, S)) = {c \in ToSet(Children(n)) : Marked(n)[c] \in S}
<1> DEFINE s == Children(n)
           places == {i \in DOMAIN s : Marked(n)[s[i]] \in S}
<1>1. s \in Seq(Nodes)
  BY ChildrenTyped
<1>2. InState(n, S) = Selected(s, places)
  BY <1>1 DEF InState
<1> HIDE DEF s
<1>3. places \in SUBSET DOMAIN s
  OBVIOUS
<1> HIDE DEF places
<1>4. /\ Selected(s, places) \in Seq(Nodes)
      /\ ToSet(Selected(s, places)) = {s[i] : i \in places}
  BY <1>1, <1>3, SelectedList
<1>5. {s[i] : i \in places} = {c \in ToSet(s) : Marked(n)[c] \in S}
  BY DEF ToSet, places
<1>6. QED
  BY <1>2, <1>4, <1>5 DEF s

(* The children are pushed in some order. *)
LEMMA OrdersTyped ==
  ASSUME NEW s \in Seq(Nodes), NEW random, NEW r \in Orders(Reverse(s), random)
  PROVE  r \in Seq(Nodes)
<1>1. Reverse(s) \in Seq(Nodes)
  BY DEF Reverse
<1> DEFINE q == Reverse(s)
<1>2. CASE r = q
  BY <1>1, <1>2
<1>3. CASE \E p \in SetToSeqs(DOMAIN q) : r = [i \in DOMAIN q |-> q[p[i]]]
  <2> HIDE DEF q
  <2>1. PICK p \in SetToSeqs(DOMAIN q) : r = [i \in DOMAIN q |-> q[p[i]]]
    BY <1>3
  <2>2. q \in Seq(Nodes)
    BY <1>1 DEF q
  <2>3. Len(q) \in Nat /\ DOMAIN q = 1 .. Len(q)
    BY <2>2
  <2>4. Cardinality(1 .. Len(q)) = Len(q)
    <3>1. \A k \in Nat : Cardinality(1 .. k) = IF 1 > k THEN 0 ELSE k - 1 + 1
      BY FS_Interval
    <3>2. QED
      BY <2>3, <3>1
  <2>5. p \in [1 .. Len(q) -> 1 .. Len(q)]
    BY <2>1, <2>3, <2>4 DEF SetToSeqs
  <2>6. \A i \in 1 .. Len(q) : q[p[i]] \in Nodes
    BY <2>2, <2>3, <2>5
  <2>7. QED
    BY <2>1, <2>3, <2>6
<1>4. QED
  BY <1>2, <1>3 DEF Orders

-----------------------------------------------------------------------------
(* The walk, step by step. *)

(* What a step has to show. *)
LEMMA StepWalk ==
  ASSUME WInv, WalkTyped', SkipsWhenStopped', stopped => stopped',
         Walking' => Walking, FailedForGood => FailedForGood',
         Walking' /\ ~stopped' /\ Unharmed => Unharmed' \/ FailedForGood'
  PROVE  WInv'
BY DEF WInv

(* A worker left aside stays explained by the stop.                          *)
LEMMA SkipsSame ==
  ASSUME SkipsWhenStopped, UNCHANGED <<interrupted, worker>>, stopped => stopped'
  PROVE  SkipsWhenStopped'
BY DEF SkipsWhenStopped

(* Targets of one executor are one another's peers, and differ only when     *)
(* they have a builder.                                                      *)
LEMMA Peers ==
  ASSUME GraphAssumption, GraphShape, NodesTyped, NEW a \in Nodes,
         NEW b \in ToSet(graph.peers[a])
  PROVE  /\ b \in Nodes /\ graph.peers[b] = graph.peers[a] /\ a \in ToSet(graph.peers[b])
         /\ a = b \/ (a \in graph.built /\ b \in graph.built)
<1>1. /\ b \in Nodes /\ graph.peers[b] = graph.peers[a] /\ a \in ToSet(graph.peers[b])
      /\ b \in graph.built <=> a \in graph.built
  BY Shape
<1>2. a \notin graph.built => graph.peers[a] = <<a>>
  BY Shape
<1>3. \A x : ToSet(<<x>>) = {x}
  BY DEF ToSet
<1>4. a \notin graph.built => ToSet(graph.peers[a]) = {a}
  BY <1>2, <1>3
<1>5. QED
  BY <1>1, <1>4

(* A failure for good is not taken back by a step that takes back, of the    *)
(* nodes that are no side effects, only those with a peer that has not       *)
(* failed.                                                                   *)
LEMMA FailedForGoodStays ==
  ASSUME GraphAssumption, GraphShape, NodesTyped, FailedForGood, UNCHANGED graph,
         \A m \in Nodes : state[m] = failed /\ ~side_effect(m) =>
           \/ state'[m] = failed
           \/ \E n \in Nodes : state[n] # failed /\ m \in ToSet(graph.peers[n])
  PROVE  FailedForGood'
<1>1. PICK t \in Nodes : \A n \in ToSet(graph.peers[t]) :
        state[n] = failed /\ ~side_effect(n)
  BY DEF FailedForGood
<1>2. ASSUME NEW m \in ToSet(graph.peers[t])
      PROVE  state'[m] = failed /\ ~side_effect(m)'
  <2>1. m \in Nodes /\ graph.peers[m] = graph.peers[t] /\ state[m] = failed /\ ~side_effect(m)
    BY <1>1, Peers
  <2>2. \A n \in Nodes : m \in ToSet(graph.peers[n]) => n \in ToSet(graph.peers[t])
    BY <2>1, Peers
  <2>3. state'[m] = failed
    BY <1>1, <2>1, <2>2
  <2>4. QED
    BY <2>1, <2>3 DEF side_effect
<1>3. QED
  BY <1>2 DEF FailedForGood

(* The tasks under way stay so while what is done stays done. *)
LEMMA TasksStay ==
  ASSUME TasksUnderWay, UNCHANGED <<graph, requestQueue, resultsQueue, worker>>,
         \A u \in Nodes : u \in graph.built /\ Done(u) => state'[u] = state[u],
         pc' \notin {"find", "collect"} => UnderWay(task)'
  PROVE  TasksUnderWay'
<1>1. \A u \in Nodes : u \in graph.built /\ Done(u) => Done(u)'
  BY DEF Done
<1>2. QED
  BY <1>1 DEF TasksUnderWay, UnderWay

(* The targets of an executor still agree when one executor's do, and no     *)
(* other node with a builder changes.                                        *)
LEMMA AgreeStays ==
  ASSUME GraphAssumption, GraphShape, NodesTyped, PeersAgree, UNCHANGED graph,
         NEW n \in Nodes,
         \A a, b \in ToSet(graph.peers[n]) : state'[a] > pending => state'[b] = state'[a],
         \A m \in Nodes \ ToSet(graph.peers[n]) : m \in graph.built => state'[m] = state[m]
  PROVE  PeersAgree'
<1>1. ASSUME NEW a \in Nodes, NEW b \in ToSet(graph.peers[a]), state'[a] > pending
      PROVE  state'[b] = state'[a]
  <2>1. /\ b \in Nodes /\ graph.peers[b] = graph.peers[a] /\ a \in ToSet(graph.peers[b])
        /\ a = b \/ (a \in graph.built /\ b \in graph.built)
    BY Peers
  <2>2. \A x \in ToSet(graph.peers[n]) : graph.peers[x] = graph.peers[n]
    BY Peers
  <2>3. a \in ToSet(graph.peers[n]) <=> b \in ToSet(graph.peers[n])
    BY <2>1, <2>2
  <2>4. CASE a \in ToSet(graph.peers[n])
    BY <1>1, <2>3, <2>4
  <2>5. CASE a \notin ToSet(graph.peers[n]) /\ a # b
    <3>1. state'[a] = state[a] /\ state'[b] = state[b]
      BY <2>1, <2>3, <2>5
    <3>2. QED
      BY <1>1, <3>1 DEF PeersAgree
  <2>6. QED
    BY <2>4, <2>5
<1>2. QED
  BY <1>1 DEF PeersAgree, pending

(* A candidate that is popped. *)
LEMMA PopStack ==
  ASSUME NodesTyped, WalkTyped, NEW n, Pop(n)
  PROVE  /\ n \in Nodes /\ Rest \in Seq(Nodes)
         /\ ToSet(candidates) \subseteq ToSet(Rest) \cup {n}
<1>1. candidates \in Seq(Nodes) /\ top_targets_left \in Seq(Nodes)
  BY DEF WalkTyped, NodesTyped
<1>2. CASE candidates # <<>>
  <2>1. n = candidates[Len(candidates)] /\ Rest = SubSeq(candidates, 1, Len(candidates) - 1)
    BY <1>2 DEF Pop, Next_candidate, Rest, Last, Front
  <2>2. Len(candidates) \in Nat /\ Len(candidates) >= 1
    BY <1>1, <1>2
  <2>3. /\ Rest \in Seq(Nodes) /\ DOMAIN Rest = 1 .. Len(candidates) - 1
        /\ \A i \in 1 .. Len(candidates) - 1 : Rest[i] = candidates[i]
    BY <1>1, <2>1, <2>2
  <2>4. DOMAIN candidates = 1 .. Len(candidates)
    BY <1>1
  <2>5. \A i \in DOMAIN candidates : i \in DOMAIN Rest \/ i = Len(candidates)
    BY <2>2, <2>3, <2>4
  <2>6. ToSet(candidates) \subseteq ToSet(Rest) \cup {n}
    BY <2>1, <2>3, <2>5 DEF ToSet
  <2>7. n \in Nodes
    BY <1>1, <2>1, <2>2
  <2>8. QED
    BY <2>3, <2>6, <2>7
<1>3. CASE candidates = <<>>
  <2>1. n = top_targets_left[Len(top_targets_left)] /\ top_targets_left # <<>>
    BY <1>3 DEF Pop, HasCandidate, Next_candidate, Last
  <2>2. n \in Nodes
    BY <1>1, <2>1
  <2>3. Rest = <<>> /\ ToSet(candidates) = {}
    BY <1>3 DEF Rest, ToSet
  <2>4. <<>> \in Seq(Nodes)
    OBVIOUS
  <2>5. QED
    BY <2>2, <2>3, <2>4
<1>4. QED
  BY <1>2, <1>3

(* The pending nodes are kept when n is looked at, if n is. *)
LEMMA PendingStays ==
  ASSUME PendingKept, pc = "find", NEW n,
         ToSet(candidates) \subseteq ToSet(candidates') \cup {n},
         \A m \in Nodes : state'[m] = pending => m = n \/ state[m] = pending,
         \A m \in Nodes : /\ waiting_parents[m] \subseteq waiting_parents'[m]
                          /\ waiting_s_e[m] \subseteq waiting_s_e'[m]
                          /\ state[m] = executing => state'[m] = executing,
         state'[n] = pending =>
           \/ \E c \in Nodes : n \in waiting_parents'[c]
           \/ \E s \in Nodes : n \in waiting_s_e'[s] /\ state'[s] = executing
  PROVE  PendingKept'
<1>1. ASSUME NEW m \in Nodes, state'[m] = pending
      PROVE  \/ m \in ToSet(candidates')
             \/ \E c \in Nodes : m \in waiting_parents'[c]
             \/ \E s \in Nodes : m \in waiting_s_e'[s] /\ state'[s] = executing
  <2>1. CASE m # n
    <3>1. \/ m \in ToSet(candidates)
          \/ \E c \in Nodes : m \in waiting_parents[c]
          \/ \E s \in Nodes : m \in waiting_s_e[s] /\ state[s] = executing
      BY <1>1, <2>1 DEF PendingKept
    <3>2. QED
      BY <2>1, <3>1
  <2>2. CASE m = n
    BY <1>1, <2>2
  <2>3. QED
    BY <2>1, <2>2
<1>2. QED
  BY <1>1 DEF PendingKept, pending, executing

(* A list without elements is empty. *)
LEMMA NoElements ==
  ASSUME NEW S, NEW q \in Seq(S), ToSet(q) = {}
  PROVE  q = <<>>
<1>1. Len(q) \in Nat /\ DOMAIN q = 1 .. Len(q)
  OBVIOUS
<1>2. ASSUME Len(q) # 0
      PROVE  FALSE
  <2>1. 1 \in DOMAIN q
    BY <1>1, <1>2
  <2>2. q[1] \in ToSet(q)
    BY <2>1 DEF ToSet
  <2>3. QED
    BY <2>2
<1>3. QED
  BY <1>2

(* The elements of a list of nodes are nodes.                                *)
LEMMA ElementsTyped ==
  ASSUME NEW S, NEW q \in Seq(S)
  PROVE  ToSet(q) \subseteq S
BY DEF ToSet

(* Until something has failed no child has. *)
LEMMA NoChildFailed ==
  ASSUME GraphAssumption, GraphShape, NodesTyped, WalkTyped, NoneFailed, NEW n \in Nodes
  PROVE  ~ChildFailed(n)
<1>1. /\ InState(n, {failed}) \in Seq(Nodes)
      /\ ToSet(InState(n, {failed})) = {c \in ToSet(Children(n)) : Marked(n)[c] \in {failed}}
  BY InStateElements
<1>2. \A c \in ToSet(Children(n)) : c \in Nodes
  BY ChildrenTyped, ElementsTyped
<1>3. \A c \in Nodes : Marked(n)[c] # failed
  BY DEF Marked, NoneFailed, WalkTyped, pending, failed
<1>4. ToSet(InState(n, {failed})) = {}
  BY <1>1, <1>2, <1>3
<1>5. QED
  BY <1>1, <1>4, NoElements DEF ChildFailed

(* What is common to the searches that mark a node pending. *)
LEMMA ExaminedFacts ==
  ASSUME GraphAssumption, GraphShape, NodesTyped, WalkTyped, NEW n, Examined(n), UNCHANGED graph
  PROVE  /\ n \in Nodes /\ Rest \in Seq(Nodes) /\ state[n] <= pending
         /\ ToSet(candidates) \subseteq ToSet(Rest) \cup {n}
         /\ implicit' \in [Nodes -> Seq(Nodes) \cup {Unscanned}]
         /\ Marked(n) \in [Nodes -> no_state .. failed]
         /\ Marked(n)[n] = pending
         /\ \A m \in Nodes : m # n => Marked(n)[m] = state[m]
         /\ UNCHANGED stopped
<1>1. /\ n \in Nodes /\ Rest \in Seq(Nodes) /\ state[n] <= pending /\ UNCHANGED stopped
      /\ ToSet(candidates) \subseteq ToSet(Rest) \cup {n}
  BY PopStack DEF Examined, Considering
<1>2. implicit' \in [Nodes -> Seq(Nodes) \cup {Unscanned}]
  BY <1>1, ScannedTyped DEF Examined
<1>3. QED
  BY <1>1, <1>2 DEF Marked, WalkTyped, no_state, pending, failed

(* What the search pushes. *)
LEMMA Pushed ==
  ASSUME GraphAssumption, GraphShape, NodesTyped, WalkTyped, NEW n \in Nodes, NEW random,
         Rest \in Seq(Nodes), PushUnvisited(n, random)
  PROVE  candidates' \in Seq(Nodes) /\ ToSet(Rest) \subseteq ToSet(candidates')
<1>1. PICK kids \in Orders(Reverse(NotVisited(n)), random) : candidates' = Rest \o kids
  BY DEF PushUnvisited
<1>2. NotVisited(n) \in Seq(Nodes)
  BY InStateElements DEF NotVisited
<1>3. kids \in Seq(Nodes)
  BY <1>2, OrdersTyped
<1>4. QED
  BY <1>1, <1>3, ConcatElements

(* Marking n leaves the targets of the executors in agreement, and nothing   *)
(* that was done or has failed is touched.                                   *)
LEMMA MarkedStays ==
  ASSUME GraphAssumption, GraphShape, NodesTyped, WalkTyped, NEW n \in Nodes,
         UNCHANGED graph, state' = Marked(n), state[n] <= pending
  PROVE  /\ FailedForGood => FailedForGood'
         /\ NoneFailed => NoneFailed'
         /\ PeersAgree => PeersAgree'
         /\ \A u \in Nodes : Done(u) => state'[u] = state[u]
         /\ \A m \in Nodes : state[m] = executing => state'[m] = executing
<1>1. /\ state'[n] = pending /\ \A m \in Nodes : m # n => state'[m] = state[m]
  BY DEF Marked, WalkTyped
<1>2. FailedForGood => FailedForGood'
  <2>1. \A m \in Nodes : state[m] = failed => state'[m] = failed
    BY <1>1 DEF pending, failed
  <2>2. QED
    BY <2>1, FailedForGoodStays
<1>3. NoneFailed => NoneFailed'
  BY <1>1 DEF NoneFailed, pending, failed
<1>4. ASSUME PeersAgree
      PROVE  PeersAgree'
  <2>1. ASSUME NEW a \in Nodes, NEW b \in ToSet(graph.peers[a]), state'[a] > pending
        PROVE  state'[b] = state'[a]
    <3>1. b \in Nodes /\ a # n
      BY <1>1, <2>1, Peers DEF pending
    <3>2. state[b] = state[a] /\ state[a] > pending /\ b # n
      BY <1>1, <1>4, <2>1, <3>1 DEF PeersAgree, WalkTyped, no_state, pending, failed
    <3>3. QED
      BY <1>1, <3>1, <3>2
  <2>2. QED
    BY <2>1 DEF PeersAgree, pending
<1>5. QED
  BY <1>1, <1>2, <1>3, <1>4 DEF Done, pending, executing, up_to_date, executed

(* The fields of the jobs are left alone by a search. *)
LEMMA SearchAside ==
  ASSUME Search
  PROVE  /\ pc = "find" /\ pc' = "find"
         /\ UNCHANGED <<graph, options, task, requestQueue, resultsQueue, worker,
                        interrupted>>
BY DEF Search, jobVars

(* The tasks are left alone. *)
LEMMA SearchTasks ==
  ASSUME Search, \A u \in Nodes : Done(u) => state'[u] = state[u]
  PROVE  /\ TasksUnderWay => TasksUnderWay'
         /\ FailuresBuilt => FailuresBuilt'
<1>1. TasksUnderWay => TasksUnderWay'
  BY SearchAside, TasksStay
<1>2. FailuresBuilt => FailuresBuilt'
  BY SearchAside DEF FailuresBuilt, has_builder
<1>3. QED
  BY <1>1, <1>2

(* A node popped although it is no longer to be built leaves the stack: it   *)
(* is not pending, so PendingKept does not need it there.                    *)
LEMMA AlreadyHandledWalk ==
  ASSUME GraphAssumption, GraphShape, IInv, WInv, Search, AlreadyHandled
  PROVE  WInv'
<1> USE DEF IInv
<1>1. /\ pc = "find" /\ pc' = "find"
      /\ UNCHANGED <<graph, options, task, requestQueue, resultsQueue, worker, interrupted>>
  BY SearchAside
<1>2. WalkTyped /\ SkipsWhenStopped
  BY DEF WInv
<1>3. /\ UNCHANGED <<state, waiting_parents, waiting_s_e, implicit, pending_children, stopped>>
      /\ candidates' = Rest
      /\ Pop(Next_candidate) /\ state[Next_candidate] > pending
  BY DEF AlreadyHandled, nodeVars
<1>4. /\ Next_candidate \in Nodes /\ Rest \in Seq(Nodes)
      /\ ToSet(candidates) \subseteq ToSet(Rest) \cup {Next_candidate}
  BY <1>2, <1>3, PopStack
<1>5. WalkTyped'
  BY <1>2, <1>3, <1>4 DEF WalkTyped
<1>6. SkipsWhenStopped'
  BY <1>1, <1>2, <1>3, SkipsSame
<1>7. FailedForGood => FailedForGood'
  BY <1>1, <1>3, FailedForGoodStays
<1>8. ASSUME Unharmed
      PROVE  Unharmed'
  <2>1. PendingKept'
    <3>1. state[Next_candidate] # pending
      BY <1>3 DEF pending
    <3>2. QED
      BY <1>1, <1>3, <1>4, <1>8, <3>1, PendingStays DEF Unharmed
  <2>2. SuspectsKept'
    BY <1>1, <1>3, <1>8 DEF Unharmed, SuspectsKept, building, Effects
  <2>3. TasksUnderWay' /\ FailuresBuilt'
    BY <1>3, <1>8, SearchTasks DEF Unharmed
  <2>4. NoneFailed' /\ PeersAgree' /\ SideEffectsWaited'
    BY <1>1, <1>3, <1>8 DEF Unharmed, NoneFailed, PeersAgree, SideEffectsWaited
  <2>5. QED
    BY <2>1, <2>2, <2>3, <2>4 DEF Unharmed
<1>9. QED
  BY <1>1, <1>3, <1>5, <1>6, <1>7, <1>8, StepWalk DEF Walking

(* Until something has failed the walk skips nothing; what has failed for    *)
(* good is not marked again.                                                 *)
LEMMA SkipFailedWalk ==
  ASSUME GraphAssumption, GraphShape, IInv, WInv, Search, NEW n \in Nodes, NEW random,
         SkipFailed(n, random)
  PROVE  WInv'
<1> USE DEF IInv
<1>1. /\ pc = "find" /\ pc' = "find"
      /\ UNCHANGED <<graph, options, task, requestQueue, resultsQueue, worker, interrupted>>
  BY SearchAside
<1>2. WalkTyped /\ SkipsWhenStopped
  BY DEF WInv
<1>3. Examined(n) /\ ChildFailed(n) /\ PushUnvisited(n, random)
  BY DEF SkipFailed
<1>4. /\ Rest \in Seq(Nodes) /\ state[n] <= pending /\ UNCHANGED stopped
      /\ implicit' \in [Nodes -> Seq(Nodes) \cup {Unscanned}]
      /\ Marked(n) \in [Nodes -> no_state .. failed]
      /\ \A m \in Nodes : m # n => Marked(n)[m] = state[m]
  BY <1>1, <1>2, <1>3, ExaminedFacts
<1>5. candidates' \in Seq(Nodes)
  BY <1>2, <1>3, <1>4, Pushed
<1>6. /\ state' = [m \in Nodes |-> IF m \in get_action_targets(n) THEN failed
                                   ELSE Marked(n)[m]]
      /\ UNCHANGED <<waiting_s_e, pending_children>>
  BY DEF SkipFailed
<1>7. WalkTyped'
  BY <1>2, <1>4, <1>5, <1>6 DEF WalkTyped, no_state, failed
<1>8. SkipsWhenStopped'
  BY <1>1, <1>2, <1>4, SkipsSame
<1>9. FailedForGood => FailedForGood'
  <2>1. \A m \in Nodes : state[m] = failed => state'[m] = failed
    BY <1>4, <1>6 DEF pending, failed
  <2>2. QED
    BY <1>1, <2>1, FailedForGoodStays
<1>10. ~Unharmed
  BY <1>2, <1>3, NoChildFailed DEF Unharmed
<1>11. QED
  BY <1>1, <1>4, <1>7, <1>8, <1>9, <1>10, StepWalk DEF Walking

(* A node whose children are not ready leaves the stack with a child that    *)
(* names it as a waiting parent, and with its pending children as suspects.  *)
LEMMA WaitForChildrenWalk ==
  ASSUME GraphAssumption, GraphShape, IInv, WInv, Search, NEW n \in Nodes, NEW random,
         WaitForChildren(n, random)
  PROVE  WInv'
<1> USE DEF IInv
<1>1. /\ pc = "find" /\ pc' = "find"
      /\ UNCHANGED <<graph, options, task, requestQueue, resultsQueue, worker, interrupted>>
  BY SearchAside
<1>2. WalkTyped /\ SkipsWhenStopped
  BY DEF WInv
<1>3. /\ Examined(n) /\ NotReady(n) # {} /\ PushUnvisited(n, random)
      /\ state' = Marked(n)
      /\ pending_children' = pending_children \cup ToSet(InState(n, {pending}))
      /\ UNCHANGED waiting_s_e
      /\ waiting_parents' = [c \in Nodes |-> IF c \in NotReady(n)
                                             THEN waiting_parents[c] \cup {n}
                                             ELSE waiting_parents[c]]
  BY DEF WaitForChildren, WaitFor
<1>4. /\ Rest \in Seq(Nodes) /\ state[n] <= pending /\ UNCHANGED stopped
      /\ ToSet(candidates) \subseteq ToSet(Rest) \cup {n}
      /\ implicit' \in [Nodes -> Seq(Nodes) \cup {Unscanned}]
      /\ Marked(n) \in [Nodes -> no_state .. failed]
      /\ Marked(n)[n] = pending
      /\ \A m \in Nodes : m # n => Marked(n)[m] = state[m]
  BY <1>1, <1>2, <1>3, ExaminedFacts
<1>5. candidates' \in Seq(Nodes) /\ ToSet(Rest) \subseteq ToSet(candidates')
  BY <1>2, <1>3, <1>4, Pushed
<1>6. /\ ToSet(InState(n, {pending})) \subseteq NotReady(n)
      /\ \A c \in ToSet(InState(n, {pending})) : Marked(n)[c] = pending
      /\ NotReady(n) \subseteq Nodes
  <2>1. /\ ToSet(InState(n, {pending})) = {c \in ToSet(Children(n)) : Marked(n)[c] \in {pending}}
        /\ ToSet(InState(n, {no_state, pending, executing}))
             = {c \in ToSet(Children(n)) : Marked(n)[c] \in {no_state, pending, executing}}
    BY <1>2, InStateElements
  <2>2. ToSet(Children(n)) \subseteq Nodes
    BY <1>2, ChildrenTyped, ElementsTyped
  <2>3. QED
    BY <2>1, <2>2 DEF NotReady
<1>7. WalkTyped'
  BY <1>2, <1>3, <1>4, <1>5, <1>6 DEF WalkTyped
<1>8. SkipsWhenStopped'
  BY <1>1, <1>2, <1>4, SkipsSame
<1>9. /\ FailedForGood => FailedForGood'
      /\ NoneFailed => NoneFailed'
      /\ PeersAgree => PeersAgree'
      /\ \A u \in Nodes : Done(u) => state'[u] = state[u]
      /\ \A m \in Nodes : state[m] = executing => state'[m] = executing
  BY <1>1, <1>2, <1>3, <1>4, MarkedStays
<1>10. /\ \A m \in Nodes : waiting_parents[m] \subseteq waiting_parents'[m]
       /\ \A m \in NotReady(n) : n \in waiting_parents'[m]
  BY <1>3, <1>6
<1>11. ASSUME Unharmed
       PROVE  Unharmed'
  <2>1. PendingKept'
    <3>1. \E c \in Nodes : n \in waiting_parents'[c]
      BY <1>3, <1>6, <1>10
    <3>2. \A m \in Nodes : state'[m] = pending => m = n \/ state[m] = pending
      BY <1>3, <1>4
    <3>3. \A m \in Nodes : /\ waiting_parents[m] \subseteq waiting_parents'[m]
                           /\ waiting_s_e[m] \subseteq waiting_s_e'[m]
                           /\ state[m] = executing => state'[m] = executing
      BY <1>3, <1>9, <1>10
    <3>4. ToSet(candidates) \subseteq ToSet(candidates') \cup {n}
      BY <1>4, <1>5
    <3>5. PendingKept /\ pc = "find"
      BY <1>1, <1>11 DEF Unharmed
    <3>6. QED
      BY ONLY <3>1, <3>2, <3>3, <3>4, <3>5, PendingStays
  <2>2. SuspectsKept'
    <3>1. ASSUME building, NEW m \in pending_children'
          PROVE  waiting_parents'[m] # {} /\ state'[m] \in {pending, executing}
      <4>1. CASE m \in pending_children
        <5>1. waiting_parents[m] # {} /\ state[m] \in {pending, executing} /\ m \in Nodes
          BY <1>1, <1>2, <1>11, <3>1, <4>1 DEF Unharmed, SuspectsKept, WalkTyped
        <5>2. QED
          BY <1>3, <1>4, <1>10, <5>1
      <4>2. CASE m \in ToSet(InState(n, {pending}))
        BY <1>3, <1>6, <1>10, <4>2
      <4>3. QED
        BY <1>3, <3>1, <4>1, <4>2
    <3>2. QED
      BY <1>1, <3>1 DEF SuspectsKept, building, pending, executing
  <2>3. TasksUnderWay' /\ FailuresBuilt'
    BY <1>9, <1>11, SearchTasks DEF Unharmed
  <2>4. NoneFailed' /\ PeersAgree' /\ SideEffectsWaited'
    BY <1>1, <1>3, <1>9, <1>11 DEF Unharmed, SideEffectsWaited
  <2>5. QED
    BY <2>1, <2>2, <2>3, <2>4 DEF Unharmed
<1>12. QED
  BY <1>1, <1>4, <1>7, <1>8, <1>9, <1>11, StepWalk DEF Walking

(* A node that finds a side effect executing leaves the stack and waits for  *)
(* it.                                                                       *)
LEMMA WaitForSideEffectsWalk ==
  ASSUME GraphAssumption, GraphShape, IInv, WInv, Search, NEW n \in Nodes,
         WaitForSideEffects(n)
  PROVE  WInv'
<1> USE DEF IInv
<1>1. /\ pc = "find" /\ pc' = "find"
      /\ UNCHANGED <<graph, options, task, requestQueue, resultsQueue, worker, interrupted>>
  BY SearchAside
<1>2. WalkTyped /\ SkipsWhenStopped
  BY DEF WInv
<1>3. /\ Examined(n) /\ BusySideEffects(n) # {} /\ candidates' = Rest
      /\ state' = Marked(n)
      /\ UNCHANGED <<waiting_parents, pending_children>>
      /\ waiting_s_e' = [s \in Nodes |-> IF s \in BusySideEffects(n)
                                         THEN waiting_s_e[s] \cup {n}
                                         ELSE waiting_s_e[s]]
  BY DEF WaitForSideEffects
<1>4. /\ Rest \in Seq(Nodes) /\ state[n] <= pending /\ UNCHANGED stopped
      /\ ToSet(candidates) \subseteq ToSet(Rest) \cup {n}
      /\ implicit' \in [Nodes -> Seq(Nodes) \cup {Unscanned}]
      /\ Marked(n) \in [Nodes -> no_state .. failed]
      /\ Marked(n)[n] = pending
      /\ \A m \in Nodes : m # n => Marked(n)[m] = state[m]
  BY <1>1, <1>2, <1>3, ExaminedFacts
<1>5. /\ n \in graph.built
      /\ \A s \in BusySideEffects(n) :
           /\ s \in Nodes /\ state[s] = executing
           /\ \E u \in ToSet(graph.peers[n]) : s \in ToSet(graph.effects[u])
  <2>1. \A s \in BusySideEffects(n) :
          state[s] = executing /\ \E u \in get_action_targets(n) : s \in ToSet(graph.effects[u])
    BY DEF BusySideEffects, get_action_side_effects
  <2>2. n \in graph.built
    BY <1>3, <2>1 DEF get_action_targets, has_builder
  <2>3. get_action_targets(n) = ToSet(graph.peers[n])
    BY <2>2 DEF get_action_targets, has_builder
  <2>4. \A u \in ToSet(graph.peers[n]) : ToSet(graph.effects[u]) \subseteq Nodes
    BY Shape
  <2>5. QED
    BY <2>1, <2>2, <2>3, <2>4
<1>6. WalkTyped'
  BY <1>2, <1>3, <1>4 DEF WalkTyped
<1>7. SkipsWhenStopped'
  BY <1>1, <1>2, <1>4, SkipsSame
<1>8. /\ FailedForGood => FailedForGood'
      /\ NoneFailed => NoneFailed'
      /\ PeersAgree => PeersAgree'
      /\ \A u \in Nodes : Done(u) => state'[u] = state[u]
      /\ \A m \in Nodes : state[m] = executing => state'[m] = executing
  BY <1>1, <1>2, <1>3, <1>4, MarkedStays
<1>9. ASSUME Unharmed
      PROVE  Unharmed'
  <2>1. PendingKept'
    <3>1. \E s \in Nodes : n \in waiting_s_e'[s] /\ state'[s] = executing
      BY <1>3, <1>5, <1>8
    <3>2. \A m \in Nodes : state'[m] = pending => m = n \/ state[m] = pending
      BY <1>3, <1>4
    <3>3. \A m \in Nodes : waiting_s_e[m] \subseteq waiting_s_e'[m]
      BY <1>3
    <3>4. QED
      BY <1>1, <1>3, <1>4, <1>8, <1>9, <3>1, <3>2, <3>3, PendingStays DEF Unharmed
  <2>2. SuspectsKept'
    <3>1. ASSUME building, NEW m \in pending_children'
          PROVE  waiting_parents'[m] # {} /\ state'[m] \in {pending, executing}
      <4>1. waiting_parents[m] # {} /\ state[m] \in {pending, executing} /\ m \in Nodes
        BY <1>1, <1>2, <1>3, <1>9, <3>1 DEF Unharmed, SuspectsKept, WalkTyped
      <4>2. QED
        BY <1>3, <1>4, <4>1
    <3>2. QED
      BY <1>1, <3>1 DEF SuspectsKept, building, pending, executing
  <2>3. TasksUnderWay' /\ FailuresBuilt'
    BY <1>8, <1>9, SearchTasks DEF Unharmed
  <2>4. SideEffectsWaited'
    BY <1>1, <1>3, <1>5, <1>9 DEF Unharmed, SideEffectsWaited
  <2>5. QED
    BY <1>8, <1>9, <2>1, <2>2, <2>3, <2>4 DEF Unharmed
<1>10. QED
  BY <1>1, <1>4, <1>6, <1>7, <1>8, <1>9, StepWalk DEF Walking

(* WInv is kept by Search. *)
LEMMA SearchWalk ==
  ASSUME GraphAssumption, GraphShape, IInv, WInv, Search
  PROVE  WInv'
BY AlreadyHandledWalk, SkipFailedWalk, WaitForChildrenWalk, WaitForSideEffectsWalk
   DEF Search

(* What the hand-out of n does to the states: its targets become executing   *)
(* with their side effects, or they are up to date.                          *)
LEMMA MadeReadyStates ==
  ASSUME GraphAssumption, GraphShape, NodesTyped, WalkTyped, NEW n \in Nodes, NEW all,
         state' = MadeReady(n, all)
  PROVE  /\ state' \in [Nodes -> no_state .. failed]
         /\ \A m \in ToSet(graph.peers[n]) : state'[m] \in {executing, up_to_date}
         /\ \A a, b \in ToSet(graph.peers[n]) : state'[a] = state'[b]
         /\ \A m \in Nodes : m \notin ToSet(graph.peers[n]) =>
              state'[m] = state[m] \/ (state'[m] = executing /\ side_effect(m))
<1> DEFINE targets == ToSet(graph.peers[n])
           busy == targets \cup UNION {ToSet(graph.effects[t]) : t \in targets}
<1>1. targets \subseteq Nodes
  BY Shape
<1>2. \A m \in busy : m \in targets \/ side_effect(m)
  BY <1>1 DEF side_effect
<1>3. \/ state' = [m \in Nodes |-> IF m \in busy THEN executing ELSE state[m]]
      \/ state' = [m \in Nodes |-> IF m \in targets THEN up_to_date ELSE state[m]]
  BY DEF MadeReady, get_all_targets
<1>4. targets \subseteq busy
  OBVIOUS
<1> HIDE DEF targets, busy
<1>5. /\ state' \in [Nodes -> no_state .. failed]
      /\ \A m \in targets : state'[m] \in {executing, up_to_date}
      /\ \A a, b \in targets : state'[a] = state'[b]
      /\ \A m \in Nodes : m \notin targets =>
           state'[m] = state[m] \/ (state'[m] = executing /\ side_effect(m))
  <2>1. CASE state' = [m \in Nodes |-> IF m \in busy THEN executing ELSE state[m]]
    BY <1>1, <1>2, <1>4, <2>1 DEF WalkTyped, no_state, executing, up_to_date, failed
  <2>2. CASE state' = [m \in Nodes |-> IF m \in targets THEN up_to_date ELSE state[m]]
    BY <1>1, <2>2 DEF WalkTyped, no_state, executing, up_to_date, failed
  <2>3. QED
    BY <1>3, <2>1, <2>2
<1>6. QED
  BY <1>5 DEF targets

(* Nothing that has a builder is a side effect. *)
LEMMA NoSideEffectBuilt ==
  ASSUME GraphAssumption, GraphShape, NodesTyped, NEW n \in Nodes, side_effect(n)
  PROVE  n \notin graph.built /\ ToSet(graph.peers[n]) = {n}
<1>1. n \notin graph.built
  BY Shape DEF side_effect
<1>2. graph.peers[n] = <<n>>
  BY <1>1, Shape
<1>3. \A x : ToSet(<<x>>) = {x}
  BY DEF ToSet
<1>4. QED
  BY <1>1, <1>2, <1>3

(* A candidate that is handed out while nothing has failed is a task under   *)
(* way: a side effect has what it is a side effect of among its children,    *)
(* and these are done.                                                       *)
LEMMA HandOutUnderWay ==
  ASSUME GraphAssumption, GraphShape, NodesTyped, WalkTyped, NoneFailed, NEW n \in Nodes,
         IsReady(n), NEW u \in Nodes, u \in graph.built, n \in ToSet(graph.effects[u])
  PROVE  Done(u) /\ u # n
<1>1. n \notin graph.built /\ u \in ToSet(graph.kids[n])
  BY Shape
<1>2. n \notin graph.unscanned
  BY <1>1, Shape
<1>3. NotReady(n) = {}
  BY <1>2 DEF IsReady, ChildrenUnknown
<1>4. u \in ToSet(Children(n))
  BY <1>1, ChildrenTyped
<1>5. ToSet(InState(n, {no_state, pending, executing}))
        = {c \in ToSet(Children(n)) : Marked(n)[c] \in {no_state, pending, executing}}
  BY InStateElements
<1>6. Marked(n)[u] \notin {no_state, pending, executing}
  BY <1>3, <1>4, <1>5 DEF NotReady
<1>7. u # n /\ Marked(n)[u] = state[u]
  BY <1>1 DEF Marked, WalkTyped
<1>8. state[u] # failed /\ state[u] \in no_state .. failed
  BY DEF NoneFailed, WalkTyped
<1>9. QED
  BY <1>6, <1>7, <1>8 DEF Done, no_state, pending, executing, up_to_date, executed, failed

(* A node handed out as a task: its children are done, and its side effects  *)
(* and the other targets of its executor leave the walk with it.             *)
LEMMA Next_taskWalk ==
  ASSUME GraphAssumption, GraphShape, IInv, WInv, Next_task
  PROVE  WInv'
<1> USE DEF IInv
<1>1. PICK n \in Nodes : /\ HandOut(n, options.mode = "clean")
                         /\ task' = Task(n, ChildrenUnknown(n))
  BY DEF Next_task
<1>2. /\ pc = "find" /\ pc' = "prepare"
      /\ UNCHANGED <<graph, options, requestQueue, resultsQueue, worker, interrupted>>
  BY DEF Next_task
<1>3. /\ Pop(n) /\ state[n] <= pending /\ IsReady(n)
      /\ implicit' = IF ChildrenUnknown(n) THEN implicit ELSE Scanned(n)
      /\ candidates' = Rest /\ state' = MadeReady(n, options.mode = "clean")
      /\ UNCHANGED <<waiting_parents, waiting_s_e, pending_children, stopped>>
  BY <1>1 DEF HandOut, Considering
<1>4. /\ task'.node = n /\ task'.targets = graph.peers[n]
      /\ task'.exc = (n \in graph.unscanned)
  BY <1>1 DEF Task, get_all_targets, ChildrenUnknown
<1>5. WalkTyped /\ SkipsWhenStopped /\ NodesTyped
  BY DEF WInv
<1>6. /\ Rest \in Seq(Nodes)
      /\ ToSet(candidates) \subseteq ToSet(Rest) \cup {n}
  BY <1>3, <1>5, PopStack
<1> DEFINE targets == ToSet(graph.peers[n])
<1>7. /\ state' \in [Nodes -> no_state .. failed]
      /\ \A m \in targets : state'[m] \in {executing, up_to_date}
      /\ \A a, b \in targets : state'[a] = state'[b]
      /\ \A m \in Nodes : m \notin targets =>
           state'[m] = state[m] \/ (state'[m] = executing /\ side_effect(m))
  BY <1>3, <1>5, MadeReadyStates
<1>8. n \in targets /\ targets \subseteq Nodes
  BY <1>5, Shape
<1>9. WalkTyped'
  <2>1. implicit' \in [Nodes -> Seq(Nodes) \cup {Unscanned}]
    BY <1>3, <1>5, ScannedTyped DEF WalkTyped
  <2>2. QED
    BY <1>3, <1>5, <1>6, <1>7, <2>1 DEF WalkTyped
<1>10. SkipsWhenStopped'
  BY <1>2, <1>3, <1>5, SkipsSame
<1>11. ASSUME FailedForGood
       PROVE  FailedForGood'
  <2>1. state[n] # failed
    BY <1>3 DEF pending, failed
  <2>2. \A m \in Nodes : state[m] = failed /\ ~side_effect(m) =>
          state'[m] = failed \/ m \in ToSet(graph.peers[n])
    BY <1>7
  <2>3. QED
    BY <1>2, <1>5, <1>11, <2>1, <2>2, FailedForGoodStays
<1>12. ASSUME Unharmed
       PROVE  Unharmed'
  <2>1. /\ NoneFailed /\ PeersAgree /\ TasksUnderWay /\ FailuresBuilt
        /\ SideEffectsWaited /\ PendingKept /\ SuspectsKept
    BY <1>12 DEF Unharmed
  <2>2. \A m \in targets : state[m] \in {no_state, pending}
    <3>1. ASSUME NEW m \in targets
          PROVE  ~(state[m] > pending)
      <4>1. m \in Nodes /\ n \in ToSet(graph.peers[m])
        BY <1>5, Peers
      <4>2. state[m] > pending => state[n] = state[m]
        BY <2>1, <4>1 DEF PeersAgree
      <4>3. state[n] \in no_state .. failed
        BY <1>5 DEF WalkTyped
      <4>4. QED
        BY <1>3, <4>2, <4>3 DEF no_state, pending, failed
    <3>2. \A m \in targets : state[m] \in no_state .. failed
      BY <1>5, <1>8 DEF WalkTyped
    <3>3. QED
      BY <3>1, <3>2 DEF no_state, pending, failed
  <2>3. NoneFailed'
    <3>1. ASSUME NEW m \in Nodes
          PROVE  state'[m] # failed
      BY <1>7, <2>1 DEF NoneFailed, executing, up_to_date, failed
    <3>2. QED
      BY <3>1 DEF NoneFailed, failed
  <2>4. \A m \in Nodes \ targets : m \in graph.built => state'[m] = state[m]
    BY <1>5, <1>7, NoSideEffectBuilt
  <2>5. PeersAgree'
    <3>1. \A a, b \in ToSet(graph.peers[n]) : state'[a] > pending => state'[b] = state'[a]
      BY <1>7
    <3>2. QED
      BY <1>2, <1>5, <2>1, <2>4, <3>1, AgreeStays
  <2>6. \A u \in Nodes : u \in graph.built /\ Done(u) => state'[u] = state[u]
    BY <2>2, <2>4 DEF Done, no_state, pending, up_to_date, executed
  <2>7. TasksUnderWay'
    <3>1. ASSUME NEW u \in Nodes, u \in graph.built, n \in ToSet(graph.effects[u])
          PROVE  Done(u)'
      <4>1. Done(u)
        BY <1>3, <1>5, <2>1, <3>1, HandOutUnderWay
      <4>2. QED
        BY <2>6, <3>1, <4>1 DEF Done, up_to_date, executed
    <3>2. UnderWay(task)'
      BY <1>2, <1>4, <3>1 DEF UnderWay
    <3>3. QED
      BY <1>2, <2>1, <2>6, <3>2, TasksStay
  <2>8. FailuresBuilt'
    <3>1. task'.exc => task'.node \in graph.built
      BY <1>4, <1>5, Shape
    <3>2. QED
      BY <1>2, <2>1, <3>1 DEF FailuresBuilt, has_builder
  <2>9. SideEffectsWaited'
    BY <1>2, <1>3, <2>1 DEF SideEffectsWaited
  <2>10. PendingKept'
    <3>1. state'[n] # pending
      BY <1>7, <1>8 DEF pending, executing, up_to_date
    <3>2. \A m \in Nodes : state'[m] = pending => m = n \/ state[m] = pending
      BY <1>7 DEF pending, executing, up_to_date
    <3>3. \A m \in Nodes : /\ waiting_parents[m] \subseteq waiting_parents'[m]
                           /\ waiting_s_e[m] \subseteq waiting_s_e'[m]
                           /\ state[m] = executing => state'[m] = executing
      BY <1>3, <1>7, <2>2 DEF no_state, pending, executing
    <3>4. ToSet(candidates) \subseteq ToSet(candidates') \cup {n}
      BY <1>3, <1>6
    <3>5. PendingKept /\ pc = "find"
      BY <1>2, <2>1
    <3>6. QED
      BY ONLY <3>1, <3>2, <3>3, <3>4, <3>5, PendingStays
  <2>11. SuspectsKept'
    <3>1. ASSUME building, NEW m \in pending_children'
          PROVE  /\ waiting_parents'[m] # {}
                 /\ \/ state'[m] \in {pending, executing}
                    \/ m \in ToSet(task'.targets)
      <4>1. waiting_parents[m] # {} /\ state[m] \in {pending, executing} /\ m \in Nodes
        BY <1>2, <1>3, <1>5, <2>1, <3>1 DEF SuspectsKept, WalkTyped
      <4>2. QED
        BY <1>3, <1>4, <1>7, <4>1
    <3>2. QED
      BY <1>2, <3>1 DEF SuspectsKept, building, pending, executing
  <2>12. QED
    BY <2>3, <2>5, <2>7, <2>8, <2>9, <2>10, <2>11 DEF Unharmed
<1>13. QED
  BY <1>2, <1>3, <1>9, <1>10, <1>11, <1>12, StepWalk DEF Walking

(* will_not_build leaves the fields typed, takes no failure back, and marks  *)
(* all that it is given.                                                     *)
LEMMA WillNotBuildStates ==
  ASSUME GraphAssumption, NodesTyped, WalkTyped, NEW nodes, NEW mark \in {no_state, failed},
         will_not_build(nodes, mark)
  PROVE  /\ state' \in [Nodes -> no_state .. failed]
         /\ pending_children' \subseteq Nodes
         /\ \A m \in Nodes : state[m] = failed => state'[m] = failed
         /\ mark = failed /\ nodes \subseteq Nodes => \A m \in nodes : state'[m] = failed
<1>1. /\ state' = [n \in Nodes |-> IF n \in WaitClosure(nodes) /\ mark # no_state
                                   THEN mark ELSE state[n]]
      /\ pending_children' \subseteq pending_children
  BY DEF will_not_build
<1>2. nodes \subseteq Nodes => nodes \subseteq WaitClosure(nodes)
  BY ClosureAbove
<1>3. QED
  BY <1>1, <1>2 DEF WalkTyped, no_state, failed

(* A step of the jobs that leaves the nodes and the stack alone. *)
LEMMA AsideWalk ==
  ASSUME GraphAssumption, GraphShape, NodesTyped, WInv,
         UNCHANGED <<graph, options, state, waiting_parents, waiting_s_e, implicit,
                     candidates, pending_children>>,
         SkipsWhenStopped', stopped => stopped',
         Walking' => Walking,
         pc = "postprocess" => UNCHANGED <<pc, task>>,
         Walking' /\ ~stopped' /\ Unharmed => TasksUnderWay' /\ FailuresBuilt' /\ SuspectsKept'
  PROVE  WInv'
<1>1. WalkTyped'
  BY DEF WInv, WalkTyped
<1>2. FailedForGood => FailedForGood'
  BY FailedForGoodStays
<1>3. ASSUME Unharmed
      PROVE  NoneFailed' /\ PeersAgree' /\ SideEffectsWaited'
  BY <1>3 DEF Unharmed, NoneFailed, PeersAgree, SideEffectsWaited
<1>4. ASSUME Unharmed
      PROVE  PendingKept'
  <2>1. CASE pc = "postprocess"
    BY <1>4, <2>1 DEF Unharmed, PendingKept, Effects
  <2>2. CASE pc # "postprocess"
    BY <1>4, <2>2 DEF Unharmed, PendingKept
  <2>3. QED
    BY <2>1, <2>2
<1>5. Walking' /\ ~stopped' /\ Unharmed => Unharmed'
  BY <1>3, <1>4 DEF Unharmed
<1>6. QED
  BY <1>1, <1>2, <1>5, StepWalk

(* next_task without a task leaves the nodes alone.                          *)
LEMMA NoMoreTasksWalk ==
  ASSUME GraphAssumption, GraphShape, IInv, WInv, NoMoreTasks
  PROVE  WInv'
<1>1. /\ pc = "find" /\ pc' \in {"collect", "join", "cleanup"}
      /\ UNCHANGED <<graph, options, task, requestQueue, resultsQueue, worker, interrupted>>
  BY DEF NoMoreTasks
<1>2. NodesTyped /\ WalkTyped /\ SkipsWhenStopped
  BY DEF WInv, IInv
<1>3. CASE UNCHANGED <<nodeVars, tmVars>>
  <2>1. UNCHANGED <<state, waiting_parents, waiting_s_e, implicit, candidates,
                    pending_children, stopped>>
    BY <1>3 DEF nodeVars, tmVars
  <2>2. SkipsWhenStopped'
    BY <1>1, <1>2, <2>1, SkipsSame
  <2>3. ASSUME Unharmed, Walking'
        PROVE  TasksUnderWay' /\ FailuresBuilt' /\ SuspectsKept'
    <3>1. pc' = "collect"
      BY <1>1, <2>3 DEF Walking
    <3>2. TasksUnderWay'
      BY <1>1, <2>1, <2>3, <3>1, TasksStay DEF Unharmed
    <3>3. FailuresBuilt'
      BY <1>1, <2>3, <3>1 DEF Unharmed, FailuresBuilt, has_builder
    <3>4. SuspectsKept'
      BY <1>1, <2>1, <2>3, <3>1 DEF Unharmed, SuspectsKept, building
    <3>5. QED
      BY <3>2, <3>3, <3>4
  <2>4. Walking
    BY <1>1 DEF Walking
  <2>5. QED
    BY <1>1, <1>2, <2>1, <2>2, <2>3, <2>4, AsideWalk
<1>4. CASE GiveUpCandidates
  <2>1. /\ stopped /\ stopped' /\ candidates' = <<>>
        /\ will_not_build(ToSet(candidates), no_state)
        /\ UNCHANGED <<waiting_s_e, implicit>>
    BY <1>4 DEF GiveUpCandidates
  <2>2. WalkTyped'
    <3>1. state' \in [Nodes -> no_state .. failed] /\ pending_children' \subseteq Nodes
      BY <1>2, <2>1, WillNotBuildStates
    <3>2. <<>> \in Seq(Nodes)
      OBVIOUS
    <3>3. QED
      BY <1>2, <2>1, <3>1, <3>2 DEF WalkTyped
  <2>3. SkipsWhenStopped'
    BY <1>1, <1>2, <2>1, SkipsSame
  <2>4. QED
    BY <2>1, <2>2, <2>3 DEF WInv
<1>5. QED
  BY <1>3, <1>4 DEF NoMoreTasks

(* The steps of the jobs that leave the nodes alone. *)

(* Task.prepare.                                                             *)
LEMMA PrepareWalk ==
  ASSUME GraphAssumption, GraphShape, IInv, WInv, Prepare
  PROVE  WInv'
<1>1. /\ pc = "prepare" /\ pc' \in {"failed", "executed", "put", "execute"}
      /\ pc' = "failed" => PrepareFails(task)
      /\ pc' # "failed" /\ pc' # "executed" => needs_execute(task)
      /\ UNCHANGED <<graph, options, task, requestQueue, resultsQueue, worker, interrupted>>
      /\ UNCHANGED <<state, waiting_parents, waiting_s_e, implicit, candidates,
                     pending_children, stopped>>
  BY DEF Prepare, nodeVars, tmVars
<1>2. NodesTyped /\ WalkTyped /\ SkipsWhenStopped
  BY DEF WInv, IInv
<1>3. SkipsWhenStopped'
  BY <1>1, <1>2, SkipsSame
<1>4. ASSUME Unharmed
      PROVE  TasksUnderWay' /\ FailuresBuilt' /\ SuspectsKept'
  <2>1. UnderWay(task)
    BY <1>1, <1>4 DEF Unharmed, TasksUnderWay
  <2>2. TasksUnderWay'
    BY <1>1, <1>4, <2>1, TasksStay DEF Unharmed, UnderWay, Done
  <2>3. pc' = "put" /\ building => \A n \in ToSet(task.targets) : state[n] = executing
    <3>1. ASSUME pc' = "put", building, NEW n \in ToSet(task.targets)
          PROVE  state[n] = executing
      <4>1. /\ task.node \in Nodes /\ task.targets = graph.peers[task.node]
            /\ task.targets \in Seq(Nodes)
        BY <1>2, <2>1, Shape DEF UnderWay
      <4>2. task.targets[1] \in ToSet(task.targets)
        <5>1. Len(task.targets) \in Nat /\ DOMAIN task.targets = 1 .. Len(task.targets)
          BY <4>1
        <5>2. DOMAIN task.targets # {}
          BY <3>1 DEF ToSet
        <5>3. 1 \in DOMAIN task.targets
          BY <5>1, <5>2
        <5>4. QED
          BY <5>3 DEF ToSet
      <4>3. state[task.targets[1]] = executing
        BY <1>1, <3>1 DEF needs_execute
      <4>4. /\ task.targets[1] \in Nodes
            /\ n \in ToSet(graph.peers[task.targets[1]])
        BY <1>2, <3>1, <4>1, <4>2, Peers
      <4>5. QED
        BY <1>4, <4>3, <4>4 DEF Unharmed, PeersAgree, pending, executing
    <3>2. QED
      BY <3>1
  <2>4. FailuresBuilt'
    <3>1. pc' = "failed" => has_builder(task.node)
      BY <1>1, <1>4 DEF PrepareFails, exception_raise, Unharmed, FailuresBuilt
    <3>2. QED
      BY <1>1, <1>4, <2>3, <3>1 DEF Unharmed, FailuresBuilt, has_builder, building, executing
  <2>5. SuspectsKept'
    BY <1>1, <1>4, <2>3 DEF Unharmed, SuspectsKept, building, pending, executing
  <2>6. QED
    BY <2>2, <2>4, <2>5
<1>5. Walking
  BY <1>1 DEF Walking
<1>6. QED
  BY <1>1, <1>2, <1>3, <1>4, <1>5, AsideWalk

(* The places of a queue after an append.                                    *)
LEMMA AppendHas ==
  ASSUME NEW S, NEW q \in Seq(S), NEW x \in S, NEW i \in DOMAIN Append(q, x)
  PROVE  (i \in DOMAIN q /\ Append(q, x)[i] = q[i]) \/ Append(q, x)[i] = x
OBVIOUS

(* The places of a queue whose head was taken.                               *)
LEMMA TailHas ==
  ASSUME NEW S, NEW q \in Seq(S), q # <<>>
  PROVE  /\ 1 \in DOMAIN q /\ Head(q) = q[1]
         /\ \A i \in DOMAIN Tail(q) : i + 1 \in DOMAIN q /\ Tail(q)[i] = q[i + 1]
OBVIOUS

(* A task goes to the queue of the workers.                                  *)
LEMMA PutWalk ==
  ASSUME GraphAssumption, GraphShape, IInv, WInv, Put
  PROVE  WInv'
<1>1. /\ pc = "put" /\ pc' \in {"find", "collect"}
      /\ requestQueue' = Append(requestQueue, task)
      /\ UNCHANGED <<graph, options, task, resultsQueue, worker, interrupted>>
      /\ UNCHANGED <<state, waiting_parents, waiting_s_e, implicit, candidates,
                     pending_children, stopped>>
  BY DEF Put, nodeVars, tmVars
<1>2. NodesTyped /\ WalkTyped /\ SkipsWhenStopped /\ task \in Tasks /\ requestQueue \in Seq(Tasks)
  BY DEF WInv, IInv, TasksTyped
<1>3. SkipsWhenStopped'
  BY <1>1, <1>2, SkipsSame
<1>4. ASSUME Unharmed
      PROVE  TasksUnderWay' /\ FailuresBuilt' /\ SuspectsKept'
  <2>1. TasksUnderWay /\ FailuresBuilt /\ SuspectsKept
    BY <1>4 DEF Unharmed
  <2>2. UnderWay(task)
    BY <1>1, <2>1 DEF TasksUnderWay
  <2>3. \A i \in DOMAIN requestQueue' : UnderWay(requestQueue'[i])
    BY <1>1, <1>2, <2>1, <2>2, AppendHas DEF TasksUnderWay
  <2>4. TasksUnderWay'
    BY <1>1, <2>1, <2>3 DEF TasksUnderWay, UnderWay, Done
  <2>5. FailuresBuilt'
    BY <1>1, <2>1 DEF FailuresBuilt, has_builder
  <2>6. SuspectsKept'
    BY <1>1, <2>1 DEF FailuresBuilt, SuspectsKept, building, pending, executing
  <2>7. QED
    BY <2>4, <2>5, <2>6
<1>5. Walking
  BY <1>1 DEF Walking
<1>6. QED
  BY <1>1, <1>2, <1>3, <1>4, <1>5, AsideWalk

(* A command that fails is one of a builder. *)
LEMMA FailsBuilt ==
  ASSUME GraphAssumption, GraphShape, NodesTyped, NEW t, UnderWay(t), ExecuteFails(t)
  PROVE  has_builder(t.node)
<1>1. t.node \in Nodes /\ t.targets = graph.peers[t.node]
  BY DEF UnderWay
<1>2. PICK n \in ToSet(t.targets) : n \in graph.broken
  BY DEF ExecuteFails
<1>3. n \in Nodes /\ n \in graph.built
  BY <1>1, <1>2, Shape
<1>4. QED
  BY <1>1, <1>2, <1>3, Shape DEF has_builder

(* Task.execute of a serial build.                                           *)
LEMMA ExecuteWalk ==
  ASSUME GraphAssumption, GraphShape, IInv, WInv, Execute
  PROVE  WInv'
<1>1. /\ pc = "execute" /\ pc' \in {"failed", "executed"}
      /\ pc' = "failed" => ExecuteFails(task)
      /\ UNCHANGED <<graph, options, task, requestQueue, resultsQueue, worker, interrupted>>
      /\ UNCHANGED <<state, waiting_parents, waiting_s_e, implicit, candidates,
                     pending_children>>
      /\ stopped => stopped'
  BY DEF Execute, Answer, nodeVars
<1>2. NodesTyped /\ WalkTyped /\ SkipsWhenStopped
  BY DEF WInv, IInv
<1>3. SkipsWhenStopped'
  BY <1>1, <1>2, SkipsSame
<1>4. ASSUME Unharmed
      PROVE  TasksUnderWay' /\ FailuresBuilt' /\ SuspectsKept'
  <2>1. TasksUnderWay /\ FailuresBuilt /\ SuspectsKept
    BY <1>4 DEF Unharmed
  <2>2. UnderWay(task)
    BY <1>1, <2>1 DEF TasksUnderWay
  <2>3. TasksUnderWay'
    BY <1>1, <2>1, <2>2, TasksStay DEF UnderWay, Done
  <2>4. pc' = "failed" => has_builder(task.node)
    BY <1>1, <1>2, <2>2, FailsBuilt
  <2>5. FailuresBuilt'
    BY <1>1, <2>1, <2>4 DEF FailuresBuilt, has_builder
  <2>6. SuspectsKept'
    BY <1>1, <2>1 DEF SuspectsKept, building
  <2>7. QED
    BY <2>3, <2>5, <2>6
<1>5. Walking
  BY <1>1 DEF Walking
<1>6. QED
  BY <1>1, <1>2, <1>3, <1>4, <1>5, AsideWalk

(* The answer of a worker is taken from the queue of results.                *)
LEMMA CollectWalk ==
  ASSUME GraphAssumption, GraphShape, IInv, WInv, Collect
  PROVE  WInv'
<1>1. /\ pc = "collect" /\ resultsQueue # <<>>
      /\ pc' = IF Head(resultsQueue).ok THEN "executed" ELSE "failed"
      /\ task' = Head(resultsQueue).task
      /\ resultsQueue' = Tail(resultsQueue)
      /\ UNCHANGED <<graph, options, requestQueue, worker, interrupted>>
      /\ UNCHANGED <<state, waiting_parents, waiting_s_e, implicit, candidates,
                     pending_children, stopped>>
  BY DEF Collect, nodeVars, tmVars
<1>2. NodesTyped /\ WalkTyped /\ SkipsWhenStopped
  BY DEF WInv, IInv
<1>3. SkipsWhenStopped'
  BY <1>1, <1>2, SkipsSame
<1>4. /\ 1 \in DOMAIN resultsQueue /\ Head(resultsQueue) = resultsQueue[1]
      /\ \A i \in DOMAIN Tail(resultsQueue) :
           i + 1 \in DOMAIN resultsQueue /\ Tail(resultsQueue)[i] = resultsQueue[i + 1]
  <2> DEFINE Results == [task : Tasks, ok : BOOLEAN]
  <2>1. resultsQueue \in Seq(Results)
    BY DEF IInv, TasksTyped
  <2> HIDE DEF Results
  <2>2. QED
    BY <1>1, <2>1, TailHas
<1>5. ASSUME Unharmed
      PROVE  TasksUnderWay' /\ FailuresBuilt' /\ SuspectsKept'
  <2>1. TasksUnderWay /\ FailuresBuilt /\ SuspectsKept
    BY <1>5 DEF Unharmed
  <2>2. UnderWay(task')
    BY <1>1, <1>4, <2>1 DEF TasksUnderWay
  <2>3. \A i \in DOMAIN resultsQueue' : UnderWay(resultsQueue'[i].task)
    BY <1>1, <1>4, <2>1 DEF TasksUnderWay
  <2>4. TasksUnderWay'
    BY <1>1, <2>1, <2>2, <2>3 DEF TasksUnderWay, UnderWay, Done
  <2>5. /\ pc' = "failed" => has_builder(task'.node)
        /\ \A i \in DOMAIN resultsQueue' :
             resultsQueue'[i].ok \/ has_builder(resultsQueue'[i].task.node)
    BY <1>1, <1>4, <2>1 DEF FailuresBuilt
  <2>6. FailuresBuilt'
    BY <1>1, <2>5 DEF FailuresBuilt, has_builder
  <2>7. SuspectsKept'
    BY <1>1, <2>1 DEF SuspectsKept, building
  <2>8. QED
    BY <2>4, <2>6, <2>7
<1>6. Walking
  BY <1>1 DEF Walking
<1>7. QED
  BY <1>1, <1>2, <1>3, <1>5, <1>6, AsideWalk

(* A worker that takes a task, or ends. *)
LEMMA GetWalk ==
  ASSUME GraphAssumption, GraphShape, IInv, WInv, NEW w \in Workers, Get(w)
  PROVE  WInv'
<1>1. /\ requestQueue # <<>> /\ requestQueue' = Tail(requestQueue)
      /\ \/ worker' = [worker EXCEPT ![w] = Gone]
         \/ worker' = [worker EXCEPT ![w] = [task |-> Head(requestQueue), skip |-> interrupted]]
      /\ UNCHANGED <<graph, options, pc, task, resultsQueue, interrupted>>
      /\ UNCHANGED <<state, waiting_parents, waiting_s_e, implicit, candidates,
                     pending_children, stopped>>
  BY DEF Get, nodeVars, tmVars
<1>2. NodesTyped /\ WalkTyped /\ SkipsWhenStopped /\ DOMAIN worker = Workers
  BY DEF WInv, IInv, TasksTyped
<1>3. SkipsWhenStopped'
  <2>1. ASSUME NEW v \in Workers, worker'[v] \notin {Idle, Gone}, worker'[v].skip
        PROVE  stopped
    <3>1. CASE v = w
      BY <1>1, <1>2, <2>1, <3>1 DEF SkipsWhenStopped
    <3>2. CASE v # w
      BY <1>1, <1>2, <2>1, <3>2 DEF SkipsWhenStopped
    <3>3. QED
      BY <3>1, <3>2
  <2>2. QED
    BY <1>1, <1>2, <2>1 DEF SkipsWhenStopped
<1>4. /\ 1 \in DOMAIN requestQueue /\ Head(requestQueue) = requestQueue[1]
      /\ \A i \in DOMAIN Tail(requestQueue) :
           i + 1 \in DOMAIN requestQueue /\ Tail(requestQueue)[i] = requestQueue[i + 1]
  <2>1. requestQueue \in Seq(Tasks)
    BY DEF IInv, TasksTyped
  <2>2. QED
    BY <1>1, <2>1, TailHas
<1>5. ASSUME Unharmed
      PROVE  TasksUnderWay' /\ FailuresBuilt' /\ SuspectsKept'
  <2>1. TasksUnderWay /\ FailuresBuilt /\ SuspectsKept
    BY <1>5 DEF Unharmed
  <2>2. \A i \in DOMAIN requestQueue' : UnderWay(requestQueue'[i])
    BY <1>1, <1>4, <2>1 DEF TasksUnderWay
  <2>3. ASSUME NEW v \in Workers, worker'[v] \notin {Idle, Gone}
        PROVE  UnderWay(worker'[v].task)
    <3>1. CASE v = w
      BY <1>1, <1>2, <1>4, <2>1, <2>3, <3>1 DEF TasksUnderWay
    <3>2. CASE v # w
      BY <1>1, <1>2, <2>1, <2>3, <3>2 DEF TasksUnderWay
    <3>3. QED
      BY <3>1, <3>2
  <2>4. TasksUnderWay'
    BY <1>1, <2>1, <2>2, <2>3 DEF TasksUnderWay, UnderWay, Done
  <2>5. FailuresBuilt'
    BY <1>1, <2>1 DEF FailuresBuilt, has_builder, building
  <2>6. SuspectsKept'
    BY <1>1, <2>1 DEF SuspectsKept, building, Effects
  <2>7. QED
    BY <2>4, <2>5, <2>6
<1>6. Walking' => Walking
  BY <1>1 DEF Walking
<1>7. QED
  BY <1>1, <1>2, <1>3, <1>5, <1>6, AsideWalk

(* A worker that ends its task: one it left aside was taken after a signal. *)
LEMMA FinishWalk ==
  ASSUME GraphAssumption, GraphShape, IInv, WInv, NEW w \in Workers, Finish(w)
  PROVE  WInv'
<1> DEFINE result == [task |-> worker[w].task,
                      ok |-> ~worker[w].skip /\ ~ExecuteFails(worker[w].task)]
<1>1. /\ worker[w] \notin {Idle, Gone} /\ worker' = [worker EXCEPT ![w] = Idle]
      /\ resultsQueue' = Append(resultsQueue, result)
      /\ stopped => stopped'
      /\ UNCHANGED <<graph, options, pc, task, requestQueue, interrupted>>
      /\ UNCHANGED <<state, waiting_parents, waiting_s_e, implicit, candidates,
                     pending_children>>
  BY DEF Finish, Answer, nodeVars
<1>2. NodesTyped /\ WalkTyped /\ SkipsWhenStopped /\ DOMAIN worker = Workers
  BY DEF WInv, IInv, TasksTyped
<1>3. \A v \in Workers : worker'[v] \notin {Idle, Gone} => worker'[v] = worker[v]
  BY <1>1, <1>2
<1>4. SkipsWhenStopped'
  BY <1>1, <1>2, <1>3 DEF SkipsWhenStopped
<1>5. \A i \in DOMAIN resultsQueue' :
        \/ i \in DOMAIN resultsQueue /\ resultsQueue'[i] = resultsQueue[i]
        \/ resultsQueue'[i] = result
  <2> DEFINE Results == [task : Tasks, ok : BOOLEAN]
  <2>1. worker[w] \in [task : Tasks, skip : BOOLEAN]
    BY <1>1 DEF IInv, TasksTyped
  <2>2. resultsQueue \in Seq(Results) /\ result \in Results
    BY <2>1 DEF IInv, TasksTyped
  <2> HIDE DEF Results, result
  <2>3. QED
    BY <1>1, <2>2, AppendHas
<1>6. ASSUME Unharmed, ~stopped'
      PROVE  TasksUnderWay' /\ FailuresBuilt' /\ SuspectsKept'
  <2>1. TasksUnderWay /\ FailuresBuilt /\ SuspectsKept
    BY <1>6 DEF Unharmed
  <2>2. UnderWay(worker[w].task)
    BY <1>1, <2>1 DEF TasksUnderWay
  <2>3. \A i \in DOMAIN resultsQueue' : UnderWay(resultsQueue'[i].task)
    BY <1>5, <2>1, <2>2 DEF TasksUnderWay
  <2>4. \A v \in Workers : worker'[v] \notin {Idle, Gone} => UnderWay(worker'[v].task)
    BY <1>3, <2>1 DEF TasksUnderWay
  <2>5. TasksUnderWay'
    BY <1>1, <2>1, <2>3, <2>4 DEF TasksUnderWay, UnderWay, Done
  <2>6. ~worker[w].skip
    BY <1>1, <1>2, <1>6 DEF SkipsWhenStopped
  <2>7. result.ok \/ has_builder(result.task.node)
    BY <1>2, <2>2, <2>6, FailsBuilt
  <2>8. \A i \in DOMAIN resultsQueue' :
          resultsQueue'[i].ok \/ has_builder(resultsQueue'[i].task.node)
    BY <1>5, <2>1, <2>7 DEF FailuresBuilt
  <2>9. FailuresBuilt'
    BY <1>1, <2>1, <2>8 DEF FailuresBuilt, has_builder, building
  <2>10. SuspectsKept'
    BY <1>1, <2>1 DEF SuspectsKept, building, Effects
  <2>11. QED
    BY <2>5, <2>9, <2>10
<1>7. Walking' => Walking
  BY <1>1 DEF Walking
<1>8. QED
  BY <1>1, <1>2, <1>4, <1>6, <1>7, AsideWalk

(* The signal stops the walk; the steps after the walk, and none. *)
LEMMA OtherWalk ==
  ASSUME GraphAssumption, GraphShape, IInv, WInv,
         Interrupt \/ Join \/ Cleanup \/ Postfunc \/ UNCHANGED vars
  PROVE  WInv'
<1>1. /\ UNCHANGED <<graph, state, waiting_s_e, implicit, candidates, pending_children,
                     worker>>
      /\ stopped => stopped'
      /\ interrupted' => interrupted \/ stopped'
      /\ Walking' => stopped' \/ UNCHANGED vars
  BY DEF Interrupt, Join, Cleanup, Postfunc, vars, nodeVars, tmVars, jobVars, Walking
<1>2. WalkTyped'
  BY <1>1 DEF WInv, WalkTyped
<1>3. SkipsWhenStopped'
  BY <1>1 DEF WInv, SkipsWhenStopped
<1>4. ASSUME Walking', ~stopped'
      PROVE  FailedForGood' \/ Unharmed'
  <2>1. UNCHANGED vars
    BY <1>1, <1>4
  <2>2. Walking /\ ~stopped
    BY <1>4, <2>1 DEF Walking, vars, tmVars, jobVars
  <2>3. FailedForGood \/ Unharmed
    BY <2>2 DEF WInv
  <2>4. CASE FailedForGood
    BY <2>1, <2>4 DEF FailedForGood, side_effect, vars, nodeVars
  <2>5. CASE Unharmed
    BY <2>1, <2>5 DEF vars, nodeVars, tmVars, jobVars, Unharmed, NoneFailed, PeersAgree,
      TasksUnderWay, UnderWay, Done, FailuresBuilt, has_builder, SideEffectsWaited,
      PendingKept, SuspectsKept, building, Effects
  <2>6. QED
    BY <2>3, <2>4, <2>5
<1>5. QED
  BY <1>2, <1>3, <1>4 DEF WInv

(* What the end of a task does to the states: the targets that were          *)
(* executing are executed, their side effects are to be visited again.       *)
LEMMA ExecutedStatesFacts ==
  ASSUME GraphAssumption, GraphShape, NodesTyped, WalkTyped, NEW targets \in SUBSET Nodes,
         state' = ExecutedStates(targets)
  PROVE  /\ state' \in [Nodes -> no_state .. failed]
         /\ \A m \in targets : state[m] = executing => state'[m] = executed
         /\ \A m \in Nodes : m \notin targets \/ state[m] # executing =>
              \/ state'[m] = state[m]
              \/ /\ state'[m] = no_state /\ side_effect(m)
                 /\ m \in UNION {ToSet(graph.effects[t]) : t \in targets}
<1> DEFINE ran == {t \in targets : state[t] = executing}
           effects == UNION {ToSet(graph.effects[t]) : t \in ran}
<1>1. state' = [n \in Nodes |-> IF n \in ran THEN executed
                                ELSE IF n \in effects THEN no_state ELSE state[n]]
  BY DEF ExecutedStates
<1>2. \A m \in effects : /\ side_effect(m)
                         /\ m \in UNION {ToSet(graph.effects[t]) : t \in targets}
  BY DEF side_effect
<1>3. \A m \in Nodes : m \in ran <=> m \in targets /\ state[m] = executing
  OBVIOUS
<1> HIDE DEF ran, effects
<1>4. QED
  BY <1>1, <1>2, <1>3 DEF WalkTyped, no_state, executed, failed

(* Forgetting scans leaves lists of nodes. *)
LEMMA RescanTyped ==
  ASSUME WalkTyped, NEW targets
  PROVE  Rescan(targets) \in [Nodes -> Seq(Nodes) \cup {Unscanned}]
BY DEF WalkTyped, Rescan

(* The end of a task whose command was run, or needed not to be. *)
LEMMA ExecutedStatesWalk ==
  ASSUME GraphAssumption, GraphShape, IInv, WInv,
         pc \in {"executed", "failed"},
         state' = ExecutedStates(ToSet(task.targets)),
         implicit' = implicit \/ \E r : implicit' = Rescan(r),
         UNCHANGED <<waiting_parents, waiting_s_e, tmVars, graph, options, task,
                     requestQueue, resultsQueue, worker, interrupted>>,
         pc' \in {"postprocess", "postfunc"}
  PROVE  WInv'
<1>1. /\ NodesTyped /\ WalkTyped /\ SkipsWhenStopped /\ task \in Tasks
      /\ UNCHANGED <<candidates, pending_children, stopped>>
  BY DEF WInv, IInv, TasksTyped, tmVars
<1> DEFINE targets == ToSet(task.targets)
<1>2. targets \in SUBSET Nodes
  BY <1>1 DEF Tasks, ToSet
<1>3. /\ state' \in [Nodes -> no_state .. failed]
      /\ \A m \in targets : state[m] = executing => state'[m] = executed
      /\ \A m \in Nodes : m \notin targets \/ state[m] # executing =>
           \/ state'[m] = state[m]
           \/ state'[m] = no_state /\ side_effect(m) /\ m \in Effects(task)
  BY <1>1, <1>2, ExecutedStatesFacts DEF Effects
<1>4. WalkTyped'
  BY <1>1, <1>3, RescanTyped DEF WalkTyped
<1>5. SkipsWhenStopped'
  BY <1>1, SkipsSame
<1>6. FailedForGood => FailedForGood'
  <2>1. \A m \in Nodes : state[m] = failed /\ ~side_effect(m) => state'[m] = failed
    BY <1>3 DEF executing, failed
  <2>2. QED
    BY <1>1, <2>1, FailedForGoodStays
<1>7. ASSUME Unharmed, pc' = "postprocess"
      PROVE  Unharmed'
  <2>1. /\ NoneFailed /\ PeersAgree /\ TasksUnderWay /\ FailuresBuilt
        /\ SideEffectsWaited /\ PendingKept /\ SuspectsKept
    BY <1>7 DEF Unharmed
  <2>2. /\ UnderWay(task) /\ task.node \in Nodes /\ targets = ToSet(graph.peers[task.node])
        /\ task.node \in targets
    <3>1. UnderWay(task)
      BY <2>1 DEF TasksUnderWay
    <3>2. QED
      BY <1>1, <3>1, Shape DEF UnderWay
  <2>3. NoneFailed'
    <3>1. ASSUME NEW m \in Nodes
          PROVE  state'[m] # failed
      BY <1>3, <2>1 DEF NoneFailed, no_state, executing, executed, failed
    <3>2. QED
      BY <3>1 DEF NoneFailed, failed
  <2>4. \A m \in Nodes : m \in graph.built /\ (m \notin targets \/ state[m] # executing) =>
          state'[m] = state[m]
    BY <1>1, <1>3, NoSideEffectBuilt
  <2>5. PeersAgree'
    <3>1. ASSUME NEW a \in targets, NEW b \in targets, state'[a] > pending
          PROVE  state'[b] = state'[a]
      <4>1. a \in Nodes /\ b \in Nodes /\ b \in ToSet(graph.peers[a])
        BY <1>1, <2>2, <3>1, Peers
      <4>2. a = b \/ (a \in graph.built /\ b \in graph.built)
        BY <1>1, <4>1, Peers
      <4>3. state[a] > pending => state[b] = state[a]
        BY <2>1, <4>1 DEF PeersAgree
      <4>4. CASE state[a] = executing
        BY <1>3, <4>3, <4>4 DEF pending, executing
      <4>5. CASE state[a] # executing /\ a # b
        <5>1. state'[a] = state[a]
          BY <2>4, <4>1, <4>2, <4>5
        <5>2. state[b] = state[a]
          BY <3>1, <4>3, <5>1
        <5>3. state'[b] = state[b]
          BY <2>4, <4>1, <4>2, <4>5, <5>2
        <5>4. QED
          BY <5>1, <5>2, <5>3
      <4>6. QED
        BY <4>4, <4>5
    <3>2. \A a, b \in ToSet(graph.peers[task.node]) : state'[a] > pending => state'[b] = state'[a]
      BY <2>2, <3>1
    <3>3. \A m \in Nodes \ ToSet(graph.peers[task.node]) : m \in graph.built => state'[m] = state[m]
      BY <2>2, <2>4
    <3>4. QED
      BY <1>1, <2>1, <2>2, <3>2, <3>3, AgreeStays
  <2>6. \A u \in Nodes : u \in graph.built /\ Done(u) => state'[u] = state[u]
    BY <2>4 DEF Done, executing, up_to_date, executed
  <2>7. TasksUnderWay'
    <3>1. UnderWay(task)'
      BY <2>2, <2>6 DEF UnderWay, Done, up_to_date, executed
    <3>2. QED
      BY <2>1, <2>6, <3>1, TasksStay
  <2>8. FailuresBuilt'
    BY <1>7, <2>1 DEF FailuresBuilt, has_builder
  <2>9. SideEffectsWaited'
    BY <2>1 DEF SideEffectsWaited
  <2>10. PendingKept'
    <3>1. ASSUME NEW m \in Nodes, NEW s \in Nodes, state[m] = pending,
                 m \in waiting_s_e[s], state[s] = executing
          PROVE  s \notin targets
      <4>1. SUFFICES ASSUME s \in targets PROVE FALSE
        OBVIOUS
      <4>2. PICK u \in ToSet(graph.peers[m]) : s \in ToSet(graph.effects[u])
        BY <2>1, <3>1 DEF SideEffectsWaited
      <4>3. m \in graph.built
        BY <2>1, <3>1 DEF SideEffectsWaited
      <4>4. /\ u \in Nodes /\ u \in graph.built /\ m \in ToSet(graph.peers[u])
        BY <1>1, <4>2, <4>3, Shape, Peers
      <4>5. ToSet(graph.peers[s]) = {s}
        BY <1>1, <4>2, <4>4, NoSideEffectBuilt DEF side_effect
      <4>6. task.node = s
        BY <1>1, <2>2, <4>1, <4>5, Peers
      <4>7. Done(u)
        BY <2>2, <4>2, <4>4, <4>6 DEF UnderWay
      <4>8. state[m] = state[u]
        BY <2>1, <4>4, <4>7 DEF PeersAgree, Done, pending, up_to_date, executed
      <4>9. QED
        BY <3>1, <4>7, <4>8 DEF Done, pending, up_to_date, executed
    <3>2. ASSUME NEW m \in Nodes, state'[m] = pending
          PROVE  \/ m \in ToSet(candidates)
                 \/ \E c \in Nodes : m \in waiting_parents[c]
                 \/ \E s \in Nodes : /\ m \in waiting_s_e[s]
                                     /\ state'[s] = executing \/ s \in Effects(task)
      <4>1. state[m] = pending
        BY <1>3, <3>2 DEF no_state, pending, executed
      <4>2. \/ m \in ToSet(candidates)
            \/ \E c \in Nodes : m \in waiting_parents[c]
            \/ \E s \in Nodes : m \in waiting_s_e[s] /\ state[s] = executing
        BY <2>1, <4>1 DEF PendingKept
      <4>3. ASSUME NEW s \in Nodes, m \in waiting_s_e[s], state[s] = executing
            PROVE  state'[s] = executing \/ s \in Effects(task)
        BY <1>3, <3>1, <4>1, <4>3
      <4>4. QED
        BY <4>2, <4>3
    <3>3. Effects(task)' = Effects(task)
      BY DEF Effects
    <3>4. QED
      BY <1>1, <1>7, <3>2, <3>3 DEF PendingKept, pending, executing
  <2>11. SuspectsKept'
    <3>1. ASSUME building, NEW m \in pending_children
          PROVE  /\ waiting_parents[m] # {}
                 /\ \/ state'[m] \in {pending, executing}
                    \/ m \in targets
                    \/ m \in Effects(task) /\ state'[m] = no_state
      <4>1. /\ waiting_parents[m] # {} /\ m \in Nodes
            /\ state[m] \in {pending, executing} \/ m \in targets
        BY <1>1, <2>1, <3>1 DEF SuspectsKept, WalkTyped
      <4>2. QED
        BY <1>3, <4>1
    <3>2. Effects(task)' = Effects(task)
      BY DEF Effects
    <3>3. QED
      BY <1>1, <1>7, <3>1, <3>2 DEF SuspectsKept, building, no_state, pending, executing
  <2>12. QED
    BY <2>3, <2>5, <2>7, <2>8, <2>9, <2>10, <2>11 DEF Unharmed
<1>8. Walking /\ (Walking' => pc' = "postprocess")
  BY DEF Walking
<1>9. QED
  BY <1>1, <1>4, <1>5, <1>6, <1>7, <1>8, StepWalk

(* A task that fails stops the walk, or its targets have failed for good, or *)
(* the failure is ignored.                                                   *)
LEMMA do_failedWalk ==
  ASSUME GraphAssumption, GraphShape, IInv, WInv, NEW status, do_failed(status),
         pc = "failed" \/ (pc = "executed" /\ CannotMake(task)),
         UNCHANGED <<graph, options, requestQueue, resultsQueue, worker, interrupted>>,
         pc' = "postprocess"
  PROVE  WInv'
<1>1. NodesTyped /\ WalkTyped /\ SkipsWhenStopped /\ task \in Tasks
  BY DEF WInv, IInv, TasksTyped
<1>2. ToSet(task.targets) \subseteq Nodes
  BY <1>1 DEF Tasks, ToSet
<1>3. CASE executed_with_callbacks(task) /\ UNCHANGED task
  <2>1. /\ state' = ExecutedStates(ToSet(task.targets))
        /\ \E r : implicit' = Rescan(r)
        /\ UNCHANGED <<waiting_parents, waiting_s_e, tmVars>>
    BY <1>3 DEF executed_with_callbacks
  <2>2. QED
    BY <1>3, <2>1, ExecutedStatesWalk
<1>4. CASE fail_continue(task) \/ fail_stop(task)
  <2>1. /\ will_not_build(ToSet(task.targets), failed)
        /\ UNCHANGED <<waiting_s_e, implicit, candidates>>
        /\ stopped => stopped'
    BY <1>4 DEF fail_continue, fail_stop
  <2>2. failed \in {no_state, failed}
    OBVIOUS
  <2>3. /\ state' \in [Nodes -> no_state .. failed]
        /\ pending_children' \subseteq Nodes
        /\ \A m \in Nodes : state[m] = failed => state'[m] = failed
        /\ \A m \in ToSet(task.targets) : state'[m] = failed
    BY <1>1, <1>2, <2>1, <2>2, WillNotBuildStates
  <2>4. WalkTyped'
    BY <1>1, <2>1, <2>3 DEF WalkTyped
  <2>5. SkipsWhenStopped'
    BY <1>1, <2>1, SkipsSame
  <2>6. FailedForGood => FailedForGood'
    BY <1>1, <2>3, FailedForGoodStays
  <2>7. ASSUME Unharmed
        PROVE  FailedForGood'
    <3>1. UnderWay(task) /\ task.node \in Nodes /\ task.targets = graph.peers[task.node]
      BY <2>7 DEF Unharmed, TasksUnderWay, UnderWay
    <3>2. ASSUME NEW m \in ToSet(task.targets)
          PROVE  ~side_effect(m)
      <4>1. CASE pc = "failed"
        <5>1. task.node \in graph.built
          BY <2>7, <4>1 DEF Unharmed, FailuresBuilt, has_builder
        <5>2. m \in Nodes /\ m \in graph.built
          BY <1>1, <3>1, <3>2, <5>1, Shape
        <5>3. QED
          BY <1>1, <5>2, NoSideEffectBuilt
      <4>2. CASE CannotMake(task)
        <5> DEFINE t == task.targets[1]
        <5>1. t \notin graph.built /\ ~side_effect(t)
          BY <4>2 DEF CannotMake, has_builder
        <5>2. t \in ToSet(task.targets)
          <6>1. task.targets \in Seq(Nodes)
            BY <1>1, <3>1, Shape
          <6>2. Len(task.targets) \in Nat /\ DOMAIN task.targets = 1 .. Len(task.targets)
            BY <6>1
          <6>3. DOMAIN task.targets # {}
            BY <3>2 DEF ToSet
          <6>4. 1 \in DOMAIN task.targets
            BY <6>2, <6>3
          <6>5. QED
            BY <6>4 DEF ToSet
        <5> HIDE DEF t
        <5>3. t \in Nodes /\ graph.peers[t] = task.targets
          BY <1>1, <3>1, <5>2, Peers
        <5>4. m = t
          BY <1>1, <3>2, <5>1, <5>3, Peers
        <5>5. QED
          BY <5>1, <5>4
      <4>3. QED
        BY <4>1, <4>2
    <3>3. \A m \in ToSet(graph.peers[task.node]) : state'[m] = failed /\ ~side_effect(m)'
      BY <2>3, <3>1, <3>2 DEF side_effect
    <3>4. QED
      BY <3>1, <3>3 DEF FailedForGood
  <2>8. Walking
    BY DEF Walking
  <2>9. QED
    BY <2>1, <2>4, <2>5, <2>6, <2>7, <2>8, StepWalk
<1>5. QED
  BY <1>3, <1>4 DEF do_failed

(* WInv is kept by Executed and by Failed. *)
LEMMA EndOfTaskWalk ==
  ASSUME GraphAssumption, GraphShape, IInv, WInv, Executed \/ Failed
  PROVE  WInv'
<1>1. UNCHANGED <<graph, options, requestQueue, resultsQueue, worker, interrupted>>
  BY DEF Executed, Failed
<1>2. CASE Failed
  BY <1>1, <1>2, do_failedWalk DEF Failed
<1>3. CASE Executed /\ CannotMake(task) /\ do_failed(2) /\ pc' = "postprocess"
  BY <1>1, <1>3, do_failedWalk DEF Executed
<1>4. CASE /\ Executed /\ UNCHANGED task /\ pc' \in {"postprocess", "postfunc"}
           /\ executed_with_callbacks(task) \/ executed_without_callbacks(task)
  <2>1. /\ state' = ExecutedStates(ToSet(task.targets))
        /\ implicit' = implicit \/ \E r : implicit' = Rescan(r)
        /\ UNCHANGED <<waiting_parents, waiting_s_e, tmVars>>
    BY <1>4 DEF executed_with_callbacks, executed_without_callbacks
  <2>2. pc \in {"executed", "failed"}
    BY <1>4 DEF Executed
  <2>3. QED
    BY <1>1, <1>4, <2>1, <2>2, ExecutedStatesWalk
<1>5. CASE /\ Executed /\ UNCHANGED <<task, nodeVars, tmVars>> /\ pc' = "postprocess"
           /\ ~building
  <2>1. UNCHANGED <<state, waiting_parents, waiting_s_e, implicit, candidates,
                    pending_children, stopped>>
    BY <1>5 DEF nodeVars, tmVars
  <2>2. NodesTyped /\ SkipsWhenStopped /\ pc = "executed"
    BY <1>5 DEF WInv, IInv, Executed
  <2>3. SkipsWhenStopped'
    BY <1>1, <2>1, <2>2, SkipsSame
  <2>4. ASSUME Unharmed
        PROVE  TasksUnderWay' /\ FailuresBuilt' /\ SuspectsKept'
    BY <1>1, <1>5, <2>1, <2>2, <2>4
       DEF Unharmed, TasksUnderWay, UnderWay, Done, FailuresBuilt, has_builder, SuspectsKept,
           building
  <2>5. Walking
    BY <2>2 DEF Walking
  <2>6. QED
    BY <1>1, <1>5, <2>1, <2>2, <2>3, <2>4, <2>5, AsideWalk
<1>6. QED
  BY <1>2, <1>3, <1>4, <1>5 DEF Executed, building

(* The count of a node that waits for nothing is 0, and conversely. *)
LEMMA CountZero ==
  ASSUME GraphAssumption, RefCountExact, NEW p \in Nodes
  PROVE  ref_count[p] = 0 <=> \A c \in Nodes : p \notin waiting_parents[c]
<1> DEFINE S == {n \in Nodes : p \in waiting_parents[n]}
<1>1. IsFiniteSet(S)
  BY FS_Subset DEF GraphAssumption
<1>2. ref_count[p] = Cardinality(S)
  BY DEF RefCountExact
<1>3. Cardinality(S) = 0 <=> S = {}
  BY <1>1, FS_EmptySet
<1>4. QED
  BY <1>2, <1>3

(* Post-processing: whatever waited for a target, or for a side effect that  *)
(* was not visited meanwhile, waits for something else or becomes a          *)
(* candidate.                                                                *)
LEMMA PostprocessWalk ==
  ASSUME GraphAssumption, GraphShape, IInv, IInv', WInv, Postprocess
  PROVE  WInv'
<1> DEFINE targets == ToSet(task.targets)
           effects == UNION {ToSet(graph.effects[t]) : t \in targets}
           calm == [n \in Nodes |-> IF n \in effects /\ state[n] = executing
                                    THEN no_state ELSE state[n]]
           over == targets \cup {s \in effects : calm[s] = no_state}
           count == [p \in Nodes |->
             ref_count[p] - Cardinality({n \in over : p \in waiting_parents[n]})]
           parents == UNION {waiting_parents[n] : n \in over}
           wokenEffect == {p \in UNION {waiting_s_e[s] : s \in effects} : ref_count[p] = 0}
           wokenParent == {p \in parents : count[p] = 0}
<1>1. /\ NodesTyped /\ WalkTyped /\ SkipsWhenStopped /\ task \in Tasks
      /\ RefCountExact /\ RefCountExact'
  BY DEF WInv, IInv, TasksTyped
<1>2. /\ state' = calm
      /\ ref_count' = count
      /\ waiting_parents' = [n \in Nodes |-> IF n \in over THEN {} ELSE waiting_parents[n]]
      /\ pending_children' = pending_children \ {n \in over : waiting_parents[n] # {}}
      /\ UNCHANGED <<waiting_s_e, implicit, stopped>>
  BY DEF Postprocess, postprocess
<1>3. PICK first \in SetToSeqs(wokenEffect), then \in SetToSeqs(wokenParent) :
        candidates' = candidates \o first \o then
  BY DEF Postprocess, postprocess
<1>4. /\ pc = "postprocess" /\ pc' \in {"collect", "find"}
      /\ UNCHANGED <<graph, options, task, requestQueue, resultsQueue, worker, interrupted>>
  BY DEF Postprocess
<1>5. targets \subseteq Nodes
  BY <1>1 DEF Tasks, ToSet
<1>6. effects \subseteq Nodes /\ effects = Effects(task) /\ \A m \in effects : side_effect(m)
  BY <1>1, <1>5, Shape DEF Effects, side_effect
<1>7. /\ calm \in [Nodes -> no_state .. failed]
      /\ \A m \in Nodes :
           \/ calm[m] = state[m]
           \/ m \in effects /\ state[m] = executing /\ calm[m] = no_state
      /\ \A m \in effects : calm[m] # executing
  <2>1. state \in [Nodes -> no_state .. failed]
    BY <1>1 DEF WalkTyped
  <2> HIDE DEF effects, targets
  <2>2. \A m \in Nodes : calm[m] = IF m \in effects /\ state[m] = executing
                                  THEN no_state ELSE state[m]
    OBVIOUS
  <2>3. calm \in [Nodes -> no_state .. failed]
    BY <2>1 DEF no_state, failed
  <2> HIDE DEF calm
  <2>4. \A m \in Nodes :
          \/ calm[m] = state[m]
          \/ m \in effects /\ state[m] = executing /\ calm[m] = no_state
    BY <2>2
  <2>5. \A m \in effects : m \in Nodes
    BY <1>6
  <2>6. \A m \in effects : calm[m] # executing
    BY <2>2, <2>5 DEF no_state, executing
  <2>7. QED
    BY <2>3, <2>4, <2>6
<1> HIDE DEF targets, effects, calm
<1>8. over \subseteq Nodes /\ over = targets \cup {s \in effects : calm[s] = no_state}
  BY <1>5, <1>6
<1>9. count = [p \in Nodes |->
        ref_count[p] - Cardinality({n \in over : p \in waiting_parents[n]})]
  OBVIOUS
<1> HIDE DEF over, count
<1>10. wokenEffect \subseteq Nodes /\ wokenParent \subseteq Nodes
  BY <1>1, <1>6, <1>8 DEF WalkTyped, NodesTyped
<1>11. /\ \A s \in effects : \A p \in waiting_s_e[s] : ref_count[p] = 0 => p \in wokenEffect
       /\ \A c \in over : \A p \in waiting_parents[c] : count[p] = 0 => p \in wokenParent
  OBVIOUS
<1> HIDE DEF wokenEffect, wokenParent
<1>12. /\ candidates' \in Seq(Nodes)
       /\ ToSet(candidates') = ToSet(candidates) \cup wokenEffect \cup wokenParent
  <2>1. IsFiniteSet(wokenEffect) /\ IsFiniteSet(wokenParent)
    BY <1>10, FS_Subset DEF GraphAssumption
  <2>2. /\ first \in Seq(wokenEffect) /\ ToSet(first) = wokenEffect
        /\ then \in Seq(wokenParent) /\ ToSet(then) = wokenParent
    BY <2>1, SetAsList
  <2>3. first \in Seq(Nodes) /\ then \in Seq(Nodes) /\ candidates \in Seq(Nodes)
    BY <1>1, <1>10, <2>2, WiderSeq DEF WalkTyped
  <2>4. /\ candidates \o first \in Seq(Nodes)
        /\ ToSet(candidates \o first) = ToSet(candidates) \cup ToSet(first)
    BY <2>3, ConcatElements
  <2>5. /\ candidates' \in Seq(Nodes)
        /\ ToSet(candidates') = ToSet(candidates \o first) \cup ToSet(then)
    <3> DEFINE stack == candidates \o first
    <3>1. candidates' = stack \o then /\ stack \in Seq(Nodes)
      BY <1>3, <2>4
    <3> HIDE DEF stack
    <3>2. candidates' \in Seq(Nodes) /\ ToSet(candidates') = ToSet(stack) \cup ToSet(then)
      BY <2>3, <3>1, ConcatElements
    <3>3. QED
      BY <3>2 DEF stack
  <2>6. QED
    BY <2>2, <2>4, <2>5
<1>13. WalkTyped'
  BY <1>1, <1>2, <1>7, <1>12 DEF WalkTyped
<1>14. SkipsWhenStopped'
  BY <1>1, <1>2, <1>4, SkipsSame
<1>15. FailedForGood => FailedForGood'
  <2>1. \A m \in Nodes : state[m] = failed => state'[m] = failed
    BY <1>2, <1>7 DEF executing, failed
  <2>2. QED
    BY <1>1, <1>4, <2>1, FailedForGoodStays
<1>16. ASSUME Unharmed
       PROVE  Unharmed'
  <2>1. /\ NoneFailed /\ PeersAgree /\ TasksUnderWay /\ FailuresBuilt
        /\ SideEffectsWaited /\ PendingKept /\ SuspectsKept
    BY <1>16 DEF Unharmed
  <2>2. NoneFailed'
    BY <1>2, <1>7, <2>1 DEF NoneFailed, no_state, failed
  <2>3. \A m \in Nodes : m \in graph.built => state'[m] = state[m]
    BY <1>1, <1>2, <1>6, <1>7, NoSideEffectBuilt
  <2>4. PeersAgree'
    <3>1. ASSUME NEW a \in Nodes, NEW b \in ToSet(graph.peers[a]), state'[a] > pending
          PROVE  state'[b] = state'[a]
      <4>1. b \in Nodes /\ (a = b \/ (a \in graph.built /\ b \in graph.built))
        BY <1>1, Peers
      <4>2. QED
        BY <2>1, <2>3, <3>1, <4>1 DEF PeersAgree
    <3>2. QED
      BY <1>4, <3>1 DEF PeersAgree, pending
  <2>5. TasksUnderWay'
    BY <1>4, <2>1, <2>3, TasksStay
  <2>6. FailuresBuilt'
    BY <1>4, <2>1 DEF FailuresBuilt, has_builder
  <2>7. SideEffectsWaited'
    BY <1>2, <1>4, <2>1 DEF SideEffectsWaited
  <2>8. PendingKept'
    <3>1. ASSUME NEW m \in Nodes, NEW c \in Nodes, m \in waiting_parents[c]
          PROVE  m \in ToSet(candidates') \/ \E d \in Nodes : m \in waiting_parents'[d]
      <4>1. CASE c \notin over
        BY <1>2, <3>1, <4>1
      <4>2. CASE c \in over /\ \A d \in Nodes : m \notin waiting_parents'[d]
        <5>1. ref_count'[m] = 0
          <6>1. {n \in Nodes : m \in waiting_parents'[n]} = {}
            BY <4>2
          <6>2. ref_count'[m] = Cardinality({n \in Nodes : m \in waiting_parents'[n]})
            BY <1>1 DEF RefCountExact
          <6>3. QED
            BY <6>1, <6>2, FS_EmptySet
        <5>2. m \in wokenParent
          BY <1>2, <1>11, <3>1, <4>2, <5>1
        <5>3. QED
          BY <1>12, <5>2
      <4>3. QED
        BY <4>1, <4>2
    <3>2. ASSUME NEW m \in Nodes, NEW s \in effects, m \in waiting_s_e[s]
          PROVE  m \in ToSet(candidates') \/ \E d \in Nodes : m \in waiting_parents'[d]
      <4>1. CASE ref_count[m] = 0
        BY <1>11, <1>12, <3>2, <4>1
      <4>2. CASE ref_count[m] # 0
        <5>1. PICK c \in Nodes : m \in waiting_parents[c]
          BY <1>1, <4>2, CountZero
        <5>2. QED
          BY <3>1, <5>1
      <4>3. QED
        BY <4>1, <4>2
    <3>3. ASSUME NEW m \in Nodes, state'[m] = pending
          PROVE  \/ m \in ToSet(candidates')
                 \/ \E c \in Nodes : m \in waiting_parents'[c]
                 \/ \E s \in Nodes : m \in waiting_s_e'[s] /\ state'[s] = executing
      <4>1. state[m] = pending
        BY <1>2, <1>7, <3>3 DEF no_state, pending
      <4>2. \/ m \in ToSet(candidates)
            \/ \E c \in Nodes : m \in waiting_parents[c]
            \/ \E s \in Nodes : /\ m \in waiting_s_e[s]
                                /\ state[s] = executing \/ s \in effects
        BY <1>6, <2>1, <4>1 DEF PendingKept
      <4>3. CASE m \in ToSet(candidates)
        BY <1>12, <4>3
      <4>4. CASE \E c \in Nodes : m \in waiting_parents[c]
        BY <3>1, <4>4
      <4>5. CASE \E s \in effects : m \in waiting_s_e[s]
        BY <3>2, <4>5
      <4>6. CASE \E s \in Nodes : m \in waiting_s_e[s] /\ state[s] = executing /\ s \notin effects
        BY <1>2, <1>7, <4>6
      <4>7. QED
        BY <4>2, <4>3, <4>4, <4>5, <4>6
    <3>4. QED
      BY <3>3 DEF PendingKept, pending, executing
  <2>9. SuspectsKept'
    <3>1. ASSUME building, NEW m \in pending_children'
          PROVE  waiting_parents'[m] # {} /\ state'[m] \in {pending, executing}
      <4>1. /\ m \in Nodes /\ waiting_parents[m] # {}
            /\ \/ state[m] \in {pending, executing}
               \/ m \in targets
               \/ m \in effects /\ state[m] = no_state
        BY <1>1, <1>2, <1>4, <1>6, <2>1, <3>1 DEF SuspectsKept, WalkTyped, targets
      <4>2. m \notin over
        BY <1>2, <3>1, <4>1
      <4>3. m \notin targets /\ ~(m \in effects /\ calm[m] = no_state)
        BY <1>8, <4>2
      <4>4. calm[m] = state[m] /\ state[m] \in {pending, executing}
        BY <1>7, <4>1, <4>3
      <4>5. QED
        BY <1>2, <4>1, <4>2, <4>4
    <3>2. QED
      BY <1>4, <3>1 DEF SuspectsKept, building, pending, executing
  <2>10. QED
    BY <2>2, <2>4, <2>5, <2>6, <2>7, <2>8, <2>9 DEF Unharmed
<1>17. Walking
  BY <1>4 DEF Walking
<1>18. QED
  BY <1>2, <1>13, <1>14, <1>15, <1>16, <1>17, StepWalk

(* The walk starts sound. *)
LEMMA InitWInv ==
  ASSUME GraphAssumption, Init
  PROVE  WInv
<1>1. /\ state = [n \in Nodes |-> no_state]
      /\ waiting_s_e = [n \in Nodes |-> {}]
      /\ implicit = [n \in Nodes |-> Unscanned]
      /\ candidates = <<>> /\ pending_children = {}
      /\ pc = "find" /\ interrupted = FALSE
      /\ requestQueue = <<>> /\ resultsQueue = <<>>
      /\ worker = [w \in Workers |-> Idle]
  BY DEF Init, TaskmasterInit, NodeInit
<1>2. <<>> \in Seq(Nodes)
  OBVIOUS
<1>3. WalkTyped
  BY <1>1, <1>2 DEF WalkTyped, no_state, failed
<1>4. SkipsWhenStopped
  BY <1>1 DEF SkipsWhenStopped
<1>5. PeersAgree
  <2>1. \A q \in Seq(Nodes) : ToSet(q) \subseteq Nodes
    BY ElementsTyped
  <2>2. graph.peers \in [Nodes -> Seq(Nodes)]
    BY DEF Init, TaskmasterInit, NodeInit, GraphAssumption
  <2>3. QED
    BY <1>1, <2>1, <2>2 DEF PeersAgree
<1>6. TasksUnderWay /\ FailuresBuilt
  BY <1>1 DEF TasksUnderWay, FailuresBuilt
<1>7. NoneFailed /\ PendingKept
  BY <1>1 DEF NoneFailed, PendingKept, no_state, pending, failed
<1>8. SideEffectsWaited /\ SuspectsKept
  BY <1>1 DEF SideEffectsWaited, SuspectsKept
<1>9. QED
  BY <1>3, <1>4, <1>5, <1>6, <1>7, <1>8 DEF WInv, Unharmed

(* The walk loses no node, whatever the graph and the options. *)
LEMMA WalkSoundHolds ==
  ASSUME GraphAssumption, GraphShape, IInv, WInv
  PROVE  WalkSound
<1> SUFFICES ASSUME pc = "find", ~stopped, ~AnyFailed
             PROVE  /\ \A n \in Nodes : state[n] = pending =>
                         \/ n \in ToSet(candidates)
                         \/ ref_count[n] > 0
                         \/ \E s \in Nodes : state[s] = executing /\ n \in waiting_s_e[s]
                    /\ building => \A n \in pending_children :
                         /\ state[n] \in {pending, executing}
                         /\ waiting_parents[n] # {}
                         /\ \A p \in waiting_parents[n] : ref_count[p] > 0
  BY DEF WalkSound
<1>1. NodesTyped /\ WalkTyped /\ RefCountExact
  BY DEF IInv, WInv
<1>2. ~FailedForGood
  BY <1>1, Shape DEF FailedForGood, AnyFailed
<1>3. PendingKept /\ SuspectsKept
  BY <1>2 DEF WInv, Walking, Unharmed
<1>4. \A p \in Nodes : (\E c \in Nodes : p \in waiting_parents[c]) => ref_count[p] > 0
  <2>1. ASSUME NEW p \in Nodes, NEW c \in Nodes, p \in waiting_parents[c]
        PROVE  ref_count[p] > 0
    <3>1. ref_count[p] # 0
      BY <1>1, <2>1, CountZero
    <3>2. IsFiniteSet({n \in Nodes : p \in waiting_parents[n]})
      BY FS_Subset DEF GraphAssumption
    <3>3. ref_count[p] \in Nat
      BY <1>1, <3>2, FS_CardinalityType DEF RefCountExact
    <3>4. QED
      BY <3>1, <3>3
  <2>2. QED
    BY <2>1
<1>5. ASSUME NEW n \in Nodes, state[n] = pending
      PROVE  \/ n \in ToSet(candidates)
             \/ ref_count[n] > 0
             \/ \E s \in Nodes : state[s] = executing /\ n \in waiting_s_e[s]
  BY <1>3, <1>4, <1>5 DEF PendingKept
<1>6. ASSUME building, NEW n \in pending_children
      PROVE  /\ state[n] \in {pending, executing}
             /\ waiting_parents[n] # {}
             /\ \A p \in waiting_parents[n] : ref_count[p] > 0
  <2>1. n \in Nodes /\ waiting_parents[n] \subseteq Nodes
    BY <1>1 DEF WalkTyped, NodesTyped
  <2>2. state[n] \in {pending, executing} /\ waiting_parents[n] # {}
    BY <1>3, <1>6 DEF SuspectsKept
  <2>3. QED
    BY <1>4, <2>1, <2>2
<1>7. QED
  BY <1>5, <1>6

(* WInv is an invariant of the build. *)
THEOREM WalkInductive == Spec => []WInv
<1> USE GraphAssumption, GraphShape, WorkersAssumption
<1>1. Init => WInv
  BY InitWInv
<1>2. IInv /\ IInv' /\ WInv /\ [Next]_vars => WInv'
  <2> SUFFICES ASSUME IInv, IInv', WInv, [Next]_vars
               PROVE  WInv'
    OBVIOUS
  <2>1. CASE UNCHANGED vars
    BY <2>1, OtherWalk
  <2>2. CASE Main
    <3>1. \/ Search \/ Next_task \/ NoMoreTasks \/ Prepare \/ Put \/ Execute \/ Collect
          \/ Executed \/ Failed \/ Postprocess \/ Join \/ Cleanup \/ Postfunc
      BY <2>2 DEF Main
    <3>2. QED
      BY <3>1, SearchWalk, Next_taskWalk, NoMoreTasksWalk, PrepareWalk, PutWalk,
         ExecuteWalk, CollectWalk, EndOfTaskWalk, PostprocessWalk, OtherWalk
  <2>3. CASE Interrupt
    BY <2>3, OtherWalk
  <2>4. CASE Terminated
    BY <2>1, <2>4 DEF Terminated
  <2>5. ASSUME NEW w \in pool, Get(w) \/ Finish(w)
        PROVE  WInv'
    <3>1. w \in Workers
      BY DEF pool
    <3>2. QED
      BY <2>5, <3>1, GetWalk, FinishWalk
  <2>6. QED
    BY <2>1, <2>2, <2>3, <2>4, <2>5 DEF Next
<1>3. QED
  BY <1>1, <1>2, Inductive, PTL DEF Spec

(* However a build goes, while nothing has failed and nothing has stopped it *)
(* the walk cannot lose a node: a pending node is on the stack, or waits for *)
(* a child or for a side effect of a task under way, and every suspect of a  *)
(* cycle is unfinished and waited for.                                       *)
THEOREM WalkSoundCorrect == Spec => []WalkSound
<1>1. IInv /\ WInv => WalkSound
  BY WalkSoundHolds, GraphAssumption, GraphShape
<1>2. QED
  BY <1>1, Inductive, WalkInductive, PTL
=============================================================================
