--------------------------- MODULE SConsTaskmaster ---------------------------
(* The task master of SCons (Taskmaster.py): the walk of the dependency      *)
(* graph.  It keeps a stack of candidate nodes, examines them one at a time  *)
(* until one has no unfinished child, and hands it out as a task; when the   *)
(* task is over the nodes that waited for it become candidates again.  Every *)
(* operator below is called by the main thread only (SConsJob), except       *)
(* "stop", which a signal handler or a worker may call at any time.          *)
EXTENDS Integers, Sequences, SequencesExt, FiniteSets

(* The dependency graph of one SCons build (Node/__init__.py, Executor.py)   *)
(* and the fields of its nodes that the task master reads and writes.        *)
(* "graph" is what the SConscript files declared, with what a scan of the    *)
(* files finds and how the commands end; it is chosen in the initial state   *)
(* and never changes:                                                        *)
(*   tops       the targets of the command line, in order                    *)
(*   built      the nodes with a builder                                     *)
(*   peers      node -> the targets of its executor, in order                *)
(*   kids       node -> its sources and explicit dependencies, in order      *)
(*   prereq     node -> its order-only prerequisites, in order               *)
(*   effects    node -> the side effects of building it, in order            *)
(*   includes   file -> the files its contents include                       *)
(*   stale      the built nodes that are out of date                         *)
(*   missing    the sources that do not exist                                *)
(*   broken     the nodes whose command fails                                *)
(*   unscanned  the nodes whose children cannot be computed (a scanner       *)
(*              raises)                                                      *)
(*   exits      those of the broken and the unscanned nodes whose command or *)
(*              scanner fails by calling Exit(0)                             *)
(*   pseudo     the targets declared Pseudo(), whose file must not exist     *)
CONSTANTS Nodes,     \* every node any of the graphs uses
          Graphs,    \* the declared graphs an execution starts from
          Unscanned  \* the value None of the field "implicit"

(* A build has finitely many nodes, and the lists of a graph hold nodes. *)
ASSUME GraphAssumption ==
  /\ IsFiniteSet(Nodes)
  /\ \A g \in Graphs :
       /\ g.tops \in Seq(Nodes)
       /\ g.peers \in [Nodes -> Seq(Nodes)]
       /\ g.effects \in [Nodes -> Seq(Nodes)]

(* What the declarations make of a graph: the targets of one executor share  *)
(* it, and all have its builder; a side effect has none (SideEffect and the  *)
(* builders refuse it), and has the nodes it is a side effect of among its   *)
(* sources (SideEffect); only what has a builder is scanned (Node.scan) or   *)
(* has a command that can fail.                                              *)
ASSUME GraphShape ==
  \A g \in Graphs :
    /\ g.kids \in [Nodes -> Seq(Nodes)] /\ g.prereq \in [Nodes -> Seq(Nodes)]
    /\ g.includes \in [Nodes -> SUBSET Nodes]
    /\ \A n \in Nodes : /\ n \in ToSet(g.peers[n])
                        /\ \A m \in ToSet(g.peers[n]) : g.peers[m] = g.peers[n]
                        /\ n \notin g.built => g.peers[n] = <<n>>
                        /\ \A s \in ToSet(g.effects[n]) :
                             s \notin g.built /\ n \in ToSet(g.kids[s])
    /\ g.unscanned \cup g.broken \subseteq g.built

VARIABLES graph,
          state,            \* node -> its state
          waiting_parents,  \* node -> the nodes that wait for it
          waiting_s_e,      \* node -> the nodes that wait for it as a side effect
          ref_count,        \* node -> how many nodes it waits for
          implicit          \* node -> the scanned dependencies, or Unscanned

nodeVars == <<state, waiting_parents, waiting_s_e, ref_count, implicit>>

(* The states of a node, ordered as the code compares them. *)
no_state   == 0
pending    == 1
executing  == 2
up_to_date == 3
executed   == 4
failed     == 5

NodeInit ==
  /\ graph \in Graphs
  /\ state = [n \in Nodes |-> no_state]
  /\ waiting_parents = [n \in Nodes |-> {}]
  /\ waiting_s_e = [n \in Nodes |-> {}]
  /\ ref_count = [n \in Nodes |-> 0]
  /\ implicit = [n \in Nodes |-> Unscanned]

has_builder(n) == n \in graph.built

(* A node is a side effect when some target lists it among its effects. *)
side_effect(n) == \E t \in Nodes : n \in ToSet(graph.effects[t])

exists(n) == n \notin graph.missing

(* Executor.get_all_targets, and Executor.get_action_targets for the default *)
(* $TARGETS: a node without a builder has a Null executor, which has itself  *)
(* as only target and no action.                                             *)
get_all_targets(n) == graph.peers[n]
get_action_targets(n) == IF has_builder(n) THEN ToSet(graph.peers[n]) ELSE {}
get_action_side_effects(n) ==
  UNION {ToSet(graph.effects[t]) : t \in get_action_targets(n)}

(* The concatenation of the lists f[x], for the x of s in order. *)
Concat(f, s) ==
  LET upTo[i \in 0 .. Len(s)] == IF i = 0 THEN <<>> ELSE upTo[i - 1] \o f[s[i]]
  IN upTo[Len(s)]

(* The elements of s at the given places, in order. *)
Selected(s, places) ==
  LET upTo[i \in 0 .. Len(s)] ==
        IF i = 0 THEN <<>>
        ELSE IF i \in places THEN Append(upTo[i - 1], s[i]) ELSE upTo[i - 1]
  IN upTo[Len(s)]

(* UniqueList: the first occurrence of every element. *)
UniqueList[s \in Seq(Nodes)] ==
  Selected(s, {i \in DOMAIN s : \A j \in 1 .. i - 1 : s[j] # s[i]})

get_all_prerequisites(n) ==
  IF has_builder(n) THEN UniqueList[Concat(graph.prereq, graph.peers[n])] ELSE <<>>

(* What a scan reads now: the contents of a target that is out of date are   *)
(* there only once its command has run.                                      *)
Readable(n) == n \in graph.stale => state[n] = executed

(* Node.get_implicit_deps: the files included by the sources, followed       *)
(* through every file that can be read (a set; the list has a fixed order).  *)
get_implicit_deps(sources) ==
  LET found(S) == UNION {graph.includes[n] : n \in {m \in S : Readable(m)}}
      reach[i \in 0 .. Cardinality(Nodes)] ==
        IF i = 0 THEN found(sources)
        ELSE LET before == reach[i - 1] IN before \cup found(before)
  IN SetToSeq(reach[Cardinality(Nodes)] \ sources)

(* Node.scan for each target of n's executor in turn: the first target that  *)
(* is not scanned has the executor scan the sources of all of them and adds  *)
(* what is found to every target.                                            *)
Scanned(n) ==
  LET targets == ToSet(graph.peers[n])
      found == get_implicit_deps(ToSet(Concat(graph.kids, graph.peers[n])))
  IN IF ~has_builder(n)
     THEN [implicit EXCEPT ![n] = IF @ = Unscanned THEN <<>> ELSE @]
     ELSE IF \A t \in targets : implicit[t] # Unscanned
     THEN implicit
     ELSE [m \in Nodes |->
             IF m \notin targets THEN implicit[m]
             ELSE IF implicit[m] = Unscanned THEN found
             ELSE UniqueList[implicit[m] \o found]]

(* Executor.get_all_children, with the scanned dependencies "scan". *)
get_all_children(n, scan) ==
  UniqueList[Concat([t \in ToSet(graph.peers[n]) |-> graph.kids[t] \o scan[t]],
                    graph.peers[n])]

WaitForCountsAll(n, children) ==
  /\ waiting_parents' = [c \in Nodes |-> IF c \in children
                                         THEN waiting_parents[c] \cup {n}
                                         ELSE waiting_parents[c]]
  /\ ref_count' = [ref_count EXCEPT ![n] = @ + Cardinality(children)]

(* Node.add_to_waiting_parents for every child of the sequence: n waits for  *)
(* each, and its reference count grows by the children it was not yet        *)
(* waiting for.                                                              *)
WaitFor(n, children) ==
  /\ waiting_parents' = [c \in Nodes |-> IF c \in children
                                         THEN waiting_parents[c] \cup {n}
                                         ELSE waiting_parents[c]]
  /\ ref_count' = [ref_count EXCEPT
       ![n] = @ + Cardinality({c \in children : n \notin waiting_parents[c]})]

(* Node.built, for each target: the nodes that wait for it, and their peer   *)
(* targets, are to be scanned again.                                         *)
Rescan(targets) ==
  LET parents == UNION {waiting_parents[t] : t \in targets}
      forget == parents \cup UNION {ToSet(graph.peers[p]) : p \in parents}
  IN [n \in Nodes |-> IF n \in forget THEN Unscanned ELSE implicit[n]]

-----------------------------------------------------------------------------
CONSTANT NoNode  \* no requested target has been examined yet

ASSUME NoNodeAssumption == NoNode \notin Nodes

VARIABLES candidates,        \* the stack of nodes to examine (last is top)
          top_targets_left,  \* the targets not yet examined (last is next)
          current_top,       \* the last target taken from it
          pending_children,  \* children found pending: suspects of a cycle
          stopped            \* next_candidate is no_next_candidate

tmVars == <<candidates, top_targets_left, current_top, pending_children, stopped>>

TaskmasterInit ==
  /\ NodeInit
  /\ candidates = <<>>
  /\ top_targets_left = Reverse(graph.tops)
  /\ current_top = NoNode
  /\ pending_children = {}
  /\ stopped = FALSE

(* A Task: the targets of the node's executor; "top" when the node is one of *)
(* the requested targets; "exc" when an exception is recorded for it.        *)
Task(n, exc) == [targets |-> get_all_targets(n), node |-> n,
                 top |-> n \in ToSet(graph.tops), exc |-> exc]

(* The nodes reached from S, S included, along the links to waiting parents. *)
WaitClosure(S) ==
  LET up[i \in 0 .. Cardinality(Nodes)] ==
        IF i = 0 THEN S
        ELSE LET below == up[i - 1]
             IN below \cup UNION {waiting_parents[n] : n \in below}
  IN {n \in up[Cardinality(Nodes)] : n \in Nodes}

(* Taskmaster.will_not_build: the given nodes and everything that waits for  *)
(* them leave the walk; "mark" is the state they get (the caller's           *)
(* node_func), or no_state for none.                                         *)
will_not_build(nodes, mark) ==
  LET gone == WaitClosure(nodes)
  IN /\ state' = [n \in Nodes |-> IF n \in gone /\ mark # no_state
                                  THEN mark ELSE state[n]]
     /\ waiting_parents' = [n \in Nodes |-> IF n \in gone THEN {}
                                            ELSE waiting_parents[n]]
     /\ ref_count' = [p \in Nodes |->
          ref_count[p] - Cardinality({n \in gone : p \in waiting_parents[n]})]
     /\ pending_children' = pending_children \ gone

-----------------------------------------------------------------------------
(* One turn of the loop of _find_next_ready_node: it pops a candidate and    *)
(* goes on with the next one, or ends the search.                            *)

(* find_next_candidate: the top of the stack, else the next target. *)
Next_candidate == IF candidates # <<>> THEN Last(candidates)
                  ELSE Last(top_targets_left)
Rest == IF candidates # <<>> THEN Front(candidates) ELSE <<>>
HasCandidate == ~stopped /\ (candidates # <<>> \/ top_targets_left # <<>>)

Pop(n) ==
  /\ HasCandidate
  /\ n = Next_candidate
  /\ IF candidates # <<>>
     THEN UNCHANGED <<top_targets_left, current_top>>
     ELSE /\ top_targets_left' = Front(top_targets_left)
          /\ current_top' = n

(* No candidate left: next_task returns None. *)
NoCandidate == ~stopped /\ candidates = <<>> /\ top_targets_left = <<>>

(* no_next_candidate: what is left of the stack will not be built. *)
GiveUpCandidates ==
  /\ stopped
  /\ will_not_build(ToSet(candidates), no_state)
  /\ candidates' = <<>>
  /\ UNCHANGED <<waiting_s_e, implicit, top_targets_left, current_top, stopped>>

AlreadyHandledStays ==
  /\ HasCandidate
  /\ state[Next_candidate] > pending
  /\ UNCHANGED <<nodeVars, tmVars>>

(* A node that has been evaluated already is skipped. *)
AlreadyHandled ==
  /\ Pop(Next_candidate)
  /\ state[Next_candidate] > pending
  /\ candidates' = Rest
  /\ UNCHANGED <<nodeVars, pending_children, stopped>>

(* The children could not be computed: the node is handed out with the       *)
(* exception, to be raised when the task is prepared.                        *)
ChildrenUnknown(n) == n \in graph.unscanned

(* What the walk finds for a candidate that is not evaluated yet; it is      *)
(* marked pending before the states of its children are looked at.           *)
Children(n) == get_all_prerequisites(n) \o get_all_children(n, Scanned(n))
Marked(n) == [state EXCEPT ![n] = pending]
InState(n, S) ==
  LET those[s \in Seq(Nodes)] == Selected(s, {i \in DOMAIN s : Marked(n)[s[i]] \in S})
  IN those[Children(n)]
NotVisited(n) == InState(n, {no_state})
NotReady(n) == Nodes \cap ToSet(InState(n, {no_state, pending, executing}))
ChildFailed(n) == InState(n, {failed}) # <<>>
BusySideEffectsIgnored(n) == {}
BusySideEffects(n) == {s \in get_action_side_effects(n) : state[s] = executing}

(* --random shuffles the children before they are pushed. *)
Orders(s, random) ==
  IF ~random THEN {s}
  ELSE {[i \in DOMAIN s |-> s[p[i]]] : p \in SetToSeqs(DOMAIN s)}

Considering(n) ==
  /\ Pop(n)
  /\ state[n] <= pending
  /\ UNCHANGED stopped

Examined(n) ==
  /\ Considering(n)
  /\ ~ChildrenUnknown(n)
  /\ implicit' = Scanned(n)

PushUnvisited(n, random) ==
  \E kids \in Orders(Reverse(NotVisited(n)), random) : candidates' = Rest \o kids

(* A child has failed: the targets of the node's action fail too.  A node    *)
(* without a builder has no action, and stays pending.                       *)
SkipFailed(n, random) ==
  /\ Examined(n)
  /\ ChildFailed(n)
  /\ PushUnvisited(n, random)
  /\ state' = [m \in Nodes |-> IF m \in get_action_targets(n) THEN failed
                               ELSE Marked(n)[m]]
  /\ UNCHANGED <<waiting_parents, waiting_s_e, ref_count, pending_children>>

WaitForChildrenUnsuspected(n, random) ==
  /\ Examined(n)
  /\ ~ChildFailed(n)
  /\ NotReady(n) # {}
  /\ PushUnvisited(n, random)
  /\ state' = Marked(n)
  /\ WaitFor(n, NotReady(n))
  /\ UNCHANGED <<waiting_s_e, pending_children>>

(* A child is not finished: the node waits for it. *)
WaitForChildren(n, random) ==
  /\ Examined(n)
  /\ ~ChildFailed(n)
  /\ NotReady(n) # {}
  /\ PushUnvisited(n, random)
  /\ state' = Marked(n)
  /\ WaitFor(n, NotReady(n))
  /\ pending_children' = pending_children \cup ToSet(InState(n, {pending}))
  /\ UNCHANGED waiting_s_e

WaitForSideEffectsUnrecorded(n) ==
  /\ Examined(n)
  /\ ~ChildFailed(n) /\ NotReady(n) = {}
  /\ BusySideEffects(n) # {}
  /\ candidates' = Rest
  /\ state' = Marked(n)
  /\ UNCHANGED <<waiting_s_e, waiting_parents, ref_count, pending_children>>

(* A side effect is being produced by another task: wait for it. *)
WaitForSideEffects(n) ==
  /\ Examined(n)
  /\ ~ChildFailed(n) /\ NotReady(n) = {}
  /\ BusySideEffects(n) # {}
  /\ candidates' = Rest
  /\ state' = Marked(n)
  /\ waiting_s_e' = [s \in Nodes |-> IF s \in BusySideEffects(n)
                                     THEN waiting_s_e[s] \cup {n}
                                     ELSE waiting_s_e[s]]
  /\ UNCHANGED <<waiting_parents, ref_count, pending_children>>

(* The node is ready, or its children are unknown: the end of the search. *)
IsReady(n) == \/ ChildrenUnknown(n)
              \/ ~ChildFailed(n) /\ NotReady(n) = {} /\ BusySideEffects(n) = {}

(* make_ready_current and make_ready_all, in next_task: the targets, and     *)
(* their side effects, are executing when any target is out of date (always, *)
(* for a clean); otherwise they are up to date.                              *)
OutOfDate(n) == has_builder(n) /\ n \in graph.stale
MadeReady(n, all) ==
  LET targets == ToSet(get_all_targets(n))
      busy == targets \cup UNION {ToSet(graph.effects[t]) : t \in targets}
  IN IF all \/ \E t \in targets : OutOfDate(t)
     THEN [m \in Nodes |-> IF m \in busy THEN executing ELSE state[m]]
     ELSE [m \in Nodes |-> IF m \in targets THEN up_to_date ELSE state[m]]

HandOut(n, all) ==
  /\ Considering(n)
  /\ IsReady(n)
  /\ implicit' = IF ChildrenUnknown(n) THEN implicit ELSE Scanned(n)
  /\ candidates' = Rest
  /\ state' = MadeReady(n, all)
  /\ UNCHANGED <<waiting_parents, waiting_s_e, ref_count, pending_children>>

-----------------------------------------------------------------------------
(* The end of a task. *)

(* executed_without_callbacks: the targets that were executing are executed, *)
(* and their side effects are to be visited again.                           *)
ExecutedStates(targets) ==
  LET ran == {t \in targets : state[t] = executing}
      effects == UNION {ToSet(graph.effects[t]) : t \in ran}
  IN [n \in Nodes |-> IF n \in ran THEN executed
                      ELSE IF n \in effects THEN no_state ELSE state[n]]

executed_without_callbacks(task) ==
  /\ state' = ExecutedStates(ToSet(task.targets))
  /\ UNCHANGED <<waiting_parents, waiting_s_e, ref_count, implicit, tmVars>>

(* executed_with_callbacks: built() also forgets the scans of the parents. *)
executed_with_callbacks(task) ==
  /\ state' = ExecutedStates(ToSet(task.targets))
  /\ implicit' = Rescan({t \in ToSet(task.targets) : state[t] = executing})
  /\ UNCHANGED <<waiting_parents, waiting_s_e, ref_count, tmVars>>

(* fail_stop and fail_continue. *)
fail_stop(task) ==
  /\ will_not_build(ToSet(task.targets), failed)
  /\ stopped' = TRUE
  /\ UNCHANGED <<waiting_s_e, implicit, candidates, top_targets_left, current_top>>

fail_continue(task) ==
  /\ will_not_build(ToSet(task.targets), failed)
  /\ UNCHANGED <<waiting_s_e, implicit, candidates, top_targets_left, current_top,
                 stopped>>

(* Task.postprocess: the parents of the targets, and of the side effects     *)
(* that were not visited meanwhile, stop waiting; those that wait for        *)
(* nothing else become candidates.  A node that waited for a side effect     *)
(* becomes one too, unless it waits for a child.  Sets of nodes are walked   *)
(* in no particular order.                                                   *)
postprocess(task) ==
  LET targets == ToSet(task.targets)
      effects == UNION {ToSet(graph.effects[t]) : t \in targets}
      calm == [n \in Nodes |-> IF n \in effects /\ state[n] = executing
                               THEN no_state ELSE state[n]]
      over == targets \cup {s \in effects : calm[s] = no_state}
      count == [p \in Nodes |->
        ref_count[p] - Cardinality({n \in over : p \in waiting_parents[n]})]
      parents == UNION {waiting_parents[n] : n \in over}
      wokenEffect == {p \in UNION {waiting_s_e[s] : s \in effects} : ref_count[p] = 0}
      wokenParent == {p \in parents : count[p] = 0}
  IN /\ state' = calm
     /\ ref_count' = count
     /\ waiting_parents' = [n \in Nodes |-> IF n \in over THEN {}
                                            ELSE waiting_parents[n]]
     /\ pending_children' =
          pending_children \ {n \in over : waiting_parents[n] # {}}
     /\ \E first \in SetToSeqs(wokenEffect), then \in SetToSeqs(wokenParent) :
          candidates' = candidates \o first \o then
     /\ UNCHANGED <<waiting_s_e, implicit, top_targets_left, current_top, stopped>>

-----------------------------------------------------------------------------
(* find_cycle: n waits, through others, for itself. *)
find_cycle(n) == n \in WaitClosure(waiting_parents[n])

(* Taskmaster.cleanup raises UserError "Found dependency cycle(s)". *)
CycleReported ==
  \E n \in pending_children : find_cycle(n) \/ state[n] # executed
=============================================================================
