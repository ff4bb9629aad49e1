------------------------------- MODULE SConsJob -------------------------------
(* A build of SCons from the end of the SConscript files to the exit status: *)
(* the serial and the parallel job runner (Job.py) drive the task master     *)
(* with the tasks of Script/Main.py (BuildTask, CleanTask, QuestionTask).    *)
(* The main thread makes every call to the task master; worker threads take  *)
(* tasks from the request queue and put them on the results queue; a signal  *)
(* may stop the task master at any time.                                     *)
EXTENDS SConsTaskmaster

CONSTANTS Workers,     \* the threads of a parallel build
          Idle, Gone,  \* a worker that waits for a task, one that has ended
          OptionSets   \* the options an execution may be started with

ASSUME WorkersAssumption == IsFiniteSet(Workers)

VARIABLES options,       \* jobs, mode, keep_going, ignore_errors, random
          pc,            \* where the main thread is
          draining,      \* whether it is in the loop over the results
          task,          \* the task the main thread has in hand
          jobs,          \* the tasks dispatched and not collected
          requestQueue, resultsQueue,
          worker,        \* worker -> the task it executes, Idle or Gone
          interrupted,
          exit_status,
          verdict,       \* how the walk ended
          started        \* history: the nodes whose command has been started

jobVars == <<options, pc, draining, task, jobs, requestQueue, resultsQueue, worker,
             interrupted, exit_status, verdict, started>>
vars == <<graph, nodeVars, tmVars, jobVars>>

Sentinel == [targets |-> <<>>, node |-> NoNode, top |-> FALSE, exc |-> FALSE]
NoTask == Sentinel

parallel == options.jobs > 1
building == options.mode = "build"
pool == IF parallel THEN Workers ELSE {}

Init ==
  /\ TaskmasterInit
  /\ options \in OptionSets
  /\ pc = "find" /\ draining = FALSE /\ task = NoTask /\ jobs = 0
  /\ requestQueue = <<>> /\ resultsQueue = <<>>
  /\ worker = [w \in Workers |-> Idle]
  /\ interrupted = FALSE /\ exit_status = 0
  /\ verdict = "none" /\ started = {}

-----------------------------------------------------------------------------
(* The tasks of Script/Main.py. *)

(* An exception that the scan of the node's children raised was recorded. *)
exception_raise(t) == t.exc

(* Task.prepare as BuildTask inherits it: the recorded exception, a missing  *)
(* source, or a missing implicit dependency stops the task.  CleanTask and   *)
(* QuestionTask prepare nothing.                                             *)
PrepareFails(t) ==
  /\ building
  /\ \/ exception_raise(t)
     \/ /\ has_builder(t.node)
        /\ ToSet(get_all_children(t.node, [n \in Nodes |->
             IF implicit[n] = Unscanned THEN <<>> ELSE implicit[n]]))
             \cap (graph.missing \ graph.built) # {}

needs_execute(t) == building => state[t.targets[1]] = executing

(* execute: the command of the executor, the removal of the targets, or the  *)
(* question whether the target is up to date.                                *)
ExecuteFails(t) == building /\ ToSet(t.targets) \cap graph.broken # {}

Outdated(t) == \/ state[t.targets[1]] # up_to_date
               \/ t.top /\ ~exists(t.targets[1])

Answer(t) ==
  IF options.mode = "question" /\ Outdated(t)
  THEN exit_status' = 1 /\ stopped' = TRUE
  ELSE UNCHANGED <<exit_status, stopped>>

Begin(t) == started' = IF building THEN started \cup ToSet(t.targets)
                       ELSE started

(* BuildTask.executed: a requested target without a builder has to exist. *)
CannotMake(t) ==
  /\ building
  /\ t.top /\ ~has_builder(t.targets[1]) /\ ~side_effect(t.targets[1])
  /\ ~exists(t.targets[1])

(* Node.built raises UserError for a Pseudo() target whose file exists. *)
BuiltRaises(t) ==
  building /\ \E n \in ToSet(t.targets) : state[n] = executing /\ n \in graph.pseudo

(* The exit status an error asks for (convert_to_BuildError): that of the    *)
(* call, when the command or the scanner calls Exit() (here with 0), else 2. *)
(* A task taken after an interrupt fails with 2 in any case, which Postfunc  *)
(* makes the status of the whole build.                                      *)
exitstatus(t) ==
  IF \/ exception_raise(t) /\ t.node \in graph.exits
     \/ ~PrepareFails(t) /\ ToSet(t.targets) \cap graph.exits # {}
  THEN 0 ELSE 2

do_failed_KeepsStatus(status) ==
  /\ \/ /\ building /\ options.ignore_errors
        /\ executed_with_callbacks(task)
        /\ UNCHANGED task
     \/ /\ building /\ ~options.ignore_errors /\ options.keep_going
        /\ fail_continue(task)
        /\ UNCHANGED task
     \/ /\ ~(building /\ (options.ignore_errors \/ options.keep_going))
        /\ fail_stop(task)
        /\ task' = [task EXCEPT !.targets = <<current_top>>, !.top = TRUE]
  /\ UNCHANGED exit_status

(* BuildTask.do_failed; the other tasks stop the build (Task.failed).  The   *)
(* status of the last failure counts.                                        *)
do_failed(status) ==
  /\ \/ /\ building /\ options.ignore_errors
        /\ executed_with_callbacks(task)
        /\ UNCHANGED <<task, exit_status>>
     \/ /\ building /\ ~options.ignore_errors /\ options.keep_going
        /\ fail_continue(task)
        /\ exit_status' = status
        /\ UNCHANGED task
     \/ /\ ~(building /\ (options.ignore_errors \/ options.keep_going))
        /\ fail_stop(task)
        /\ exit_status' = IF building THEN status ELSE exit_status
        \* the requested target being built is post-processed instead
        /\ task' = [task EXCEPT !.targets = <<current_top>>, !.top = TRUE]

-----------------------------------------------------------------------------
(* The main thread: Serial.start and Parallel.start. *)

(* next_task, up to the candidate that is handed out. *)
Search ==
  /\ pc = "find"
  /\ \/ AlreadyHandled
     \/ \E n \in Nodes : \/ SkipFailed(n, options.random)
                         \/ WaitForChildren(n, options.random)
                         \/ WaitForSideEffects(n)
  /\ UNCHANGED <<graph, jobVars>>

Next_task ==
  /\ pc = "find"
  /\ \E n \in Nodes : /\ HandOut(n, options.mode = "clean")
                      /\ task' = Task(n, ChildrenUnknown(n))
  /\ pc' = "prepare"
  /\ UNCHANGED <<graph, options, draining, jobs, requestQueue, resultsQueue, worker,
                 interrupted, exit_status, verdict, started>>

(* next_task returned None: nothing to do but to wait for the workers. *)
NoMoreTasks ==
  /\ pc = "find"
  /\ \/ NoCandidate /\ UNCHANGED <<nodeVars, tmVars>>
     \/ GiveUpCandidates
  /\ pc' = IF jobs > 0 THEN "collect" ELSE IF parallel THEN "join" ELSE "cleanup"
  /\ UNCHANGED <<graph, options, draining, task, jobs, requestQueue, resultsQueue,
                 worker, interrupted, exit_status, verdict, started>>

Prepare ==
  /\ pc = "prepare"
  /\ pc' = IF PrepareFails(task) THEN "failed"
           ELSE IF ~needs_execute(task) THEN "executed"
           ELSE IF parallel THEN "put" ELSE "execute"
  /\ UNCHANGED <<graph, nodeVars, tmVars, options, draining, task, jobs,
                 requestQueue, resultsQueue, worker, interrupted, exit_status,
                 verdict, started>>

Put ==
  /\ pc = "put"
  /\ requestQueue' = Append(requestQueue, task)
  /\ jobs' = jobs + 1
  /\ pc' = IF jobs' < options.jobs THEN "find" ELSE "collect"
  /\ UNCHANGED <<graph, nodeVars, tmVars, options, draining, task, resultsQueue,
                 worker, interrupted, exit_status, verdict, started>>

(* Serial.start executes the task itself. *)
Execute ==
  /\ pc = "execute"
  /\ Begin(task)
  /\ Answer(task)
  /\ pc' = IF ExecuteFails(task) THEN "failed" ELSE "executed"
  /\ UNCHANGED <<graph, nodeVars, candidates, top_targets_left, current_top,
                 pending_children, options, draining, task, jobs, requestQueue,
                 resultsQueue, worker, interrupted, verdict>>

Collect ==
  /\ pc = "collect"
  /\ resultsQueue # <<>>
  /\ task' = Head(resultsQueue).task
  /\ pc' = IF Head(resultsQueue).ok THEN "executed" ELSE "failed"
  /\ resultsQueue' = Tail(resultsQueue)
  /\ jobs' = jobs - 1
  /\ draining' = TRUE
  /\ UNCHANGED <<graph, nodeVars, tmVars, options, requestQueue, worker, interrupted,
                 exit_status, verdict, started>>

Executed ==
  /\ pc = "executed"
  /\ \/ /\ CannotMake(task)
        /\ do_failed(2)
        /\ pc' = "postprocess" /\ UNCHANGED verdict
     \/ /\ BuiltRaises(task)
        /\ executed_with_callbacks(task)
        /\ pc' = "postfunc" /\ verdict' = "user_error"
        /\ UNCHANGED <<task, exit_status>>
     \/ /\ ~CannotMake(task) /\ ~BuiltRaises(task)
        /\ CASE building -> executed_with_callbacks(task)
             [] options.mode = "clean" -> executed_without_callbacks(task)
             [] OTHER -> UNCHANGED <<nodeVars, tmVars>>
        /\ pc' = "postprocess"
        /\ UNCHANGED <<task, exit_status, verdict>>
  /\ UNCHANGED <<graph, options, draining, jobs, requestQueue, resultsQueue, worker,
                 interrupted, started>>

Failed ==
  /\ pc = "failed"
  /\ do_failed(exitstatus(task))
  /\ pc' = "postprocess"
  /\ UNCHANGED <<graph, options, draining, jobs, requestQueue, resultsQueue, worker,
                 interrupted, verdict, started>>

(* The loop over the results ends when the queue is found empty. *)
Postprocess ==
  /\ pc = "postprocess"
  /\ postprocess(task)
  /\ IF draining /\ resultsQueue # <<>>
     THEN pc' = "collect" /\ UNCHANGED draining
     ELSE pc' = "find" /\ draining' = FALSE
  /\ UNCHANGED <<graph, options, task, jobs, requestQueue, resultsQueue, worker,
                 interrupted, exit_status, verdict, started>>

(* ThreadPool.cleanup: one sentinel for each worker; a join is given up      *)
(* after a second.                                                           *)
Join ==
  /\ pc = "join"
  /\ requestQueue' = requestQueue \o [i \in 1 .. Cardinality(Workers) |-> Sentinel]
  /\ pc' = "cleanup"
  /\ UNCHANGED <<graph, nodeVars, tmVars, options, draining, task, jobs, resultsQueue,
                 worker, interrupted, exit_status, verdict, started>>

Cleanup ==
  /\ pc = "cleanup"
  /\ verdict' = IF CycleReported THEN "cycle" ELSE "done"
  /\ pc' = "postfunc"
  /\ UNCHANGED <<graph, nodeVars, tmVars, options, draining, task, jobs, requestQueue,
                 resultsQueue, worker, interrupted, exit_status, started>>

(* jobs_postfunc, then main(): a UserError exits with status 2. *)
Postfunc ==
  /\ pc = "postfunc"
  /\ exit_status' = IF interrupted \/ verdict # "done" THEN 2 ELSE exit_status
  /\ pc' = "exited"
  /\ UNCHANGED <<graph, nodeVars, tmVars, options, draining, task, jobs, requestQueue,
                 resultsQueue, worker, interrupted, verdict, started>>

Main == Search \/ Next_task \/ NoMoreTasks \/ Prepare \/ Put \/ Execute \/ Collect
        \/ Executed \/ Failed \/ Postprocess \/ Join \/ Cleanup \/ Postfunc

-----------------------------------------------------------------------------
(* A worker thread (Worker.run), a daemon of the process. *)

Get(w) ==
  /\ pc # "exited" /\ worker[w] = Idle /\ requestQueue # <<>>
  /\ IF Head(requestQueue) = Sentinel
     THEN worker' = [worker EXCEPT ![w] = Gone] /\ UNCHANGED started
     ELSE /\ worker' = [worker EXCEPT
               ![w] = [task |-> Head(requestQueue), skip |-> interrupted]]
          /\ IF interrupted THEN UNCHANGED started ELSE Begin(Head(requestQueue))
  /\ requestQueue' = Tail(requestQueue)
  /\ UNCHANGED <<graph, nodeVars, tmVars, options, pc, draining, task, jobs,
                 resultsQueue, interrupted, exit_status, verdict>>

(* The task ends; one taken after an interrupt was not executed. *)
Finish(w) ==
  /\ pc # "exited" /\ worker[w] \notin {Idle, Gone}
  /\ LET t == worker[w].task
     IN /\ IF worker[w].skip THEN UNCHANGED <<exit_status, stopped>> ELSE Answer(t)
        /\ resultsQueue' = Append(resultsQueue,
             [task |-> t, ok |-> ~worker[w].skip /\ ~ExecuteFails(t)])
  /\ worker' = [worker EXCEPT ![w] = Idle]
  /\ UNCHANGED <<graph, nodeVars, candidates, top_targets_left, current_top,
                 pending_children, options, pc, draining, task, jobs, requestQueue,
                 interrupted, verdict, started>>

(* The signal handler of Jobs. *)
Interrupt ==
  /\ pc # "exited" /\ ~interrupted
  /\ interrupted' = TRUE
  /\ stopped' = TRUE
  /\ UNCHANGED <<graph, nodeVars, candidates, top_targets_left, current_top,
                 pending_children, options, pc, draining, task, jobs, requestQueue,
                 resultsQueue, worker, exit_status, verdict, started>>

Terminated == pc = "exited" /\ UNCHANGED vars

Next == Main \/ Interrupt \/ Terminated \/ \E w \in pool : Get(w) \/ Finish(w)

(* Python schedules every thread that can run, and a command ends. *)
Fairness == WF_vars(Main) /\ \A w \in Workers : WF_vars(w \in pool /\ (Get(w) \/ Finish(w)))

Spec == Init /\ [][Next]_vars /\ Fairness

-----------------------------------------------------------------------------
(* What a finished build is measured against: the needs of a node, with the  *)
(* files that can be read at the end.                                        *)
DependsOn(n) ==
  LET sources == ToSet(Concat(graph.kids, graph.peers[n]))
  IN sources \cup ToSet(get_all_prerequisites(n))
       \cup (IF has_builder(n) THEN ToSet(get_implicit_deps(sources)) ELSE {})
Below(S) ==
  LET down[i \in 0 .. Cardinality(Nodes)] ==
        IF i = 0 THEN S
        ELSE LET above == down[i - 1]
             IN above \cup UNION {DependsOn(n) : n \in above}
  IN down[Cardinality(Nodes)]
Wanted == Below(ToSet(graph.tops))
RealCycle == \E n \in Wanted : n \in Below(DependsOn(n))

AnyFailed == \E n \in Nodes : state[n] = failed
Exited == pc = "exited"

TypeOK ==
  /\ state \in [Nodes -> no_state .. failed]
  /\ waiting_parents \in [Nodes -> SUBSET Nodes]
  /\ waiting_s_e \in [Nodes -> SUBSET Nodes]
  /\ ref_count \in [Nodes -> 0 .. Cardinality(Nodes)]
  /\ \A n \in Nodes : implicit[n] = Unscanned \/ implicit[n] \in Seq(Nodes)
  /\ candidates \in Seq(Nodes) /\ top_targets_left \in Seq(Nodes)
  /\ pending_children \subseteq Nodes
  /\ jobs \in 0 .. options.jobs
  /\ exit_status \in 0 .. 2

(* The reference count of a node is the number of nodes it is listed with as *)
(* a waiting parent, whatever was built, skipped, failed or given up between *)
(* (add_to_waiting_parents, postprocess, will_not_build).                    *)
RefCountExact ==
  \A p \in Nodes :
    ref_count[p] = Cardinality({n \in Nodes : p \in waiting_parents[n]})

(* While nothing has failed and nothing was stopped, the walk cannot lose a  *)
(* node: a pending node is on the stack, or waits for a child, or for a side *)
(* effect of a task under way (the branches of _find_next_ready_node); and   *)
(* of a build, every suspect of a cycle is unfinished and waited for, as     *)
(* _validate_pending_children asserts.                                       *)
WalkSound ==
  pc = "find" /\ ~stopped /\ ~AnyFailed =>
    /\ \A n \in Nodes : state[n] = pending =>
         \/ n \in ToSet(candidates)
         \/ ref_count[n] > 0
         \/ \E s \in Nodes : state[s] = executing /\ n \in waiting_s_e[s]
    /\ building => \A n \in pending_children :
         /\ state[n] \in {pending, executing}
         /\ waiting_parents[n] # {}
         /\ \A p \in waiting_parents[n] : ref_count[p] > 0

(* When nothing failed and nothing stopped the walk, cleanup() reports a     *)
(* dependency cycle exactly when the requested targets have one.             *)
CyclesExact ==
  Exited /\ verdict \in {"done", "cycle"} /\ ~stopped /\ ~AnyFailed =>
    (verdict = "cycle" <=> RealCycle)

(* Exit status 0 tells the truth: of a build without -i, that everything the *)
(* targets need is made, and no command is left undone; of a question, that  *)
(* a build would have nothing to do; and in no case was a signal received.   *)
(* The exception is the one BuildError documents ("Must be nonzero unless    *)
(* due to an explicit Exit() call"): a target failed by calling Exit(0).     *)
FailedByExit == \E n \in graph.exits : state[n] = failed
ExitZeroTrue ==
  Exited /\ exit_status = 0 =>
    /\ ~interrupted
    /\ building /\ ~options.ignore_errors /\ ~FailedByExit =>
         /\ ~AnyFailed
         /\ \A n \in Wanted : state[n] \in {up_to_date, executed}
         /\ Wanted \cap graph.stale \subseteq started
    /\ options.mode = "question" => Wanted \cap graph.stale = {}

(* The build implements the schedule it promises (BuildSchedule): a command  *)
(* runs once, after what it needs, never beside a common side effect, and    *)
(* nothing fails before what it needs is there or has failed.                *)
Status == [n \in Nodes |->
  CASE options.mode = "clean" -> "waiting"  \* removes, in no promised order
    [] state[n] = executed -> "built"
    [] state[n] = up_to_date -> "current"
    [] state[n] = failed -> "failed"
    [] state[n] = executing /\ n \in started -> "running"
    [] OTHER -> "waiting"]
Schedule == INSTANCE BuildSchedule WITH
              status <- Status, ignore_errors <- options.ignore_errors
ImplementsSchedule == Schedule!Spec

(* Every build ends, with every result collected: no worker and no node is   *)
(* waited for in vain.                                                       *)
Termination == <>Exited

(* A dependency cycle is reported only when there is one. *)
NoFalseCycle == verdict = "cycle" => RealCycle
=============================================================================
