----------------------------- MODULE SConsAction -----------------------------
(* The execution of action lists by the worker threads (Action.py, the       *)
(* action list of an Executor, Errors.convert_to_BuildError).  The current   *)
(* directory is one for all threads.  What the execution of a command or a   *)
(* function comes to is one of the outcomes below.                           *)
EXTENDS Integers, Sequences, SequencesExt

CONSTANTS Threads,
          Lists,       \* the action lists: [kind, chdir, ignore] of each action
          Top,         \* the directory scons runs in
          None

(* The numbers an error comes with: what a command returns, an errno, what   *)
(* the exceptions stand for.  None is none of them, and no error.            *)
Numbers == {0, 1, 2, 3, 13}
BuildErrors == [status : Numbers, exitstatus : {0, 2}]

ActionAssumption ==
  /\ \A list \in Lists : list \in Seq(ToSet(list)) \ {<<>>}
  /\ None \notin Numbers \cup BuildErrors

VARIABLES cwd,         \* os.getcwd()
          thread,      \* thread -> the list it executes, its place in it and in __call__
          ran,         \* history: thread -> the outcomes of its list so far
          overlap,     \* history: some action changed the directory under another one
          misplaced    \* history: an action that ran in a directory that is not its own

actionVars == <<cwd, thread, ran, overlap, misplaced>>

(* An outcome: what the spawned command or the Python function does, and the *)
(* status it carries.  None is the errno of an OSError that was raised with  *)
(* a text only.                                                              *)
Outcomes(kind) ==
  IF kind = "command" THEN {[does |-> "returns", status |-> s] : s \in {0, 1}}
  ELSE {[does |-> "returns", status |-> s] : s \in {0, 1}}
       \cup {[does |-> "OSError", status |-> s] : s \in {13, None}}
       \cup {[does |-> "UserError", status |-> 2], [does |-> "ExplicitExit", status |-> 0],
             [does |-> "BuildError", status |-> 3], [does |-> "Exception", status |-> 2]}

Failure(o) == o.does # "returns" \/ o.status # 0

Idle == [list |-> <<>>, turn |-> 1, at |-> "idle", save |-> None, result |-> None]

ActionInit ==
  /\ cwd = Top
  /\ thread = [t \in Threads |-> Idle]
  /\ ran = [t \in Threads |-> <<>>]
  /\ overlap = FALSE /\ misplaced = FALSE

Act(t) == thread[t].list[thread[t].turn]
Place(t) == IF Act(t).chdir = None THEN Top ELSE Act(t).chdir

(* Another thread is inside an action; it is between its two os.chdir. *)
Inside(t) == thread[t].at \in {"chdir", "execute", "restore"}
Moved(t) == thread[t].at \in {"execute", "restore"} /\ Act(t).chdir # None

-----------------------------------------------------------------------------
(* Executor.__call__: the pre-actions, the action and the post-actions. *)
Execute(t, list) ==
  /\ thread[t].at = "idle"
  /\ thread' = [thread EXCEPT ![t] = [Idle EXCEPT !.list = list, !.at = "start"]]
  /\ ran' = [ran EXCEPT ![t] = <<>>]
  /\ UNCHANGED <<cwd, overlap, misplaced>>

(* _ActionAction.__call__: the directory there is now is remembered. *)
Start(t) ==
  /\ thread[t].at = "start"
  /\ thread' = [thread EXCEPT ![t].at = IF Act(t).chdir = None THEN "execute" ELSE "chdir",
                              ![t].save = IF Act(t).chdir = None THEN None ELSE cwd]
  /\ overlap' = (overlap \/ \E u \in Threads \ {t} : Moved(u) \/ (Inside(u) /\ Act(t).chdir # None))
  /\ UNCHANGED <<cwd, ran, misplaced>>

ChangeDirectory(t) ==
  /\ thread[t].at = "chdir"
  /\ cwd' = Act(t).chdir
  /\ thread' = [thread EXCEPT ![t].at = "execute"]
  /\ overlap' = (overlap \/ \E u \in Threads \ {t} : Inside(u))
  /\ UNCHANGED <<ran, misplaced>>

(* convert_to_BuildError: an exit always ends scons with its own status, any *)
(* other error with 2.                                                       *)
BuildError(status) == [status |-> status, exitstatus |-> 2]
convert_to_BuildError(o) ==
  IF o.does = "ExplicitExit" THEN [status |-> o.status, exitstatus |-> o.status]
  ELSE BuildError(o.status)

(* FunctionAction.execute raises every exception but an EnvironmentError; a  *)
(* command or a function that returns, and an EnvironmentError, give a       *)
(* status, and one that Python takes for false is no error.                  *)
Raises(o) == o.does \in {"UserError", "ExplicitExit", "BuildError", "Exception"}
StatusTrue(s) == s \notin {0, None}

execute(t, o) ==
  LET ignored == Act(t).kind = "command" /\ Act(t).ignore
  IN IF Raises(o) \/ (StatusTrue(o.status) /\ ~ignored) THEN convert_to_BuildError(o) ELSE None

Run(t) ==
  /\ thread[t].at = "execute"
  /\ \E o \in Outcomes(Act(t).kind) :
       /\ ran' = [ran EXCEPT ![t] = Append(@, o)]
       /\ thread' = [thread EXCEPT ![t].at = "restore", ![t].result = execute(t, o)]
  /\ misplaced' = (misplaced \/ cwd # Place(t))
  /\ UNCHANGED <<cwd, overlap>>

(* finally: the directory is put back, also after an exception; a list stops *)
(* at the first action that has an error.                                    *)
NextTurn_AnyWay(t) ==
  [thread[t] EXCEPT !.at = IF thread[t].turn = Len(thread[t].list) THEN "done" ELSE "start",
                    !.turn = IF thread[t].turn = Len(thread[t].list) THEN @ ELSE @ + 1]
NextTurn(t) ==
  IF thread[t].result # None \/ thread[t].turn = Len(thread[t].list)
  THEN [thread[t] EXCEPT !.at = "done"]
  ELSE [thread[t] EXCEPT !.at = "start", !.turn = @ + 1]

Restored(t) == IF Act(t).chdir = None THEN cwd ELSE thread[t].save

Restore(t) ==
  /\ thread[t].at = "restore"
  /\ cwd' = Restored(t)
  /\ thread' = [thread EXCEPT ![t] = NextTurn(t)]
  /\ UNCHANGED <<ran, overlap, misplaced>>

(* The task is finished, and the thread takes another one. *)
Finish(t) ==
  /\ thread[t].at = "done"
  /\ thread' = [thread EXCEPT ![t] = Idle]
  /\ UNCHANGED <<cwd, ran, overlap, misplaced>>

ActionNext ==
  \E t \in Threads :
    \/ \E list \in Lists : Execute(t, list)
    \/ Start(t) \/ ChangeDirectory(t) \/ Run(t) \/ Restore(t) \/ Finish(t)

ActionSpec == ActionInit /\ [][ActionNext]_actionVars

-----------------------------------------------------------------------------
(* A command that is to run in a directory of its own does so, and every     *)
(* other one at the top, whatever failed before, as long as no action that   *)
(* changes the directory overlaps with another thread's.                     *)
RunsInPlace ==
  ~overlap => /\ ~misplaced
              /\ (\A t \in Threads : ~Moved(t)) => cwd = Top

(* A target is made only by a list all of whose actions succeeded, an error  *)
(* that was to be ignored and an OSError without a number aside.             *)
Excused(a, o) == (a.kind = "command" /\ a.ignore) \/ (o.does = "OSError" /\ o.status = None)
MadeByAll ==
  \A t \in Threads : thread[t].at = "done" /\ thread[t].result = None =>
    /\ Len(ran[t]) = Len(thread[t].list)
    /\ \A i \in DOMAIN ran[t] : Failure(ran[t][i]) => Excused(thread[t].list[i], ran[t][i])

(* BuildError's status "Must be set to a non-zero value even if the build    *)
(* error is not due to an action returning a non-zero returned code."        *)
ErrorsCount ==
  \A t \in Threads : thread[t].at = "done" =>
    \A i \in DOMAIN ran[t] : ran[t][i].does = "OSError" => thread[t].result # None
=============================================================================
