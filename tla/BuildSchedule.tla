---------------------------- MODULE BuildSchedule ----------------------------
(* What the task master and the job runners of SCons promise of a build      *)
(* together, whatever the order of the walk and however many workers there   *)
(* are: a command runs once, after everything its targets need, never beside *)
(* a command with a common side effect; and a node fails only for something  *)
(* it needs, or for itself once all that it needs is there.                  *)
EXTENDS Sequences, SequencesExt, FiniteSets

CONSTANT Nodes

VARIABLES graph,          \* as in SConsTaskmaster
          ignore_errors,  \* the option -i
          status          \* node -> waiting, running, built, current or failed

vars == <<graph, ignore_errors, status>>

Group(n) == ToSet(graph.peers[n])
Effects(n) == UNION {ToSet(graph.effects[t]) : t \in Group(n)}
Done(n) == status[n] \in {"built", "current"}

(* What the targets of n's command need: their sources and prerequisites and *)
(* what the sources include, as far as the sources can be read.              *)
Sources(n) == UNION {ToSet(graph.kids[t]) : t \in Group(n)}
Order(n) == UNION {ToSet(graph.prereq[t]) : t \in Group(n)}
Included(S) ==
  LET found(R) == UNION {graph.includes[f] :
                           f \in {m \in R : m \in graph.stale => status[m] = "built"}}
      reach[i \in 0 .. Cardinality(Nodes)] ==
        IF i = 0 THEN found(S)
        ELSE LET before == reach[i - 1] IN before \cup found(before)
  IN reach[Cardinality(Nodes)]
Needs(n) == Sources(n) \cup Order(n)
              \cup (IF n \in graph.built THEN Included(Sources(n)) ELSE {})

Set(S, word) == status' = [n \in Nodes |-> IF n \in S THEN word ELSE status[n]]

Init == status = [n \in Nodes |-> "waiting"]

(* What n needs is there, or cannot be known. *)
CanStart(n) == n \in graph.unscanned \/ \A c \in Needs(n) : Done(c)

(* The command of n's targets starts. *)
Start(n) ==
  /\ \A t \in Group(n) : status[t] = "waiting"
  /\ CanStart(n)
  /\ \A m \in Nodes : status[m] = "running" => Effects(m) \cap Effects(n) = {}
  /\ Set(Group(n), "running")

(* It succeeds; with -i it is taken to, even if it could not be started. *)
Finish(n) ==
  /\ \/ status[n] = "running"
     \/ ignore_errors /\ status[n] = "waiting" /\ CanStart(n)
  /\ Set(Group(n), "built")

(* The targets are found up to date. *)
Skip(n) ==
  /\ \A t \in Group(n) : status[t] = "waiting" /\ t \notin graph.stale
  /\ CanStart(n)
  /\ Set(Group(n), "current")

(* The targets of one command fail, when it could have started or something  *)
(* it needs has failed, and with them nodes that need what fails or has      *)
(* failed.  A command may fail for any reason of its own.  What was built    *)
(* does not fail afterwards; what was found up to date may, when a source of *)
(* it does not exist.                                                        *)
FailNow == {n \in Nodes : status[n] # "failed" /\ status'[n] = "failed"}
Fails(n) == status[n] = "failed" \/ n \in FailNow
Fail ==
  /\ FailNow # {}
  /\ \A n \in FailNow : status[n] # "built"
  /\ \E n \in FailNow :
       /\ CanStart(n) \/ \E c \in Needs(n) : Fails(c)
       /\ \A m \in FailNow \ Group(n) : \E c \in Needs(m) : Fails(c)
  /\ Set(FailNow, "failed")

Next == /\ \/ \E n \in Nodes : Start(n) \/ Finish(n) \/ Skip(n)
           \/ Fail
        /\ UNCHANGED <<graph, ignore_errors>>

Spec == Init /\ [][Next]_vars
=============================================================================
