--------------------------- MODULE SConsInteractive ---------------------------
(* One interactive session after another (Script/Interactive.py): commands   *)
(* build and clean some targets, the user edits files in between, and what   *)
(* the nodes remember of one command must not be seen by the next.  A        *)
(* command is one step; Taskmaster's order within it is SConsTaskmaster's    *)
(* business.                                                                 *)
EXTENDS Integers, Sequences, SequencesExt, FiniteSets

CONSTANTS Commands,  \* the targets of each command, children first
          Kids,      \* target -> its sources and explicit dependencies
          Prereq,    \* target -> its order-only prerequisites
          Effects,   \* target -> the side effects of its command
          Sources,   \* files with include lines
          Headers,
          Requests,  \* what a command line may name
          NoFile,
          Unset,
          MaxSteps

Targets == UNION {ToSet(c) : c \in ToSet(Commands)}
Files == Sources \cup Headers
Nodes == Targets \cup Files

InteractiveAssumption ==
  /\ \A i \in DOMAIN Commands : \A t \in ToSet(Commands[i]) :
       Kids[t] \cup Prereq[t] \subseteq Sources \cup UNION {ToSet(Commands[j]) : j \in 1 .. i - 1}
  /\ Requests \subseteq SUBSET Targets

VARIABLES content,   \* file -> what is on disk
          record,    \* target -> its children and their signatures, in .sconsign
          state, csig, includes, implicit,   \* what the nodes remember
          found,     \* FileFinder's memo: header -> the answer of the first search
          busy,      \* the side effects left in the state "executing"
          last,      \* the last command and its outcome
          alive, sessionSteps,
          unseen     \* history: headers that existed after a search did not find them

diskVars == <<content, record>>
memoryVars == <<state, csig, includes, implicit, found, busy>>
interactiveVars == <<diskVars, memoryVars, last, alive, sessionSteps, unseen>>

Idle == [op |-> "none", targets |-> {}, ok |-> TRUE, left |-> {}]
Forgotten == [n \in Nodes |-> Unset]

FreshMemory ==
  /\ state = [n \in Nodes |-> "no_state"]
  /\ csig = Forgotten /\ includes = Forgotten /\ implicit = Forgotten
  /\ found = [h \in Headers |-> Unset] /\ busy = {}

InteractiveInit ==
  /\ content \in [Nodes -> {NoFile, [version |-> 1, lines |-> {}], [version |-> 1, lines |-> Headers]}]
  /\ \A n \in Targets : content[n] = NoFile
  /\ \A s \in Sources : content[s] # NoFile
  /\ \A h \in Headers : content[h] # NoFile => content[h].lines = {}
  /\ record = [t \in Targets |-> NoFile]
  /\ FreshMemory
  /\ last = Idle /\ alive = TRUE /\ sessionSteps = 0 /\ unseen = {}

-----------------------------------------------------------------------------
(* The world a command runs in, threaded through its tasks. *)
World(T) ==
  [content |-> content, record |-> record, state |-> state, csig |-> csig,
   includes |-> includes, implicit |-> implicit, found |-> found, busy |-> busy,
   blocked |-> {}, stopped |-> FALSE, ok |-> TRUE, targets |-> T]

Keep(f, S, v) == [x \in DOMAIN f |-> IF x \in S THEN v[x] ELSE f[x]]
Put(f, S, v) == [x \in DOMAIN f |-> IF x \in S THEN v ELSE f[x]]

(* Executor.scan: the sources of the command are scanned once for all its    *)
(* targets.  What a search has found, or not found, is never forgotten.      *)
LinesOf(w, f) ==
  IF w.includes[f] # Unset THEN w.includes[f]
  ELSE IF w.content[f] = NoFile THEN {} ELSE w.content[f].lines
Scan(w, c) ==
  IF \A t \in ToSet(c) : w.implicit[t] # Unset THEN w
  ELSE LET scanned == Kids[c[1]] \cap Sources
           named == UNION {LinesOf(w, s) : s \in scanned}
           answer == [h \in Headers |-> IF w.found[h] = Unset /\ h \in named
                                        THEN w.content[h] # NoFile ELSE w.found[h]]
           deps == {h \in named : answer[h]}
       IN [w EXCEPT !.found = answer,
                    !.includes = Keep(@, scanned, [s \in scanned |-> LinesOf(w, s)]),
                    !.implicit = [t \in Nodes |->
                       IF t \notin ToSet(c) THEN @[t]
                       ELSE IF @[t] = Unset THEN deps ELSE @[t] \cup deps]]

Children(w, t) == Kids[t] \cup w.implicit[t]
Csig(w, n) == IF w.csig[n] # Unset THEN w.csig[n] ELSE w.content[n]
Sigs(w, t) == {<<n, Csig(w, n)>> : n \in Children(w, t)}

(* The nodes below T, as children() gives them. *)
Below(w, T) ==
  LET down[i \in 0 .. Len(Commands)] ==
        IF i = Len(Commands) THEN T
        ELSE down[i + 1] \cup
             UNION {Kids[t] \cup (IF w.implicit[t] = Unset THEN {} ELSE w.implicit[t]) :
                      t \in ToSet(Commands[i + 1]) \cap down[i + 1]}
  IN down[0]

(* The nodes the walk visits: it does not look below a node that an earlier  *)
(* command has left evaluated, and takes all targets of a command together.  *)
Open(n) == state[n] \in {"no_state", "pending"}
Visited(T) ==
  LET down[i \in 0 .. Len(Commands)] ==
        IF i = Len(Commands) THEN T
        ELSE down[i + 1] \cup
             IF \E t \in ToSet(Commands[i + 1]) \cap down[i + 1] : Open(t)
             THEN UNION {Kids[t] \cup Prereq[t] : t \in ToSet(Commands[i + 1])} ELSE {}
  IN down[0]

MadeOf(w, t) ==
  LET read == UNION {w.content[s].lines : s \in Kids[t] \cap Sources}
  IN {<<n, w.content[n]>> : n \in Kids[t] \cup {h \in read : w.content[h] # NoFile}}
Missing(w, c) ==
  \E t \in ToSet(c) : \E n \in Children(w, t) : w.content[n] = NoFile
OutOfDate(w, c) ==
  \E t \in ToSet(c) : w.content[t] = NoFile \/ w.record[t] # Sigs(w, t)

(* A failure stops the walk.  Only the top target is postprocessed then, so  *)
(* the side effects of another one stay in the state "executing".            *)
Failed(w, c) ==
  [w EXCEPT !.state = Put(@, ToSet(c), "failed"),
            !.busy = IF ToSet(c) \cap w.targets # {} THEN @
                     ELSE @ \cup UNION {Effects[t] : t \in ToSet(c)},
            !.stopped = TRUE, !.ok = FALSE]

UpToDate(w, c) ==
  [w EXCEPT !.state = Put(@, ToSet(c), "up_to_date"),
            !.csig = [n \in Nodes |-> IF n \in ToSet(c) THEN Csig(w, n) ELSE @[n]]]

Executed(w, c) ==
  [w EXCEPT !.state = Put(@, ToSet(c), "executed"),
            !.content = [n \in Nodes |-> IF n \in ToSet(c) THEN MadeOf(w, n) ELSE @[n]],
            !.csig = [n \in Nodes |-> IF n \in ToSet(c) THEN MadeOf(w, n) ELSE @[n]],
            !.record = [t \in Targets |-> IF t \in ToSet(c) THEN Sigs(w, t) ELSE @[t]]]

Removed(w, c) ==
  [w EXCEPT !.state = Put(@, ToSet(c), "executed"),
            !.content = Put(@, ToSet(c), NoFile)]

(* The signatures a decision has read stay with the nodes. *)
Decided(w, c) ==
  LET read == UNION {Children(w, t) : t \in ToSet(c)}
  IN [w EXCEPT !.csig = [n \in Nodes |-> IF n \in read THEN Csig(w, n) ELSE @[n]]]

Task(op, fails, w, c) ==
  LET v == Decided(w, c)
  IN IF op = "clean" THEN Removed(w, c)
     ELSE IF ~OutOfDate(v, c) THEN UpToDate(v, c)
     ELSE IF Missing(v, c) \/ c[1] \in fails THEN Failed(v, c)
     ELSE Executed(v, c)

(* One command of the graph in the walk.  A node that waits for a busy side  *)
(* effect, or for a node that was left pending, waits until the walk ends.   *)
Examine(op, fails, w, c) ==
  LET below == UNION {Kids[t] \cup Prereq[t] : t \in ToSet(c)}
      v == Scan(w, c)
  IN IF w.stopped \/ ~\E t \in ToSet(c) \cap Visited(w.targets) : Open(t) THEN w
     ELSE IF \E n \in below : w.state[n] = "failed" THEN [v EXCEPT !.state = Put(@, ToSet(c), "failed")]
     ELSE IF \/ \E n \in below : n \in w.blocked \/ (state[n] = "pending" /\ n \notin w.targets)
             \/ UNION {Effects[t] : t \in ToSet(c)} \cap w.busy # {}
     THEN [v EXCEPT !.state = Put(@, ToSet(c) \cap Visited(w.targets), "pending"),
                    !.blocked = @ \cup ToSet(c)]
     ELSE Task(op, fails, v, c)

Walk(op, fails, T) ==
  LET after[i \in 0 .. Len(Commands)] ==
        IF i = 0 THEN World(T) ELSE Examine(op, fails, after[i - 1], Commands[i])
  IN after[Len(Commands)]

(* Taskmaster.cleanup takes what was pending when its parent was examined    *)
(* for a cycle, and the UserError ends the session.                          *)
Cycle(w) ==
  ~w.stopped /\ \E c \in ToSet(Commands) : \E t \in ToSet(c) :
     /\ ToSet(c) \subseteq w.blocked
     /\ \E n \in Kids[t] \cup Prereq[t] : state[n] = "pending" /\ n \notin w.targets

(* The second half of do_build: what is below the targets, scanned once more *)
(* where needed, forgets everything.                                         *)
Rescanned(w, T) ==
  LET after[i \in 0 .. Len(Commands)] ==
        IF i = 0 THEN w
        ELSE IF ToSet(Commands[i]) \cap Below(w, T) # {} THEN Scan(after[i - 1], Commands[i])
        ELSE after[i - 1]
  IN after[Len(Commands)]

Seen(w, T) == Below(w, T)

Cleared(w, T) ==
  LET v == Rescanned(w, T)
      seen == Seen(v, T)
  IN [v EXCEPT !.state = Put(@, seen, "no_state"), !.csig = Put(@, seen, Unset),
               !.includes = Put(@, seen, Unset), !.implicit = Put(@, seen, Unset)]

Becomes(w) ==
  /\ content' = w.content /\ record' = w.record
  /\ state' = w.state /\ csig' = w.csig /\ includes' = w.includes
  /\ implicit' = w.implicit /\ found' = w.found /\ busy' = w.busy

Step == sessionSteps < MaxSteps /\ sessionSteps' = sessionSteps + 1

do_build(op, fails, T) ==
  LET w == Walk(op, fails, T)
  IN /\ Step /\ alive
     /\ last' = [op |-> op, targets |-> T, ok |-> w.ok /\ ~Cycle(w),
                 left |-> {n \in Nodes : state[n] # "no_state"} \cup busy]
     /\ alive' = ~Cycle(w)
     /\ Becomes(IF Cycle(w) THEN w ELSE Cleared(w, T))
     /\ UNCHANGED unseen

(* The user, through do_shell or an editor. *)
Edit(f, new) ==
  /\ Step /\ content[f] # new
  /\ content' = [content EXCEPT ![f] = new]
  /\ last' = Idle
  /\ unseen' = unseen \cup {h \in {f} \cap Headers : found[h] = FALSE}
  /\ UNCHANGED <<record, memoryVars, alive>>

do_exit ==
  /\ Step
  /\ alive' = TRUE /\ last' = Idle
  /\ state' = [n \in Nodes |-> "no_state"]
  /\ csig' = Forgotten /\ includes' = Forgotten /\ implicit' = Forgotten
  /\ found' = [h \in Headers |-> Unset] /\ busy' = {}
  /\ UNCHANGED <<diskVars, unseen>>

InteractiveNext ==
  \/ do_exit
  \/ \E T \in Requests :
       \/ do_build("clean", {}, T)
       \/ \E fails \in {{}} \cup {{c[1]} : c \in ToSet(Commands)} : do_build("build", fails, T)
  \/ \E s \in Sources, v \in 1 .. 2, l \in {{}, Headers} : Edit(s, [version |-> v, lines |-> l])
  \/ \E h \in Headers : \/ Edit(h, NoFile)
                        \/ \E v \in 1 .. 2 : Edit(h, [version |-> v, lines |-> {}])

-----------------------------------------------------------------------------
(* What a build from scratch would make of the sources. *)
Fresh ==
  LET made[i \in 0 .. Len(Commands)] ==
        IF i = 0 THEN content
        ELSE [n \in Nodes |->
               IF n \in ToSet(Commands[i]) THEN MadeOf([content |-> made[i - 1]], n)
               ELSE made[i - 1][n]]
  IN made[Len(Commands)]

BelowNow(T) == Below([implicit |-> Forgotten], T)
Requested == BelowNow(last.targets) \cap Targets
Busy == UNION {Effects[t] : t \in Requested}
LeftEvaluated ==
  last.left \cap (Requested \cup Busy \cup UNION {Prereq[t] : t \in Requested}) # {}
Mentions(t) == \E s \in BelowNow({t}) \cap Sources : content[s].lines \cap unseen # {}

(* After a build that reports no error every target below the requested ones *)
(* is what a build from scratch would make, but for the recorded reasons: a  *)
(* node that an earlier command of the session has left evaluated, and a     *)
(* header made since a search did not find it.                               *)
BuiltIsCurrent ==
  last.op = "build" /\ last.ok =>
    \A t \in Requested : \/ content[t] = Fresh[t]
                         \/ LeftEvaluated
                         \/ Mentions(t)

(* After a clean nothing below the requested targets is left, but for nodes  *)
(* that an earlier command has left evaluated, or a side effect left busy.   *)
CleanedIsGone ==
  last.op = "clean" /\ last.ok =>
    \/ \A t \in Requested : content[t] = NoFile
    \/ LeftEvaluated

(* A command leaves nothing evaluated below what it was asked for; what it   *)
(* leaves are the other targets of a command, the order-only prerequisites   *)
(* and what those need.                                                      *)
NothingLeftBelow ==
  alive /\ last.op # "none" =>
    \A n \in BelowNow(last.targets) : state[n] = "no_state" /\ csig[n] = Unset

InteractiveSafe == BuiltIsCurrent /\ CleanedIsGone /\ NothingLeftBelow
=============================================================================
