----------------------------- MODULE SConsBuilder -----------------------------
(* The calls of Builders while SConscript files are read (Builder.py, the    *)
(* making of Executors, Environment.SideEffect): which calls for a target    *)
(* are refused, which Executor makes it, and the source suffixes a Builder   *)
(* remembers.  A builder here is one Builder object; an environment is the   *)
(* object the call was made on and the overrides given with the call.        *)
EXTENDS Integers, Sequences, FiniteSets, SequencesExt

CONSTANTS Builders,      \* the builders
          Action,        \* builder -> its action
          Multi,         \* the builders that may be called again for a target
          Batching,      \* the builders whose action takes many sources at once
          Envs,          \* [subject, overrides]
          Contents,      \* action, environment -> the expanded command
          TargetLists, SourceLists,
          NewSuffixes,      \* the suffixes an action may be added for
          Unset,
          MaxCalls       \* bound on the calls

(* A builder is called for at least one target, with sources of which none   *)
(* is named twice.                                                           *)
BuilderAssumption ==
  /\ \A b \in Builders, e \in Envs : <<Action[b], e>> \in DOMAIN Contents
  /\ Multi \subseteq Builders /\ Batching \subseteq Builders \ Multi
  /\ Unset \notin Builders /\ MaxCalls \in Nat
  /\ \A list \in TargetLists \cup SourceLists : list \in Seq(ToSet(list))
  /\ \A slist \in SourceLists :
       \A i \in DOMAIN slist, j \in DOMAIN slist : slist[i] = slist[j] => i = j
  /\ <<>> \notin TargetLists

VARIABLES node,          \* target -> builder, env, sources, executor; and side_effect
          executors,     \* every Executor made: action, env, batches
          batchOf,       \* _batch_executors: <<builder, env>> -> executor
          actions,       \* the suffixes the object builder has an action for
          memo,          \* _memo: the suffixes either builder remembers for an environment
          linked,        \* history: what became of the last source of a program
          replaced,      \* history: targets that silently got another action
          calls

builderVars == <<node, executors, batchOf, actions, memo, linked, replaced, calls>>

Targets == UNION {ToSet(tlist) : tlist \in TargetLists}

BuilderInit ==
  /\ node = [t \in Targets |-> [builder |-> Unset, env |-> Unset, sources |-> <<>>,
                                executor |-> 0, side_effect |-> FALSE]]
  /\ executors = <<>> /\ batchOf = [k \in Builders \X Envs |-> 0]
  /\ actions = {} /\ memo = [b \in {"Object", "Program"} |-> [e \in Envs |-> Unset]]
  /\ linked = Unset /\ replaced = {} /\ calls = 0

Recipe(b, e) == Contents[<<Action[b], e>>]
(* get_all_targets: the targets of all batches, one after the other. *)
AllTargets(x) ==
  LET upTo[i \in 0 .. Len(executors[x].batches)] ==
        IF i = 0 THEN <<>> ELSE upTo[i - 1] \o executors[x].batches[i].targets
  IN upTo[Len(executors[x].batches)]

(* _node_errors.  A call in the same environment, or one that differs from   *)
(* it only by the same overrides, is not asked for its action.               *)
SameEnv(t, b, e) == node[t].env = e /\ (e.overrides = "none" \/ b \notin Multi)

node_errors_AnySource(b, e, tlist, slist) ==
  \E i \in DOMAIN tlist : LET t == tlist[i]
                          IN \/ node[t].side_effect
                             \/ /\ node[t].builder # Unset
                                /\ ~SameEnv(t, b, e) /\ Recipe(node[t].builder, node[t].env) # Recipe(b, e)
node_errors(b, e, tlist, slist) ==
  \E t \in ToSet(tlist) :
    \/ node[t].side_effect
    \/ /\ node[t].builder # Unset
       /\ \/ ~SameEnv(t, b, e) /\ Recipe(node[t].builder, node[t].env) # Recipe(b, e)
          \/ b \in Multi /\ (node[t].builder # b \/ AllTargets(node[t].executor) # tlist)
          \/ b \notin Multi /\ node[t].sources # slist

(* Node.add_source: every node of the list that is not a source yet. *)
Added(sources, slist) ==
  LET upTo[i \in 0 .. Len(slist)] ==
        IF i = 0 THEN sources
        ELSE IF slist[i] \in ToSet(upTo[i - 1]) THEN upTo[i - 1]
        ELSE Append(upTo[i - 1], slist[i])
  IN upTo[Len(slist)]

(* BuilderBase._execute: the sources are added to the executor there is, the *)
(* lists become one more batch of it, or there is a new one.                 *)
add_sources(x, slist) ==
  [executors EXCEPT ![x].batches[1].sources = Added(@, slist)]

Batch(tlist, slist) == [targets |-> tlist, sources |-> slist]

NewExecutor(b, e, tlist, slist) ==
  [action |-> Action[b], env |-> e, batches |-> <<Batch(tlist, slist)>>]

execute(b, e, tlist, slist) ==
  LET old == node[tlist[1]].executor
      key == <<b, e>>
      x == IF b \in Multi /\ old # 0 THEN old
           ELSE IF b \in Batching /\ batchOf[key] # 0 THEN batchOf[key]
           ELSE Len(executors) + 1
  IN /\ executors' = IF x > Len(executors) THEN Append(executors, NewExecutor(b, e, tlist, slist))
                     ELSE IF b \in Multi THEN add_sources(x, slist)
                     ELSE [executors EXCEPT ![x].batches = Append(@, Batch(tlist, slist))]
     /\ batchOf' = IF b \in Batching THEN [batchOf EXCEPT ![key] = x] ELSE batchOf
     /\ node' = [t \in Targets |->
                   IF t \notin ToSet(tlist) THEN node[t]
                   ELSE [node[t] EXCEPT !.builder = b, !.env = e, !.executor = x,
                           !.sources = Added(@, slist)]]

Call(b, e, tlist, slist) ==
  /\ ~node_errors(b, e, tlist, slist)
  /\ execute(b, e, tlist, slist)
  /\ replaced' = replaced \cup {t \in ToSet(tlist) :
                     node[t].builder # Unset /\ Recipe(node[t].builder, node[t].env) # Recipe(b, e)}
  /\ UNCHANGED <<actions, memo, linked>>

SideEffect(t, target) ==
  /\ node[t].builder = Unset /\ t # target
  /\ node' = [node EXCEPT ![t].side_effect = TRUE,
                          ![t].sources = Added(@, <<target>>)]
  /\ UNCHANGED <<executors, batchOf, actions, memo, linked, replaced>>

-----------------------------------------------------------------------------
(* The suffixes.  add_action changes the suffixes of the object builder and  *)
(* leaves what has been remembered; a program's source whose suffix an       *)
(* object builder knows is built by it, any other is linked as it is.        *)

add_action(suffix) ==
  /\ suffix \notin actions /\ actions' = actions \cup {suffix}
  /\ UNCHANGED <<node, executors, batchOf, memo, linked, replaced>>

(* src_suffixes: the object builder's suffixes are appended to the list that *)
(* the program builder remembers.                                            *)
ObjectSuffixes(e) == IF memo["Object"][e] = Unset THEN actions ELSE memo["Object"][e]
ProgramSuffixes(e) == ObjectSuffixes(e) \cup IF memo["Program"][e] = Unset THEN {} ELSE memo["Program"][e]

Program(e, suffix) ==
  /\ memo' = [memo EXCEPT !["Object"][e] = ObjectSuffixes(e), !["Program"][e] = ProgramSuffixes(e)]
  /\ linked' = [suffix |-> suffix, env |-> e, built |-> suffix \in ProgramSuffixes(e) \cap ObjectSuffixes(e)]
  /\ UNCHANGED <<node, executors, batchOf, actions, replaced>>

Declare ==
  /\ calls < MaxCalls /\ calls' = calls + 1
  /\ \/ \E b \in Builders, e \in Envs, tlist \in TargetLists, slist \in SourceLists : Call(b, e, tlist, slist)
     \/ \E t \in Targets, target \in Targets : SideEffect(t, target)
     \/ \E suffix \in NewSuffixes : add_action(suffix) \/ \E e \in Envs : Program(e, suffix)

(* The SConscript files have been read. *)
AllRead == calls = MaxCalls /\ UNCHANGED builderVars

BuilderNext == Declare \/ AllRead

BuilderSpec == BuilderInit /\ [][BuilderNext]_builderVars

-----------------------------------------------------------------------------
(* Two executors that will run and both make a target were given the same    *)
(* sources and the same command, unless a call in the same environment       *)
(* replaced the command (no call is refused for that); a target made by one  *)
(* executor knows exactly the sources that executor gives its command.       *)
InUse == {node[t].executor : t \in Targets} \ {0}
Making(t) == {m \in InUse \X (1..MaxCalls) :
                /\ m[2] <= Len(executors[m[1]].batches)
                /\ Contains(executors[m[1]].batches[m[2]].targets, t)}
BatchAt(m) == executors[m[1]].batches[m[2]]
OneRecipe ==
  \A t \in Targets : t \notin replaced =>
    /\ \A m \in Making(t), n \in Making(t) :
         /\ BatchAt(m).sources = BatchAt(n).sources
         /\ Contents[<<executors[m[1]].action, executors[m[1]].env>>]
              = Contents[<<executors[n[1]].action, executors[n[1]].env>>]
    /\ node[t].builder # Unset => \E m \in Making(t) : BatchAt(m).sources = node[t].sources

=============================================================================
