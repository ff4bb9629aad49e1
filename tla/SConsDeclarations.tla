-------------------------- MODULE SConsDeclarations --------------------------
(* What the SConscript files declare about targets (Environment.py,          *)
(* Node/__init__.py, Node/Alias.py, Executor.py) and what "scons -c" and the *)
(* commands make of it.  Builders themselves are SConsBuilder's business:    *)
(* here a target is made by Command or by an alias with an action.           *)
EXTENDS Integers, Sequences, SequencesExt, FiniteSets

CONSTANTS Names,        \* strings that name files, aliases or both
          TargetLists,  \* lists of names that are given to one call
          Extra,        \* files that only Clean names
          DependFiles,  \* contents of a .d file: a sequence of [targets, depends]
          None, Unset,
          MaxDeclarations

File(v) == <<"file", v>>
AliasNode(v) == <<"alias", v>>
AllNodes == {File(v) : v \in Names \cup Extra} \cup {AliasNode(v) : v \in Names}

DeclarationsAssumption ==
  /\ UNION {ToSet(l) : l \in TargetLists} \subseteq Names
  /\ \A d \in DependFiles : \A i \in DOMAIN d : d[i].targets \in TargetLists \cup {<<>>}

VARIABLES aliases,      \* default_ans: the names that have an alias
          builder,      \* node -> None, or the actions of its command or alias
          sources, depends, ignore, prerequisites, side_effects,   \* node -> nodes
          side_effect, noclean,   \* sets of nodes
          executor,     \* node -> index in executors, or None
          executors,    \* [targets, action, pre_actions, null]
          children,     \* node -> the memo of _children_get, or Unset
          CleanTargets, \* node -> index in cleanLists, or None
          cleanLists,   \* the lists Clean() was given, shared as the code shares them
          declared,     \* bound: declarations so far
          cleaned,      \* what the last "scons -c" removed, or Unset
          added, asked, twice   \* history: the actions and files each node was given,
                                \* the nodes whose executor was thrown away

nodeFields == <<builder, sources, depends, ignore, prerequisites, side_effects, side_effect,
                noclean>>
executorVars == <<executor, executors>>
cleanVars == <<CleanTargets, cleanLists>>
historyVars == <<added, asked, twice>>
declarationVars == <<aliases, nodeFields, executorVars, children, cleanVars, declared, cleaned,
                     historyVars>>

Empty == [n \in AllNodes |-> {}]

DeclarationsInit ==
  /\ aliases = {} /\ builder = [n \in AllNodes |-> None]
  /\ sources = Empty /\ depends = Empty /\ ignore = Empty /\ prerequisites = Empty
  /\ side_effects = Empty /\ side_effect = {} /\ noclean = {}
  /\ executor = [n \in AllNodes |-> None] /\ executors = <<>>
  /\ children = [n \in AllNodes |-> Unset]
  /\ CleanTargets = [n \in AllNodes |-> None] /\ cleanLists = <<>>
  /\ declared = 0 /\ cleaned = Unset
  /\ added = [n \in AllNodes |-> <<>>] /\ asked = Empty /\ twice = {}

(* arg2nodes: an alias of that name comes before the file. *)
Node(v) == IF v \in aliases THEN AliasNode(v) ELSE File(v)
Nodes(list) == [i \in DOMAIN list |-> Node(list[i])]
Declare == declared < MaxDeclarations /\ declared' = declared + 1 /\ UNCHANGED cleaned

(* _add_child: what is new resets the memo of the children. *)
Reset(touched) == children' = [n \in AllNodes |-> IF n \in touched THEN Unset ELSE children[n]]
With(f, N, S) == [n \in AllNodes |-> IF n \in N THEN f[n] \cup S ELSE f[n]]
Changed(f, N, S) == {n \in N : ~S \subseteq f[n]}

Depends_(N, S) ==
  /\ depends' = With(depends, N, S) /\ Reset(Changed(depends, N, S))
  /\ UNCHANGED <<aliases, builder, sources, ignore, prerequisites, side_effects, side_effect,
                 noclean, executorVars, cleanVars, historyVars>>
Depends(target, dependency) ==
  /\ Declare
  /\ Depends_(ToSet(Nodes(target)), ToSet(Nodes(dependency)))

Ignore_NoReset(target, dependency) ==
  /\ Declare
  /\ ignore' = With(ignore, ToSet(Nodes(target)), ToSet(Nodes(dependency)))
  /\ UNCHANGED <<aliases, builder, sources, depends, prerequisites, side_effects, side_effect,
                 noclean, executorVars, children, cleanVars, historyVars>>

Ignore(target, dependency) ==
  LET N == ToSet(Nodes(target))
      S == ToSet(Nodes(dependency))
  IN /\ Declare
     /\ ignore' = With(ignore, N, S) /\ Reset(Changed(ignore, N, S))
     /\ UNCHANGED <<aliases, builder, sources, depends, prerequisites, side_effects,
                    side_effect, noclean, executorVars, cleanVars, historyVars>>

Requires(target, prerequisite) ==
  LET N == ToSet(Nodes(target))
  IN /\ Declare
     /\ prerequisites' = With(prerequisites, N, ToSet(Nodes(prerequisite))) /\ Reset(N)
     /\ UNCHANGED <<aliases, builder, sources, depends, ignore, side_effects, side_effect,
                    noclean, executorVars, cleanVars, historyVars>>

(* ParseDepends reads the whole file before it declares anything; only_one   *)
(* refuses a file with several targets.                                      *)
ParseDepends(lines, only_one) ==
  LET targets == FlattenSeq([i \in DOMAIN lines |-> lines[i].targets])
      Of(n) == UNION {ToSet(Nodes(lines[i].depends)) :
                        i \in {j \in DOMAIN lines : n \in ToSet(Nodes(lines[j].targets))}}
  IN /\ Declare
     /\ ~only_one \/ Len(targets) <= 1
     /\ depends' = [n \in AllNodes |-> depends[n] \cup Of(n)]
     /\ Reset({n \in AllNodes : ~Of(n) \subseteq depends[n]})
     /\ UNCHANGED <<aliases, builder, sources, ignore, prerequisites, side_effects,
                    side_effect, noclean, executorVars, cleanVars, historyVars>>

SideEffect(effect, target) ==
  LET e == Node(effect)
      T == ToSet(Nodes(target))
  IN /\ Declare
     /\ builder[e] = None
     /\ sources' = With(sources, {e}, T) /\ Reset(Changed(sources, {e}, T))
     /\ side_effect' = side_effect \cup {e}
     /\ side_effects' = With(side_effects, T, {e})
     /\ UNCHANGED <<aliases, builder, depends, ignore, prerequisites, noclean, executorVars,
                    cleanVars, historyVars>>

NoClean(target) ==
  /\ Declare
  /\ noclean' = noclean \cup ToSet(Nodes(target))
  /\ UNCHANGED <<aliases, builder, sources, depends, ignore, prerequisites, side_effects,
                 side_effect, executorVars, children, cleanVars, historyVars>>

(* Clean: all targets that have no list yet get one and the same list.       *)
Clean(target, files) ==
  LET N == ToSet(Nodes(target))
      F == {File(f) : f \in files}
      new == Len(cleanLists) + 1
      Fresh == {n \in N : CleanTargets[n] = None}
      old == {CleanTargets[n] : n \in N \ Fresh}
  IN /\ Declare
     /\ CleanTargets' = [n \in AllNodes |-> IF n \in Fresh THEN new ELSE CleanTargets[n]]
     /\ cleanLists' = [i \in DOMAIN cleanLists |->
                         IF i \in old THEN cleanLists[i] \cup F ELSE cleanLists[i]]
                      \o (IF Fresh = {} THEN <<>> ELSE <<F>>)
     /\ asked' = With(asked, N, F)
     /\ UNCHANGED <<aliases, nodeFields, executorVars, children, added, twice>>

-----------------------------------------------------------------------------
Executor(targets, action, pre, null) ==
  [targets |-> targets, action |-> action, pre_actions |-> pre, null |-> null]

(* Command: new targets, or the same call once more; the executor is a new   *)
(* one, whatever the targets had.                                            *)
Command(target, source) ==
  LET tlist == Nodes(target)
      T == ToSet(tlist)
      S == ToSet(Nodes(source))
  IN /\ Declare
     /\ \A t \in T : /\ t[1] = "file" /\ t \notin side_effect \cup S
                     /\ builder[t] # None => sources[t] = S
     /\ builder' = [n \in AllNodes |-> IF n \in T THEN <<"command">> ELSE builder[n]]
     /\ sources' = With(sources, T, S) /\ Reset(Changed(sources, T, S))
     /\ executors' = Append(executors, Executor(tlist, <<"command">>, <<>>, FALSE))
     /\ executor' = [n \in AllNodes |-> IF n \in T THEN Len(executors) + 1 ELSE executor[n]]
     /\ twice' = twice \cup {t \in T : executor[t] # None}
     /\ UNCHANGED <<aliases, depends, ignore, prerequisites, side_effects, side_effect, noclean,
                    cleanVars, added, asked>>

(* Alias: without an action its sources are added to (AliasBuilder is multi  *)
(* and keeps the executor it finds); with one, it gets a builder of all its  *)
(* actions so far and convert() drops the executor.                          *)
AliasActions(n) == IF builder[n] = None THEN <<>> ELSE builder[n]
Alias(name, source, action) ==
  LET n == AliasNode(name)
      S == ToSet(Nodes(source))
      kept == action = None /\ executor[n] # None
      actions == IF action = None THEN AliasActions(n) ELSE Append(AliasActions(n), action)
  IN /\ Declare
     /\ n \notin S
     /\ aliases' = aliases \cup {name}
     /\ IF action = None /\ source = <<>>
        THEN UNCHANGED <<builder, sources, children, executorVars, twice>>
        ELSE /\ builder' = [builder EXCEPT ![n] = actions]
             /\ sources' = With(sources, {n}, S) /\ Reset({n})
             /\ executors' = IF kept THEN executors
                             ELSE Append(executors, Executor(<<n>>, actions, <<>>, FALSE))
             /\ executor' = IF kept THEN executor ELSE [executor EXCEPT ![n] = Len(executors) + 1]
             /\ twice' = IF kept \/ executor[n] = None THEN twice ELSE twice \cup {n}
     /\ UNCHANGED <<depends, ignore, prerequisites, side_effects, side_effect, noclean, cleanVars,
                    added, asked>>

(* The null executor of a node: the first action that is added to it makes   *)
(* it a real one (_morph), which has no action of its own.                   *)
NullExecutor(n, action) == Executor(<<n>>, <<>>, <<action>>, TRUE)

(* AddPreAction: once for each executor among the nodes'; a node without one *)
(* gets the null executor.                                                   *)
AddPreAction(files, action) ==
  LET list == Nodes(files)
      N == ToSet(list)
      Fresh == SetToSeq({n \in N : executor[n] = None})
      old == {executor[n] : n \in N} \ {None}
      nulls == [i \in DOMAIN Fresh |-> NullExecutor(Fresh[i], action)]
  IN /\ Declare
     /\ executors' = [i \in DOMAIN executors |->
                        IF i \in old THEN [executors[i] EXCEPT !.pre_actions = Append(@, action)]
                        ELSE executors[i]] \o nulls
     /\ executor' = [n \in AllNodes |->
                       IF \E i \in DOMAIN Fresh : Fresh[i] = n
                       THEN Len(executors) + (CHOOSE i \in DOMAIN Fresh : Fresh[i] = n)
                       ELSE executor[n]]
     /\ added' = [n \in AllNodes |-> IF n \in N THEN Append(added[n], action) ELSE added[n]]
     /\ UNCHANGED <<aliases, nodeFields, children, cleanVars, asked, twice>>

-----------------------------------------------------------------------------
(* The children of a node; a script, or the build of a check, may ask for    *)
(* them while the scripts are still read, and the answer is kept.            *)
ChildrenNow(n) == (sources[n] \cup depends[n]) \ ignore[n]
Children(n) == IF children[n] = Unset THEN ChildrenNow(n) ELSE children[n]
GetChildren(n) ==
  /\ declared < MaxDeclarations
  /\ children' = [children EXCEPT ![n] = Children(n)]
  /\ UNCHANGED <<aliases, nodeFields, executorVars, cleanVars, declared, cleaned, historyVars>>

AllTargets(n) == IF executor[n] = None THEN <<n>> ELSE executors[executor[n]].targets

(* CleanTask, for the first target of a command that is reached. *)
Removed(n) ==
  LET targets == AllTargets(n)
      first == targets[1]
  IN (IF builder[first] # None \/ first \in side_effect THEN ToSet(targets) \ noclean ELSE {})
     \cup (IF CleanTargets[first] = None THEN {} ELSE cleanLists[CleanTargets[first]])

(* What the walk reaches from the targets of the command line. *)
Reached(N) ==
  LET Grown(S) == S \cup UNION {Children(n) \cup prerequisites[n] :
                                 n \in UNION {ToSet(AllTargets(m)) : m \in S}}
      reach[i \in 0 .. Cardinality(AllNodes)] == IF i = 0 THEN N ELSE Grown(reach[i - 1])
  IN reach[Cardinality(AllNodes)]

CleanRun(n) ==
  /\ declared > 0
  /\ cleaned' = [reached |-> Reached({n}), removed |-> UNION {Removed(m) : m \in Reached({n})}]
  /\ UNCHANGED <<aliases, nodeFields, executorVars, children, cleanVars, declared, historyVars>>

Sources == {<<>>} \cup {<<v>> : v \in Names}
ReadScripts ==
  \/ \E t \in TargetLists, v \in Names :
       \/ Depends(t, <<v>>) \/ Ignore(t, <<v>>) \/ Requires(t, <<v>>) \/ SideEffect(v, t)
  \/ \E t \in TargetLists, s \in Sources : Command(t, s)
  \/ \E t \in TargetLists : NoClean(t) \/ \E f \in Extra : Clean(t, {f})
  \/ \E t \in TargetLists : AddPreAction(t, "pre")
  \/ \E v \in Names, a \in {None, "act"}, s \in Sources : Alias(v, s, a)
  \/ \E d \in DependFiles, one \in BOOLEAN : ParseDepends(d, one)
  \/ \E v \in Names : GetChildren(Node(v))

(* "scons -c" is run once the scripts have been read. *)
DeclarationsNext ==
  /\ cleaned = Unset
  /\ ReadScripts \/ \E v \in Names : CleanRun(Node(v))

-----------------------------------------------------------------------------
(* The children a walk sees are those declared, in whatever order the        *)
(* declarations and the questions came.                                      *)
ChildrenCurrent == \A n \in AllNodes : Children(n) = ChildrenNow(n)

(* A target runs the actions that were added to it, in order, once each,     *)
(* unless its executor was replaced by a later call.                         *)
Count(list, a) == Len(SelectSeq(list, LAMBDA x : x = a))
ActionsKept ==
  \A n \in AllNodes : n \notin twice /\ executor[n] # None =>
    Count(executors[executor[n]].pre_actions, "pre") >= Len(added[n])

(* No target is made by a command and is a side effect of another. *)
OneMaker == \A n \in side_effect : n[1] = "file" => builder[n] = None

(* "scons -c" removes the files that Clean() named for a target it reaches,  *)
(* unless the target is not the first of its command; and of the other files *)
(* only those that were named for a target that shares the list.             *)
Sharing(n) == {m \in AllNodes : CleanTargets[m] # None /\ CleanTargets[m] = CleanTargets[n]}
CleanAsDeclared ==
  cleaned # Unset =>
    /\ \A n \in cleaned.reached : asked[n] \subseteq cleaned.removed \/ AllTargets(n)[1] # n
    /\ \A f \in cleaned.removed : f[2] \in Extra =>
         \E n \in UNION {ToSet(AllTargets(m)) : m \in cleaned.reached} :
           \E m \in Sharing(n) : f \in asked[m]
    /\ cleaned.removed \cap noclean = {}

DeclarationsHonoured == ChildrenCurrent /\ ActionsKept /\ OneMaker /\ CleanAsDeclared
=============================================================================
