----------------------------- MODULE SConsReading -----------------------------
(* The reading of the SConscript files (Script/SConscript.py), what they may *)
(* export to each other, the lists of targets (Script/__init__.py) and the   *)
(* choice of what is built (Script/Main.py).  What a script says is left     *)
(* open: every script may take any step, and end or fail at any point.       *)
EXTENDS Integers, Sequences, SequencesExt

CONSTANTS Scripts,        \* SConscript files, "SConstruct" among them
          DirOf,          \* script -> its directory, a path of names
          Exists,         \* the scripts that exist, here or in a repository
          Local,          \* the directories that exist here
          Names,          \* of variables
          Requests,       \* command lines: [targets, climb, launch]
          Unset,
          MaxDepth, MaxSteps

Top == <<>>

ReadingAssumption ==
  /\ "SConstruct" \in Exists /\ DirOf["SConstruct"] = Top /\ Top \in Local
  /\ \A r \in Requests : r.climb = "no" => r.launch = Top

VARIABLES stack,            \* call_stack: the frames of the scripts being read
          cwd, osCwd,       \* the FS object's directory and the process's
          path,             \* sys.path
          sconscript_reading, sconscript_chdir,
          global_exports,   \* name -> the script whose value it has
          raising,          \* an exception is on its way out
          request,          \* the command line
          DEFAULT_TARGETS, BUILD_TARGETS, build_plus_default,
          defaultCalled,    \* _Get_Default_Targets
          nodes,            \* what is built, when the scripts are read
          steps,            \* bound: the steps scripts have taken
          switched, byHand  \* history: SConscriptChdir, BUILD_TARGETS changed

frameVars == <<stack, cwd, osCwd, path, sconscript_reading>>
targetVars == <<DEFAULT_TARGETS, BUILD_TARGETS, build_plus_default, defaultCalled, byHand>>
readingVars == <<frameVars, targetVars, sconscript_chdir, global_exports, raising, request,
                 nodes, steps, switched>>

(* Where os.chdir ends: in the directory, or in the repository's. *)
Place(dir) == <<dir, IF dir \in Local THEN "here" ELSE "repository">>
OsChdir(dir) == IF sconscript_chdir THEN Place(dir) ELSE Place(Top)
Under(dir, above) == IsPrefix(above, dir)

Frame(script, exports, guarded) ==
  [sconscript |-> script, prev_dir |-> cwd, old_sys_path |-> path,
   globals |-> [n \in Names |-> Unset], exports |-> exports, guarded |-> guarded]
frame == Last(stack)
globals == frame.globals
Running == stack # <<>> /\ ~raising /\ nodes = Unset
NoExports == [n \in Names |-> Unset]

(* A frame for the script; the top directory, then the script's: in the FS   *)
(* object always, in the process if sconscript_chdir is set.                 *)
Entered(script, exports, guarded) ==
  /\ stack' = Append(stack, Frame(script, exports, guarded))
  /\ sconscript_reading' = sconscript_reading + 1
  /\ cwd' = DirOf[script] /\ osCwd' = OsChdir(DirOf[script])
  /\ path' = <<DirOf[script]>> \o path

Left_PathPopped ==
  /\ stack' = Front(stack)
  /\ sconscript_reading' = sconscript_reading - 1
  /\ path' = Tail(path)
  /\ cwd' = frame.prev_dir
  /\ osCwd' = IF sconscript_chdir THEN Place(frame.prev_dir) ELSE osCwd

(* The "finally" of _SConscript: whatever the script did is undone. *)
Left ==
  /\ stack' = Front(stack)
  /\ sconscript_reading' = sconscript_reading - 1
  /\ path' = frame.old_sys_path
  /\ cwd' = frame.prev_dir
  /\ osCwd' = IF sconscript_chdir THEN Place(frame.prev_dir) ELSE osCwd

ReadingInit ==
  /\ request \in Requests
  /\ stack = <<>> /\ cwd = Top /\ osCwd = Place(Top) /\ path = <<>>
  /\ sconscript_reading = 0 /\ sconscript_chdir = TRUE
  /\ global_exports = NoExports /\ raising = FALSE
  /\ DEFAULT_TARGETS = <<>> /\ defaultCalled = FALSE
  /\ BUILD_TARGETS = request.targets /\ build_plus_default = request.targets
  /\ nodes = Unset /\ steps = 0 /\ switched = FALSE /\ byHand = FALSE

Step == Running /\ steps < MaxSteps /\ steps' = steps + 1
Raise == raising' = TRUE

ReadSConstruct ==
  /\ stack = <<>> /\ steps = 0 /\ ~raising /\ nodes = Unset
  /\ Entered("SConstruct", NoExports, FALSE)
  /\ steps' = 1
  /\ UNCHANGED <<targetVars, sconscript_chdir, global_exports, raising, request, nodes,
                 switched>>

(* The caller's values of the names, each of which it has to have. *)
compute_exports(exports) == [n \in Names |-> IF n \in exports THEN globals[n] ELSE Unset]
Exportable(exports) == \A n \in exports : globals[n] # Unset

(* SConscript(script, exports): compute_exports fails in the caller, before  *)
(* there is a frame; a script that is missing is an error or is skipped, but *)
(* for the process's directory.  A call may stand in a try statement.        *)
SConscript(script, exports, must_exist, guarded) ==
  /\ Step /\ Len(stack) < MaxDepth
  /\ IF ~Exportable(exports)
     THEN raising' = ~guarded /\ UNCHANGED frameVars
     ELSE IF script \in Exists
     THEN /\ Entered(script, compute_exports(exports), guarded)
          /\ UNCHANGED raising
     ELSE /\ raising' = (must_exist /\ ~guarded)
          /\ osCwd' = OsChdir(cwd)
          /\ UNCHANGED <<stack, cwd, path, sconscript_reading>>
  /\ UNCHANGED <<targetVars, sconscript_chdir, global_exports, request, nodes, switched>>

(* The script ends, by itself or with Return (SConscriptReturn). *)
EndOfScript ==
  /\ Running /\ Left
  /\ UNCHANGED <<targetVars, sconscript_chdir, global_exports, raising, request, nodes,
                 steps, switched>>

Fails ==
  /\ Step /\ Raise
  /\ UNCHANGED <<frameVars, targetVars, sconscript_chdir, global_exports, request, nodes,
                 switched>>

(* An exception leaves the script; the caller may have been waiting for it. *)
Unwind ==
  /\ raising /\ stack # <<>>
  /\ Left
  /\ raising' = ~frame.guarded
  /\ UNCHANGED <<targetVars, sconscript_chdir, global_exports, request, nodes, steps, switched>>

SetGlobals(g) == stack' = [stack EXCEPT ![Len(stack)].globals = g]

Assign(n) ==
  /\ Step
  /\ SetGlobals([globals EXCEPT ![n] = frame.sconscript])
  /\ UNCHANGED <<cwd, osCwd, path, sconscript_reading, targetVars, sconscript_chdir,
                 global_exports, raising, request, nodes, switched>>

Export(n) ==
  /\ Step
  /\ IF globals[n] = Unset THEN Raise /\ UNCHANGED global_exports
     ELSE global_exports' = [global_exports EXCEPT ![n] = globals[n]] /\ UNCHANGED raising
  /\ UNCHANGED <<frameVars, targetVars, sconscript_chdir, request, nodes, switched>>

(* The caller's exports come before the global ones. *)
Imported(n) == IF frame.exports[n] # Unset THEN frame.exports[n] ELSE global_exports[n]
Import(n) ==
  /\ Step
  /\ IF Imported(n) = Unset THEN Raise /\ UNCHANGED stack
     ELSE SetGlobals([globals EXCEPT ![n] = Imported(n)]) /\ UNCHANGED raising
  /\ UNCHANGED <<cwd, osCwd, path, sconscript_reading, targetVars, sconscript_chdir,
                 global_exports, request, nodes, switched>>
ImportAll ==
  /\ Step
  /\ SetGlobals([n \in Names |-> IF Imported(n) = Unset THEN globals[n] ELSE Imported(n)])
  /\ UNCHANGED <<cwd, osCwd, path, sconscript_reading, targetVars, sconscript_chdir,
                 global_exports, raising, request, nodes, switched>>

SConscriptChdir(flag) ==
  /\ Step
  /\ sconscript_chdir' = flag /\ switched' = (switched \/ flag # sconscript_chdir)
  /\ UNCHANGED <<frameVars, targetVars, global_exports, raising, request, nodes>>

(* A script that extends sys.path extends the list made for it. *)
ExtendPath ==
  /\ Step
  /\ path' = Append(path, cwd)
  /\ UNCHANGED <<stack, cwd, osCwd, sconscript_reading, targetVars, sconscript_chdir,
                 global_exports, raising, request, nodes, switched>>

(* Default(): the two lists of targets follow, until there are targets of    *)
(* the command line (_Add_Targets replaces their methods).                   *)
Default(t) ==
  /\ Step
  /\ defaultCalled' = TRUE
  /\ DEFAULT_TARGETS' = IF t = Unset THEN <<>> ELSE Append(DEFAULT_TARGETS, <<cwd, t>>)
  /\ LET Follow(list) == IF request.targets # <<>> THEN list
                         ELSE IF t = Unset THEN <<>> ELSE Append(list, <<cwd, t>>)
     IN BUILD_TARGETS' = Follow(BUILD_TARGETS) /\ build_plus_default' = Follow(build_plus_default)
  /\ UNCHANGED <<frameVars, sconscript_chdir, global_exports, raising, request, nodes,
                 switched, byHand>>

ChangeBuildTargets(list) ==
  /\ Step
  /\ BUILD_TARGETS' = list /\ byHand' = TRUE
  /\ UNCHANGED <<frameVars, DEFAULT_TARGETS, build_plus_default, defaultCalled,
                 sconscript_chdir, global_exports, raising, request, nodes, switched>>

(* _build_targets: -u restricts to what is below the directory it was called *)
(* from, -U to the defaults of that directory's script; the top directory is *)
(* what is built without a Default().                                        *)
TopNode == <<Top, ".">>
Chosen ==
  LET defaults == IF ~defaultCalled THEN <<TopNode>>
                  ELSE IF request.climb = "U"
                  THEN SelectSeq(DEFAULT_TARGETS, LAMBDA t : t[1] = request.launch)
                  ELSE DEFAULT_TARGETS
      Below(t) == IF Under(t[1], request.launch) THEN <<t>>
                  ELSE IF t[2] = "." /\ Under(request.launch, t[1])
                  THEN <<<<request.launch, ".">>>> ELSE <<>>
  IN IF request.targets # <<>> \/ BUILD_TARGETS # build_plus_default THEN BUILD_TARGETS
     ELSE IF request.climb = "u"
     THEN FlattenSeq([i \in DOMAIN defaults |-> Below(defaults[i])])
     ELSE IF request.climb = "U" /\ ~defaultCalled THEN <<>> ELSE defaults

ChooseTargets ==
  /\ stack = <<>> /\ steps > 0 /\ ~raising /\ nodes = Unset
  /\ nodes' = Chosen
  /\ UNCHANGED <<frameVars, targetVars, sconscript_chdir, global_exports, raising, request,
                 steps, switched>>

ReadingNext ==
  \/ ReadSConstruct \/ EndOfScript \/ Fails \/ Unwind \/ ImportAll \/ ExtendPath \/ ChooseTargets
  \/ \E s \in Scripts, E \in SUBSET Names, m \in BOOLEAN, g \in BOOLEAN : SConscript(s, E, m, g)
  \/ \E n \in Names : Assign(n) \/ Export(n) \/ Import(n)
  \/ \E flag \in BOOLEAN : SConscriptChdir(flag)
  \/ \E t \in {"t", Unset} : Default(t)
  \/ \E list \in {<<>>, Append(BUILD_TARGETS, <<cwd, "h">>)} : ChangeBuildTargets(list)

ReadingSpec == ReadingInit /\ [][ReadingNext]_readingVars

-----------------------------------------------------------------------------
(* A script that runs is in its own directory and finds its own modules      *)
(* first, however the scripts it called have ended and whatever they did to  *)
(* sys.path; so is the process, or at the top, unless SConscriptChdir was    *)
(* called in between.                                                        *)
RunsAtHome ==
  /\ sconscript_reading = Len(stack)
  /\ stack # <<>> /\ ~raising =>
       /\ cwd = DirOf[frame.sconscript] /\ path[1] = cwd
       /\ ~switched => osCwd = OsChdir(cwd)
  /\ stack = <<>> => path = <<>> /\ cwd = Top

(* What is built is what the command line says, or else what Default() has   *)
(* said since it last said None - unless BUILD_TARGETS was changed by hand.  *)
TargetsAsAsked ==
  nodes # Unset /\ ~byHand =>
    IF request.targets # <<>> THEN nodes = request.targets
    ELSE IF request.climb \in {"no", "D"} /\ defaultCalled THEN nodes = DEFAULT_TARGETS
    ELSE request.climb \in {"u", "U"} => \A i \in DOMAIN nodes : Under(nodes[i][1], request.launch)

ReadingSafe == RunsAtHome /\ TargetsAsAsked
=============================================================================
