----------------------------- MODULE SConsOptions -----------------------------
(* Options from the command line, from SetOption and from AddOption          *)
(* (Script/SConsOptions.py, Main._main), and the variables that a project    *)
(* declares, updates and saves (Variables).  A behaviour is about one of     *)
(* the two topics.                                                           *)
EXTENDS Integers, Sequences, SequencesExt, FiniteSets

CONSTANTS CommandLines, \* sequences of [name, long, value]; value None: no "=value"
          Builtin,      \* option name -> [dest, nargs, appends, default]; nargs 2: '?'
          Locals,       \* [name, dest, nargs, appends, default] of AddOption calls
          Abbreviates,  \* pairs <<word, option name>>
          SetValues,    \* values of SetOption
          Variables,    \* [key, aliases, default, kind] of Variables.Add calls
          Arguments,    \* KEY=value arguments of a run: functions to values
          Roots,        \* expansions of "$ROOT"
          None, MaxCalls

OptionsAssumption ==
  /\ \A n \in DOMAIN Builtin : Builtin[n].nargs \in {0, 1, 2}
  /\ \A w \in UNION {Range(line) : line \in CommandLines} : w.name # None

VARIABLES topic, phase, calls, said,
          words,    \* the command line
          known,    \* the parser's options
          given,    \* SConsValues: the command line's attributes
          settings, \* __SConscript_settings__
          defaults, \* __defaults__
          largs,    \* what the parser left over
          force,    \* what the engine goes by: duplicate, diskcheck, warn, max_drift
          added,    \* history: the local options, in order
          options,  \* Variables.options
          env, file, \* the environment's variables, and the saved ones or None
          args, unknown, root,
          saved     \* history: the variables' values when they were saved

optionVars == <<words, known, given, settings, defaults, largs, force, added>>
variableVars == <<options, env, file, args, unknown, root, saved>>
optionsVars == <<topic, phase, calls, said, optionVars, variableVars>>

Empty == [x \in {} |-> None]
With(f, x, v) == [y \in DOMAIN f \cup {x} |-> IF y = x THEN v ELSE f[y]]
Get(f, x) == IF x \in DOMAIN f THEN f[x] ELSE None
Settable == {"duplicate", "diskcheck", "warn", "max_drift"}

BuiltinDefaults == [d \in {Builtin[n].dest : n \in DOMAIN Builtin} |->
                      Builtin[CHOOSE n \in DOMAIN Builtin : Builtin[n].dest = d].default]

OptionsInit ==
  /\ topic \in {"options", "variables"} /\ phase = "start" /\ calls = 0 /\ said = None
  /\ words \in (IF topic = "options" THEN CommandLines ELSE {<<>>})
  /\ known = Builtin /\ given = Empty /\ settings = Empty /\ defaults = BuiltinDefaults
  /\ largs = <<>> /\ added = <<>>
  /\ force = [duplicate |-> BuiltinDefaults["duplicate"], diskcheck |-> <<>>, warn |-> <<>>,
              max_drift |-> BuiltinDefaults["max_drift"]]
  /\ options = <<>> /\ env = Empty /\ file = None /\ unknown = {} /\ saved = None
  /\ args \in (IF topic = "variables" THEN Arguments ELSE {Empty})
  /\ root \in (IF topic = "variables" THEN Roots ELSE {None})

-----------------------------------------------------------------------------
(* SConsValues: the command line, then the scripts, then the default. *)
Current(g, s, d, dest) ==
  IF dest \in DOMAIN g THEN g[dest] ELSE IF dest \in DOMAIN s THEN s[dest] ELSE d[dest]

(* An option that collects values extends the list that it finds, whosever   *)
(* that is; only where there is none it becomes the command line's.          *)
Take(p, o, v) ==
  IF ~o.appends THEN [p EXCEPT !.given = With(@, o.dest, <<v>>)]
  ELSE IF o.dest \in DOMAIN p.given THEN [p EXCEPT !.given[o.dest] = Append(@, v)]
  ELSE IF o.dest \in DOMAIN settings THEN [p EXCEPT !.settings[o.dest] = Append(@, v)]
  ELSE IF p.defaults[o.dest] = None THEN [p EXCEPT !.given = With(@, o.dest, <<v>>)]
  ELSE [p EXCEPT !.defaults[o.dest] = Append(@, v)]

(* optparse: an exact name, or the only option that a word abbreviates. *)
Matches(names, word) ==
  IF word \in names THEN {word} ELSE {n \in names : <<word, n>> \in Abbreviates}

(* _process_long_opt: an unknown option is kept for later while scripts may  *)
(* still add it, and a value that is a word of its own is the next word.     *)
RECURSIVE process_args(_, _, _, _)
process_args(opts, preserve, p, rargs) ==
  IF rargs = <<>> \/ p.error # None THEN p
  ELSE LET w == Head(rargs)
           rest == Tail(rargs)
           found == Matches(DOMAIN opts, w.name)
           o == opts[CHOOSE n \in found : TRUE]
           Left == [p EXCEPT !.largs = Append(@, w)]
           Error(why) == [p EXCEPT !.error = <<why, w>>]
       IN IF ~w.long THEN process_args(opts, preserve, Left, rest)
          ELSE IF Cardinality(found) # 1
          THEN process_args(opts, preserve, IF preserve THEN Left ELSE Error("unknown"), rest)
          ELSE IF o.nargs = 0 /\ w.value # None THEN Error("no value")
          ELSE IF w.value # None THEN process_args(opts, preserve, Take(p, o, w.value), rest)
          ELSE IF o.nargs # 1 THEN process_args(opts, preserve, Take(p, o, "true"), rest)
          ELSE IF rest = <<>> THEN Error("needs a value")
          ELSE process_args(opts, preserve, Take(p, o, Head(rest).name), Tail(rest))

parse_args(opts, defs, preserve, list) ==
  process_args(opts, preserve,
               [largs |-> <<>>, given |-> given, settings |-> settings, defaults |-> defs,
                error |-> None], list)

(* reparse_local_options: only what is known by its whole name is parsed;    *)
(* the unknown options go behind the other words.                            *)
reparse_local_options(opts, defs) ==
  LET Known(w) == ~w.long \/ w.name \in DOMAIN opts
      p == parse_args(opts, defs, TRUE, SelectSeq(largs, Known))
  IN [p EXCEPT !.largs = @ \o SelectSeq(largs, LAMBDA w : ~Known(w))]

Parsed(p) ==
  /\ given' = p.given /\ settings' = p.settings /\ defaults' = p.defaults /\ largs' = p.largs
  /\ said' = p.error

Step(t) == topic = t /\ calls < MaxCalls[t] /\ calls' = calls + 1 /\ UNCHANGED topic

(* process_warn_strings: the last word about a warning counts. *)
Warn(old, list) == IF list = <<>> THEN old ELSE <<Last(list)>>

(* main and _main up to the scripts. *)
ParseCommandLine ==
  LET p == parse_args(known, defaults, TRUE, words)
      now(dest) == Current(p.given, p.settings, p.defaults, dest)
  IN /\ topic = "options" /\ phase = "start"
     /\ Parsed(p)
     /\ phase' = IF p.error = None THEN "reading" ELSE "error"
     /\ force' = [force EXCEPT !.duplicate = now("duplicate"), !.diskcheck = now("diskcheck"),
                               !.warn = Warn(@, now("warn"))]
     /\ UNCHANGED <<topic, calls, words, known, added, variableVars>>

AddOption(o) ==
  LET opts == With(known, o.name, o)
      p == reparse_local_options(opts, With(defaults, o.dest, o.default))
  IN /\ Step("options") /\ phase = "reading" /\ o.name \notin DOMAIN known
     /\ known' = opts /\ added' = Append(added, o)
     /\ Parsed(p)
     /\ phase' = IF p.error = None THEN "reading" ELSE "error"
     /\ UNCHANGED <<words, force, variableVars>>

(* set_option: the duplication style and warnings take effect at once, the   *)
(* disk checks if the command line says nothing about them.                  *)
SetOption(dest, v) ==
  LET list == IF dest = "warn" /\ dest \in DOMAIN settings THEN Append(settings[dest], v) ELSE <<v>>
  IN /\ Step("options") /\ phase = "reading"
     /\ settings' = With(settings, dest, list)
     /\ force' = IF dest \in {"duplicate", "warn"} \/ (dest = "diskcheck" /\ dest \notin DOMAIN given)
                 THEN [force EXCEPT ![dest] = <<v>>] ELSE force
     /\ UNCHANGED <<phase, said, words, known, given, defaults, largs, added, variableVars>>

(* _main after the scripts: what is left over must be known by now. *)
ScriptsRead ==
  LET p == parse_args(known, defaults, FALSE, largs)
      now(dest) == Current(p.given, p.settings, p.defaults, dest)
  IN /\ topic = "options" /\ phase = "reading"
     /\ Parsed(p)
     /\ phase' = IF p.error = None THEN "building" ELSE "error"
     /\ force' = [force EXCEPT !.warn = Warn(@, Current(given, settings, defaults, "warn")),
                               !.duplicate = now("duplicate"), !.max_drift = now("max_drift")]
     /\ UNCHANGED <<topic, calls, words, known, added, variableVars>>

-----------------------------------------------------------------------------
Subst(v) == IF v = "$ROOT" THEN root ELSE v

(* The converters of BoolVariable and EnumVariable; the others have none. *)
True == {"yes", "True"}
False == {"no", "False"}
EnumMap == [a |-> "b", b |-> "c"]
HasConverter(o) == o.kind # "plain"
Convert(o, v) ==
  IF o.kind = "bool" THEN IF v \in True THEN "True" ELSE IF v \in False THEN "False" ELSE None
  ELSE IF o.kind = "enum" /\ v \in DOMAIN EnumMap THEN EnumMap[v] ELSE v
Names(o) == o.aliases \cup {o.key}

AddVariable(o) ==
  /\ Step("variables") /\ phase = "start"
  /\ \A i \in DOMAIN options : options[i].key # o.key
  /\ options' = Append(options, o)
  /\ unknown' = unknown \ Names(o)
  /\ said' = None
  /\ UNCHANGED <<phase, optionVars, env, file, args, root, saved>>

(* Variables.Update: defaults, the file, the arguments; then every value is  *)
(* converted and checked.                                                    *)
Value(o) ==
  LET named == Names(o) \cap DOMAIN args
  IN IF named # {} THEN args[CHOOSE n \in named : TRUE]
     ELSE IF file # None /\ o.key \in DOMAIN file THEN file[o.key] ELSE o.default

Update ==
  LET Old(o) == Get(env, o.key)
      New(o) == IF Value(o) = None THEN Old(o)
                ELSE IF HasConverter(o) THEN Convert(o, Subst(Value(o))) ELSE Value(o)
      set == {options[i] : i \in DOMAIN options}
      bad == {o \in set : New(o) = None /\ Value(o) # None}
      valued == {o \in set : New(o) # None}
  IN /\ Step("variables") /\ phase = "start" /\ options # <<>>
     /\ unknown' = unknown \cup (DOMAIN args \ UNION {Names(o) : o \in set})
     /\ IF bad # {} THEN phase' = "error" /\ env' = env
        ELSE /\ phase' = phase
             /\ env' = [k \in DOMAIN env \cup {o.key : o \in valued} |->
                          IF \E o \in valued : o.key = k
                          THEN New(CHOOSE o \in valued : o.key = k) ELSE env[k]]
     /\ said' = <<"updated", {o.key : o \in bad}>>
     /\ UNCHANGED <<optionVars, options, file, args, root, saved>>

(* Variables.Save: the file is emptied first; a value that is the default's  *)
(* expansion is not written; a default that cannot be converted ends it.     *)
Written(so, o) ==
  LET default == IF o.default = None THEN "None" ELSE Subst(o.default)
      converted == IF HasConverter(o) THEN Convert(o, default) ELSE default
  IN IF ~so.ok \/ o.key \notin DOMAIN env THEN so
     ELSE IF converted = None THEN [so EXCEPT !.ok = FALSE]
     ELSE IF Subst(env[o.key]) = converted THEN so
     ELSE [so EXCEPT !.file = With(@, o.key, env[o.key])]

Save ==
  LET so == FoldLeft(Written, [file |-> Empty, ok |-> TRUE], options)
  IN /\ Step("variables") /\ phase = "start" /\ env # Empty
     /\ file' = so.file
     /\ said' = <<IF so.ok THEN "saved" ELSE "failed", {}>>
     /\ phase' = IF so.ok THEN phase ELSE "error"
     /\ saved' = IF so.ok THEN [values |-> [k \in DOMAIN env |-> Subst(env[k])], raw |-> env, root |-> root]
                 ELSE None
     /\ UNCHANGED <<optionVars, options, env, args, unknown, root>>

(* A script changes a variable of the environment after the update. *)
SetVariable(key, v) ==
  /\ Step("variables") /\ phase = "start" /\ key \in DOMAIN env
  /\ env' = [env EXCEPT ![key] = v]
  /\ said' = None
  /\ UNCHANGED <<phase, optionVars, options, file, args, unknown, root, saved>>

(* The next scons run declares the same variables. *)
NextRun(a, r) ==
  /\ Step("variables")
  /\ phase' = "start" /\ said' = None
  /\ env' = Empty /\ args' = a /\ unknown' = {} /\ root' = r
  /\ UNCHANGED <<optionVars, options, file, saved>>

OptionsNext ==
  \/ ParseCommandLine
  \/ \E o \in Locals : AddOption(o)
  \/ \E dest \in Settable, v \in SetValues : SetOption(dest, v)
  \/ ScriptsRead
  \/ \E o \in Variables : AddVariable(o)
  \/ Update
  \/ Save
  \/ \E o \in Variables, v \in {"x", "$ROOT"} : o.kind = "plain" /\ SetVariable(o.key, v)
  \/ \E a \in Arguments, r \in Roots : NextRun(a, r)

OptionsSpec == OptionsInit /\ [][OptionsNext]_optionsVars

-----------------------------------------------------------------------------
(* The values that the command line names with the option's whole name. *)
OnLine(name) ==
  LET named == SelectSeq(words, LAMBDA w : w.name = name)
  IN [i \in DOMAIN named |-> IF named[i].value = None THEN "true" ELSE named[i].value]

(* SConsValues: "The command line always overrides a value set in a          *)
(* SConscript file, which in turn always overrides default settings"; but    *)
(* warnings set by a script do, and until the scripts are read a duplication *)
(* style does.                                                               *)
CommandLineOverrides ==
  phase \in {"reading", "building"} =>
    \A name \in DOMAIN Builtin :
      LET dest == Builtin[name].dest
      IN dest \in Settable =>
           \/ OnLine(name) # <<>> /\ force[dest] = <<Last(OnLine(name))>>
           \/ OnLine(name) # <<>> /\ dest \in DOMAIN settings
              /\ (dest = "warn" \/ (dest = "duplicate" /\ phase = "reading"))
           \/ OnLine(name) # <<>> /\ dest = "max_drift" /\ phase = "reading"
           \/ OnLine(name) = <<>> /\ dest \in DOMAIN settings
              /\ (force[dest] = <<Last(settings[dest])>> \/ phase = "reading")
           \/ OnLine(name) = <<>> /\ dest \notin DOMAIN settings
              /\ force[dest] = BuiltinDefaults[dest]

(* An added option has the values that the command line gives it by its      *)
(* name, unless its name abbreviates one of scons' own, which takes them, or *)
(* an abbreviation of it is on the line, which is only understood at the end.*)
LocalOptionsExact ==
  phase = "building" =>
    \A i \in DOMAIN added :
      LET o == added[i]
          line == OnLine(o.name)
          value == Current(given, settings, defaults, o.dest)
      IN \/ value = (IF line = <<>> THEN o.default ELSE IF o.appends THEN line ELSE <<Last(line)>>)
         \/ \E n \in DOMAIN Builtin : <<o.name, n>> \in Abbreviates
         \/ \E j \in DOMAIN words : words[j].name # o.name /\ <<words[j].name, o.name>> \in Abbreviates
         \/ \E j \in DOMAIN words : /\ words[j].value = None /\ words[j].name \in DOMAIN known
                                     /\ known[words[j].name].nargs = 1

(* A value is said to be missing only at the end of the line, or if another  *)
(* option was added before.                                                  *)
ValuesAreMissing ==
  (phase = "error" /\ topic = "options" /\ said[1] = "needs a value") =>
    Last(words) = said[2] \/ Len(added) > 1

(* No option is accepted that nobody declares. *)
UnknownRejected ==
  phase = "building" => \A i \in DOMAIN words :
    \/ ~words[i].long \/ Matches(DOMAIN known, words[i].name) # {}

(* What was saved is what the next run gets, unless an argument says         *)
(* otherwise, "$ROOT" means something else then, or converting the converted *)
(* value changes it.                                                         *)
SavedIsRestored ==
  (saved # None /\ said = <<"updated", {}>>) =>
    \A i \in DOMAIN options :
      LET o == options[i]
      IN (o.key \in DOMAIN saved.values /\ o.key \in DOMAIN env /\ Names(o) \cap DOMAIN args = {}) =>
           \/ Subst(env[o.key]) = saved.values[o.key]
           \/ root # saved.root /\ "$ROOT" \in {saved.raw[o.key], o.default}
           \/ o.kind = "enum" /\ Convert(o, saved.values[o.key]) # saved.values[o.key]

(* A save fails only over a variable that has a converter, a value and no    *)
(* default; then the file has lost what it said about those after it.        *)
SaveFailsOnlyWithoutDefault ==
  said = <<"failed", {}>> =>
    \E i \in DOMAIN options : /\ options[i].kind = "bool" /\ options[i].default = None
                              /\ options[i].key \in DOMAIN env

(* After an update every argument is unknown or in the environment. *)
ArgumentsApplied ==
  (topic = "variables" /\ said = <<"updated", {}>>) =>
    \A a \in DOMAIN args : \/ a \in unknown
                           \/ \E i \in DOMAIN options :
                                LET o == options[i]
                                IN a \in Names(o) /\ Subst(env[o.key]) \in
                                     {Convert(o, Subst(args[n])) : n \in Names(o) \cap DOMAIN args}

OptionsSafe == /\ CommandLineOverrides /\ LocalOptionsExact /\ ValuesAreMissing /\ UnknownRejected
               /\ SavedIsRestored /\ SaveFailsOnlyWithoutDefault /\ ArgumentsApplied

=============================================================================
