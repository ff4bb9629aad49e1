----------------------------- MODULE SConsScanner -----------------------------
(* What a source file includes, found three ways: by the conditional          *)
(* preprocessor of cpp.py as Scanner/C.py specialises it, by the classic      *)
(* scanner with the walk of Node.get_implicit_deps, and by the compiler.  The *)
(* main file is written as it is read: any well-formed file there is.         *)
EXTENDS Integers, Sequences, SequencesExt

CONSTANTS Tree,           \* header -> its lines; a file is <<directory, name>>
          Main,           \* the file that is scanned
          cpppath,        \* CPPPATH, directories
          Macros,         \* names a program may test and define
          Lines,          \* what the main file may say
          Predefined,     \* the values of CPPDEFINES: macro -> value
          Unset, NoValue, \* not defined; defined without a value
          MaxLines

ScannerAssumption ==
  /\ Main \notin DOMAIN Tree
  /\ \A v \in Predefined : DOMAIN v = Macros

VARIABLES phase,          \* "preprocess", "classic", "done"
          lines,          \* bound: the lines the main file has so far
          predefined, named,   \* CPPDEFINES; the #include lines of the main file
          tuples, dispatch, stack, cpp_namespace, result,     \* PreProcessor
          text, groups, macros, read,                         \* the compiler
          nodes, seen,                                        \* get_implicit_deps
          excuses         \* history: the known differences that have occurred

preVars == <<tuples, dispatch, stack, cpp_namespace, result>>
ccVars == <<text, groups, macros, read>>
scannerVars == <<phase, lines, predefined, named, preVars, ccVars, nodes, seen, excuses>>

Files == DOMAIN Tree
Includes == {"include\"", "include<", "includeM"}
Search(dirs, name) ==
  LET hit == SelectSeq(dirs, LAMBDA d : <<d, name>> \in Files)
  IN IF hit = <<>> THEN Unset ELSE <<hit[1], name>>
Dir(file) == file[1]

(* A macro stands for a header when its value is one: "#include M". *)
Quoted(line) == line.op # "include<"

-----------------------------------------------------------------------------
(* cpp.py: a table says what a directive does, and the tables of the groups   *)
(* around it are on a stack.  Only #include, #elif and #else ever change.     *)
DefaultTable == [include |-> TRUE, elif |-> "do_elif", else |-> "nothing"]

Outer == IF stack = <<>> THEN DefaultTable ELSE Last(stack)
start_handling_includes_Always(table, outer) == [table EXCEPT !.include = TRUE]
start_handling_includes(table, outer) == [table EXCEPT !.include = outer.include]
stop_handling_includes(table) == [table EXCEPT !.include = FALSE]

(* An expression is the name of a macro; what is not defined is 0, and so is, *)
(* for Python, what has no value.                                             *)
eval_expression(name) == cpp_namespace[name] \notin {Unset, NoValue, 0}

do_if_else_condition(condition) ==
  /\ stack' = Append(stack, dispatch)
  /\ dispatch' =
       IF condition
       THEN [start_handling_includes(DefaultTable, dispatch)
               EXCEPT !.elif = "stop", !.else = "stop"]
       ELSE [stop_handling_includes(DefaultTable) EXCEPT !.else = "start"]

do_elif(name) ==
  /\ dispatch' = IF dispatch.elif = "stop" THEN stop_handling_includes(dispatch)
                 ELSE IF eval_expression(name)
                 THEN [start_handling_includes(dispatch, Outer)
                         EXCEPT !.elif = "stop", !.else = "stop"]
                 ELSE dispatch
  /\ UNCHANGED stack
do_else ==
  /\ dispatch' = CASE dispatch.else = "stop" -> stop_handling_includes(dispatch)
                   [] dispatch.else = "start" -> start_handling_includes(dispatch, Outer)
                   [] OTHER -> dispatch
  /\ UNCHANGED stack
do_endif == /\ dispatch' = IF stack = <<>> THEN dispatch ELSE Last(stack)
            /\ stack' = IF stack = <<>> THEN stack ELSE Front(stack)

(* The search starts from the directory of the file that is scanned, whatever *)
(* file the line is in.                                                       *)
find_include_file(line) ==
  Search(IF Quoted(line) THEN <<Dir(Main)>> \o cpppath ELSE Append(cpppath, Dir(Main)), line.arg)

do_include(line, rest) ==
  LET file == IF dispatch.include THEN find_include_file(line) ELSE Unset
  IN /\ result' = IF file = Unset THEN result ELSE result \cup {file}
     /\ tuples' = IF file = Unset THEN rest ELSE Tree[file] \o rest

Preprocess ==
  /\ phase = "preprocess" /\ tuples # <<>>
  /\ LET t == Head(tuples)
         rest == Tail(tuples)
     IN /\ CASE t.op = "if" -> do_if_else_condition(eval_expression(t.arg))
             [] t.op = "ifdef" -> do_if_else_condition(cpp_namespace[t.arg] # Unset)
             [] t.op = "ifndef" -> do_if_else_condition(cpp_namespace[t.arg] = Unset)
             [] t.op = "elif" -> do_elif(t.arg)
             [] t.op = "else" -> do_else
             [] t.op = "endif" -> do_endif
             [] OTHER -> UNCHANGED <<dispatch, stack>>
        /\ cpp_namespace' = CASE t.op = "define" -> [cpp_namespace EXCEPT ![t.arg] = t.val]
                              [] t.op = "undef" -> [cpp_namespace EXCEPT ![t.arg] = Unset]
                              [] OTHER -> cpp_namespace
        /\ IF t.op \in Includes THEN do_include(t, rest)
           ELSE tuples' = rest /\ UNCHANGED result
  /\ UNCHANGED <<phase, lines, predefined, named, ccVars, nodes, seen, excuses>>

-----------------------------------------------------------------------------
(* The compiler, which no file of the project is: groups are skipped whole,   *)
(* a quoted name is looked for beside the file that names it.                 *)
Active == \A i \in DOMAIN groups : groups[i] = "on"
Group(state) == [groups EXCEPT ![Len(groups)] = state]
Value(name) == IF macros[name] = NoValue THEN 1 ELSE macros[name]
Holds(op, name) == CASE op = "ifdef" -> macros[name] # Unset
                     [] op = "ifndef" -> macros[name] = Unset
                     [] OTHER -> Value(name) \notin {Unset, 0}
Defined(line) == CASE line.op = "define" -> [macros EXCEPT ![line.arg] = line.val]
                   [] line.op = "undef" -> [macros EXCEPT ![line.arg] = Unset]
                   [] OTHER -> macros
CompilerSearch(line, file) ==
  Search(IF Quoted(line) THEN <<Dir(file)>> \o cpppath ELSE cpppath, line.arg)
From(file) == [i \in DOMAIN Tree[file] |-> <<Tree[file][i], file>>]

Compile ==
  /\ phase = "preprocess" /\ tuples = <<>> /\ text # <<>>
  /\ LET t == Head(text)[1]
         file == Head(text)[2]
         here == CompilerSearch(t, file)
         opens == t.op \in {"if", "ifdef", "ifndef"}
     IN /\ groups' = CASE opens -> Append(groups, IF ~Active THEN "over"
                                                  ELSE IF Holds(t.op, t.arg) THEN "on" ELSE "off")
                       [] t.op = "elif" ->
                            Group(CASE Last(groups) = "off" /\ Holds("if", t.arg) -> "on"
                                    [] Last(groups) = "off" -> "off"
                                    [] OTHER -> "over")
                       [] t.op = "else" -> Group(IF Last(groups) = "off" THEN "on" ELSE "over")
                       [] t.op = "endif" -> Front(groups)
                       [] OTHER -> groups
        /\ macros' = IF Active THEN Defined(t) ELSE macros
        /\ LET reads == Active /\ t.op \in Includes /\ here # Unset
           IN /\ read' = IF reads THEN read \cup {here} ELSE read
              /\ text' = IF reads THEN From(here) \o Tail(text) ELSE Tail(text)
        /\ excuses' = excuses \cup
             (IF ~Active /\ Defined(t) # macros THEN {"skipped"} ELSE {}) \cup
             (IF t.op \in {"if", "elif"} /\ macros[t.arg] = NoValue THEN {"valueless"} ELSE {}) \cup
             (IF Active /\ t.op \in Includes /\ here # find_include_file(t)
              THEN {"elsewhere"} ELSE {}) \cup
             (IF Active /\ t.op = "includeM" THEN {"macro"} ELSE {})
  /\ UNCHANGED <<phase, lines, predefined, named, preVars, nodes, seen>>

-----------------------------------------------------------------------------
(* The next line of the main file, as long as it may be. *)
WellFormed(op) ==
  CASE op \in {"elif", "else"} -> groups # <<>> /\ lines.open[Len(groups)] = "if"
    [] op = "endif" -> groups # <<>>
    [] OTHER -> TRUE

Opened(op) ==
  CASE op \in {"if", "ifdef", "ifndef"} -> Append(lines.open, "if")
    [] op = "else" -> [lines.open EXCEPT ![Len(lines.open)] = "else"]
    [] op = "endif" -> Front(lines.open)
    [] OTHER -> lines.open

Write(line) ==
  /\ phase = "preprocess" /\ tuples = <<>> /\ text = <<>>
  /\ lines.count < MaxLines /\ WellFormed(line.op)
  /\ tuples' = <<line>> /\ text' = <<<<line, Main>>>>
  /\ lines' = [count |-> lines.count + 1, open |-> Opened(line.op)]
  /\ named' = IF line.op \in Includes THEN named \cup {line} ELSE named
  /\ UNCHANGED <<phase, predefined, dispatch, stack, cpp_namespace, result, groups, macros,
                 read, nodes, seen, excuses>>

EndOfFile ==
  /\ phase = "preprocess" /\ tuples = <<>> /\ text = <<>> /\ groups = <<>>
  /\ phase' = "classic" /\ nodes' = <<Main>>
  /\ UNCHANGED <<lines, predefined, named, preVars, ccVars, seen, excuses>>

-----------------------------------------------------------------------------
(* Scanner.Classic and get_implicit_deps: every line that looks like an       *)
(* #include counts, each file is scanned once and from its own directory.     *)
IncludeLines(file) ==
  IF file = Main THEN named
  ELSE {Tree[file][i] : i \in {i \in DOMAIN Tree[file] : Tree[file][i].op \in Includes}}

find_include(line, file) ==
  Search(IF Quoted(line) THEN <<Dir(file)>> \o cpppath ELSE Append(cpppath, Dir(file)), line.arg)

included_deps(file) ==
  {find_include(line, file) : line \in {l \in IncludeLines(file) : l.op # "includeM"}}
    \ ({Unset} \cup seen)

Scan ==
  /\ phase = "classic" /\ nodes # <<>>
  /\ nodes' = Tail(nodes) \o SetToSeq(included_deps(Head(nodes)))
  /\ seen' = seen \cup included_deps(Head(nodes))
  /\ UNCHANGED <<phase, lines, predefined, named, preVars, ccVars, excuses>>

Scanned ==
  /\ phase = "classic" /\ nodes = <<>>
  /\ phase' = "done"
  /\ UNCHANGED <<lines, predefined, named, preVars, ccVars, nodes, seen, excuses>>

ScannerInit ==
  /\ phase = "preprocess" /\ lines = [count |-> 0, open |-> <<>>]
  /\ predefined \in Predefined /\ named = {}
  /\ tuples = <<>> /\ dispatch = DefaultTable /\ stack = <<>> /\ result = {}
  /\ cpp_namespace = predefined
  /\ text = <<>> /\ groups = <<>> /\ macros = predefined /\ read = {}
  /\ nodes = <<>> /\ seen = {Main} /\ excuses = {}

ScannerNext == Preprocess \/ Compile \/ EndOfFile \/ Scan \/ Scanned \/ \E l \in Lines : Write(l)

ScannerSpec == ScannerInit /\ [][ScannerNext]_scannerVars

-----------------------------------------------------------------------------
(* Both find every file the compiler reads.  The conditional preprocessor     *)
(* finds no other and tells the groups apart as the compiler does, until a    *)
(* line of a skipped group has changed a macro, one without a value is        *)
(* tested, or a name depends on the file that includes it; the classic one    *)
(* only misses what a macro names.                                            *)
ScannersExact ==
  /\ tuples = <<>> /\ text = <<>> /\ excuses \subseteq {"macro"} =>
       /\ result = read /\ cpp_namespace = macros
       /\ dispatch.include = Active /\ Len(stack) = Len(groups)
  /\ phase = "done" /\ "macro" \notin excuses => read \subseteq seen
=============================================================================
