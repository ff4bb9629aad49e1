---------------------------- MODULE MCSConsParts ----------------------------
(* The smaller machines of SCons, several of them in one run: the initial    *)
(* state picks one of Parts, which then runs alone, with constants of its own;  *)
(* the variables of the others keep the value Absent.                        *)
EXTENDS Integers, Sequences, TLC

CONSTANTS None, NoFile, Nothing, Unset, Absent,
  Parts   \* the machines of this run

VARIABLE part   \* the machine that runs

VARIABLES heap, base, clone, overrides, passed, call
environmentVars == <<heap, base, clone, overrides, passed, call>>

VARIABLES tree, fileCalls, late, last
filesVars == <<tree, fileCalls, late, last>>

VARIABLES command, value, signed, shown, words
substVars == <<command, value, signed, shown, words>>

VARIABLES stack, scriptDir, processDir, sysPath, sconscript_reading, sconscript_chdir,
          global_exports, raising, request, DEFAULT_TARGETS, BUILD_TARGETS,
          build_plus_default, defaultCalled, chosen, scriptSteps, switched, byHand
readingVars == <<stack, scriptDir, processDir, sysPath, sconscript_reading,
    sconscript_chdir, global_exports, raising, request, DEFAULT_TARGETS, BUILD_TARGETS,
    build_plus_default, defaultCalled, chosen, scriptSteps, switched, byHand>>

VARIABLES scanPhase, mainLines, predefined, named, tuples, dispatch, tables, cpp_namespace,
          included, compilerText, groups, macros, compiled, toScan, seen, excuses
scannerVars == <<scanPhase, mainLines, predefined, named, tuples, dispatch, tables,
    cpp_namespace, included, compilerText, groups, macros, compiled, toScan, seen, excuses>>

VARIABLES sessionFiles, record, nodeState, csig, includeLines, implicitDeps, found, busy,
          lastCommand, alive, sessionSteps, unseen
interactiveVars == <<sessionFiles, record, nodeState, csig, includeLines, implicitDeps,
    found, busy, lastCommand, alive, sessionSteps, unseen>>

VARIABLES aliases, nodeBuilder, nodeSources, depends, ignoredNodes, prerequisites,
          side_effects, side_effect, noclean, nodeExecutor, executorObjects, childrenMemo,
          CleanTargets, cleanLists, declared, cleaned, added, asked, twice
declarationsVars == <<aliases, nodeBuilder, nodeSources, depends, ignoredNodes,
    prerequisites, side_effects, side_effect, noclean, nodeExecutor, executorObjects,
    childrenMemo, CleanTargets, cleanLists, declared, cleaned, added, asked, twice>>

VARIABLES texText, newglossary_suffix, emitted, must_rerun_latex, texPc, latexCount,
          saved_hashes, already_bibtexed, texResult, run_flags, texMade, helped, dvi,
          texLog, texInputs, saved_env, inputsBefore, overlapped, helperFailed,
          texMisplaced, leaked, ranOut, texTree, flavour, includeQueue, namesSeen, texNodes,
          texIncludes
texVars == <<texText, newglossary_suffix, emitted, must_rerun_latex, texPc, latexCount,
    saved_hashes, already_bibtexed, texResult, run_flags, texMade, helped, dvi, texLog,
    texInputs, saved_env, inputsBefore, overlapped, helperFailed, texMisplaced, leaked,
    ranOut, texTree, flavour, includeQueue, namesSeen, texNodes, texIncludes>>

VARIABLES entryTree, scriptChdir, entrySteps, entryAnswer, staleEntries, unlistedEntries,
          turned
entriesVars == <<entryTree, scriptChdir, entrySteps, entryAnswer, staleEntries,
    unlistedEntries, turned>>

VARIABLES toolTopic, toolSteps, toolDisk, toolTargets, toolClean, touched, builtTargets,
          toolSaid, lostFiles, installSandbox, BaseInstallBuilder, installedFiles,
          uniqueFiles, copiedTree, LINKCOM, signedCommand, ranCommand, askedPrograms
toolsVars == <<toolTopic, toolSteps, toolDisk, toolTargets, toolClean, touched,
    builtTargets, toolSaid, lostFiles, installSandbox, BaseInstallBuilder, installedFiles,
    uniqueFiles, copiedTree, LINKCOM, signedCommand, ranCommand, askedPrograms>>

VARIABLES optionTopic, optionPhase, optionCalls, optionSaid, optionWords, knownOptions,
          givenOptions, scriptSettings, defaultOptions, largs, inForce, addedOptions,
          declaredVariables, variableEnv, variableFile, variableArgs, unknownArgs, rootDir,
          savedVariables
optionsVars == <<optionTopic, optionPhase, optionCalls, optionSaid, optionWords,
    knownOptions, givenOptions, scriptSettings, defaultOptions, largs, inForce,
    addedOptions, declaredVariables, variableEnv, variableFile, variableArgs, unknownArgs,
    rootDir, savedVariables>>

VARIABLES toolchainTopic, toolchainCalls, toolchainEnded, installation, installed_vcs,
          compilerEnv, intelSetup, toolModules, toolObjects
toolchainsVars == <<toolchainTopic, toolchainCalls, toolchainEnded, installation,
    installed_vcs, compilerEnv, intelSetup, toolModules, toolObjects>>

VARIABLES timeTopic, timers, timeLogs, timeTemps, failedCheckouts, timeReport, plotAxis,
          racingRuns, lostLogs
timeVars == <<timeTopic, timers, timeLogs, timeTemps, failedCheckouts, timeReport, plotAxis,
    racingRuns, lostLogs>>

VARIABLES searchTopic, searchCalls, searchSaid, envPath, lastChange, compilerSet,
          orderMoved, flagVariables, mergedLines, modulePath, defaultToolpath, siteNames,
          siteContents, siteLoading, libraryFiles, ixesUsed, askedLibraries,
          refusedLibraries
pathsVars == <<searchTopic, searchCalls, searchSaid, envPath, lastChange, compilerSet,
    orderMoved, flagVariables, mergedLines, modulePath, defaultToolpath, siteNames,
    siteContents, siteLoading, libraryFiles, ixesUsed, askedLibraries, refusedLibraries>>


Word(w) == [kind |-> "str", words |-> <<w>>]
WordPartOf(x, y) == x = y \/ (x = Word("O") /\ y = Word("O2"))

DirMirror == [s |-> "rs", v |-> "rv", w |-> "rw"]
DirContent == [s |-> "source", v |-> "old", w |-> NoFile,
               rs |-> "theirs", rv |-> NoFile, rw |-> NoFile]

SubstValues == {None, [string |-> <<>>], [string |-> <<"b">>], [string |-> <<"b", " ", "Y">>],
                [string |-> <<"b", ">">>], [string |-> <<"$(", "b", "$)", "c">>],
                [list |-> <<>>], [list |-> <<<<"c">>, <<"d">>>>], [list |-> <<<<"c", "X">>>>]}

ScriptDirOf == [SConstruct |-> <<>>, sub |-> <<"sub">>, rep |-> <<"rep">>, none |-> <<>>]
CommandLines ==
  {[targets |-> t, climb |-> "no", launch |-> <<>>] : t \in {<<>>, <<<<<<>>, "t">>>>}} \cup
  {[targets |-> <<>>, climb |-> c, launch |-> <<"sub">>] : c \in {"u", "D", "U"}}

Line(op, arg) == [op |-> op, arg |-> arg, val |-> None]
Define(arg, val) == [op |-> "define", arg |-> arg, val |-> val]
HeaderTree ==
  (<<"inc", "a">> :> <<Line("ifndef", "A"), Line("define", "A"), Line("include\"", "b"),
                       Line("ifdef", "X"), Line("include<", "c"), Line("endif", ""),
                       Line("endif", "")>>) @@
  (<<"inc", "b">> :> <<Line("include\"", "a"), Define("X", 0)>>) @@
  (<<"inc", "c">> :> <<Line("undef", "X")>>) @@
  (<<"src", "b">> :> <<>>) @@ (<<"src", "c">> :> <<>>)
MainLines ==
  {Line(op, "X") : op \in {"ifdef", "if", "ifndef", "elif", "undef"}} \cup
  {Line("else", ""), Line("endif", ""), Define("X", 0), Define("X", 1),
   Line("include\"", "a"), Line("include<", "c"), Line("includeM", "c")}
MacroValues == {[A |-> Unset, X |-> x] : x \in {Unset, None, 1}}

SessionCommands == <<<<"r">>, <<"a", "b">>, <<"p">>>>
SessionKids == [r |-> {"s"}, a |-> {"s"}, b |-> {"s"}, p |-> {"b"}]
SessionPrereq == [r |-> {}, a |-> {}, b |-> {}, p |-> {"r"}]
SessionEffects == [r |-> {"log"}, a |-> {"log"}, b |-> {"log"}, p |-> {}]

DependLines ==
  {<<[targets |-> <<"b">>, depends |-> <<"a">>]>>,
   <<[targets |-> <<"b">>, depends |-> <<>>], [targets |-> <<"a", "b">>, depends |-> <<"a">>]>>,
   <<[targets |-> <<>>, depends |-> <<"a">>]>>}

DocumentText(features, main, import, bad) ==
  [features |-> features, main |-> main, import |-> import, empty |-> {}, bad |-> bad,
   undefined |-> FALSE]
DocumentTexts ==
  {[DocumentText({"toc", "idx"}, {"toc", "idx"}, {}, {}) EXCEPT !.empty = {"idx"}],
   DocumentText({"bib", "ref", "toc"}, {"bib"}, {"toc"}, {}),
   DocumentText({"nlo", "idx"}, {"nlo"}, {"idx"}, {"nlo"}),
   DocumentText({"idx", "bib"}, {"idx", "bib"}, {}, {"bib"}),
   DocumentText({"idx", "nlo"}, {"nlo"}, {}, {"idx"}),
   DocumentText({"new", "ref"}, {"new"}, {}, {}),
   DocumentText({"new"}, {}, {"new"}, {}),
   DocumentText({"toc"}, {"toc"}, {}, {"latex"}),
   [DocumentText({"ref"}, {"ref"}, {}, {}) EXCEPT !.undefined = TRUE]}

TexPaths == [include |-> <<<<"inc">>>>, input |-> <<<<"inc">>>>, import |-> <<<<"inc">>>>,
             bibliography |-> <<<<"bib">>>>, includegraphics |-> <<<<"inc">>>>]
TexExtensions == [include |-> <<"tex">>, input |-> <<"tex">>, import |-> <<"tex">>,
                  bibliography |-> <<"bib">>, includegraphics |-> <<"png", "jpg">>]
TexInclude(type, name) == [type |-> type, subdir |-> <<>>, name |-> name]
TexImport(name) == [type |-> "import", subdir |-> <<"sub">>, name |-> name]
TexTrees ==
  LET Lines == {<<>>, <<TexInclude("input", "a")>>,
                <<TexInclude("include", "a"), TexInclude("bibliography", "b")>>,
                <<TexInclude("bibliography", "a"), TexInclude("include", "a")>>,
                <<TexImport("a"), TexInclude("input", "b")>>, <<TexInclude("input", "none"), TexInclude("input", "a")>>,
                <<TexInclude("includegraphics", "g"), TexImport("b")>>}
      File(class, lines) == [class |-> class, includes |-> lines]
  IN UNION {{(<<<<>>, "m", "tex">> :> File(FALSE, main)) @@ (<<<<>>, "a", "tex">> :> File(c, a))
             @@ (<<<<"sub">>, "a", "tex">> :> File(FALSE, a))
             @@ (<<<<"inc", "sub">>, "b", "tex">> :> File(c, <<>>))
             @@ (<<<<"bib">>, "a", "bib">> :> File(FALSE, <<>>))
             @@ (<<<<"bib">>, "b", "bib">> :> File(FALSE, <<>>))
             @@ (<<<<"inc">>, "g", "jpg">> :> File(FALSE, <<>>)) :
               main \in Lines, a \in Lines \ {<<TexInclude("input", "a")>>}} : c \in BOOLEAN}

EntryPaths == {<<"s">>, <<"v">>, <<"x">>, <<"s", "x">>, <<"v", "x">>, <<"s", "x", "y">>, <<"v", "x", "y">>}
EntryDisk(folders, plain) ==
  [p \in EntryPaths |-> IF p \in folders THEN "dir" ELSE IF p \in plain THEN "file" ELSE NoFile]
EntryDisks ==
  {EntryDisk({<<"s">>, <<"v">>}, {<<"s", "x">>}), EntryDisk({<<"s">>, <<"s", "x">>}, {<<"s", "x", "y">>}),
   EntryDisk({<<"s">>, <<"v">>, <<"s", "x">>}, {<<"v", "x">>})}
EntrySpellings ==
  {[top |-> TRUE, elements |-> <<"v", "x">>], [top |-> FALSE, elements |-> <<"x">>],
   [top |-> TRUE, elements |-> <<"v", ".", "x", "y">>], [top |-> FALSE, elements |-> <<"..", "s", "x", "y">>]}

ToolLibrary(version, nolinks) ==
  [name |-> <<"libfoo">>, suffix |-> <<".", "so">>, version |-> version, nolinks |-> nolinks]
ToolLibraries ==
  {ToolLibrary(<<"1">>, FALSE), ToolLibrary(<<"1", ".", "2">>, FALSE),
   ToolLibrary(<<"1", ".", "3">>, FALSE), ToolLibrary(<<"1", ".", "2">>, TRUE),
   [ToolLibrary(<<"2">>, FALSE) EXCEPT !.name = <<"libfoo", ".", "so">>]}
ToolDestination(isNode, absolute, hash, names) ==
  [node |-> isNode, abs |-> absolute, top |-> hash, elements |-> names]
ToolSandboxes ==
  {Unset, ToolDestination(FALSE, TRUE, FALSE, <<"box">>), ToolDestination(FALSE, FALSE, FALSE, <<"box">>)}
ToolDestinations ==
  {ToolDestination(FALSE, TRUE, FALSE, <<"usr">>), ToolDestination(FALSE, FALSE, FALSE, <<"usr">>),
   ToolDestination(FALSE, FALSE, FALSE, <<"..", "usr">>), ToolDestination(TRUE, FALSE, FALSE, <<"usr">>),
   ToolDestination(FALSE, FALSE, TRUE, <<"usr">>)}
ToolTrees ==
  {(<<"a">> :> "file"), (<<"a">> :> "dir"), (<<"a">> :> "dir") @@ (<<"a", "a">> :> "file"),
   (<<"a">> :> "dir") @@ (<<"a", "a">> :> "dir") @@ (<<"a", "b">> :> "file")}
ToolSources ==
  ("c" :> {"C"}) @@ ("x" :> {"C++", "Fortran"}) @@ ("f" :> {"Fortran"}) @@ ("d" :> {"D", "C++"})
ToolSteps == [library |-> 7, sandbox |-> 3, tree |-> 3, linking |-> 6]

OptionOf(destName, count, collects, initial) ==
  [dest |-> destName, nargs |-> count, appends |-> collects, default |-> initial]
OptionBuiltin ==
  ("--duplicate" :> OptionOf("duplicate", 1, FALSE, <<"hard">>))
  @@ ("--diskcheck" :> OptionOf("diskcheck", 1, FALSE, <<"all">>))
  @@ ("--warn" :> OptionOf("warn", 1, TRUE, <<>>))
  @@ ("--max-drift" :> OptionOf("max_drift", 1, FALSE, <<"2">>))
  @@ ("--directory" :> OptionOf("directory", 1, TRUE, <<>>))
OptionLocal(optionName, option) ==
  [name |-> optionName, dest |-> option.dest, nargs |-> option.nargs, appends |-> option.appends,
   default |-> option.default]
OptionLocals ==
  {OptionLocal("--dir", OptionOf("dir", 1, FALSE, None)), OptionLocal("--foo", OptionOf("foo", 1, FALSE, None)),
   OptionLocal("--foobar", OptionOf("foobar", 2, FALSE, <<"d">>)), OptionLocal("--inc", OptionOf("inc", 1, TRUE, None)),
   OptionLocal("--flag", OptionOf("flag", 0, FALSE, None))}
OptionAbbreviates ==
  {<<"--dir", "--directory">>, <<"--fo", "--foo">>, <<"--fo", "--foobar">>, <<"--foo", "--foobar">>}
OptionWord(text, valueText) == [name |-> text, long |-> TRUE, value |-> valueText]
OptionTarget(text) == [name |-> text, long |-> FALSE, value |-> None]
OptionLines ==
  {<<OptionWord("--dir", "1")>>, <<OptionWord("--foo", "1"), OptionTarget("t"), OptionWord("--foo", "2")>>,
   <<OptionWord("--foo", None), OptionTarget("t")>>, <<OptionWord("--fo", "1"), OptionWord("--foo", "2")>>,
   <<OptionWord("--foobar", None), OptionWord("--foo", "1")>>, <<OptionTarget("t"), OptionWord("--foo", None)>>,
   <<OptionWord("--inc", "1"), OptionWord("--flag", None), OptionWord("--inc", "2")>>,
   <<OptionWord("--flag", "1")>>, <<OptionWord("--none", None), OptionWord("--foobar", "1")>>,
   <<OptionWord("--duplicate", "c1"), OptionWord("--warn", "c1"), OptionWord("--duplicate", "c2")>>,
   <<OptionWord("--diskcheck", "c1"), OptionWord("--max-drift", "c1"), OptionWord("--warn", "c2")>>,
   <<OptionWord("--foo", None), OptionWord("--foobar", "3"), OptionTarget("t")>>}
OptionVariable(name, others, initial, sort) ==
  [key |-> name, aliases |-> others, default |-> initial, kind |-> sort]
OptionVariables ==
  {OptionVariable("P", {"p"}, "$ROOT", "plain"), OptionVariable("B", {}, None, "bool"),
   OptionVariable("D", {}, "yes", "bool"), OptionVariable("E", {"e"}, "c", "enum")}
OptionArguments ==
  {[x \in {} |-> None], [P |-> "r1", B |-> "no"], [p |-> "r2", D |-> "no"], [E |-> "a"], [D |-> "odd", z |-> "1"],
   [E |-> "b", e |-> "c"]}

VisualInstalls ==
  LET Native == <<"amd64", "amd64">>
      Cross == <<"x86", "amd64">>
      Small == <<"x86", "x86">>
      NoScripts == [p \in {} |-> "ok"]
      Visual(compilers, batch, scripts) == [cl |-> compilers, bat |-> batch, sdk |-> scripts]
      Works(pairs) == [p \in pairs |-> "ok"]
  IN {[mingw |-> FALSE,
       vcs |-> (142 :> Visual({Native, <<"amd64", "x86">>}, Works({Native, Small}), NoScripts))
               @@ (120 :> Visual({Cross, Small}, Works({Cross, Small}), NoScripts))],
      [mingw |-> TRUE,
       vcs |-> (140 :> Visual({Small}, Works({Small}), NoScripts))
               @@ (120 :> Visual({Native}, None, Works({Native, Small})))],
      [mingw |-> TRUE, vcs |-> [v \in {} |-> None]],
      [mingw |-> FALSE,
       vcs |-> (142 :> Visual({Native, <<"amd64", "arm">>}, (Native :> "ok") @@ (<<"amd64", "arm">> :> "dies"), NoScripts))
               @@ (140 :> Visual({Native, Small}, Works({Small}), Works({Native})))
               @@ (71 :> Visual({Small}, Works({Small}), NoScripts))]}
CompilerRequests ==
  {[arch |-> a, vc |-> v, vs |-> None, tools |-> t] :
     a \in {None, "x86", "x86_64", "arm"}, v \in {None, 142, 120}, t \in {None, "msvc", "default"}}
  \cup {[arch |-> None, vc |-> 142, vs |-> 120, tools |-> "msvc"],
        [arch |-> "ia64", vc |-> None, vs |-> None, tools |-> "msvc"],
        [arch |-> None, vc |-> 71, vs |-> None, tools |-> "msvc"]}
IntelDirectory(intelVersion, intelStyle, programs) ==
  [version |-> intelVersion, style |-> intelStyle, icc |-> programs]
IntelInstalls ==
  SUBSET {IntelDirectory(<<9, 1>>, "2008", {"ia32"}), IntelDirectory(<<9, 1>>, "2008", {"x86_64"}),
          IntelDirectory(<<11, 1>>, "2010", {"ia32"}), IntelDirectory(<<2011, 9, 300>>, "2011", {"ia32", "x86_64"}),
          IntelDirectory(<<2011, 9, 301>>, "2011", {"x86_64"})}
IntelRequestsMade ==
  [version : {None, <<9, 1>>, <<11, 1>>, <<2011, 9, 300>>, <<8, 0>>}, abi : {"ia32", "x86_64"}]
ToolDirectories ==
  [foo |-> [a |-> "whole", b |-> "broken"], bar |-> [a |-> "whole", b |-> "whole"], gcc |-> [b |-> "broken"]]
TimeCommand(projectName, runNumbers, checkout, projectTree) ==
  [prefix |-> projectName, numbers |-> runNumbers, svn |-> checkout, wrapper |-> None, exec |-> TRUE,
   preserve |-> FALSE, tree |-> projectTree]
TimeCommands ==
  LET Plain == TimeCommand(<<>>, <<None>>, FALSE, "fine")
      Checked == TimeCommand(<<>>, <<<<7, 8>>>>, TRUE, "fine")
  IN <<{Plain, [Plain EXCEPT !.exec = FALSE], [Plain EXCEPT !.tree = "other name"], Checked,
        TimeCommand(<<>>, <<<<0, 0>>, <<999, 1000>>>>, FALSE, "fine")},
       {Plain, [Plain EXCEPT !.tree = "bad script"], TimeCommand(<<2>>, <<None>>, FALSE, "fine"),
        [Checked EXCEPT !.numbers = <<<<8, 8>>>>, !.wrapper = <<"wrapper">>, !.preserve = TRUE]}>>
TimeReports ==
  [what : {"time", "obj", "func"}, format : {"ascii", "gnuplot"}, prefix : {<<>>}, tail : {None, 2}, stage : {4}]
  \cup [what : {"mem"}, format : {"gnuplot"}, prefix : {<<>>, <<2>>}, tail : {None}, stage : {2, 4}]
PlainDirectory(dirName) == [dir |-> dirName, spelled |-> "plain"]
SearchPathsGiven ==
  {<<>>, <<PlainDirectory("a"), PlainDirectory("b")>>, <<PlainDirectory("a"), PlainDirectory("b"), PlainDirectory("a")>>,
   <<PlainDirectory(None), PlainDirectory("b")>>, <<[dir |-> "c", spelled |-> "#"], PlainDirectory("a")>>}
SearchPathsAdded ==
  {<<PlainDirectory("a")>>, <<[dir |-> "a", spelled |-> "dotted"]>>, <<[dir |-> "c", spelled |-> "#"], PlainDirectory("b")>>,
   <<PlainDirectory("b"), PlainDirectory("c"), PlainDirectory("b")>>, <<PlainDirectory(None), PlainDirectory("c")>>}
ProgramsIn == (None :> {"cc"}) @@ [a |-> {"cc", "icc"}, b |-> {"gcc", "cc"}, c |-> {"gcc", "icc"}]
FlagWord(option, argument) == [opt |-> option, rest |-> argument]
FlagLines ==
  LET lib(argument) == FlagWord("l", argument)
      word(argument) == FlagWord("word", argument)
  IN {<<<<FlagWord("I", "x"), FlagWord("I", None), word("y"), lib("m"), lib("n")>>>>,
      <<<<FlagWord("isystem", None), word("x"), FlagWord("isystem", None), word("y"), FlagWord("pthread", None)>>>>,
      <<<<lib("n"), lib("m"), FlagWord("I", "y"), FlagWord("D", "one"), FlagWord("I", "x"), FlagWord("L", None)>>,
        <<word("x"), FlagWord("other", None), FlagWord("isysroot", None), word("y")>>>>,
      <<<<FlagWord("dylib_file", None), word("x"), FlagWord("framework", None), word("m"), FlagWord("rpath", "x"),
          FlagWord("Wa", "x"), FlagWord("std_cxx", None), FlagWord("D", None), FlagWord("I", "x")>>>>}
FlagsGiven ==
  [k \in {"ASFLAGS", "CFLAGS", "CCFLAGS", "CXXFLAGS", "CPPDEFINES", "CPPFLAGS", "CPPPATH", "FRAMEWORKPATH",
          "FRAMEWORKS", "LIBPATH", "LIBS", "LINKFLAGS", "RPATH"} |->
     IF k \in {"LIBS", "CPPPATH"} THEN <<<<FlagWord("word", "y")>>, <<FlagWord("word", "n")>>>> ELSE <<>>]
SiteLayouts ==
  LET inits == {None, [names |-> {"x", "y"}, fails |-> FALSE], [names |-> {"x"}, fails |-> TRUE],
                [names |-> {"y"}, fails |-> FALSE]}
  IN [{"machine", "home", "project"} -> {None} \cup [init : inits, tools : BOOLEAN]]
NamedLibraries ==
  {[kind |-> kindOf, name |-> nameOf, import |-> importOf, def |-> importOf] :
     kindOf \in {"shared", "static"}, nameOf \in {<<"foo">>, <<"lib", "foo">>, <<"foo", ".", "1">>, <<"foo", ".", "dll">>},
     importOf \in BOOLEAN}
IxesConventions ==
  LET ix(before, after) == [pre |-> before, suf |-> after]
  IN {[shared |-> ix(prefix, suffix), static |-> ix(<<"lib">>, <<".", "a">>), def |-> ix(<<>>, <<".", "def">>)] :
        prefix \in {<<>>, <<"lib">>}, suffix \in {<<".", "dll">>, <<>>}}
SearchCalls == [path |-> 4, flags |-> 4, site |-> 3, names |-> 3]

Environment == INSTANCE SConsEnvironment WITH Words <- {"O", "O2"}, PartOf <- WordPartOf,
    Unset <- Unset, MaxCalls <- 3, Texts <- {"a", ">"}, Redirecting <- {">"}, Vars <- {"X", "Y"}, Values <-
    SubstValues, None <- None, MaxTokens <- 3

Files == INSTANCE SConsFileSystem WITH Local <- {"s", "v", "w"}, Mirror <- DirMirror,
    Content <- DirContent, NoFile <- NoFile, Unset <- Unset, MaxCalls <- 4, calls <-
    fileCalls

Reading == INSTANCE SConsReading WITH Scripts <- {"SConstruct", "sub", "rep", "none"}, DirOf
    <- ScriptDirOf, Exists <- {"SConstruct", "sub", "rep"}, Local <- {<<>>, <<"sub">>},
    Names <- {"x"}, Requests <- CommandLines, Unset <- Unset, MaxDepth <- 3, MaxSteps <- 5,
    cwd <- scriptDir, osCwd <- processDir, path <- sysPath, nodes <- chosen, steps <-
    scriptSteps

Scanner == INSTANCE SConsScanner WITH Tree <- HeaderTree, Main <- <<"src", "m">>, cpppath <-
    <<"inc">>, Macros <- {"A", "X"}, Lines <- MainLines, Predefined <- MacroValues, Unset <-
    Unset, NoValue <- None, MaxLines <- 5, phase <- scanPhase, lines <- mainLines, stack <-
    tables, result <- included, text <- compilerText, read <- compiled, nodes <- toScan

Interactive == INSTANCE SConsInteractive WITH Commands <- SessionCommands, Kids <-
    SessionKids, Prereq <- SessionPrereq, Effects <- SessionEffects, Sources <- {"s"},
    Headers <- {"h"}, Requests <- {{"a"}, {"b"}, {"p"}, {"r"}}, NoFile <- NoFile, Unset <-
    Unset, MaxSteps <- 4, content <- sessionFiles, state <- nodeState, includes <-
    includeLines, implicit <- implicitDeps, last <- lastCommand

Declarations == INSTANCE SConsDeclarations WITH Names <- {"a", "b"}, TargetLists <-
    {<<"b">>, <<"a", "b">>}, Extra <- {"f", "g"}, DependFiles <- DependLines, None <- None,
    Unset <- Unset, MaxDeclarations <- 3, builder <- nodeBuilder, sources <- nodeSources,
    ignore <- ignoredNodes, executor <- nodeExecutor, executors <- executorObjects, children
    <- childrenMemo

Tex == INSTANCE SConsTex WITH Docs <- {1, 2}, Texts <- DocumentTexts, UserInputs <- {<<0,
    1>>}, Trees <- TexTrees, Main <- <<<<>>, "m", "tex">>, Paths <- TexPaths, Extensions <-
    TexExtensions, NoFile <- NoFile, Unset <- Unset, LATEXRETRIES <- <<3, 2>>, text <-
    texText, pc <- texPc, count <- latexCount, result <- texResult, made <- texMade, log <-
    texLog, ENV <- texInputs, before <- inputsBefore, failed <- helperFailed, misplaced <-
    texMisplaced, tree <- texTree, queue <- includeQueue, seen <- namesSeen, nodes <-
    texNodes, includes <- texIncludes

Entries == INSTANCE SConsEntries WITH Paths <- EntryPaths, Variant <- "v", Source <- "s",
    OnDisk <- EntryDisks, Scripts <- {<<>>, <<"s">>}, Touched <- {<<"s">>, <<"s", "x">>,
    <<"v", "x">>}, Spellings <- EntrySpellings, NoFile <- NoFile, Unset <- Unset, TypeError
    <- None, UserError <- Nothing, MaxSteps <- 3, tree <- entryTree, chdir <- scriptChdir,
    steps <- entrySteps, answer <- entryAnswer, stale <- staleEntries, unlisted <-
    unlistedEntries

Tools == INSTANCE SConsTools WITH Libraries <- ToolLibraries, UserFiles <- {{}, {<<"libfoo",
    ".", "so">>}}, Sandbox <- ToolSandboxes, Destinations <- ToolDestinations, Trees <-
    ToolTrees, Sources <- ToolSources, Unset <- Unset, MaxSteps <- ToolSteps, topic <-
    toolTopic, steps <- toolSteps, disk <- toolDisk, declared <- toolTargets, clean <-
    toolClean, built <- builtTargets, said <- toolSaid, lost <- lostFiles, option <-
    installSandbox, installed <- installedFiles, unique <- uniqueFiles, tree <- copiedTree,
    signed <- signedCommand, ran <- ranCommand, asked <- askedPrograms

Options == INSTANCE SConsOptions WITH CommandLines <- OptionLines, Builtin <- OptionBuiltin,
    Locals <- OptionLocals, Abbreviates <- OptionAbbreviates, SetValues <- {"s1", "s2"},
    Variables <- OptionVariables, Arguments <- OptionArguments, Roots <- {"r1", "r2"}, None
    <- None, MaxCalls <- [options |-> 4, variables |-> 7], topic <- optionTopic, phase <-
    optionPhase, calls <- optionCalls, said <- optionSaid, words <- optionWords, known <-
    knownOptions, given <- givenOptions, settings <- scriptSettings, defaults <-
    defaultOptions, force <- inForce, added <- addedOptions, options <- declaredVariables,
    env <- variableEnv, file <- variableFile, args <- variableArgs, unknown <- unknownArgs,
    root <- rootDir, saved <- savedVariables

Toolchains == INSTANCE SConsToolchains WITH Machines <- VisualInstalls, VersionsOfVC <-
    <<142, 140, 120, 71>>, Requests <- CompilerRequests, IntelSystems <- IntelInstalls,
    IntelRequests <- IntelRequestsMade, ToolFiles <- ToolDirectories, Builtins <- {"gcc"},
    None <- None, MaxCalls <- 4, Host <- "amd64", topic <- toolchainTopic, calls <-
    toolchainCalls, ended <- toolchainEnded, machine <- installation, env <- compilerEnv,
    intel <- intelSetup, modules <- toolModules, tools <- toolObjects

Time == INSTANCE SConsTime WITH Commands <- TimeCommands, Reports <- TimeReports, Titles <-
    2, MaxY <- 120, None <- None, topic <- timeTopic, proc <- timers, logs <- timeLogs,
    temps <- timeTemps, failed <- failedCheckouts, report <- timeReport, axis <- plotAxis,
    racing <- racingRuns, lost <- lostLogs

SearchPaths == INSTANCE SConsSearchPaths WITH Paths <- SearchPathsGiven, NewPaths <-
    SearchPathsAdded, Holds <- ProgramsIn, Compilers <- <<"gcc", "cc">>, Flags <- FlagLines,
    Given <- FlagsGiven, SiteDirs <- <<"machine", "home", "project">>, Sites <- SiteLayouts,
    Libraries <- NamedLibraries, Conventions <- IxesConventions, MaxCalls <- SearchCalls,
    None <- None, topic <- searchTopic, calls <- searchCalls, said <- searchSaid, path <-
    envPath, last <- lastChange, chosen <- compilerSet, moved <- orderMoved, flags <-
    flagVariables, merged <- mergedLines, sysPath <- modulePath, toolpath <-
    defaultToolpath, exported <- siteNames, sites <- siteContents, loading <- siteLoading,
    targets <- libraryFiles, ixes <- ixesUsed, asked <- askedLibraries, refused <-
    refusedLibraries

ASSUME PartsAssumption ==
  /\ Files!FileSystemAssumption
  /\ Environment!SubstAssumption
  /\ Reading!ReadingAssumption
  /\ Scanner!ScannerAssumption
  /\ Interactive!InteractiveAssumption
  /\ Declarations!DeclarationsAssumption
  /\ Tex!TexAssumption
  /\ Entries!EntriesAssumption
  /\ Tools!ToolsAssumption
  /\ Options!OptionsAssumption
  /\ Toolchains!ToolchainsAssumption
  /\ Time!TimeAssumption
  /\ SearchPaths!SearchPathsAssumption

Init ==
  /\ part \in Parts
  /\ IF part = "environment" THEN Environment!EnvInit
     ELSE heap = Absent /\ base = Absent /\ clone = Absent /\ overrides = Absent /\ passed =
          Absent /\ call = Absent
  /\ IF part = "files" THEN Files!FileSystemInit
     ELSE tree = Absent /\ fileCalls = Absent /\ late = Absent /\ last = Absent
  /\ IF part = "subst" THEN Environment!SubstInit
     ELSE command = Absent /\ value = Absent /\ signed = Absent /\ shown = Absent /\ words =
          Absent
  /\ IF part = "reading" THEN Reading!ReadingInit
     ELSE stack = Absent /\ scriptDir = Absent /\ processDir = Absent /\ sysPath = Absent /\
          sconscript_reading = Absent /\ sconscript_chdir = Absent /\ global_exports =
          Absent /\ raising = Absent /\ request = Absent /\ DEFAULT_TARGETS = Absent /\
          BUILD_TARGETS = Absent /\ build_plus_default = Absent /\ defaultCalled = Absent /\
          chosen = Absent /\ scriptSteps = Absent /\ switched = Absent /\ byHand = Absent
  /\ IF part = "scanner" THEN Scanner!ScannerInit
     ELSE scanPhase = Absent /\ mainLines = Absent /\ predefined = Absent /\ named = Absent
          /\ tuples = Absent /\ dispatch = Absent /\ tables = Absent /\ cpp_namespace =
          Absent /\ included = Absent /\ compilerText = Absent /\ groups = Absent /\ macros
          = Absent /\ compiled = Absent /\ toScan = Absent /\ seen = Absent /\ excuses =
          Absent
  /\ IF part = "interactive" THEN Interactive!InteractiveInit
     ELSE sessionFiles = Absent /\ record = Absent /\ nodeState = Absent /\ csig = Absent /\
          includeLines = Absent /\ implicitDeps = Absent /\ found = Absent /\ busy = Absent
          /\ lastCommand = Absent /\ alive = Absent /\ sessionSteps = Absent /\ unseen =
          Absent
  /\ IF part = "declarations" THEN Declarations!DeclarationsInit
     ELSE aliases = Absent /\ nodeBuilder = Absent /\ nodeSources = Absent /\ depends =
          Absent /\ ignoredNodes = Absent /\ prerequisites = Absent /\ side_effects = Absent
          /\ side_effect = Absent /\ noclean = Absent /\ nodeExecutor = Absent /\
          executorObjects = Absent /\ childrenMemo = Absent /\ CleanTargets = Absent /\
          cleanLists = Absent /\ declared = Absent /\ cleaned = Absent /\ added = Absent /\
          asked = Absent /\ twice = Absent
  /\ IF part = "tex" THEN Tex!TexInit
     ELSE texText = Absent /\ newglossary_suffix = Absent /\ emitted = Absent /\
          must_rerun_latex = Absent /\ texPc = Absent /\ latexCount = Absent /\ saved_hashes
          = Absent /\ already_bibtexed = Absent /\ texResult = Absent /\ run_flags = Absent
          /\ texMade = Absent /\ helped = Absent /\ dvi = Absent /\ texLog = Absent /\
          texInputs = Absent /\ saved_env = Absent /\ inputsBefore = Absent /\ overlapped =
          Absent /\ helperFailed = Absent /\ texMisplaced = Absent /\ leaked = Absent /\
          ranOut = Absent /\ texTree = Absent /\ flavour = Absent /\ includeQueue = Absent
          /\ namesSeen = Absent /\ texNodes = Absent /\ texIncludes = Absent
  /\ IF part = "entries" THEN Entries!EntriesInit
     ELSE entryTree = Absent /\ scriptChdir = Absent /\ entrySteps = Absent /\ entryAnswer =
          Absent /\ staleEntries = Absent /\ unlistedEntries = Absent /\ turned = Absent
  /\ IF part = "tools" THEN Tools!ToolsInit
     ELSE toolTopic = Absent /\ toolSteps = Absent /\ toolDisk = Absent /\ toolTargets =
          Absent /\ toolClean = Absent /\ touched = Absent /\ builtTargets = Absent /\
          toolSaid = Absent /\ lostFiles = Absent /\ installSandbox = Absent /\
          BaseInstallBuilder = Absent /\ installedFiles = Absent /\ uniqueFiles = Absent /\
          copiedTree = Absent /\ LINKCOM = Absent /\ signedCommand = Absent /\ ranCommand =
          Absent /\ askedPrograms = Absent
  /\ IF part = "options" THEN Options!OptionsInit
     ELSE optionTopic = Absent /\ optionPhase = Absent /\ optionCalls = Absent /\ optionSaid
          = Absent /\ optionWords = Absent /\ knownOptions = Absent /\ givenOptions = Absent
          /\ scriptSettings = Absent /\ defaultOptions = Absent /\ largs = Absent /\ inForce
          = Absent /\ addedOptions = Absent /\ declaredVariables = Absent /\ variableEnv =
          Absent /\ variableFile = Absent /\ variableArgs = Absent /\ unknownArgs = Absent
          /\ rootDir = Absent /\ savedVariables = Absent
  /\ IF part = "toolchains" THEN Toolchains!ToolchainsInit
     ELSE toolchainTopic = Absent /\ toolchainCalls = Absent /\ toolchainEnded = Absent /\
          installation = Absent /\ installed_vcs = Absent /\ compilerEnv = Absent /\
          intelSetup = Absent /\ toolModules = Absent /\ toolObjects = Absent
  /\ IF part = "time" THEN Time!TimeInit
     ELSE timeTopic = Absent /\ timers = Absent /\ timeLogs = Absent /\ timeTemps = Absent
          /\ failedCheckouts = Absent /\ timeReport = Absent /\ plotAxis = Absent /\
          racingRuns = Absent /\ lostLogs = Absent
  /\ IF part = "paths" THEN SearchPaths!SearchInit
     ELSE searchTopic = Absent /\ searchCalls = Absent /\ searchSaid = Absent /\ envPath =
          Absent /\ lastChange = Absent /\ compilerSet = Absent /\ orderMoved = Absent /\
          flagVariables = Absent /\ mergedLines = Absent /\ modulePath = Absent /\
          defaultToolpath = Absent /\ siteNames = Absent /\ siteContents = Absent /\
          siteLoading = Absent /\ libraryFiles = Absent /\ ixesUsed = Absent /\
          askedLibraries = Absent /\ refusedLibraries = Absent

Next ==
  /\ UNCHANGED part
  /\ IF part = "environment" THEN Environment!EnvNext ELSE UNCHANGED environmentVars
  /\ IF part = "files" THEN Files!FileSystemNext ELSE UNCHANGED filesVars
  /\ IF part = "subst" THEN Environment!SubstNext ELSE UNCHANGED substVars
  /\ IF part = "reading" THEN Reading!ReadingNext ELSE UNCHANGED readingVars
  /\ IF part = "scanner" THEN Scanner!ScannerNext ELSE UNCHANGED scannerVars
  /\ IF part = "interactive" THEN Interactive!InteractiveNext ELSE UNCHANGED interactiveVars
  /\ IF part = "declarations" THEN Declarations!DeclarationsNext ELSE UNCHANGED declarationsVars
  /\ IF part = "tex" THEN Tex!TexNext ELSE UNCHANGED texVars
  /\ IF part = "entries" THEN Entries!EntriesNext ELSE UNCHANGED entriesVars
  /\ IF part = "tools" THEN Tools!ToolsNext ELSE UNCHANGED toolsVars
  /\ IF part = "options" THEN Options!OptionsNext ELSE UNCHANGED optionsVars
  /\ IF part = "toolchains" THEN Toolchains!ToolchainsNext ELSE UNCHANGED toolchainsVars
  /\ IF part = "time" THEN Time!TimeNext ELSE UNCHANGED timeVars
  /\ IF part = "paths" THEN SearchPaths!SearchNext ELSE UNCHANGED pathsVars

vars == <<part, environmentVars, filesVars, substVars, readingVars, scannerVars, interactiveVars,
          declarationsVars, texVars, entriesVars, toolsVars, optionsVars, toolchainsVars,
          timeVars, pathsVars>>

Spec == Init /\ [][Next]_vars

-----------------------------------------------------------------------------
\* Environment: no call on a clone, an override or the original changes a
\* value of another one, save for the shared objects the source names, and
\* AppendUnique and PrependUnique lose nothing that they were not to replace.
EnvironmentsApart ==
  [][part = "environment" => Environment!ApartStep /\ Environment!UniqueStep]_vars

\* Node.FS: a file of a variant directory reads as what it stands for at the
\* moment, through links, mirrors and copies.
ReadsCurrent == part = "files" => Files!ReadsCurrent

\* Node.FS: a variant directory only writes copies of its sources.
OnlyCopiesWritten == [][part = "files" => Files!CopiesStep]_vars

\* Subst: the words that are executed are the text that is shown and signed,
\* unless an empty value runs two of them together.
WordsAgreeUnlessEmpty == part = "subst" => Environment!WordsAgreeUnlessEmpty

\* Script: a script runs in its own directory with its own modules first,
\* however the scripts it called have ended, and what is built is what was asked.
\* SConsOptions and Variables: the command line overrides the scripts, every
\* option and argument reaches its owner, what was saved is what is read again,
\* but for the recorded reasons.
StartupSafe ==
  /\ part = "reading" => Reading!ReadingSafe
  /\ part = "options" => Options!OptionsSafe

\* Scanner and cpp.py: no file that the compiler reads is missed, whatever
\* groups, macros and directories decide about it, but for the recorded reasons.
\* tex.py: a document that counts as built is final, fails only by itself and
\* leaves the environment as it was; what it includes is found.
\* Tool/__init__.py, link.py, install.py: links lead to their library, what is
\* installed is in the sandbox and complete, programs are linked as signed.
ToolsSafe ==
  /\ part = "scanner" => Scanner!ScannersExact
  /\ part = "tex" => Tex!TexSafe
  /\ part = "tools" => Tools!ToolsSafe
  /\ part = "toolchains" => Toolchains!ToolchainsSafe
  /\ part = "time" => Time!TimeSafe
  /\ part = "paths" => SearchPaths!SearchPathsSafe

\* Interactive, Environment and Node: a command of a session sees nothing that
\* an earlier command's nodes remember, and what was declared about a target is
\* what the walk, the commands and "scons -c" go by, in whatever order it was
\* declared; a Node's kind is decided once and its answers are about the disk;
\* but for the recorded reasons.
GraphSafe ==
  /\ part = "interactive" => Interactive!InteractiveSafe
  /\ part = "declarations" => Declarations!DeclarationsHonoured
  /\ part = "entries" => Entries!EntriesSafe
=============================================================================
