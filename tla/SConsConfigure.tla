---------------------------- MODULE SConsConfigure ----------------------------
(* Configure contexts (SConf.py, Conftest.py): the tests of an SConstruct in *)
(* run after run, their sources and objects conftest_N in the configure      *)
(* directory, what the database keeps of them, and a main target that        *)
(* includes the same header as some of the tests.  Signatures stand for what *)
(* they sign.  A test is compiled by a command whose signature is made of    *)
(* flags and libraries.                                                      *)
EXTENDS Integers, Sequences, SequencesExt

CONSTANTS Scripts,            \* SConstructs: sequences of contexts, of tests
          Headers, Flags,     \* versions of the header, of the flags
          Includes(_),        \* whether a text includes the header
          Works(_, _, _, _),  \* text, flags, libraries, header: whether it compiles
          Nothing,
          MaxTests, MaxRuns, MaxEdits   \* bounds

ConfigureAssumption ==
  /\ Headers # {} /\ Flags # {}
  /\ \A contexts \in Scripts :
       /\ contexts \in Seq(ToSet(contexts))
       /\ \A tests \in ToSet(contexts) :
            /\ tests \in Seq(ToSet(tests))
            /\ \A t \in ToSet(tests) : t.text # Nothing

VARIABLES header, flags, script,   \* the project
          sources,        \* N -> the text in conftest_N.c, or Nothing
          database,       \* what .sconsign.dblite has of the tests and the header
          mainTarget,     \* what the main target was made of, or Nothing
          stage,          \* idle, reading (the SConstruct), or active (a context)
          mode, context, place,    \* cache_mode, and where the SConstruct is
          entries, recorded,       \* the database in memory
          headerSig,      \* csig of the header's node in this run, or Nothing
          counter,        \* _ac_build_counter
          libs,           \* LIBS of the environment
          answers,        \* the answers of this run
          config_h_text, config_hs,   \* config.h of the context, of the run
          confRuns, confEdits

projectVars == <<header, flags, script, sources, database, mainTarget>>
runVars == <<stage, mode, context, place, entries, recorded, headerSig, counter, libs,
             answers, config_h_text, config_hs>>
confVars == <<projectVars, runVars, confRuns, confEdits>>

Numbers == 0 .. MaxTests - 1
NoTest == [source |-> Nothing, object |-> Nothing]
NoTests == [n \in Numbers |-> NoTest]

ConfInit ==
  /\ header = CHOOSE h \in Headers : TRUE
  /\ flags = CHOOSE f \in Flags : TRUE
  /\ script \in Scripts
  /\ sources = [n \in Numbers |-> Nothing]
  /\ database = [tests |-> NoTests, header |-> Nothing]
  /\ mainTarget = Nothing
  /\ stage = "idle" /\ mode = "auto" /\ context = 1 /\ place = 1
  /\ entries = NoTests /\ recorded = Nothing /\ headerSig = Nothing
  /\ counter = 0 /\ libs = <<>> /\ answers = <<>>
  /\ config_h_text = <<>> /\ config_hs = <<>>
  /\ confRuns = 0 /\ confEdits = 0

(* Between the runs: the header, the flags or the SConstruct is edited, or   *)
(* the configure directory is deleted.                                       *)
ConfEdit ==
  /\ stage = "idle" /\ confEdits < MaxEdits /\ confEdits' = confEdits + 1
  /\ \/ header' \in Headers \ {header} /\ UNCHANGED <<flags, script, sources>>
     \/ flags' \in Flags \ {flags} /\ UNCHANGED <<header, script, sources>>
     \/ script' \in Scripts \ {script} /\ UNCHANGED <<header, flags, sources>>
     \/ sources' = [n \in Numbers |-> Nothing] /\ UNCHANGED <<header, flags, script>>
  /\ answers' = <<>>
  /\ UNCHANGED <<database, mainTarget, stage, mode, context, place, entries, recorded,
                 headerSig, counter, libs, config_h_text, config_hs, confRuns>>

ConfRun ==
  /\ stage = "idle" /\ confRuns < MaxRuns /\ confRuns' = confRuns + 1
  /\ stage' = "reading" /\ mode' \in {"auto", "force", "cache"}
  /\ context' = 1 /\ place' = 1
  /\ entries' = database.tests /\ recorded' = database.header
  /\ headerSig' = Nothing /\ counter' = 0 /\ libs' = <<>> /\ answers' = <<>>
  /\ config_h_text' = <<>> /\ config_hs' = <<>>
  /\ UNCHANGED <<projectVars, confEdits>>

(* SConfBase.__init__, _startup: the text of config.h goes on from the       *)
(* context before.                                                           *)
Configure ==
  /\ stage = "reading" /\ context <= Len(script)
  /\ stage' = "active" /\ place' = 1
  /\ config_h_text' = config_hs
  /\ UNCHANGED <<projectVars, mode, context, entries, recorded, headerSig, counter, libs,
                 answers, config_hs, confRuns, confEdits>>

Finish ==
  /\ stage = "active" /\ place > Len(script[context])
  /\ stage' = "reading" /\ context' = context + 1
  /\ config_hs' = config_h_text
  /\ UNCHANGED <<projectVars, mode, place, entries, recorded, headerSig, counter, libs,
                 answers, config_h_text, confRuns, confEdits>>

-----------------------------------------------------------------------------
(* One test: TryBuild makes the source from its text and the object from the *)
(* source; conftest_N is named by the global counter.                        *)

test == script[context][place]
tested == entries[counter]
(* AppendLIBS before a test for a library. *)
libsTried == IF test.lib = Nothing THEN libs ELSE Append(libs, test.lib)

(* SConfBuildTask.execute of the source: its only child is the text.  It is  *)
(* not looked at whether the file is there.                                  *)
SourceCurrent ==
  CASE mode = "force" -> FALSE
    [] mode = "cache" -> tested.source # Nothing
    [] OTHER -> tested.source = test.text
sourceText == IF SourceCurrent THEN sources[counter] ELSE test.text

(* The header's signature: with max_drift 0 (BuildNodes) the one in the      *)
(* database if there is one, whatever the header is now; once known, the     *)
(* node keeps it.                                                            *)
headerSigSeen ==
  CASE headerSig # Nothing -> headerSig
    [] recorded # Nothing -> recorded
    [] OTHER -> header
usesHeader == sourceText # Nothing /\ Includes(sourceText)

(* What the object is made of, as SCons sees it and as it is; a source file  *)
(* that is not there has the signature of an empty one.                      *)
MadeOf(h) == [text |-> sourceText, flags |-> flags, libs |-> libsTried,
              header |-> IF usesHeader THEN h ELSE Nothing]
ObjectCurrent_SameSource ==
  CASE mode = "force" -> FALSE
    [] mode = "cache" -> tested.object # Nothing
    [] OTHER -> tested.object # Nothing /\ tested.object.seen.text = sourceText
ObjectCurrent ==
  CASE mode = "force" -> FALSE
    [] mode = "cache" -> tested.object # Nothing
    [] OTHER -> tested.object # Nothing /\ tested.object.seen = MadeOf(headerSigSeen)

compiled == sourceText # Nothing /\ Works(sourceText, flags, libsTried, header)

(* set_build_result: the failure of a test is recorded as well. *)
objectEntry ==
  IF ObjectCurrent THEN tested.object
  ELSE [seen |-> MadeOf(headerSigSeen), was |-> MadeOf(header), result |-> compiled]

(* ConfigureCacheError: a test that was never made, and --config=cache. *)
NotCached == mode = "cache" /\ Nothing \in {tested.source, tested.object}

TryBuild ==
  /\ stage = "active" /\ place <= Len(script[context]) /\ ~NotCached
  /\ counter \in Numbers
  /\ sources' = [sources EXCEPT ![counter] = sourceText]
  /\ entries' = [entries EXCEPT ![counter] =
       [source |-> IF SourceCurrent THEN tested.source ELSE test.text,
        object |-> objectEntry]]
  /\ headerSig' = IF usesHeader THEN headerSigSeen ELSE headerSig
  /\ counter' = counter + 1 /\ place' = place + 1
  /\ answers' = Append(answers,
       [test |-> test, libs |-> libsTried, yes |-> objectEntry.result,
        misread |-> sourceText # test.text \/ objectEntry.seen # objectEntry.was
                    \/ (usesHeader /\ headerSigSeen # header)])
  (* A library that was not found is taken out of LIBS again. *)
  /\ libs' = IF objectEntry.result THEN libsTried ELSE libs
  /\ config_h_text' = Append(config_h_text, [test |-> test, yes |-> objectEntry.result])
  /\ UNCHANGED <<header, flags, script, database, mainTarget, stage, mode, context,
                 recorded, config_hs, confRuns, confEdits>>

(* The run ends with an error, or is killed: the database is not written. *)
ConfAbort ==
  /\ stage # "idle"
  /\ stage' = "idle" /\ answers' = <<>>
  /\ UNCHANGED <<projectVars, mode, context, place, entries, recorded, headerSig, counter,
                 libs, config_h_text, config_hs, confRuns, confEdits>>

(* The main target is built, the database written. *)
MainBuild ==
  /\ stage = "reading" /\ context > Len(script)
  /\ stage' = "idle"
  /\ LET sig == IF headerSig # Nothing THEN headerSig ELSE header
     IN /\ mainTarget' = IF mainTarget # Nothing /\ mainTarget.seen = sig THEN mainTarget
                         ELSE [seen |-> sig, was |-> header]
        /\ database' = [tests |-> entries, header |-> sig]
  /\ UNCHANGED <<header, flags, script, sources, mode, context, place, entries, recorded,
                 headerSig, counter, libs, answers, config_h_text, config_hs,
                 confRuns, confEdits>>

ConfOver == stage = "idle" /\ confRuns = MaxRuns /\ UNCHANGED confVars

ConfNext ==
  ConfEdit \/ ConfRun \/ Configure \/ Finish \/ TryBuild \/ ConfAbort \/ MainBuild \/ ConfOver

ConfSpec == ConfInit /\ [][ConfNext]_confVars

-----------------------------------------------------------------------------
Right(a) == a.yes = Works(a.test.text, flags, a.libs, header)

(* Each library of LIBS was found by one of the tests, in their order. *)
LibsInOrder ==
  LET found == {i \in DOMAIN answers : answers[i].yes /\ answers[i].test.lib # Nothing}
  IN \E by \in [DOMAIN libs -> found] :
       /\ \A i \in DOMAIN libs : libs[i] = answers[by[i]].test.lib
       /\ \A i \in DOMAIN libs, j \in DOMAIN libs : i < j => by[i] < by[j]
       /\ \A k \in found : \E i \in DOMAIN libs : by[i] = k

(* The answers of a run without --config=cache are right, but for two cases: *)
(* the source file was deleted or is another run's (its database entry is    *)
(* believed without a look at the file), and the header's signature is not   *)
(* its content's (max_drift 0), now or when the object was made.  LIBS has   *)
(* the libraries that were found, and config.h has every answer in order.    *)
AnswersExplained ==
  /\ mode # "cache" => \A i \in DOMAIN answers : answers[i].misread \/ Right(answers[i])
  /\ stage = "reading" =>
       /\ config_hs = [i \in DOMAIN answers |-> [test |-> answers[i].test,
                                                 yes |-> answers[i].yes]]
       /\ LibsInOrder

=============================================================================
