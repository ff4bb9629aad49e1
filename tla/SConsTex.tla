------------------------------- MODULE SConsTex -------------------------------
(* The LaTeX builders (Tool/tex.py, Scanner/LaTeX.py): the emitter that says *)
(* which files a document leaves behind, the loop that runs LaTeX and its    *)
(* helpers until nothing changes, for documents that share an environment    *)
(* and are built by several threads, and the scanner of the included files.  *)
(*                                                                           *)
(* A feature of a document is an index, a contents list, a nomenclature, a   *)
(* bibliography, a new glossary or references; it stands in the main file,   *)
(* in a file that is \include'd, or in one that is \import'ed.               *)
EXTENDS Integers, Sequences, SequencesExt, FiniteSets

CONSTANTS Docs, Texts,         \* documents; [features, main, import, empty, bad,
                               \* undefined]
          UserInputs,          \* values TEXINPUTS of the environment may have
          Trees, Main,         \* for the scanner: file -> [class, includes]; its first file
          Paths,               \* type -> env[var] and ENV[var] directories
          Extensions,          \* type -> extensions that are tried
          NoFile, Unset, LATEXRETRIES

Features == {"bib", "idx", "toc", "nlo", "new", "ref"}
Helpers == {"bib", "idx", "nlo", "new"}
TexAssumption ==
  /\ \A t \in Texts : /\ t.features \subseteq Features /\ t.bad \subseteq Helpers \cup {"latex"}
                      /\ t.main \cup t.import \cup t.empty \subseteq t.features
                      /\ t.main \cap t.import = {} /\ t.undefined \in BOOLEAN
  /\ LATEXRETRIES \in [Docs -> Nat \ {0}]
  /\ \A t \in Trees : Main \in DOMAIN t

VARIABLES text,                \* document -> what its files say
          newglossary_suffix,  \* the global list: whose \newglossary added a suffix
          emitted,             \* document -> features whose files are side effects
          must_rerun_latex,    \* the global flag
          pc, count, saved_hashes, already_bibtexed, result, run_flags,  \* of each document
          made,                \* what LaTeX wrote for a feature
          helped,              \* what the feature's helper made of it
          dvi, log,            \* what the last run of LaTeX had read; its warnings
          ENV, saved_env,      \* TEXINPUTS of the environment, and as each action saved it
          before,              \* history: TEXINPUTS before any build
          overlapped, failed, misplaced, leaked, ranOut,   \* history
          tree, flavour, queue, seen, nodes, includes   \* the scanner's

docVars == <<text, emitted>>
loopVars == <<count, saved_hashes, already_bibtexed, run_flags>>
fileVars == <<made, helped, dvi, log>>
envVars == <<ENV, saved_env, before>>
texHistory == <<overlapped, failed, misplaced, leaked, ranOut>>
scanVars == <<tree, flavour, queue, seen, nodes, includes>>
texVars == <<docVars, newglossary_suffix, must_rerun_latex, pc, result, loopVars, fileVars, envVars,
             texHistory, scanVars>>

(* generate_common: the actions, the flags (-recorder: LaTeX lists what it   *)
(* writes) and LATEXRETRIES.  Files of an earlier build may lie about.       *)
Old(d, there) == [f \in Features |-> IF there /\ f \in text[d].features THEN {"old"} ELSE NoFile]
SomeText == CHOOSE t \in Texts : TRUE
TexInit ==
  /\ tree \in Trees \cup {Unset} /\ ENV \in UserInputs /\ before = ENV
  /\ text \in [Docs -> Texts] /\ newglossary_suffix = {}
  /\ tree # Unset => text = [d \in Docs |-> SomeText]
  /\ emitted = [d \in Docs |-> {}] /\ must_rerun_latex = TRUE
  /\ pc = [d \in Docs |-> "none"] /\ count = [d \in Docs |-> 0]
  /\ saved_hashes = [d \in Docs |-> Unset] /\ already_bibtexed = [d \in Docs |-> FALSE]
  /\ result = [d \in Docs |-> 0] /\ run_flags = [d \in Docs |-> {}]
  /\ \E there \in BOOLEAN : made = [d \in Docs |-> Old(d, there)] /\ helped = made
  /\ dvi = [d \in Docs |-> Unset] /\ log = [d \in Docs |-> {}]
  /\ saved_env = [d \in Docs |-> Unset]
  /\ overlapped = {} /\ failed = [d \in Docs |-> {}] /\ misplaced = {} /\ leaked = FALSE
  /\ ranOut = {}
  /\ flavour = Unset /\ queue = <<>> /\ seen = {} /\ nodes = {} /\ includes = {}

-----------------------------------------------------------------------------
(* ScanFiles follows \include and \input; nothing that is imported is seen.  *)
(* The suffixes of new glossaries go to a list of the module's.  The .fls of *)
(* an earlier run names the other files that LaTeX wrote.                    *)
ScanFiles(d) == text[d].features \ text[d].import
tex_emitter_core(d) ==
  /\ tree = Unset /\ pc[d] = "none"
  /\ pc' = [pc EXCEPT ![d] = "ready"]
  /\ emitted' = [emitted EXCEPT ![d] = ScanFiles(d)]
  /\ newglossary_suffix' = newglossary_suffix \cup (IF "new" \in ScanFiles(d) THEN {d} ELSE {})
  /\ UNCHANGED <<text, must_rerun_latex, result, loopVars, fileVars, envVars, texHistory, scanVars>>

(* modify_env_var: the document's directory in front, once. *)
modify_env_var(d) == IF ENV = Unset THEN <<d>> ELSE <<d>> \o SelectSeq(ENV, LAMBDA p : p # d)

(* The task removes the target and its side effects; then the action notes   *)
(* the hashes.  A file that is missing and an empty one have the same.       *)
Hash(content) == IF content = NoFile THEN {} ELSE content
Busy == {d \in Docs : pc[d] \notin {"none", "ready", "done"}}
InternalLaTeXAuxAction(d) ==
  LET left == [f \in Features |-> NoFile]
      others == Busy \ {d}
  IN /\ pc[d] = "ready" /\ \A e \in Docs : pc[e] # "none"
     /\ made' = [made EXCEPT ![d] = left]
     /\ helped' = [helped EXCEPT ![d] = [f \in Features |-> IF f \in emitted[d] THEN NoFile ELSE @[f]]]
     /\ saved_env' = [saved_env EXCEPT ![d] = ENV] /\ ENV' = modify_env_var(d)
     /\ run_flags' = [run_flags EXCEPT ![d] = {"idx", "nlo"} \cap text[d].main]
     /\ saved_hashes' = [saved_hashes EXCEPT ![d] = [f \in Features |-> {}]]
     /\ must_rerun_latex' = TRUE
     /\ overlapped' = overlapped \cup (IF others = {} THEN {} ELSE others \cup {d})
     /\ pc' = [pc EXCEPT ![d] = "loop"]
     /\ UNCHANGED <<docVars, newglossary_suffix, result, count, already_bibtexed, dvi, log, before,
                    failed, misplaced, leaked, ranOut, scanVars>>

(* The end of the loop restores the environment; a program that fails ends   *)
(* the action without.  Without any run of LaTeX there is no result to return. *)
Loop(d) ==
  LET again == must_rerun_latex /\ count[d] < LATEXRETRIES[d]
  IN /\ pc[d] = "loop"
     /\ pc' = [pc EXCEPT ![d] = IF again THEN "latex" ELSE "done"]
     /\ ENV' = IF again THEN ENV ELSE saved_env[d]
     /\ result' = IF ~again /\ count[d] = 0 THEN [result EXCEPT ![d] = 1] ELSE result
     /\ misplaced' = misplaced \cup (IF again /\ (ENV = Unset \/ Head(ENV) # d) THEN {d} ELSE {})
     /\ ranOut' = ranOut \cup (IF must_rerun_latex /\ ~again THEN {d} ELSE {})
     /\ UNCHANGED <<docVars, newglossary_suffix, must_rerun_latex, loopVars, fileVars,
                    saved_env, before, overlapped, failed, leaked, scanVars>>
GiveUp(d, fails, next) ==
  /\ pc' = [pc EXCEPT ![d] = IF fails THEN "done" ELSE next]
  /\ leaked' = (leaked \/ fails)

(* LaTeX itself: it lays out what its inputs give it and writes, for every   *)
(* feature, what depends on the layout.                                      *)
Input(d, f) == IF f \in Helpers THEN helped[d][f] ELSE made[d][f]
Read(d) == [f \in text[d].features |-> Input(d, f)]
Written(d) ==
  LET layout == {f \in text[d].features : Hash(Input(d, f)) # {}}
  IN [f \in Features |-> IF f \notin text[d].features THEN made[d][f]
                         ELSE IF f \in text[d].empty THEN {}
                         ELSE IF f = "bib" THEN {"cited"} ELSE {"entries"} \cup layout]
Log(d) ==
  (IF "ref" \in text[d].features /\ Written(d)["ref"] # made[d]["ref"] THEN {"rerun"} ELSE {})
  \cup (IF text[d].undefined \/ ("bib" \in text[d].features /\ Input(d, "bib") = NoFile)
        THEN {"undefined"} ELSE {})
RunLaTeX(d) ==
  LET fails == "latex" \in text[d].bad
  IN /\ pc[d] = "latex" /\ GiveUp(d, fails, "bib")
     /\ made' = [made EXCEPT ![d] = Written(d)] /\ dvi' = [dvi EXCEPT ![d] = Read(d)]
     /\ log' = [log EXCEPT ![d] = Log(d)]
     /\ count' = [count EXCEPT ![d] = IF fails THEN @ ELSE @ + 1]
     /\ must_rerun_latex' = (fails /\ must_rerun_latex)
     /\ result' = [result EXCEPT ![d] = IF fails THEN 1 ELSE 0]
     /\ failed' = [failed EXCEPT ![d] = IF fails THEN @ \cup {"latex"} ELSE @]
     /\ UNCHANGED <<docVars, newglossary_suffix, saved_hashes, already_bibtexed, run_flags, helped,
                    envVars, overlapped, misplaced, ranOut, scanVars>>

(* A helper fails when its input does not exist or is bad. *)
Works(d, f) == f \notin text[d].bad /\ made[d][f] # NoFile
Help(d, f, does) ==
  /\ helped' = IF does /\ Works(d, f) THEN [helped EXCEPT ![d][f] = made[d][f]] ELSE helped
  /\ failed' = IF does /\ ~Works(d, f) THEN [failed EXCEPT ![d] = @ \cup {f}] ELSE failed
  /\ result' = IF does THEN [result EXCEPT ![d] = IF Works(d, f) THEN 0 ELSE 1] ELSE result
  /\ UNCHANGED <<docVars, newglossary_suffix, count, run_flags, made, dvi, log, envVars, overlapped,
                 misplaced, ranOut, scanVars>>

(* BibTeX, once for each .aux that says bibdata. *)
BibTeX(d) ==
  LET does == ~already_bibtexed[d] /\ "bib" \in text[d].features
  IN /\ pc[d] = "bib" /\ GiveUp(d, FALSE, "idx") /\ Help(d, "bib", does)
     /\ already_bibtexed' = [already_bibtexed EXCEPT ![d] = TRUE]
     /\ must_rerun_latex' = (does \/ must_rerun_latex)
     /\ UNCHANGED saved_hashes

(* check_MD5, and the program of the feature when its file has changed or    *)
(* the first run ought to have written it; an index that fails ends it all.  *)
Changed(d, f) == saved_hashes[d][f] # Hash(made[d][f])
check_MD5(d, f) ==
  /\ saved_hashes' = [saved_hashes EXCEPT ![d][f] = Hash(made[d][f])]
  /\ must_rerun_latex' = (Changed(d, f) \/ must_rerun_latex)

After == [idx |-> "toc", toc |-> "nlo", nlo |-> "new"]
MakeIndex(d, f) ==
  LET does == f # "toc" /\ (Changed(d, f) \/ (count[d] = 1 /\ f \in run_flags[d]))
  IN /\ pc[d] = f /\ check_MD5(d, f) /\ Help(d, f, does)
     /\ GiveUp(d, f = "idx" /\ does /\ ~Works(d, f), After[f])
     /\ UNCHANGED already_bibtexed

(* MakeNewGlossary: for every suffix of the module's list, whoever put it    *)
(* there, in the first run or when the file has changed.                     *)
MakeNewGlossary(d) ==
  LET does == newglossary_suffix # {} /\ (count[d] = 1 \/ Changed(d, "new"))
  IN /\ pc[d] = "new" /\ Help(d, "new", does)
     /\ IF newglossary_suffix # {} THEN check_MD5(d, "new")
        ELSE UNCHANGED <<saved_hashes, must_rerun_latex>>
     /\ GiveUp(d, does /\ ~Works(d, "new"), "warnings")
     /\ UNCHANGED already_bibtexed

Warnings(d) ==
  /\ pc[d] = "warnings" /\ pc' = [pc EXCEPT ![d] = "loop"]
  /\ must_rerun_latex' = (log[d] # {} \/ must_rerun_latex)
  /\ UNCHANGED <<docVars, newglossary_suffix, result, loopVars, fileVars, envVars, texHistory,
                 scanVars>>

-----------------------------------------------------------------------------
(* find_include: the main file's directory, env[var], ENV[var], each with    *)
(* the subdirectory of the import.                                           *)
Found(T, type, subdir, name) ==
  LET dirs == <<Main[1]>> \o Paths[type]
      Candidates == {<<e, i>> \in (DOMAIN Extensions[type]) \X (DOMAIN dirs) :
                       <<dirs[i] \o subdir, name, Extensions[type][e]>> \in DOMAIN T}
      First(c) == \A b \in Candidates : c[1] < b[1] \/ (c[1] = b[1] /\ c[2] <= b[2])
      best == CHOOSE c \in Candidates : First(c)
  IN IF Candidates = {} THEN NoFile
     ELSE <<dirs[best[2]] \o subdir, name, Extensions[type][best[1]]>>

(* scan: the includes of a file, kept with the subdirectory of the first     *)
(* import that led to it.                                                    *)
Fresh(T, f, subdir) == [i \in DOMAIN T[f].includes |->
                          [T[f].includes[i] EXCEPT !.subdir = subdir \o @]]
Known(f) == \E m \in includes : m[1] = f
scan(f, subdir) == IF Known(f) THEN (CHOOSE m \in includes : m[1] = f)[2] ELSE Fresh(tree, f, subdir)

ScanMain ==
  /\ tree # Unset /\ includes = {}
  /\ queue' = Fresh(tree, Main, <<>>) /\ includes' = {<<Main, queue'>>}
  /\ UNCHANGED <<docVars, newglossary_suffix, must_rerun_latex, pc, result, loopVars, fileVars,
                 envVars, texHistory, tree, flavour, seen, nodes>>

(* scan_recurse: what was included last comes first; a name is looked up once. *)
scan_recurse ==
  LET i == Last(queue)
      n == Found(tree, i.type, i.subdir, i.name)
      new == i.name \notin seen /\ n # NoFile
  IN /\ queue # <<>>
     /\ queue' = Front(queue) \o (IF new THEN scan(n, i.subdir) ELSE <<>>)
     /\ seen' = seen \cup {i.name}
     /\ nodes' = IF new THEN nodes \cup {n} ELSE nodes
     /\ includes' = IF new /\ ~Known(n) THEN includes \cup {<<n, scan(n, i.subdir)>>} ELSE includes
     /\ UNCHANGED <<docVars, newglossary_suffix, must_rerun_latex, pc, result, loopVars, fileVars,
                    envVars, texHistory, tree, flavour>>

(* is_LaTeX: the file, or one it \includes or \inputs, names a class; an     *)
(* include that is not found leaves the last answer, or none at all.         *)
Included(f) == SelectSeq(tree[f].includes, LAMBDA i : i.type \in {"include", "input"})
is_LaTeX ==
  LET TeX(i) == Found(tree, i.type, <<>>, i.name)
      is[n \in 0 .. Cardinality(DOMAIN tree)] ==
        [f \in DOMAIN tree |->
           IF tree[f].class THEN "LaTeX"
           ELSE IF n = 0 \/ Included(f) = <<>> THEN "TeX"
           ELSE IF TeX(Included(f)[1]) = NoFile THEN "UnboundLocalError"
           ELSE LET Answers == {k \in DOMAIN Included(f) :
                                  TeX(Included(f)[k]) # NoFile /\ is[n - 1][TeX(Included(f)[k])] # "TeX"}
                IN IF Answers = {} THEN "TeX"
                   ELSE is[n - 1][TeX(Included(f)[CHOOSE k \in Answers : \A j \in Answers : k <= j])]]
  IN is[Cardinality(DOMAIN tree)][Main]
TeXLaTeXFunction ==
  /\ includes # {} /\ queue = <<>> /\ flavour = Unset
  /\ flavour' = is_LaTeX
  /\ UNCHANGED <<docVars, newglossary_suffix, must_rerun_latex, pc, result, loopVars, fileVars,
                 envVars, texHistory, tree, queue, seen, nodes, includes>>

TexNext ==
  \/ \E d \in Docs :
       \/ tex_emitter_core(d) \/ InternalLaTeXAuxAction(d) \/ Loop(d) \/ RunLaTeX(d) \/ BibTeX(d)
       \/ \E f \in {"idx", "toc", "nlo"} : MakeIndex(d, f)
       \/ MakeNewGlossary(d) \/ Warnings(d)
  \/ ScanMain \/ scan_recurse \/ TeXLaTeXFunction

-----------------------------------------------------------------------------
(* A document that counts as built is final: another run of LaTeX would read *)
(* what the last one read and write what it wrote.  Not so when the retries  *)
(* ran out, a helper's failure was forgotten, or another document of the     *)
(* same process was in its loop.                                             *)
DocumentFinal ==
  \A d \in Docs : pc[d] = "done" /\ result[d] = 0 /\ d \notin overlapped
                  /\ d \notin ranOut /\ failed[d] = {} =>
    /\ \A f \in text[d].features : Hash(dvi[d][f]) = Hash(Input(d, f))
    /\ \A f \in text[d].features : Hash(Written(d)[f]) = Hash(made[d][f])
    /\ \A f \in (text[d].features \cap Helpers) \ ({"new"} \cap text[d].import) :
         Hash(helped[d][f]) = Hash(made[d][f])

(* A document fails by a program that its own text made fail, or because     *)
(* another document of the process has a \newglossary or cleared the flag.   *)
OwnFailures ==
  \A d \in Docs : result[d] # 0 => \/ failed[d] \cap text[d].bad # {}
                                   \/ newglossary_suffix \notin {{}, {d}}
                                   \/ (count[d] = 0 /\ d \in overlapped)

(* LaTeX runs with the document's own directory first, and the environment   *)
(* is left as it was, unless documents overlapped or an action gave up.      *)
InputsRestored ==
  /\ misplaced \subseteq overlapped
  /\ Busy = {} => ENV = before \/ leaked \/ overlapped # {}

(* The scanner finds what LaTeX reads, unless two includes differ in more    *)
(* than the name or a file is imported into two directories.                 *)
Reached(types) ==
  LET Lines(r) == SelectSeq(Fresh(tree, r[2], r[3]), LAMBDA i : i.type \in types)
      Deeper(R) == R \cup UNION {{<<i, Found(tree, i.type, i.subdir, i.name), i.subdir>> :
                                    i \in ToSet(Lines(r))} : r \in {s \in R : s[2] # NoFile}}
      reach[n \in 0 .. Cardinality(DOMAIN tree)] ==
        IF n = 0 THEN {<<[name |-> Main[2]], Main, <<>>>>} ELSE Deeper(reach[n - 1])
  IN reach[Cardinality(DOMAIN tree)]
IncludesFound ==
  includes # {} /\ queue = <<>> =>
    LET R == Reached(DOMAIN Paths)
    IN \/ {r[2] : r \in R} \ {Main, NoFile} \subseteq nodes
       \/ \E r, s \in R : r[1].name = s[1].name /\ r[1] # s[1]
FlavourRight ==
  flavour # Unset =>
    \/ flavour = "UnboundLocalError"
    \/ (flavour = "LaTeX") <=> \E r \in Reached({"include", "input"}) : r[2] # NoFile /\ tree[r[2]].class

TexSafe == DocumentFinal /\ OwnFailures /\ InputsRestored /\ IncludesFound /\ FlavourRight
=============================================================================
