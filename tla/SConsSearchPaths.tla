-------------------------- MODULE SConsSearchPaths --------------------------
(* What a script prepares before it builds: the search path of the programs, *)
(* the flags it takes from command lines and "config" programs, the site     *)
(* directories that were loaded before it, and the names of its libraries.   *)
EXTENDS Integers, Sequences, SequencesExt, FiniteSets

CONSTANTS Paths,        \* sequences of [dir, spelled]: PATH as the script finds it
          NewPaths,     \* what it adds
          Holds,        \* directory -> set of programs
          Compilers,    \* the programs that a tool looks for, best first
          Flags,        \* sequences of [opt, rest]: a command line in words
          Given,        \* construction variable -> entries that it has at first
          SiteDirs,     \* the site directories, most general first
          Sites,        \* directory -> [init, tools], or None
          Libraries,    \* [kind, name, import, def]; a name is a sequence of its parts
          Conventions,  \* [shared, static, def : [pre, suf]]
          MaxCalls, None

SearchPathsAssumption ==
  /\ \A p \in Paths \cup NewPaths : \A i \in DOMAIN p : p[i].spelled \in {"plain", "dotted", "#"}
  /\ \A p \in Paths \cup NewPaths : \A i \in DOMAIN p : p[i].dir \in DOMAIN Holds
  /\ \A s \in Sites : \A d \in DOMAIN s : \E i \in DOMAIN SiteDirs : d = SiteDirs[i]

VARIABLES topic, calls, said,
          path,     \* ENV['PATH']
          last,     \* the last change of it: [op, new, delete, before]
          chosen,   \* the compiler that a tool set: [prog, dir]
          moved,    \* whether its search order changed since, in a way that may change dir
          flags,    \* construction variables -> entries, each a sequence of words
          merged,   \* the command lines that were merged
          sysPath, toolpath, exported, \* what the site directories gave
          sites, loading,
          targets,  \* file -> the library that it belongs to
          ixes,     \* the prefixes and suffixes of libraries
          asked,    \* the libraries that were declared
          refused   \* and that were not

pathVars == <<path, last, chosen, moved>>
siteVars == <<sysPath, toolpath, exported, sites, loading>>
nameVars == <<targets, ixes, asked, refused>>
searchVars == <<topic, calls, said, pathVars, flags, merged, siteVars, nameVars>>

Step(t) == topic = t /\ calls < MaxCalls[t] /\ said # "error" /\ calls' = calls + 1 /\ UNCHANGED topic

-----------------------------------------------------------------------------
(* An element is empty, or a directory in its normal form, or with "..", or  *)
(* below "#", which only _canonicalize understands.                          *)
IsEmpty(e) == e.dir = None
normpath(e) == IF e.spelled = "#" THEN <<"#", e.dir>> ELSE <<e.dir>>
_canonicalize(e) == IF e.spelled = "#" THEN [e EXCEPT !.spelled = "plain"] ELSE e
Canonical(new) == [i \in DOMAIN new |-> _canonicalize(new[i])]
Normals(es) == {normpath(e) : e \in Range(es)}
Missing(es, e) == ~IsEmpty(e) /\ normpath(e) \notin Normals(es)

(* The first of the elements that have one normal form. *)
First(es) == FoldLeft(LAMBDA found, e : IF Missing(found, e) THEN Append(found, e) ELSE found, <<>>, es)
NotEmpty(es) == SelectSeq(es, LAMBDA e : ~IsEmpty(e))

(* Without delete, the elements are put in front one by one, the last first. *)
PrependPath(old, new, delete) ==
  IF delete THEN First(new \o old)
  ELSE FoldRight(LAMBDA e, found : IF Missing(found, e) THEN <<e>> \o found ELSE found, new, First(old))

(* With delete, the last of the elements that have one normal form stays. *)
AppendPath(old, new, delete) ==
  IF delete THEN Reverse(First(Reverse(old \o new)))
  ELSE FoldLeft(LAMBDA found, e : IF Missing(found, e) THEN Append(found, e) ELSE found, NotEmpty(old), new)

AddPathIfNotExists(old, e) == IF e \in Range(old) THEN old ELSE <<e>> \o old

(* The file that is found is as its element is spelled; an empty element is  *)
(* the current directory.                                                    *)
Candidates(p, prog) == {i \in DOMAIN p : p[i].spelled # "#" /\ prog \in Holds[p[i].dir]}
FirstOf(p, found) == IF found = {} THEN None ELSE p[CHOOSE i \in found : \A j \in found : i <= j].dir
WhereIs(p, prog) == FirstOf(p, Candidates(p, prog))

(* A path to reject is compared as the element is spelled. *)
WhereIsNot(p, prog, reject) ==
  FirstOf(p, {i \in Candidates(p, prog) : ~(p[i].dir = reject /\ p[i].spelled = "plain")})

Available(p, progs) == {i \in DOMAIN progs : WhereIs(p, progs[i]) # None}
Detect(p, progs) ==
  IF Available(p, progs) = {} THEN None
  ELSE progs[CHOOSE i \in Available(p, progs) : \A j \in Available(p, progs) : i <= j]

Repeats(p) == \E i, j \in DOMAIN p : i # j /\ normpath(p[i]) = normpath(p[j])
Changed(op, new, delete, to) ==
  LET sameOrder == /\ op = "append" /\ \A e \in Range(path) : ~IsEmpty(e)
                   /\ delete => ~Repeats(path) /\ Normals(path) \cap Normals(Canonical(new)) = {}
  IN /\ Step("path")
     /\ path' = to /\ last' = [op |-> op, new |-> new, delete |-> delete, before |-> path]
     /\ moved' = (moved \/ ~sameOrder)
     /\ UNCHANGED <<said, chosen, flags, merged, siteVars, nameVars>>

PrependENVPath(new, delete) == Changed("prepend", new, delete, PrependPath(path, Canonical(new), delete))
AppendENVPath(new, delete) == Changed("append", new, delete, AppendPath(path, Canonical(new), delete))
AddENVPath(e) == Changed("add", <<e>>, FALSE, AddPathIfNotExists(path, e))

(* A tool's generate: env['CC'] = env.Detect(compilers) or compilers[0]. *)
SetCompiler ==
  LET prog == IF Detect(path, Compilers) = None THEN Compilers[1] ELSE Detect(path, Compilers)
  IN /\ Step("path") /\ chosen = None
     /\ chosen' = [prog |-> prog, dir |-> WhereIs(path, prog)] /\ moved' = FALSE
     /\ UNCHANGED <<said, path, last, flags, merged, siteVars, nameVars>>

-----------------------------------------------------------------------------
KEYS == {"ASFLAGS", "CFLAGS", "CCFLAGS", "CXXFLAGS", "CPPDEFINES", "CPPFLAGS", "CPPPATH", "FRAMEWORKPATH",
         "FRAMEWORKS", "LIBPATH", "LIBS", "LINKFLAGS", "RPATH"}
PATHS == {"CPPPATH", "FRAMEWORKPATH", "LIBPATH", "RPATH"}

(* Options whose argument may follow as a word of its own. *)
WithArgument == [L |-> "LIBPATH", l |-> "LIBS", I |-> "CPPPATH", D |-> "CPPDEFINES", F |-> "FRAMEWORKPATH",
                 framework |-> "FRAMEWORKS", dylib_file |-> "LINKFLAGS"]

(* Options that are kept together with their next word, and where. *)
Pairs == [include |-> {"CCFLAGS"}, isysroot |-> {"CCFLAGS", "LINKFLAGS"}, isystem |-> {"CCFLAGS"},
          iquote |-> {"CCFLAGS"}, idirafter |-> {"CCFLAGS"}, arch |-> {"CCFLAGS", "LINKFLAGS"}]

(* Options of one word; those that are not named go to the compiler. *)
Whole == [Wa |-> {"ASFLAGS", "CCFLAGS"}, Wl |-> {"LINKFLAGS"}, Wp |-> {"CPPFLAGS"}, rpath |-> {"RPATH"},
          pthread |-> {"CCFLAGS", "LINKFLAGS"}, plus |-> {"CCFLAGS", "LINKFLAGS"}, mwindows |-> {"LINKFLAGS"},
          std_c |-> {"CFLAGS"}, std_cxx |-> {"CXXFLAGS"}]
KeysOf(opt) == IF opt \in DOMAIN Whole THEN Whole[opt] ELSE {"CCFLAGS"}

Option(opt) == [opt |-> opt, rest |-> None]
Nowhere == [k \in KEYS |-> <<>>]
Into(dict, keys, entry) == [k \in KEYS |-> IF k \in keys THEN Append(dict[k], entry) ELSE dict[k]]

(* One word; next is the option that waits for its argument. *)
ParseWord(state, word) ==
  LET to(keys, entry) == [dict |-> Into(state.dict, keys, entry), next |-> None]
      opt == word.opt
  IN IF state.next # None
     THEN IF state.next \in DOMAIN Pairs THEN to(Pairs[state.next], <<Option(state.next), word>>)
          ELSE to({WithArgument[state.next]}, <<word>>)
     ELSE IF opt = "word" THEN to({"LIBS"}, <<[opt |-> "file", rest |-> word.rest]>>)
     ELSE IF opt \in DOMAIN Pairs THEN [state EXCEPT !.next = opt]
     ELSE IF opt \in DOMAIN WithArgument
     THEN IF word.rest # None THEN to({WithArgument[opt]}, <<[opt |-> "word", rest |-> word.rest]>>)
          ELSE [dict |-> IF opt = "dylib_file" THEN Into(state.dict, {"LINKFLAGS"}, <<word>>) ELSE state.dict,
                next |-> opt]
     ELSE to(KeysOf(opt), <<word>>)

Parsed(words) == FoldLeft(ParseWord, [dict |-> Nowhere, next |-> None], words)

(* Each string of the flags is parsed by itself: an option at its end is     *)
(* dropped when its argument is missing.                                     *)
ParseFlags(lines) ==
  [k \in KEYS |-> FlattenSeq([i \in DOMAIN lines |-> Parsed(lines[i]).dict[k]])]

FirstOnly(s) == FoldLeft(LAMBDA found, v : IF Contains(found, v) THEN found ELSE Append(found, v), <<>>, s)
LastOnly(s) == Reverse(FirstOnly(Reverse(s)))

(* A variable that gets nothing new is left as it is. *)
MergeFlags(env, dict, unique) ==
  [k \in KEYS |-> LET all == env[k] \o dict[k]
                  IN IF ~unique \/ dict[k] = <<>> THEN all
                     ELSE IF k \in PATHS THEN FirstOnly(all) ELSE LastOnly(all)]

(* Strings of flags and commands that print some: ParseConfig of a command,  *)
(* or MergeFlags of strings that begin with "!".  backtick raises OSError    *)
(* for a command that fails, whatever it printed.                            *)
backtick(status) == IF status # 0 THEN "OSError" ELSE "output"
Merge(lines, statuses, unique) ==
  LET failed == \E i \in DOMAIN lines : backtick(statuses[i]) = "OSError"
  IN /\ Step("flags")
     /\ said' = IF failed THEN "OSError" ELSE "merged"
     /\ flags' = IF failed THEN flags ELSE MergeFlags(flags, ParseFlags(lines), unique)
     /\ merged' = IF \E i \in DOMAIN lines : statuses[i] # 0 THEN merged ELSE merged \o lines
     /\ UNCHANGED <<pathVars, siteVars, nameVars>>

-----------------------------------------------------------------------------
(* _load_all_site_scons_dirs, or only the directory of --site-dir, which     *)
(* must be there.  What site_init.py defines is exported when it is through. *)
Next1 == Head(loading.left)
_load_site_scons_dir ==
  LET dir == sites[Next1]
      rest == [loading EXCEPT !.left = Tail(@), !.done = IF dir = None THEN @ ELSE Append(@, Next1)]
      init == dir.init
  IN /\ Step("site") /\ loading.left # <<>>
     /\ loading' = rest
     /\ IF dir = None
        THEN said' = (IF loading.must THEN "error" ELSE said) /\ UNCHANGED <<sysPath, exported, toolpath>>
        ELSE /\ sysPath' = <<Next1>> \o sysPath
             /\ said' = IF init # None /\ init.fails THEN "error" ELSE said
             /\ exported' = IF init = None \/ init.fails THEN exported
                            ELSE [n \in DOMAIN exported |-> IF n \in init.names THEN Next1 ELSE exported[n]]
             /\ toolpath' = IF dir.tools /\ ~(init # None /\ init.fails) THEN <<Next1>> \o toolpath ELSE toolpath
     /\ UNCHANGED <<sites, pathVars, flags, merged, nameVars>>

-----------------------------------------------------------------------------
(* Slices of a name: s[-0:] is all of s, and so is what s[:-0] takes away.   *)
LastParts(name, count) == IF count = 0 THEN name ELSE SubSeq(name, Len(name) - count + 1, Len(name))
HasSuffix(name, suffix) == Len(suffix) <= Len(name) /\ LastParts(name, Len(suffix)) = suffix

adjustixes(name, ix) ==
  LET prefixed == IF IsPrefix(ix.pre, name) THEN name ELSE ix.pre \o name
  IN IF ix.suf # <<>> /\ ~HasSuffix(prefixed, ix.suf) /\ ~Contains(prefixed, ".") THEN prefixed \o ix.suf
     ELSE prefixed

FindIxes(names, ix) == SelectSeq(names, LAMBDA n : IsPrefix(ix.pre, n) /\ HasSuffix(n, ix.suf))

ReplaceIxes(name, old, new) ==
  LET bare == IF IsPrefix(old.pre, name) THEN SubSeq(name, Len(old.pre) + 1, Len(name)) ELSE name
      base == IF HasSuffix(bare, old.suf) THEN SubSeq(bare, 1, Len(bare) - Len(old.suf)) ELSE bare
  IN new.pre \o base \o new.suf

(* mingw: a shared library comes with its import library and definitions,    *)
(* unless its name does not look like one.                                   *)
shlib_emitter(names, lib) ==
  LET dll == FindIxes(names, ixes.shared)
      more(ix, wanted) == IF ~wanted \/ FindIxes(names, ix) # <<>> THEN <<>>
                          ELSE <<ReplaceIxes(dll[1], ixes.shared, ix)>>
  IN IF dll = <<>> THEN <<>> ELSE names \o more(ixes.static, lib.import) \o more(ixes.def, lib.def)

FilesOf(lib) ==
  LET name == adjustixes(lib.name, IF lib.kind = "shared" THEN ixes.shared ELSE ixes.static)
  IN IF lib.kind = "shared" THEN shlib_emitter(<<name>>, lib) ELSE <<name>>

(* A file that another library has already is an error. *)
Library(lib) ==
  LET files == Range(FilesOf(lib))
      fine == files # {} /\ files \cap DOMAIN targets = {}
  IN /\ Step("names") /\ lib \notin asked
     /\ said' = IF fine THEN said ELSE "error"
     /\ targets' = IF fine THEN [f \in DOMAIN targets \cup files |-> IF f \in files THEN lib ELSE targets[f]]
                   ELSE targets
     /\ asked' = IF fine THEN asked \cup {lib} ELSE asked
     /\ refused' = IF fine THEN refused ELSE refused \cup {lib}
     /\ UNCHANGED <<ixes, pathVars, flags, merged, siteVars>>

-----------------------------------------------------------------------------
NoChange == [op |-> "none", new |-> <<>>, delete |-> FALSE, before |-> <<>>]
SearchInit ==
  /\ topic \in {"path", "flags", "site", "names"} /\ calls = 0 /\ said = None
  /\ path \in (IF topic = "path" THEN Paths ELSE {<<>>})
  /\ last = NoChange /\ chosen = None /\ moved = FALSE
  /\ flags = (IF topic = "flags" THEN Given ELSE Nowhere) /\ merged = <<>>
  /\ sysPath = <<>> /\ toolpath = <<>> /\ exported = [n \in {"x", "y"} |-> None]
  /\ sites \in (IF topic = "site" THEN Sites ELSE {None})
  /\ loading \in (IF topic = "site"
                  THEN {[left |-> SiteDirs, must |-> FALSE, done |-> <<>>],
                        [left |-> <<Last(SiteDirs)>>, must |-> TRUE, done |-> <<>>]}
                  ELSE {None})
  /\ targets = [f \in {} |-> None] /\ asked = {} /\ refused = {}
  /\ ixes \in (IF topic = "names" THEN Conventions ELSE {None})

SearchNext ==
  \/ \E new \in NewPaths, delete \in BOOLEAN : PrependENVPath(new, delete) \/ AppendENVPath(new, delete)
  \/ \E e \in UNION {Range(new) : new \in NewPaths} : AddENVPath(e)
  \/ SetCompiler
  \/ \E lines \in Flags, status \in {0, 1}, unique \in BOOLEAN :
       Merge(lines, [i \in DOMAIN lines |-> IF i = Len(lines) THEN status ELSE 0], unique)
  \/ _load_site_scons_dir
  \/ \E lib \in Libraries : Library(lib)

SearchSpec == SearchInit /\ [][SearchNext]_searchVars

-----------------------------------------------------------------------------
(* A compiler that a tool found is the one that its commands run, as long as *)
(* the path is only appended to; unless it had empty elements, which are     *)
(* dropped, or repeated ones, or the new ones, that delete moves.            *)
ChosenRuns ==
  (chosen # None /\ chosen.dir # None /\ ~moved) => WhereIs(path, chosen.prog) = chosen.dir

(* What is put in front is found first, unless it is to stay where it is, or *)
(* is given twice: then its last place counts, though the comment says its   *)
(* first.  "#" stands for the top directory.                                 *)
Place(e) == <<e.dir, e.spelled = "#">>
Places(es) == {Place(e) : e \in Range(es)}
Twice(es) == \E i, j \in DOMAIN es : i # j /\ Place(es[i]) = Place(es[j])
Meant(new) == [i \in DOMAIN new |-> [dir |-> new[i].dir, spelled |-> "plain"]]
PrependFinds ==
  last.op = "prepend" =>
    \/ ~last.delete /\ (Twice(last.new) \/ Places(Meant(last.new)) \cap Places(last.before) # {})
    \/ \A prog \in UNION {Holds[d] : d \in DOMAIN Holds} :
         LET wanted == WhereIs(NotEmpty(Meant(last.new)), prog)
         IN wanted # None => WhereIs(path, prog) = wanted

(* What is added stands at its end of the path, unless it is to stay where   *)
(* it is, and the rest is as it was.                                         *)
InPlace ==
  LET news == Places(NotEmpty(Meant(last.new)))
      dirs(es) == [i \in DOMAIN es |-> Place(es[i])]
      others(es) == SelectSeq(dirs(NotEmpty(es)), LAMBDA d : d \notin news)
      kept == others(last.before)
  IN (last.op \in {"prepend", "append"} /\ last.delete /\ ~Twice(last.before)) =>
       IF last.op = "prepend" THEN IsSuffix(kept, dirs(path)) /\ others(path) = kept
       ELSE IsPrefix(kept, dirs(path)) /\ others(path) = kept

(* No directory comes twice, unless it did before and stays, or is spelled   *)
(* in another way for AddPathIfNotExists.                                    *)
NoNewRepeats ==
  (last.op # "none" /\ Twice(NotEmpty(path))) =>
    \/ ~last.delete /\ last.op # "prepend" /\ Twice(NotEmpty(last.before))
    \/ last.op = "add" /\ \E e \in Range(last.before) : e # last.new[1] /\ Place(e) = Place(last.new[1])

(* A change that is made once more changes nothing. *)
SettlesAtOnce ==
  /\ last.op = "prepend" => PrependPath(path, Canonical(last.new), last.delete) = path
  /\ last.op = "append" => AppendPath(path, Canonical(last.new), last.delete) = path
  /\ last.op = "add" => AddPathIfNotExists(path, last.new[1]) = path

(* The program that was found can be rejected, unless ".." is in its element. *)
RejectWorks ==
  \A prog \in UNION {Holds[d] : d \in DOMAIN Holds} :
    LET found == WhereIs(path, prog)
    IN found # None => \/ WhereIsNot(path, prog, found) # found
                       \/ [dir |-> found, spelled |-> "dotted"] \in Range(path)

(* However they came and in how many merges, directories are searched in the *)
(* order in which they were first given, and other flags stand in the order  *)
(* in which they were last given; the flags of a failed command are not in.  *)
OrderKept ==
  topic = "flags" =>
    \A k \in KEYS :
      LET all == Given[k] \o ParseFlags(merged)[k]
      IN IF k \in PATHS THEN FirstOnly(flags[k]) = FirstOnly(all) ELSE LastOnly(flags[k]) = LastOnly(all)

(* An option and its argument stay side by side through every merge. *)
IsOption(line, i) == Parsed(SubSeq(line, 1, i - 1)).next = None
Waits(line, i) ==
  IsOption(line, i) /\ (line[i].opt \in DOMAIN Pairs \/ (line[i].opt \in DOMAIN WithArgument /\ line[i].rest = None))
PairsKept ==
  \A line \in Range(merged) : \A i \in DOMAIN line \ {Len(line)} :
    (IsOption(line, i) /\ line[i].opt \in DOMAIN Pairs) =>
      \A k \in Pairs[line[i].opt] :
        LET words == FlattenSeq(flags[k])
        IN \E j \in DOMAIN words \ {Len(words)} : words[j] = line[i] /\ words[j + 1] = line[i + 1]

(* No word is dropped, but an option at the end of a string that lacks its   *)
(* argument.                                                                 *)
Kept(word) ==
  \E k \in KEYS : \E entry \in Range(flags[k]) : \E w \in Range(entry) :
    w = word \/ (word.rest # None /\ w.opt \in {"word", "file"} /\ w.rest = word.rest)
NothingDropped == \A line \in Range(merged) : \A i \in DOMAIN line : Kept(line[i]) \/ Waits(line, i)

(* No option is taken for a directory, a library or a macro, but one that    *)
(* stands where the argument of another one is missing.                      *)
ArgumentsOnly ==
  \A k \in PATHS \cup {"LIBS", "FRAMEWORKS", "CPPDEFINES"} : \A entry \in Range(flags[k]) :
    LET w == entry[1]
    IN \/ w.opt \in {"word", "file", "rpath"}
       \/ \E line \in Range(merged) : \E i \in DOMAIN line \ {Len(line)} :
            line[i + 1] = w /\ line[i].opt \in DOMAIN WithArgument /\ line[i].rest = None

(* The most specific directory comes first, for modules, tools and names,    *)
(* and one whose site_init.py failed gives neither tools nor names.          *)
SpecificFirst ==
  topic = "site" =>
    LET through == SelectSeq(loading.done, LAMBDA d : sites[d].init = None \/ ~sites[d].init.fails)
        naming(n) == SelectSeq(through, LAMBDA d : sites[d].init # None /\ n \in sites[d].init.names)
    IN /\ sysPath = Reverse(loading.done)
       /\ toolpath = Reverse(SelectSeq(through, LAMBDA d : sites[d].tools))
       /\ \A n \in DOMAIN exported : exported[n] = IF naming(n) = <<>> THEN None ELSE Last(naming(n))
       /\ loading.left # <<>> /\ said # "error" => through = loading.done

(* A library is refused for its extension, where no suffix is set, or for a  *)
(* library whose name is the same without prefix and suffix; and one that is *)
(* declared has an import library from whose name its own can be told.       *)
Bare(lib) ==
  LET none == [pre |-> <<>>, suf |-> <<>>]
  IN ReplaceIxes(ReplaceIxes(adjustixes(lib.name, ixes.static), ixes.static, none), ixes.shared, none)
LibrariesNamed ==
  topic = "names" =>
    /\ \A r \in refused :
         \/ r.kind = "shared" /\ (Contains(r.name, ".") \/ ixes.shared.suf = <<>>)
         \/ \E a \in asked : Bare(a) = Bare(r)
    /\ \A a \in asked : (a.kind = "shared" /\ a.import) =>
         ReplaceIxes(FilesOf(a)[2], ixes.static, ixes.shared) = FilesOf(a)[1]

SearchPathsSafe == ChosenRuns /\ PrependFinds /\ InPlace /\ NoNewRepeats /\ SettlesAtOnce /\ RejectWorks /\ OrderKept
                   /\ PairsKept /\ NothingDropped /\ ArgumentsOnly /\ SpecificFirst
                   /\ LibrariesNamed

=============================================================================
