------------------------------ MODULE SConsTools ------------------------------
(* Versioned shared libraries, their installation, the install sandbox, the  *)
(* copy of a directory and smart_link (Tool/__init__.py, link.py and         *)
(* install.py).  A behaviour is about one of these topics.                   *)
EXTENDS Integers, Sequences, SequencesExt, FiniteSets

CONSTANTS Libraries,   \* SharedLibrary calls: [name, suffix, version, nolinks]
          UserFiles,   \* what lies in the library's directory before
          Sandbox,     \* values of --install-sandbox, or Unset
          Destinations,\* [node, abs, top, elements] of an Install or InstallAs
          Trees,       \* directory contents: functions from paths to "dir" or "file"
          Sources,     \* program -> languages of its sources
          Unset,
          MaxSteps     \* topic -> number of calls

Dirs == {"b", "i"}       \* where libraries are built, and where they are installed
ToolsAssumption ==
  /\ \A l \in Libraries : l.version # <<>> /\ l.nolinks \in BOOLEAN
  /\ \A t \in Trees : \A p \in DOMAIN t : Len(p) > 1 => t[Front(p)] = "dir"

VARIABLES topic, steps,
          disk,      \* place -> what is there, in the directories of the libraries
          declared,  \* this run's targets: place -> [links, from, early]
          clean,     \* CleanTargets of this run
          touched,   \* history: place -> the links that its builds and cleanings touched
          built,     \* history: place -> links, of the targets built and not cleaned since
          said,      \* the last result
          lost,      \* history: regular files that something took away
          option,    \* --install-sandbox
          BaseInstallBuilder, \* the directory of InstallAs targets, once it exists
          installed, \* _INSTALLED_FILES with what was asked: [where, as, dest, cwd]
          unique,    \* _UNIQUE_INSTALLED_FILES
          tree,      \* the destination of a directory's copy
          LINKCOM, signed, ran, asked

libraryVars == <<disk, declared, clean, touched, built, lost>>
sandboxVars == <<option, BaseInstallBuilder, installed, unique>>
linkVars == <<LINKCOM, signed, ran, asked>>
toolsVars == <<topic, steps, said, libraryVars, sandboxVars, tree, linkVars>>

NoEntry == [kind |-> "none"]
RegularFile == [kind |-> "file"]
Symlink(to) == [kind |-> "link", to |-> to]
Empty == [x \in {} |-> x]
Said(what, node) == [what |-> what, node |-> node]

-----------------------------------------------------------------------------
(* link.py: the names of a versioned library, as sequences of their parts.   *)
major(version) ==
  LET dots == {i \in DOMAIN version : version[i] = "."}
  IN IF dots = {} THEN version ELSE SubSeq(version, 1, Min(dots) - 1)

versioned_lib_suffix(l) ==
  IF IsSuffix(l.version, l.suffix) THEN l.suffix ELSE l.suffix \o <<".">> \o l.version

(* Builder._adjustixes: a name that has an extension gets no suffix. *)
LibName(l) == IF Contains(l.name, ".") THEN l.name ELSE l.name \o versioned_lib_suffix(l)

versioned_lib_name(l) ==
  LET name == LibName(l)
      suffix == versioned_lib_suffix(l)
  IN IF IsSuffix(suffix, name) THEN SubSeq(name, 1, Len(name) - Len(suffix)) \o l.suffix ELSE name

versioned_lib_soname(l) == versioned_lib_name(l) \o <<".">> \o major(l.version)

(* _versioned_lib_symlinks, as _LibSymlinkGenerator calls it. *)
symlinks(l) ==
  LET soname == versioned_lib_soname(l)
      name == versioned_lib_name(l)
  IN IF l.nolinks THEN <<>>
     ELSE IF soname = LibName(l) THEN <<name>> ELSE <<soname, name>>

Names == {LibName(l) : l \in Libraries} \cup UNION {Range(symlinks(l)) : l \in Libraries}
Places == Dirs \X Names

ToolsInit ==
  /\ topic \in {"library", "sandbox", "tree", "linking"} /\ steps = 0
  /\ said = Said(Unset, Unset)
  /\ \E mine \in (IF topic = "library" THEN UserFiles ELSE {{}}) :
       disk = [p \in Places |-> IF p[1] = "b" /\ p[2] \in mine THEN RegularFile ELSE NoEntry]
  /\ declared = Empty /\ clean = Empty
  /\ touched = Empty /\ built = Empty /\ lost = {}
  /\ option \in (IF topic = "sandbox" THEN Sandbox ELSE {Unset})
  /\ BaseInstallBuilder = Unset /\ installed = <<>> /\ unique = Unset
  /\ tree \in (IF topic = "tree" THEN Trees ELSE {Empty})
  /\ LINKCOM = "LINK" /\ signed = Empty /\ ran = Empty /\ asked = {}

Step(t) == topic = t /\ steps < MaxSteps[t] /\ steps' = steps + 1 /\ UNCHANGED topic

-----------------------------------------------------------------------------
Effects == UNION {Range(declared[p].links) : p \in {q \in DOMAIN declared : ~declared[q].early}}

(* Builder and SideEffect refuse a target that is a side effect, and a side  *)
(* effect that is a target, its own target too: the emitter runs while the   *)
(* new target has a builder.  The script ends.                               *)
Declare(node, links, from, early) ==
  LET emitted == IF early THEN {} ELSE Range(links)
      others == emitted \cup {node}
      New(p) == IF p = node THEN emitted ELSE {}
  IN /\ node \notin DOMAIN declared
     /\ IF node \in Effects \/ emitted \cap (DOMAIN declared \cup {node}) # {}
        THEN declared' = Empty /\ clean' = Empty /\ said' = [what |-> "refused", node |-> node, others |-> DOMAIN declared]
        ELSE /\ declared' = [p \in DOMAIN declared \cup {node} |->
                               IF p = node THEN [links |-> links, from |-> from, early |-> early]
                               ELSE declared[p]]
             /\ clean' = [p \in DOMAIN declared' |->
                            New(p) \cup (IF p \in DOMAIN clean THEN clean[p] ELSE {})]
             /\ said' = Said("declared", node)
     /\ UNCHANGED <<disk, touched, built, lost, sandboxVars, tree, linkVars>>

SharedLibrary(l) ==
  Step("library")
  /\ Declare(<<"b", LibName(l)>>, [i \in DOMAIN symlinks(l) |-> <<"b", symlinks(l)[i]>>], Unset, FALSE)

(* listShlibLinksToInstall asks the library for its links when it is called: *)
(* an installation that comes before the library declares none, and makes    *)
(* them nevertheless.                                                        *)
InstallVersionedLib(l) ==
  Step("library")
  /\ Declare(<<"i", LibName(l)>>, [i \in DOMAIN symlinks(l) |-> <<"i", symlinks(l)[i]>>],
             <<"b", LibName(l)>>, <<"b", LibName(l)>> \notin DOMAIN declared)

(* CreateLibSymlinks: an old link goes, and anything else stops it. *)
CreateLibSymlinks(d, links, node) ==
  FoldLeft(LAMBDA so, link :
             IF ~so.ok \/ so.disk[link].kind = "file" THEN [so EXCEPT !.ok = FALSE]
             ELSE [so EXCEPT !.disk[link] = Symlink(node)],
           [disk |-> d, ok |-> TRUE], links)

Touch(node, places) ==
  touched' = [p \in DOMAIN touched \cup {node} |->
                (IF p = node THEN places \cup {node} ELSE {})
                \cup (IF p \in DOMAIN touched THEN touched[p] ELSE {})]

(* ShLinkAction and LibSymlinksAction, or copyFuncVersionedLib, which makes  *)
(* the links that the library has by now.                                    *)
Build(node) ==
  LET from == declared[node].from
      known == from = Unset \/ from \in DOMAIN declared
      links == IF known THEN declared[node].links ELSE <<>>
      made == CreateLibSymlinks([disk EXCEPT ![node] = RegularFile], links, node)
  IN /\ Step("library")
     /\ from # Unset => disk[from] = RegularFile
     /\ disk' = made.disk
     /\ said' = Said(IF made.ok THEN "built" ELSE "failed", node)
     /\ built' = [p \in (DOMAIN built \ {node}) \cup (IF made.ok THEN {node} ELSE {}) |->
                    IF p = node THEN Range(links) ELSE built[p]]
     /\ Touch(node, Range(links))
     /\ lost' = lost \cup {p \in Places \ {node} : disk[p] = RegularFile /\ made.disk[p] # RegularFile}
     /\ UNCHANGED <<declared, clean, sandboxVars, tree, linkVars>>

(* CleanTask.remove: the target and its CleanTargets. *)
Clean(node) ==
  /\ Step("library")
  /\ disk' = [p \in Places |-> IF p \in clean[node] \cup {node} THEN NoEntry ELSE disk[p]]
  /\ said' = Said("cleaned", node)
  /\ built' = [p \in DOMAIN built \ {node} |-> built[p]]
  /\ Touch(node, clean[node])
  /\ UNCHANGED <<declared, clean, lost, sandboxVars, tree, linkVars>>

(* The next scons run reads other scripts. *)
NewRun ==
  /\ Step("library") /\ declared # Empty
  /\ declared' = Empty /\ clean' = Empty /\ said' = Said("run", Unset)
  /\ UNCHANGED <<disk, touched, built, lost, sandboxVars, tree, linkVars>>

-----------------------------------------------------------------------------
Top == <<"w">>           \* the directory of the SConstruct
Normal(elements) ==
  FoldLeft(LAMBDA outs, d : IF d = ".." THEN (IF outs = <<>> THEN outs ELSE Front(outs))
                            ELSE Append(outs, d), <<>>, elements)
Resolve(cwd, name) ==
  Normal(IF name.abs THEN name.elements ELSE (IF name.top THEN Top ELSE cwd) \o name.elements)
DestDir(cwd) == IF option = Unset THEN Unset ELSE Resolve(cwd, option)

(* DESTDIR_factory: absolute names become relative to the sandbox; a Node is *)
(* taken as it is (arg2nodes), and '#' still means the top directory.        *)
Destination(box, cwd, dest) ==
  IF dest.node \/ box = Unset THEN Resolve(cwd, dest)
  ELSE Resolve(box, [dest EXCEPT !.abs = FALSE])

(* The first call applies the install tool, which makes BaseInstallBuilder;  *)
(* Install looks the sandbox up again in each call, InstallAs does not.      *)
Install(as, cwd, dest) ==
  /\ Step("sandbox")
  /\ BaseInstallBuilder' = IF BaseInstallBuilder = Unset THEN DestDir(cwd) ELSE BaseInstallBuilder
  /\ LET box == IF as THEN BaseInstallBuilder' ELSE DestDir(cwd)
         where == Destination(box, cwd, dest)
     IN /\ installed' = Append(installed, [where |-> where, as |-> as, dest |-> dest, cwd |-> cwd])
        /\ said' = Said("installed", where)
  /\ unique' = Unset
  /\ UNCHANGED <<option, libraryVars, tree, linkVars>>

FindInstalledFiles ==
  /\ Step("sandbox")
  /\ unique' = IF unique = Unset THEN {installed[i].where : i \in DOMAIN installed} ELSE unique
  /\ said' = Said("found", unique')
  /\ UNCHANGED <<option, BaseInstallBuilder, installed, libraryVars, tree, linkVars>>

-----------------------------------------------------------------------------
(* scons_copytree: a directory is made where nothing is, copy2 copies a file *)
(* over a file and into a directory; an error does not stop the rest.        *)
CopyEntry(source, so, p) ==
  LET there == IF p \in DOMAIN so.tree THEN so.tree[p] ELSE "none"
      into == IF there = "dir" THEN Append(p, Last(p)) ELSE p
      With(q, kind) == [x \in DOMAIN so.tree \cup {q} |-> IF x = q THEN kind ELSE so.tree[x]]
      parent == IF Len(p) = 1 THEN "dir"
                ELSE IF Front(p) \in DOMAIN so.tree THEN so.tree[Front(p)] ELSE "none"
  IN IF there = "none" /\ parent # "dir" THEN [so EXCEPT !.ok = FALSE]
     ELSE IF source[p] = "file"
     THEN IF into \in DOMAIN so.tree /\ so.tree[into] = "dir" THEN [so EXCEPT !.ok = FALSE]
          ELSE [so EXCEPT !.tree = With(into, "file")]
     ELSE IF there = "none" THEN [so EXCEPT !.tree = With(p, "dir")] ELSE so

copytree(source, dest) ==
  FoldLeft(LAMBDA so, p : CopyEntry(source, so, p), [tree |-> dest, ok |-> TRUE],
           SetToSortSeq(DOMAIN source, LAMBDA p, q : Len(p) < Len(q)))

InstallDirectory(source) ==
  LET so == copytree(source, tree)
  IN /\ Step("tree")
     /\ tree' = so.tree
     /\ said' = [what |-> IF so.ok THEN "copied" ELSE "failed", node |-> source, before |-> tree]
     /\ UNCHANGED <<libraryVars, sandboxVars, linkVars>>

-----------------------------------------------------------------------------
(* smart_link: the compiler that links, by the languages of the sources.     *)
smart_link(p) ==
  IF "D" \in Sources[p] THEN "$DC" ELSE IF "C++" \in Sources[p] THEN "$CXX"
  ELSE IF "Fortran" \in Sources[p] THEN "$FORTRAN" ELSE "$CC"

Linker(p) == IF LINKCOM = "DLINK" THEN "$DC" ELSE smart_link(p)

(* Expanding $LINKCOM calls smart_link, which sets LINKCOM for the           *)
(* environment once a D program is asked about.                              *)
Expand(p) ==
  /\ LINKCOM' = IF LINKCOM = "LINK" /\ "D" \in Sources[p] THEN "DLINK" ELSE LINKCOM
  /\ asked' = asked \cup {p}

(* The command is expanded once to decide and once to run it. *)
Decide(p) ==
  /\ Step("linking") /\ p \notin DOMAIN signed
  /\ signed' = [q \in DOMAIN signed \cup {p} |->
                  IF q = p THEN [com |-> LINKCOM, by |-> Linker(p), seen |-> asked] ELSE signed[q]]
  /\ Expand(p)
  /\ UNCHANGED <<ran, said, libraryVars, sandboxVars, tree>>

Link(p) ==
  /\ Step("linking") /\ p \in DOMAIN signed \ DOMAIN ran
  /\ ran' = [q \in DOMAIN ran \cup {p} |->
               IF q = p THEN [com |-> LINKCOM, by |-> Linker(p), seen |-> asked] ELSE ran[q]]
  /\ Expand(p)
  /\ UNCHANGED <<signed, said, libraryVars, sandboxVars, tree>>

ToolsNext ==
  \/ \E l \in Libraries : SharedLibrary(l) \/ InstallVersionedLib(l)
  \/ \E p \in DOMAIN declared : Build(p) \/ Clean(p)
  \/ NewRun
  \/ \E as \in BOOLEAN, cwd \in {Top, Top \o <<"s">>}, dest \in Destinations : Install(as, cwd, dest)
  \/ FindInstalledFiles
  \/ \E source \in Trees : InstallDirectory(source)
  \/ \E p \in DOMAIN Sources : Decide(p) \/ Link(p)

ToolsSpec == ToolsInit /\ [][ToolsNext]_toolsVars

-----------------------------------------------------------------------------
(* What a build linked to still leads to it, unless another library or       *)
(* installation that uses the same name was built or cleaned.                *)
LinksLeadToLibrary ==
  \A n \in DOMAIN built : \A l \in built[n] :
    \/ disk[l] = Symlink(n) /\ disk[n] = RegularFile
    \/ \E m \in DOMAIN touched \ {n} : {l, n} \cap touched[m] # {}

(* -c leaves nothing of what was made for a target, unless it was declared   *)
(* with other links than it was built with, or before its library.           *)
CleanIsComplete ==
  said.what = "cleaned" =>
    LET n == said.node
    IN \A p \in touched[n] : \/ disk[p] = NoEntry
                             \/ declared[n].early \/ p \notin Range(declared[n].links)

(* A build that fails, fails because a regular file has the name of a link;  *)
(* such a file is never taken away to make the link (the comment in          *)
(* CreateLibSymlinks).                                                       *)
OnlyLinksReplaced ==
  /\ lost = {}
  /\ said.what = "failed" /\ topic = "library" =>
       \E l \in Range(declared[said.node].links) : disk[l] = RegularFile

(* A library is refused only when its own name is that of its link, or a     *)
(* link of one has the name of another in the same directory.                *)
OrdinaryLibrariesAccepted ==
  said.what = "refused" =>
    \E l \in Libraries :
      /\ said.node[2] = LibName(l)
      /\ \/ versioned_lib_name(l) = LibName(l)
         \/ \E k \in Libraries : /\ <<said.node[1], LibName(k)>> \in said.others
                                /\ \/ LibName(k) \in Range(symlinks(l))
                                   \/ LibName(l) \in Range(symlinks(k))

(* --install-sandbox: "A directory under which all installed files will be   *)
(* placed": true of what is named by a string without '#' and '..', where    *)
(* every script means the same directory by the option.                      *)
InstalledInSandbox ==
  option # Unset =>
    \A i \in DOMAIN installed :
      \/ IsPrefix(Resolve(Top, option), installed[i].where)
      \/ installed[i].dest.node \/ installed[i].dest.top
      \/ Contains(installed[i].dest.elements, "..")
      \/ ~option.abs /\ (installed[i].cwd # Top \/ (installed[i].as /\ installed[1].cwd # Top))

(* FindInstalledFiles knows every installed file at the time of the call.    *)
AllInstalledFound ==
  said.what = "found" => said.node = {installed[i].where : i \in DOMAIN installed}

(* A directory that was copied without an error is at its destination; but   *)
(* nobody is told of an empty directory over a file, nor of a file over a    *)
(* directory, into which it is copied.                                       *)
TreeIsCopied ==
  said.what = "copied" =>
    /\ \A p \in DOMAIN said.node :
         \/ p \in DOMAIN tree /\ tree[p] = said.node[p]
         \/ p \in DOMAIN said.before /\ ~\E q \in DOMAIN said.node : Len(q) > Len(p) /\ IsPrefix(p, q)
    /\ \A p \in DOMAIN said.before : tree[p] = said.before[p]

(* A program is linked by its own compiler and with the command that was     *)
(* signed for it, unless a D program was asked about before.                 *)
D(programs) == \E p \in programs : "D" \in Sources[p]
LinkedAsSigned ==
  \A p \in DOMAIN ran :
    /\ ran[p].by = smart_link(p) \/ D(ran[p].seen)
    /\ \/ ran[p].com = signed[p].com /\ ran[p].by = signed[p].by
       \/ D(ran[p].seen) /\ ~D(signed[p].seen)

ToolsSafe == /\ LinksLeadToLibrary /\ CleanIsComplete /\ OnlyLinksReplaced
             /\ OrdinaryLibrariesAccepted /\ InstalledInSandbox /\ AllInstalledFound
             /\ TreeIsCopied /\ LinkedAsSigned

=============================================================================
