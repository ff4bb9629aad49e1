--------------------------- MODULE SConsFileSystem ---------------------------
(* Where the directory tree of Node/FS.py finds a file while SConscript files*)
(* are read: variant directories, repositories and what each Node remembers. *)
(* One file name stands for all of them, so that a Node is its directory;    *)
(* Mirror[d] is the directory in the repository that stands behind d.  The   *)
(* Node of a directory always exists.                                        *)
EXTENDS Integers, Sequences, SequencesExt

CONSTANTS Local,         \* the directories of the project
          Mirror,        \* directory of the project -> the one in the repository
          Content,       \* directory -> what its file holds at the start, or NoFile
          NoFile,
          Unset,
          MaxCalls       \* bound on the calls of the SConscript files

Dirs == Local \cup {Mirror[d] : d \in Local}

FileSystemAssumption ==
  /\ Mirror \in [Local -> Dirs \ Local] /\ MaxCalls \in Nat
  /\ Unset \notin Dirs /\ NoFile \notin {TRUE, FALSE}

VARIABLES tree,        \* the Nodes and the disk
          calls,       \* the calls made
          late,        \* history: directories linked on to something linked later
          last         \* history: the last file read: where, what was read, what is current

fileSystemVars == <<tree, calls, late, last>>

(* Dir._morph and File._morph: a new Node remembers nothing. *)
FileSystemInit ==
  /\ tree = [disk |-> Content,
             srcdir |-> [d \in Dirs |-> Unset],        \* Dir.srcdir
             duplicate |-> [d \in Dirs |-> FALSE],
             repository |-> FALSE,                     \* Top.repositories
             known |-> [d \in Dirs |-> FALSE],         \* the file is in Dir.entries
             derived |-> [d \in Dirs |-> FALSE],
             linked |-> [d \in Dirs |-> FALSE],
             listing |-> [d \in Dirs |-> Unset],       \* Dir.on_disk_entries
             rdirs |-> [d \in Dirs |-> Unset],         \* _memo of the directory
             found |-> [d \in Dirs |-> Unset],
             exists |-> [d \in Dirs |-> Unset],        \* _memo of the file
             rfile |-> [d \in Dirs |-> Unset],
             twins |-> {}]
  /\ calls = 0 /\ late = {} /\ last = Unset

(* Every lookup may change what the Nodes remember, and the disk. *)
Is(t, answer) == [tree |-> t, is |-> answer]

(* The first of the directories for which Look has an answer. *)
FirstOf(t, dirs, Look(_, _)) ==
  FoldLeft(LAMBDA so, d : IF so.is = Unset THEN Look(so.tree, d) ELSE so, Is(t, Unset), dirs)

(* What comes after a lookup, with the tree that it leaves. *)
Then(so, After(_, _)) == After(so.tree, so.is)

Know(t, d) == [t EXCEPT !.known[d] = TRUE]
Forget(t, d) == [t EXCEPT !.exists[d] = Unset, !.rfile[d] = Unset]         \* Node.clear
ForgetAll(t, d) == [Forget(t, d) EXCEPT !.rdirs[d] = Unset, !.found[d] = Unset]

-----------------------------------------------------------------------------
(* Dir.get_all_rdirs: the directory, what stands behind its source directory *)
(* if it is not duplicated, and its place in the repository.                 *)

RECURSIVE get_all_rdirs(_, _)
get_all_rdirs(t, d) ==
  IF t.rdirs[d] # Unset THEN Is(t, t.rdirs[d])
  ELSE LET Remember(u, all) == Is([u EXCEPT !.rdirs[d] = all], all)
           All(u, behind) ==
             Remember(u, <<d>> \o behind
                           \o (IF t.repository /\ d \in Local THEN <<Mirror[d]>> ELSE <<>>))
       IN Then(IF t.srcdir[d] # Unset /\ ~t.duplicate[d]
               THEN get_all_rdirs(t, t.srcdir[d]) ELSE Is(t, <<>>), All)

(* entry_exists_on_disk: the directory is listed once. *)
entry_exists_on_disk(t, d) ==
  IF t.listing[d] # Unset THEN Is(t, t.listing[d])
  ELSE Is([t EXCEPT !.listing[d] = t.disk[d] # NoFile], t.disk[d] # NoFile)

(* LinkFunc: a hard link, a symbolic link or a copy, the first that works;   *)
(* in every case the contents of the source are there.                       *)
LinkFunc(t, d, src) == [t EXCEPT !.disk[d] = t.disk[src]]

(* File.do_duplicate: the old copy is replaced by a link to the source. *)
do_duplicate(t, d, src) == Forget([LinkFunc(t, d, src) EXCEPT !.linked[d] = TRUE], d)

srcdir_duplicate(t, d) ==
  LET src == t.srcdir[d]
      Listed(u, there) ==
        IF ~there THEN Is(u, Unset)
        ELSE IF t.duplicate[d] THEN Is(do_duplicate(Know(Know(u, src), d), d, src), d)
        ELSE Is(Know(u, src), src)
  IN IF src = Unset THEN Is(t, Unset) ELSE Then(entry_exists_on_disk(t, src), Listed)

file_on_disk(t, d) ==
  LET Listed(u, there) == IF there THEN Is(Know(u, d), d) ELSE srcdir_duplicate(u, d)
  IN Then(entry_exists_on_disk(t, d), Listed)

(* exists_file and File.rfile: a file of a duplicated directory is made from *)
(* its source, and removed where there is no source; a file that is not      *)
(* there may be elsewhere.                                                   *)
RECURSIVE exists(_, _), rfile(_, _)
FromSource_EvenTargets(t, d) == t.duplicate[d] /\ ~t.linked[d]
FromSource(t, d) == t.duplicate[d] /\ ~t.derived[d] /\ ~t.linked[d]

exists(t, d) ==
  IF t.exists[d] # Unset THEN Is(t, t.exists[d])
  ELSE LET Remember(u, there) == Is([u EXCEPT !.exists[d] = there], there)
           OnDisk(u) == Remember(u, u.disk[d] # NoFile)
           Copy(u, src) ==
             LET Copied(v, there) == OnDisk(IF there THEN do_duplicate(v, d, src)
                                            ELSE [v EXCEPT !.disk[d] = NoFile])
             IN Then(exists(u, src), Copied)
       IN IF FromSource(t, d) THEN Then(rfile(Know(t, t.srcdir[d]), t.srcdir[d]), Copy)
          ELSE OnDisk(t)

(* The Node, if there is a file. *)
IfExists(t, node) ==
  LET There(u, there) == Is(u, IF there THEN node ELSE Unset)
  IN Then(exists(t, node), There)

rfile(t, d) ==
  IF t.rfile[d] # Unset THEN Is(t, t.rfile[d])
  ELSE LET Found(u, node) == IF node = Unset THEN Is(u, Unset) ELSE IfExists(u, node)
           Look(u, e) == Then(IF u.known[e] THEN Is(u, e) ELSE file_on_disk(u, e), Found)
           LookIn(u, dirs) == FirstOf(u, dirs, Look)
           Own(u, there) == IF there THEN Is(u, d) ELSE Then(get_all_rdirs(u, d), LookIn)
           Remember(u, node) == Is([u EXCEPT !.rfile[d] = node], node)
           OrItself(u, node) == Remember(u, IF node = Unset THEN d ELSE node)
       IN Then(Then(exists(t, d), Own), OrItself)

(* srcdir_find_file: a file found behind the source directory becomes a Node *)
(* of this directory that nobody else can look up.                           *)
srcdir_find_file(t, d) ==
  IF t.found[d] # Unset THEN Is(t, t.found[d])
  ELSE LET Look(u, e) == IF ~u.known[e] THEN file_on_disk(u, e)
                         ELSE IF u.derived[e] THEN Is(u, e) ELSE IfExists(u, e)
           LookIn(u, dirs) == FirstOf(u, dirs, Look)
           Twin(u, node) == IF node = Unset THEN Is(u, Unset)
                            ELSE Is([u EXCEPT !.twins = @ \cup {d}], d)
           OrBehind(u, node) ==
             IF node # Unset \/ t.srcdir[d] = Unset THEN Is(u, node)
             ELSE Then(Then(get_all_rdirs(u, t.srcdir[d]), LookIn), Twin)
           Remember(u, node) ==
             Is([u EXCEPT !.found[d] = IF node = Unset THEN NoFile ELSE node], node)
       IN Then(Then(Then(get_all_rdirs(t, d), LookIn), OrBehind), Remember)

-----------------------------------------------------------------------------
(* The calls.  FS.VariantDir refuses a directory that has another source     *)
(* directory.  A circle of variant directories is left out: get_all_rdirs    *)
(* never returns from one.                                                   *)

RECURSIVE Sources(_, _)
Sources(t, d) == {d} \cup IF t.srcdir[d] = Unset THEN {} ELSE Sources(t, t.srcdir[d])

link_KeepsMemos(t, d, src, duplicate) == [t EXCEPT !.srcdir[d] = src, !.duplicate[d] = duplicate]
link(t, d, src, duplicate) ==
  ForgetAll([t EXCEPT !.srcdir[d] = src, !.duplicate[d] = duplicate], d)

VariantDir(d, src, duplicate) ==
  /\ tree.srcdir[d] = Unset /\ d \notin Sources(tree, src)
  /\ tree' = link(tree, d, src, duplicate)
  /\ late' = late \cup {e \in Dirs \ {d} : d \in Sources(tree, e)}
  /\ UNCHANGED last

(* FS.Repository: everything below the top directory is cleared. *)
Repository ==
  /\ ~tree.repository
  /\ LET added == [tree EXCEPT !.repository = TRUE]
     IN tree' = FoldLeft(ForgetAll, added, SetToSeq(Local))
  /\ UNCHANGED <<late, last>>

(* A builder is given the file as its target. *)
Declare(d) ==
  /\ ~tree.derived[d]
  /\ tree' = [Know(tree, d) EXCEPT !.derived[d] = TRUE]
  /\ UNCHANGED <<late, last>>

FindFile(d) == tree' = srcdir_find_file(tree, d).tree /\ UNCHANGED <<late, last>>

(* What a file is when nothing is remembered. *)
RECURSIVE Places(_), Current(_)
Places(d) ==
  <<d>> \o (IF tree.srcdir[d] # Unset /\ ~tree.duplicate[d] THEN Places(tree.srcdir[d]) ELSE <<>>)
        \o (IF tree.repository /\ d \in Local THEN <<Mirror[d]>> ELSE <<>>)
Own(d) == IF FromSource(tree, d) THEN Current(tree.srcdir[d]) ELSE tree.disk[d]
Current(d) ==
  LET there == SelectSeq(Places(d), LAMBDA e : Own(e) # NoFile)
  IN IF there = <<>> THEN NoFile ELSE Own(Head(there))

(* get_contents_file: what a scanner reads. *)
Read(d) ==
  LET Contents(u, node) ==
        LET There(v, there) == Is(v, IF there THEN v.disk[node] ELSE NoFile)
        IN Then(exists(u, node), There)
      Seen(so) == /\ tree' = so.tree
                  /\ last' = [at |-> d, should |-> Current(d), got |-> so.is]
  IN Seen(Then(rfile(Know(tree, d), d), Contents)) /\ UNCHANGED late

FileSystemNext ==
  /\ calls < MaxCalls /\ calls' = calls + 1
  /\ \/ \E d \in Local, src \in Local, duplicate \in BOOLEAN : VariantDir(d, src, duplicate)
     \/ Repository
     \/ \E d \in Local : Declare(d) \/ FindFile(d) \/ Read(d)

FileSystemSpec == FileSystemInit /\ [][FileSystemNext]_fileSystemVars

-----------------------------------------------------------------------------
(* What is read is what is current, whatever has been remembered before it   *)
(* was linked or the repository named.  A directory whose source directory   *)
(* became a variant directory afterwards keeps its old list of places.       *)
ReadsCurrent == last # Unset => last.got = last.should \/ last.at \in late

(* Looking for files writes nothing but the copies a duplicated directory    *)
(* has of its source files: a target, or a file anywhere else, stays.        *)
CopiesStep ==
  \A d \in Dirs : tree'.disk[d] # tree.disk[d] => tree.duplicate[d] /\ ~tree.derived[d]

=============================================================================
