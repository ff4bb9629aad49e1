----------------------------- MODULE SConsEntries -----------------------------
(* What a name is (Node/FS.py): a Node starts as an Entry and becomes a Dir  *)
(* or a File by a lookup, by a look at the disk or by Glob, while scripts    *)
(* change the disk with Execute.  Variant is a variant directory of Source   *)
(* that is not duplicated; a Node is its path from the top directory.        *)
EXTENDS Integers, Sequences, SequencesExt, FiniteSets

CONSTANTS Paths,          \* the places below the top directory
          Variant, Source,\* names of two directories at the top
          OnDisk,         \* contents of the disk at the start: place -> NoFile, "file", "dir"
          Scripts,        \* directories that scripts run in
          Touched,        \* places that shell commands change
          Spellings,      \* [top: it begins with '#', elements]
          NoFile, Unset, TypeError, UserError,
          MaxSteps

Top == <<>>
Node(p) == p \in Paths
Under(p, q) == IsPrefix(q, p)

EntriesAssumption ==
  /\ <<Variant>> \in Paths /\ <<Source>> \in Paths /\ Touched \subseteq Paths
  /\ \A p \in Paths : Front(p) \in Paths \cup {Top}
  /\ \A p \in Paths : Head(p) = Variant => <<Source>> \o Tail(p) \in Paths

VARIABLES tree,     \* the Nodes, what they remember, and the disk
          chdir,    \* sconscript_chdir: scripts run in their own directories
          steps,
          answer,   \* [of, node, said]: the last answer
          stale,    \* history: places that changed under what their Node remembers
          unlisted, \* history: places that changed after their directory was listed
          turned    \* history: Nodes that were a Dir or a File and no longer are

historyVars == <<stale, unlisted, turned>>
entriesVars == <<tree, chdir, steps, answer, historyVars>>

EntriesInit ==
  /\ \E disk \in OnDisk :
       tree = [disk |-> disk,
               kind |-> [p \in Paths |-> IF p \in {<<Variant>>, <<Source>>} THEN "Dir" ELSE Unset],
               stat |-> [p \in Paths |-> Unset],        \* _memo['stat']
               exists |-> [p \in Paths |-> Unset],      \* File: _memo['exists']
               listing |-> [p \in Paths |-> Unset],     \* Dir.on_disk_entries
               derived |-> {},                          \* the Nodes with a builder
               globbed |-> {},     \* history: Nodes that Glob turned over
               unchecked |-> {}]   \* history: Nodes that became a Dir or a File without a
                                   \* look, or whose place changed since
  /\ chdir \in BOOLEAN /\ steps = 0 /\ answer = Unset
  /\ stale = {} /\ unlisted = {} /\ turned = {}

(* Every call may change what is remembered; an exception ends it there. *)
Is(t, said) == [tree |-> t, is |-> said]
Then(so, After(_, _)) ==
  IF so.is \in {TypeError, UserError} THEN so ELSE After(so.tree, so.is)

Clear(t, p) == [t EXCEPT !.stat[p] = Unset, !.exists[p] = Unset]
Kind(t, p) == IF p = Top THEN "Dir" ELSE t.kind[p]
Morph(t, p, class) == [t EXCEPT !.kind[p] = class]

-----------------------------------------------------------------------------
(* FS._lookup: '#' starts at the top, '..' takes a name away, '.' and empty  *)
(* names are nothing.                                                        *)
Normal(cwd, spelling) ==
  FoldLeft(LAMBDA outs, d : IF d = ".." THEN (IF outs = <<>> THEN outs ELSE Front(outs))
                            ELSE IF d \in {"", "."} THEN outs ELSE Append(outs, d),
           IF spelling.top THEN <<>> ELSE cwd, spelling.elements)

(* must_be_same: an Entry becomes what it is looked up as, a Dir or a File   *)
(* refuses to be the other.                                                  *)
must_be_same(t, p, class) ==
  IF p = Top \/ class = "Entry" \/ t.kind[p] = class THEN Is(t, p)
  ELSE IF t.kind[p] = "Entry"
  THEN Is([Clear(Morph(t, p, class), p) EXCEPT !.unchecked = @ \cup {p}], p)
  ELSE Is(t, TypeError)

(* RootDir._lookup_abs: a new Node has a Dir for its parent, and its class   *)
(* is compared with the disk, which is remembered if something is there.     *)
Matches(class, there) ==
  ~(class = "Dir" /\ there = "file") /\ ~(class = "File" /\ there = "dir")

RECURSIVE Lookup(_, _, _)
Lookup(t, p, class) ==
  IF Kind(t, p) # Unset THEN must_be_same(t, p, class)
  ELSE LET Create(u, dir) ==
             IF ~Matches(class, u.disk[p]) THEN Is(u, TypeError)
             ELSE Is([Morph(u, p, class) EXCEPT
                        !.stat[p] = IF class = "Entry" \/ u.disk[p] = NoFile THEN Unset
                                    ELSE u.disk[p]], p)
       IN Then(Lookup(t, Front(p), "Dir"), Create)

-----------------------------------------------------------------------------
(* Dir.srcdir_list and srcnode: what stands behind a place in the variant    *)
(* directory; its directory is looked up as a Dir, itself as what asks.      *)
HasSource(d) == d # Top /\ Head(d) = Variant
Behind(d) == <<Source>> \o Tail(d)

srcdir_list(t, d) == IF HasSource(d) THEN Lookup(t, Behind(d), "Dir") ELSE Is(t, Unset)

srcnode(t, p) ==
  LET Same(u, node) == must_be_same(u, node, Kind(u, p))
      Look(u, dir) == IF dir = Unset THEN Is(u, p)
                      ELSE Then(Lookup(u, Behind(p), "Entry"), Same)
  IN IF p = <<Variant>> THEN Is(t, <<Source>>) ELSE Then(srcdir_list(t, Front(p)), Look)

stat(t, p) == IF t.stat[p] # Unset THEN Is(t, t.stat[p])
              ELSE Is([t EXCEPT !.stat[p] = t.disk[p]], t.disk[p])

entry_exists_on_disk(t, p) ==
  LET d == Front(p)
      Listing == {q \in Paths : Front(q) = d /\ t.disk[q] # NoFile}
  IN IF d = Top THEN Is(t, t.disk[p] # NoFile)
     ELSE IF t.listing[d] # Unset THEN Is(t, p \in t.listing[d])
     ELSE Is([t EXCEPT !.listing[d] = Listing], p \in Listing)

(* Entry.disambiguate: what is on the disk decides, then a directory that is *)
(* behind it; what is nowhere is a File.                                     *)
disambiguate(t, p, must_exist) ==
  LET File(u) == IF must_exist THEN Is(u, UserError) ELSE Is(Clear(Morph(u, p, "File"), p), p)
      SourceIs(u, there) == IF there = "dir" THEN Is(Morph(u, p, "Dir"), p) ELSE File(u)
      OfSource(u, node) == Then(stat(u, node), SourceIs)
      Listed(u, there) == IF there THEN Then(srcnode(u, p), OfSource) ELSE File(u)
      OfDirectory(u, dir) == IF dir = Front(p) THEN File(u)
                             ELSE Then(entry_exists_on_disk(u, dir \o <<Last(p)>>), Listed)
      There(u, there) ==
        IF there = "dir" THEN Is(Morph(u, p, "Dir"), p)
        ELSE IF there = "file" THEN Is(Clear(Morph(u, p, "File"), p), p)
        ELSE IF Front(p) = Top THEN File(u)
        ELSE Then(srcnode(u, Front(p)), OfDirectory)
  IN IF Kind(t, p) # "Entry" THEN Is(t, p) ELSE Then(stat(t, p), There)

(* exists_entry, exists_base and File.exists. *)
exists(t, p) ==
  LET OfFile(u, there) == Is([u EXCEPT !.exists[p] = there # NoFile], there # NoFile)
      OfDir(u, there) == Is(u, there # NoFile)
      Ask(u, node) ==
        IF u.kind[p] = "File"
        THEN IF u.exists[p] # Unset THEN Is(u, u.exists[p]) ELSE Then(stat(u, p), OfFile)
        ELSE Then(stat(u, p), OfDir)
  IN Then(disambiguate(t, p, FALSE), Ask)

(* Base._get_str while scripts are read: the file behind a source file,      *)
(* unless only the place itself is there.  What stat() remembered is         *)
(* forgotten again.                                                          *)
get_str(t, p) ==
  LET Choose(u, src) ==
        LET own == stat(u, p)
            behind == stat(own.tree, src)
            name == IF behind.is = NoFile /\ own.is # NoFile THEN p ELSE src
        IN Is([behind.tree EXCEPT !.stat[p] = Unset, !.stat[src] = Unset], name)
  IN IF p \in t.derived THEN Is(t, p) ELSE Then(srcnode(t, p), Choose)

(* Dir.dir_on_disk, as FileFinder.filedir_lookup and rdir call it. *)
dir_on_disk(t, p) ==
  LET DirOnly(u, node) == Is(u, IF u.kind[node] = "Dir" THEN node ELSE NoFile)
      Listed(u, there) ==
        IF there THEN Then(Then(Lookup(u, Behind(p), "Entry"),
                                LAMBDA v, node : disambiguate(v, node, FALSE)), DirOnly)
        ELSE Is(u, NoFile)
      OfSource(u, dir) == IF dir = Unset THEN Is(u, NoFile)
                          ELSE Then(entry_exists_on_disk(u, Behind(p)), Listed)
      Own(u, there) ==
        LET own == Lookup(u, p, "Dir")
        IN IF there /\ own.is # TypeError THEN own
           ELSE Then(srcdir_list(IF there THEN own.tree ELSE u, Front(p)), OfSource)
  IN Then(entry_exists_on_disk(t, p), Own)

filedir_lookup(t, p) ==
  IF t.kind[p] = Unset THEN dir_on_disk(t, p)
  ELSE IF t.kind[p] = "File" THEN Is(t, NoFile) ELSE must_be_same(t, p, "Dir")

-----------------------------------------------------------------------------
(* Dir._glob1 for '*': the Nodes and the files of the directory and of what  *)
(* is behind it.  The Node in the directory takes the class of what was      *)
(* found, whatever it was before.                                            *)
Names(t, d) == SetToSeq({p \in Paths : Front(p) = d /\ t.kind[p] # Unset})
DiskNames(t, d) == SetToSeq({p \in Paths : Front(p) = d /\ t.disk[p] # NoFile})

glob1(t, d) ==
  LET Here(p) == d \o <<Last(p)>>
      All(so, seq, Each(_, _)) ==
        FoldLeft(LAMBDA s, p : Then(s, LAMBDA u, x : Each(u, p)), so, seq)
      Entry(u, p) == Lookup(u, Here(p), "Entry")
      Found(u, p) ==
        LET Take(v, n) ==
              IF v.kind[n] = v.kind[p] THEN Is(v, n)
              ELSE Is([Morph(v, n, v.kind[p]) EXCEPT
                         !.globbed = IF v.kind[n] = "Entry" THEN @ ELSE @ \cup {n}], n)
            Own(v, node) == Then(Lookup(v, Here(p), "Entry"), Take)
            Decide(v, node) == Then(disambiguate(v, node, FALSE), Own)
        IN Then(Lookup(u, p, "Entry"), Decide)
      OnDiskToo(u, dir) == All(Is(u, dir), DiskNames(u, dir), Found)
      SearchIn(u, dir) ==
        Then(All(Is(u, dir), Names(u, dir), Entry), LAMBDA v, x : OnDiskToo(v, dir))
      Second(u, dir) == IF dir = Unset THEN Is(u, d) ELSE SearchIn(u, dir)
      First(u, dir) == Then(SearchIn(u, d), LAMBDA v, x : Second(v, dir))
  IN Then(srcdir_list(t, d), First)

(* Dir._create: the directories that are not thought to exist are made. *)
RECURSIVE create(_, _)
create(t, d) ==
  LET Make(u, parent) ==
        IF u.disk[d] # NoFile THEN Is(Clear(u, d), d)
        ELSE IF parent # Top /\ u.disk[parent] # "dir" THEN Is(u, UserError)
        ELSE Is(Clear([u EXCEPT !.disk[d] = "dir"], d), d)
      Missing(u, there) == IF there THEN Is(u, d) ELSE Then(create(u, Front(d)), Make)
  IN IF d = Top THEN Is(t, d) ELSE Then(exists(t, d), Missing)

-----------------------------------------------------------------------------
(* The calls of the scripts, and what is remembered about them. *)
Step == steps < MaxSteps /\ steps' = steps + 1 /\ UNCHANGED chdir

Kinds(t, new) == turned' = turned \cup {p \in Paths : /\ t.kind[p] \in {"Dir", "File"}
                                                      /\ new.kind[p] # t.kind[p]}

Call(so, of, node) ==
  /\ Step /\ tree' = so.tree /\ answer' = [of |-> of, node |-> node, said |-> so.is]
  /\ Kinds(tree, so.tree)
  /\ UNCHANGED <<stale, unlisted>>

LookUp(cwd, spelling, class) ==
  /\ Normal(cwd, spelling) \in Paths
  /\ Call(Lookup(tree, Normal(cwd, spelling), class), class, Normal(cwd, spelling))

(* A command names its target, which becomes a File with a builder. *)
Target(p) ==
  LET Build(u, node) == Is([u EXCEPT !.derived = @ \cup {p}], node)
  IN Call(Then(Lookup(tree, p, "File"), Build), "target", p)

(* FS.variant_dir_target_climb: a source named to be built stands for its    *)
(* target in the variant directory.                                          *)
AlterTargets(p) ==
  /\ Head(p) = Source /\ tree.kind[p] # Unset /\ p \notin tree.derived
  /\ Call(Lookup(tree, <<Variant>> \o Tail(p), "Entry"), "altered", p)

Ask(p) ==
  /\ tree.kind[p] # Unset
  /\ \/ Call(exists(tree, p), "exists", p)
     \/ Call(get_str(tree, p), "str", p)
     \/ Call(disambiguate(tree, p, TRUE), "contents", p)

FindDirectory(p) ==
  Front(p) # Top /\ Kind(tree, Front(p)) = "Dir"
  /\ Call(filedir_lookup(tree, p), "directory", p)

Glob(d) ==
  /\ tree.kind[d] = "Dir"
  /\ Call(glob1(tree, d), "glob", d)

CreateDirectory(d) ==
  tree.kind[d] = "Dir" /\ Call(create(tree, d), "create", d)

(* Delete, Mkdir and Touch change the disk; an action run by Execute first   *)
(* clears the Node that its argument names for the script, which is not the  *)
(* place it changes where scripts do not run in their own directories.  A    *)
(* shell command clears nothing.                                             *)
Changed(p, new) == {q \in Paths : Under(q, p) /\ tree.disk[q] # (IF q = p THEN new ELSE NoFile)}

ChangeDisk(p, new, cleared) ==
  LET changed == Changed(p, new)
      t == [cleared EXCEPT !.disk = [q \in Paths |-> IF q \notin changed THEN @[q]
                                                     ELSE IF q = p THEN new ELSE NoFile],
                              !.unchecked = @ \cup {q \in changed : cleared.kind[q] \in {"Dir", "File"}}]
      remembered == {q \in changed : t.stat[q] # Unset \/ t.exists[q] # Unset}
  IN /\ (new # NoFile /\ Front(p) # Top) => tree.disk[Front(p)] = "dir"
     /\ (new = "dir") => tree.disk[p] = NoFile
     /\ (new = "file") => tree.disk[p] # "dir"
     /\ Step /\ tree' = t /\ answer' = Unset
     /\ stale' = stale \cup remembered
     /\ unlisted' = unlisted \cup {q \in changed : Front(q) # Top /\ t.listing[Front(q)] # Unset}
     /\ UNCHANGED turned

invalidate_node_memos(t, p) ==
  LET Memos(u, node) == Is(Clear(u, p), node) IN Then(Lookup(t, p, "Entry"), Memos)

Execute(cwd, name, new) ==
  LET p == (IF chdir THEN cwd ELSE Top) \o name
      cleared == invalidate_node_memos(tree, cwd \o name)
  IN /\ p \in Paths /\ cwd \o name \in Paths /\ cleared.is # TypeError
     /\ ChangeDisk(p, new, cleared.tree)

Shell(p, new) == ChangeDisk(p, new, tree)

EntriesNext ==
  \/ \E cwd \in Scripts, spelling \in Spellings, class \in {"Entry", "Dir", "File"} :
       LookUp(cwd, spelling, class)
  \/ \E p \in Paths : Target(p) \/ AlterTargets(p) \/ Ask(p) \/ FindDirectory(p) \/ Glob(p)
                      \/ CreateDirectory(p)
  \/ \E cwd \in Scripts, name \in {<<"x">>, <<"x", "y">>}, new \in {NoFile, "file", "dir"} :
       Execute(cwd, name, new)
  \/ \E p \in Touched, new \in {NoFile, "file", "dir"} : Shell(p, new)

EntriesSpec == EntriesInit /\ [][EntriesNext]_entriesVars

-----------------------------------------------------------------------------
(* A Node that is a Dir or a File stays it; only Glob turns one over.        *)
KindsKept == turned \subseteq tree.globbed

(* What has Nodes below it is a Dir, unless Glob turned it over.             *)
ParentsAreDirs ==
  \A p \in Paths : /\ tree.kind[p] # Unset /\ Front(p) # Top
                   => tree.kind[Front(p)] = "Dir" \/ Front(p) \in tree.globbed

(* FS.Dir and FS.File: no Node is a Dir where a file lies, nor a File where  *)
(* a directory lies, unless an Entry became it without a look at the disk.   *)
KindsMatchDisk ==
  \A p \in Paths : \/ tree.kind[p] \in {Unset, "Entry"} \/ Matches(tree.kind[p], tree.disk[p])
                   \/ p \in tree.unchecked \cup tree.globbed

(* Answers are about the disk as it is, unless a change was not told to the  *)
(* Node or comes after its directory was listed.                             *)
Origin(p) == IF HasSource(p) /\ p # <<Variant>> THEN Behind(p) ELSE p
AnswerIsTrue ==
  answer # Unset =>
    LET p == answer.node
    IN /\ (answer.of = "exists" /\ answer.said \in BOOLEAN)
            => answer.said = (tree.disk[p] # NoFile) \/ p \in stale
       /\ (answer.of = "directory" /\ answer.said = NoFile)
            => \A q \in {p, Origin(p)} :
                 tree.disk[q] = "dir" => \/ q \in unlisted
                                         \/ "File" \in {tree.kind[p], tree.kind[q]}
       /\ (answer.of = "create" /\ answer.said = p) => tree.disk[p] # NoFile \/ p \in stale
       /\ (answer.of = "str" /\ answer.said = Origin(p) /\ p # Origin(p))
            => \/ tree.disk[p] = NoFile \/ tree.disk[Origin(p)] # NoFile
               \/ {p, Origin(p)} \cap stale # {}

EntriesSafe == KindsKept /\ ParentsAreDirs /\ KindsMatchDisk /\ AnswerIsTrue

=============================================================================
