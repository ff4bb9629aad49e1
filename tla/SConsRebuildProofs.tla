------------------------- MODULE SConsRebuildProofs -------------------------
(* Proofs about SConsRebuild: the record of a target describes the file that *)
(* is there, a run that made what it was asked for leaves no stale target,   *)
(* and one after which nothing has changed leaves nothing to make, for any   *)
(* files, commands, edits, deciders and number of runs.                      *)
EXTENDS SConsRebuild, TLAPS

(* What IncludesOf is taken to be: the scanner finds files of the project,   *)
(* whatever the contents.                                                    *)
ScannerType == \A contents : IncludesOf(contents) \in Seq(Files)

(* The clock of the file system tells any two edits apart.                   *)
FineClock == \A p \in Plans : ~p.coarse_clock

-----------------------------------------------------------------------------
(* The state is given to the operators of this part as arguments: vs the     *)
(* versions, d the disk, old the aged targets.                               *)

OneContent(vs) ==
  \A v, w \in vs : v.file = w.file /\ v.mtime = w.mtime => v.content = w.content

(* The content of a file at a time. *)
Was(vs, f, m) == \E v \in vs : v.file = f /\ v.mtime = m
At(vs, f, m) == (CHOOSE v \in vs : v.file = f /\ v.mtime = m).content
MixedIn(vs, f, info) == info.csig # None /\ [file |-> f, content |-> info.csig,
                                             mtime |-> info.timestamp] \notin vs

(* The contents of a list of files at the times that are given for each      *)
(* place, and the children of t if its sources are as they were at them.     *)
ContentsAt(vs, list, times) == [i \in DOMAIN list |-> At(vs, list[i], times[i])]
ListAt(vs, t, times) ==
  Kids[t] \o IncludesOf([i \in DOMAIN Kids[t] |-> At(vs, Kids[t][i], times[i])])

(* A change of a child that the timestamps do not tell of: none is older than *)
(* the target, unless the cache has brought it.                               *)
NewerIn(d, old, t, list, times) ==
  \A i \in DOMAIN list :
    d[list[i]].mtime > 0 /\ list[i] \notin old /\ d[list[i]].mtime # times[i]
      => d[list[i]].mtime > d[t].mtime

(* The file t is what the command makes of the children at the times given. *)
MadeIn(vs, d, old, t, list, times, command) ==
  /\ d[t].content = Make(t, command, ContentsAt(vs, list, times))
  /\ NewerIn(d, old, t, list, times)

(* The record of t has its children as they were at the times it gives. *)
Times(r) == [i \in DOMAIN r.names |-> r.sigs[i].timestamp]
FormIn(vs, t, r) ==
  /\ r.names \in Seq(Files) /\ DOMAIN r.sigs = DOMAIN r.names /\ Len(r.sigs) = Len(r.names)
  /\ \A i, j \in DOMAIN r.names : r.names[i] = r.names[j] => r.sigs[i] = r.sigs[j]
  /\ \A i \in DOMAIN r.names : /\ Was(vs, r.names[i], r.sigs[i].timestamp)
                               /\ ~MixedIn(vs, r.names[i], r.sigs[i])
  /\ r.names = ListAt(vs, t, Times(r))
RecordIn(vs, d, old, t, r) ==
  /\ r.bactsig = None => r.names = <<>>
  /\ r.bactsig # None =>
       /\ FormIn(vs, t, r)
       /\ d[t].mtime > 0 => MadeIn(vs, d, old, t, r.names, Times(r), r.bactsig)

-----------------------------------------------------------------------------
(* A timestamp tells the contents of a file apart, the cached ones included. *)
CachedVersion(e) == [file |-> e.bsig.target, content |-> e.content, mtime |-> e.mtime]
Known == versions \cup {CachedVersion(e) : e \in cache}
VersionsOK ==
  /\ clock \in Nat
  /\ \A v \in Known : v.mtime \in Nat /\ 0 < v.mtime /\ v.mtime <= clock
  /\ OneContent(Known)

DiskOK ==
  /\ DOMAIN disk = Files
  /\ \A f \in Files : disk[f].mtime \in Nat
  /\ \A f \in Files : exists(f) => Version(f, disk[f]) \in versions
  /\ \A s \in Sources : exists(s)

CacheOK ==
  \A e \in cache :
    /\ e = [bsig |-> e.bsig, content |-> e.content, mtime |-> e.mtime, wrong |-> e.wrong]
    /\ ~e.wrong => e.content = Make(e.bsig.target, e.bsig.bactsig, e.bsig.csigs)

Statuses == {"todo", "current", "ready", "running", "built", "failed"}
MemoryOK ==
  /\ plan \in Plans /\ ~plan.coarse_clock /\ runs \in Nat /\ request \subseteq Targets /\ decider \in Deciders
  /\ DOMAIN ninfo = Files
  /\ status \in [Files -> Statuses]
  /\ \A s \in Sources : status[s] \in {"todo", "current"}
  /\ names \in [Targets -> Seq(Files)] /\ DOMAIN reads = Targets
  /\ cmd \in [Targets -> UNION {ToSet(Commands[t]) : t \in Targets}]
  /\ touched \subseteq Sources
  /\ phase \in {"idle", "walk", "unlink", "rename"}
  /\ phase = "idle" => \A f \in Files : status[f] = "todo"
WrittenOK == phase \in {"unlink", "rename"} => tmp = [f \in Files |-> Entry(f)]

(* A file that was visited has the NodeInfo of the file that is there, or    *)
(* was there before it was edited.                                           *)
VisitedOK ==
  \A f \in Files :
    /\ Done(f) => /\ Was(versions, f, ninfo[f].timestamp)
                  /\ f \notin touched => exists(f) /\ ninfo[f].timestamp = disk[f].mtime
    /\ f \notin mixed => ~MixedIn(versions, f, ninfo[f])
    /\ status[f] = "todo" => ninfo[f] = NoInfo

Visited(t) == [i \in DOMAIN names[t] |-> ninfo[names[t][i]].timestamp]
Decided(t) == status[t] \in {"current", "ready", "running", "built"}
Untouched(t) == ToSet(names[t]) \cap touched = {}

(* A target's children are done; while it waits for its command, or the      *)
(* command runs, they are as it was decided upon, or touched.                *)
WaitingFor(t) ==
  /\ Decided(t) => \A i \in DOMAIN names[t] : Done(names[t][i])
  /\ status[t] \in {"ready", "running"} /\ Untouched(t) =>
       names[t] = ListAt(versions, t, Visited(t))
  /\ status[t] = "running" /\ Untouched(t) =>
       reads[t] = ContentsAt(versions, names[t], Visited(t))
  /\ status[t] \in {"ready", "running", "built", "failed"} => t \in unrecorded
WaitingOK == \A t \in Targets : WaitingFor(t)

(* A target that was made or left alone is what its command makes of the     *)
(* children that were visited.                                               *)
Sound(t) == /\ t \notin raced \cup misled /\ ToSet(names[t]) \cap mixed = {}
            /\ status[t] = "current" => t \notin unrecorded
DoneFor(t) ==
  Done(t) /\ Sound(t) =>
    /\ exists(t)
    /\ names[t] = ListAt(versions, t, Visited(t))
    /\ MadeIn(versions, disk, aged, t, names[t], Visited(t), cmd[t])
DoneOK == \A t \in Targets : DoneFor(t)

DatabaseOK ==
  db # None => \A t \in Targets \ Explained : RecordIn(versions, disk, aged, t, db[t])
StoredOK ==
  phase # "idle" => \A t \in Targets \ Explained : RecordIn(versions, disk, aged, t, stored[t])

(* The signature that the database has of a file is of its timestamp. *)
EntriesIn(entries) == \A f \in Files \ dated : ~MixedIn(versions, f, entries[f].ninfo)
EntriesOK == (db # None => EntriesIn(db)) /\ (phase # "idle" => EntriesIn(stored))

OutcomeOK == outcome = "made" => phase = "idle" /\ NothingStale

IInv == /\ VersionsOK /\ DiskOK /\ CacheOK /\ MemoryOK /\ WrittenOK /\ VisitedOK
        /\ WaitingOK /\ DoneOK /\ DatabaseOK /\ StoredOK /\ EntriesOK /\ OutcomeOK

-----------------------------------------------------------------------------
(* Lemmas about the operators above. *)

LEMMA AtIs ==
  ASSUME NEW vs, OneContent(vs), NEW v \in vs
  PROVE  At(vs, v.file, v.mtime) = v.content
<1> DEFINE w == CHOOSE w \in vs : w.file = v.file /\ w.mtime = v.mtime
<1>1. w \in vs /\ w.file = v.file /\ w.mtime = v.mtime
  OBVIOUS
<1>2. w.content = v.content
  BY <1>1 DEF OneContent
<1> QED BY <1>2 DEF At

LEMMA AtOf ==
  ASSUME NEW vs, OneContent(vs), NEW f, NEW m, NEW c,
         [file |-> f, content |-> c, mtime |-> m] \in vs
  PROVE  At(vs, f, m) = c /\ Was(vs, f, m)
<1> DEFINE v == [file |-> f, content |-> c, mtime |-> m]
<1>1. v.file = f /\ v.mtime = m /\ v.content = c /\ v \in vs
  OBVIOUS
<1>2. At(vs, v.file, v.mtime) = v.content
  BY <1>1, AtIs
<1> QED BY <1>1, <1>2 DEF Was

LEMMA AtKept ==
  ASSUME NEW vs, NEW ws, vs \subseteq ws, OneContent(ws), NEW f, NEW m, Was(vs, f, m)
  PROVE  At(ws, f, m) = At(vs, f, m) /\ Was(ws, f, m)
<1>1. PICK v \in vs : v.file = f /\ v.mtime = m
  BY DEF Was
<1>2. OneContent(vs) /\ v \in ws
  BY DEF OneContent
<1>3. At(ws, v.file, v.mtime) = v.content /\ At(vs, v.file, v.mtime) = v.content
  BY <1>1, <1>2, AtIs
<1> QED BY <1>1, <1>2, <1>3 DEF Was

LEMMA ContentsKept ==
  ASSUME NEW vs, NEW ws, vs \subseteq ws, OneContent(ws), NEW list, NEW times,
         \A i \in DOMAIN list : Was(vs, list[i], times[i])
  PROVE  ContentsAt(ws, list, times) = ContentsAt(vs, list, times)
<1>1. \A i \in DOMAIN list : At(ws, list[i], times[i]) = At(vs, list[i], times[i])
  BY AtKept
<1> QED BY <1>1 DEF ContentsAt

(* The sources of a target come first in the list of its children. *)
LEMMA KidsFirst ==
  ASSUME ScannerType, NEW t \in Targets, NEW vs, NEW times
  PROVE  /\ ListAt(vs, t, times) \in Seq(Files)
         /\ \A i \in DOMAIN Kids[t] : /\ i \in DOMAIN ListAt(vs, t, times)
                                      /\ ListAt(vs, t, times)[i] = Kids[t][i]
<1> DEFINE found == IncludesOf([i \in DOMAIN Kids[t] |-> At(vs, Kids[t][i], times[i])])
<1>1. Kids[t] \in Seq(Files)
  BY RebuildAssumption
<1>2. found \in Seq(Files)
  BY DEF ScannerType
<1> HIDE DEF found
<1>3. Kids[t] \o found \in Seq(Files) /\ Len(Kids[t] \o found) = Len(Kids[t]) + Len(found)
  BY <1>1, <1>2
<1>4. \A i \in DOMAIN Kids[t] : i \in DOMAIN (Kids[t] \o found) /\ (Kids[t] \o found)[i] = Kids[t][i]
  BY <1>1, <1>2, <1>3
<1> QED BY <1>3, <1>4 DEF ListAt, found

LEMMA ListKept ==
  ASSUME ScannerType, NEW t \in Targets, NEW vs, NEW ws, vs \subseteq ws,
         OneContent(ws), NEW times,
         \A i \in DOMAIN ListAt(vs, t, times) : Was(vs, ListAt(vs, t, times)[i], times[i])
  PROVE  ListAt(ws, t, times) = ListAt(vs, t, times)
<1>1. \A i \in DOMAIN Kids[t] : At(ws, Kids[t][i], times[i]) = At(vs, Kids[t][i], times[i])
  BY KidsFirst, AtKept
<1>2. [i \in DOMAIN Kids[t] |-> At(ws, Kids[t][i], times[i])]
        = [i \in DOMAIN Kids[t] |-> At(vs, Kids[t][i], times[i])]
  BY <1>1
<1> QED BY <1>2, Zenon DEF ListAt

(* What a step does to the files: those that are there and were not set back *)
(* by the cache are as they were, or newer than all before.                  *)
FilesStep(d, old, now, e, old2) ==
  \A f \in Files : /\ d[f].mtime \in Nat /\ d[f].mtime <= now /\ e[f].mtime \in Nat
                   /\ e[f].mtime > 0 /\ f \notin old2 =>
                        (e[f] = d[f] /\ f \notin old) \/ e[f].mtime > now

LEMMA MadeKept ==
  ASSUME NEW vs, NEW ws, vs \subseteq ws, OneContent(ws),
         NEW d, NEW e, NEW old, NEW old2, NEW now \in Nat, FilesStep(d, old, now, e, old2),
         NEW t \in Files, e[t] = d[t],
         NEW list \in Seq(Files), NEW times, NEW command,
         \A i \in DOMAIN list : Was(vs, list[i], times[i]),
         MadeIn(vs, d, old, t, list, times, command)
  PROVE  MadeIn(ws, e, old2, t, list, times, command)
<1>1. ContentsAt(ws, list, times) = ContentsAt(vs, list, times)
  BY ContentsKept
<1>2. e[t].content = Make(t, command, ContentsAt(ws, list, times))
  BY <1>1 DEF MadeIn
<1>3. NewerIn(e, old2, t, list, times)
  <2> SUFFICES ASSUME NEW i \in DOMAIN list, e[list[i]].mtime > 0, list[i] \notin old2,
                      e[list[i]].mtime # times[i]
               PROVE  e[list[i]].mtime > e[t].mtime
    BY DEF NewerIn
  <2>1. list[i] \in Files
    OBVIOUS
  <2>2. CASE e[list[i]] = d[list[i]] /\ list[i] \notin old
    BY <2>2 DEF MadeIn, NewerIn
  <2>3. CASE e[list[i]].mtime > now
    BY <2>1, <2>3 DEF FilesStep
  <2> QED BY <2>1, <2>2, <2>3 DEF FilesStep
<1> QED BY <1>2, <1>3 DEF MadeIn

LEMMA FormKept ==
  ASSUME ScannerType, NEW vs, NEW ws, vs \subseteq ws, OneContent(ws),
         NEW t \in Targets, NEW r, FormIn(vs, t, r)
  PROVE  FormIn(ws, t, r)
<1>1. \A i \in DOMAIN r.names : /\ Was(ws, r.names[i], r.sigs[i].timestamp)
                                /\ ~MixedIn(ws, r.names[i], r.sigs[i])
  BY AtKept DEF FormIn, MixedIn
<1>2. \A i \in DOMAIN r.names : Was(vs, r.names[i], Times(r)[i])
  BY DEF FormIn, Times
<1>3. r.names = ListAt(ws, t, Times(r))
  BY <1>2, ListKept DEF FormIn
<1> QED BY <1>1, <1>3 DEF FormIn

LEMMA RecordKept ==
  ASSUME ScannerType, NEW vs, NEW ws, vs \subseteq ws, OneContent(ws),
         NEW d, NEW e, NEW old, NEW old2, NEW now \in Nat, FilesStep(d, old, now, e, old2),
         NEW t \in Targets, e[t] = d[t] \/ e[t].mtime = 0,
         NEW r, RecordIn(vs, d, old, t, r)
  PROVE  RecordIn(ws, e, old2, t, r)
<1> SUFFICES ASSUME r.bactsig # None
             PROVE  /\ FormIn(ws, t, r)
                    /\ e[t].mtime > 0 => MadeIn(ws, e, old2, t, r.names, Times(r), r.bactsig)
  BY DEF RecordIn
<1>1. FormIn(vs, t, r) /\ FormIn(ws, t, r)
  BY FormKept DEF RecordIn
<1>2. ASSUME e[t].mtime > 0 PROVE MadeIn(ws, e, old2, t, r.names, Times(r), r.bactsig)
  <2>1. e[t] = d[t] /\ t \in Files
    BY <1>2, RebuildAssumption
  <2>2. MadeIn(vs, d, old, t, r.names, Times(r), r.bactsig)
    BY <1>2, <2>1 DEF RecordIn
  <2>3. r.names \in Seq(Files) /\ \A i \in DOMAIN r.names : Was(vs, r.names[i], Times(r)[i])
    BY <1>1 DEF FormIn, Times
  <2> QED BY <2>1, <2>2, <2>3, MadeKept
<1> QED BY <1>1, <1>2
-----------------------------------------------------------------------------
LEMMA InitVersions == Init => VersionsOK
<1> SUFFICES ASSUME Init PROVE VersionsOK
  OBVIOUS
<1>1. /\ disk = [f \in Files |-> IF f \in Targets THEN NoFile
                                 ELSE [content |-> Versions[f][1], mtime |-> 1]]
      /\ versions = {Version(f, disk[f]) : f \in Sources}
      /\ cache = {} /\ clock = 1
  BY Zenon DEF Init
<1>2. ASSUME NEW f \in Sources
      PROVE  Version(f, disk[f]) = [file |-> f, content |-> Versions[f][1], mtime |-> 1]
  BY <1>1 DEF Sources, Version
<1>3. Known = {[file |-> f, content |-> Versions[f][1], mtime |-> 1] : f \in Sources}
  <2>1. Known = versions
    BY <1>1 DEF Known
  <2> QED BY <1>1, <1>2, <2>1
<1> QED BY <1>1, <1>3 DEF VersionsOK, OneContent

LEMMA InitInv == ASSUME FineClock PROVE Init => IInv
<1> SUFFICES ASSUME Init PROVE IInv
  OBVIOUS
<1> USE DEF Init, Version
<1>1. VersionsOK
  BY InitVersions
<1>2. DiskOK
  BY RebuildAssumption DEF DiskOK, exists, Sources, NoFile
<1>3. CacheOK
  BY DEF CacheOK
<1>4. MemoryOK
  <2>1. \A t \in Targets : Commands[t][1] \in ToSet(Commands[t])
    <3>1. ASSUME NEW t \in Targets PROVE 1 \in DOMAIN Commands[t]
      <4>1. Commands[t] \in Seq(ToSet(Commands[t])) /\ Commands[t] # <<>>
        BY RebuildAssumption
      <4> QED BY <4>1
    <3> QED BY <3>1 DEF ToSet
  <2>2. cmd \in [Targets -> UNION {ToSet(Commands[t]) : t \in Targets}]
    BY <2>1
  <2> QED BY <2>2, RebuildAssumption DEF FineClock, MemoryOK, Statuses, Sources, NoInfo, Deciders
<1>5. WrittenOK
  BY DEF WrittenOK
<1>6. VisitedOK
  BY DEF VisitedOK, Done, MixedIn, NoInfo
<1>7. WaitingOK /\ DoneOK
  BY RebuildAssumption DEF WaitingOK, WaitingFor, DoneOK, DoneFor, Done, Decided
<1>8. DatabaseOK /\ StoredOK /\ EntriesOK /\ OutcomeOK
  BY DEF DatabaseOK, StoredOK, EntriesOK, OutcomeOK
<1> QED BY <1>1, <1>2, <1>3, <1>4, <1>5, <1>6, <1>7, <1>8 DEF IInv

-----------------------------------------------------------------------------
(* A step of the file u, which may be a target that is decided upon or made: *)
(* what is known of the other targets stays.                                 *)
OthersStep(u) ==
  /\ versions \subseteq versions' /\ FilesStep(disk, aged, clock, disk', aged')
  /\ UNCHANGED <<cmd, db, stored, phase>>
  /\ mixed \subseteq mixed' /\ touched \subseteq touched' /\ unrecorded \subseteq unrecorded'
  /\ raced \ {u} \subseteq raced' /\ misled \ {u} \subseteq misled'
  /\ \A f \in Files : Done(f) => Done(f)' /\ ninfo'[f].timestamp = ninfo[f].timestamp
  /\ \A t \in Targets \ {u} : /\ status'[t] = status[t] /\ names'[t] = names[t]
                              /\ reads'[t] = reads[t] /\ disk'[t] = disk[t]
  /\ u \in Targets \ Explained' => u \notin Explained /\ (disk'[u] = disk[u] \/ disk'[u].mtime = 0)

LEMMA Children ==
  ASSUME VisitedOK, MemoryOK, NEW t \in Targets, WaitingFor(t), Decided(t)
  PROVE  /\ names[t] \in Seq(Files)
         /\ \A i \in DOMAIN names[t] : names[t][i] \in Files /\ Done(names[t][i])
         /\ \A i \in DOMAIN names[t] : Was(versions, names[t][i], Visited(t)[i])
<1>1. names[t] \in Seq(Files)
  BY DEF MemoryOK
<1>2. \A i \in DOMAIN names[t] : names[t][i] \in Files /\ Done(names[t][i])
  BY <1>1 DEF WaitingFor
<1>3. \A i \in DOMAIN names[t] : Was(versions, names[t][i], Visited(t)[i])
  BY <1>2 DEF VisitedOK, Visited
<1> QED BY <1>1, <1>2, <1>3

LEMMA OneVersion ==
  ASSUME VersionsOK PROVE OneContent(versions) /\ clock \in Nat
BY DEF VersionsOK, OneContent, Known

LEMMA RecordsKept ==
  ASSUME ScannerType, VersionsOK, VersionsOK', DatabaseOK, StoredOK, NEW u \in Files,
         OthersStep(u)
  PROVE  DatabaseOK' /\ StoredOK'
<1>1. OneContent(versions') /\ clock \in Nat
  BY OneVersion DEF VersionsOK, OneContent, Known
<1>2. \A t \in Targets \ Explained' : t \notin Explained /\ (disk'[t] = disk[t] \/ disk'[t].mtime = 0)
  BY DEF OthersStep, Explained
<1>3. ASSUME NEW r, NEW t \in Targets \ Explained', RecordIn(versions, disk, aged, t, r)
      PROVE  RecordIn(versions', disk', aged', t, r)
  <2>1. versions \subseteq versions' /\ FilesStep(disk, aged, clock, disk', aged')
    BY DEF OthersStep
  <2>2. disk'[t] = disk[t] \/ disk'[t].mtime = 0
    BY <1>2
  <2> QED BY <1>1, <1>3, <2>1, <2>2, RecordKept
<1>4. DatabaseOK'
  <2>1. db' = db
    BY DEF OthersStep
  <2> QED BY <1>2, <1>3, <2>1 DEF DatabaseOK
<1>5. StoredOK'
  <2>1. stored' = stored /\ phase' = phase
    BY DEF OthersStep
  <2> QED BY <1>2, <1>3, <2>1 DEF StoredOK
<1> QED BY <1>4, <1>5

LEMMA OthersKept ==
  ASSUME ScannerType, VersionsOK, VersionsOK', MemoryOK, VisitedOK, NEW u \in Files,
         OthersStep(u), NEW t \in Targets \ {u}, WaitingFor(t), DoneFor(t)
  PROVE  WaitingFor(t)' /\ DoneFor(t)'
<1>1. OneContent(versions') /\ clock \in Nat /\ versions \subseteq versions'
  BY OneVersion DEF VersionsOK, OneContent, Known, OthersStep
<1>2. /\ status'[t] = status[t] /\ names'[t] = names[t] /\ reads'[t] = reads[t]
      /\ disk'[t] = disk[t] /\ cmd' = cmd
      /\ \A f \in Files : Done(f) => Done(f)' /\ ninfo'[f].timestamp = ninfo[f].timestamp
  BY DEF OthersStep
<1>3. ASSUME Decided(t)
      PROVE  /\ Visited(t)' = Visited(t)
             /\ \A i \in DOMAIN names[t] : Done(names[t][i])'
             /\ ContentsAt(versions', names[t], Visited(t)) = ContentsAt(versions, names[t], Visited(t))
             /\ names[t] = ListAt(versions, t, Visited(t)) => names[t] = ListAt(versions', t, Visited(t))
  <2>1. /\ names[t] \in Seq(Files)
        /\ \A i \in DOMAIN names[t] : names[t][i] \in Files /\ Done(names[t][i])
        /\ \A i \in DOMAIN names[t] : Was(versions, names[t][i], Visited(t)[i])
    BY <1>3, Children
  <2>2. Visited(t)' = Visited(t)
    BY <1>2, <2>1 DEF Visited
  <2>3. \A i \in DOMAIN names[t] : Done(names[t][i])'
    BY <1>2, <2>1
  <2>4. ContentsAt(versions', names[t], Visited(t)) = ContentsAt(versions, names[t], Visited(t))
    BY <1>1, <2>1, ContentsKept
  <2>5. names[t] = ListAt(versions, t, Visited(t)) => names[t] = ListAt(versions', t, Visited(t))
    BY <1>1, <2>1, ListKept
  <2> QED BY <2>2, <2>3, <2>4, <2>5
<1>4. WaitingFor(t)'
  <2>1. Decided(t)' <=> Decided(t)
    BY <1>2 DEF Decided
  <2>2. Untouched(t)' => Untouched(t)
    BY <1>2 DEF Untouched, OthersStep
  <2>3. t \in unrecorded => t \in unrecorded'
    BY DEF OthersStep
  <2>4. status[t] \in {"ready", "running"} => Decided(t)
    BY DEF Decided
  <2> QED BY <1>2, <1>3, <2>1, <2>2, <2>3, <2>4 DEF WaitingFor
<1>5. DoneFor(t)'
  <2> SUFFICES ASSUME Done(t)', Sound(t)'
               PROVE  /\ exists(t)'
                      /\ names'[t] = ListAt(versions', t, Visited(t)')
                      /\ MadeIn(versions', disk', aged', t, names'[t], Visited(t)', cmd'[t])
    BY DEF DoneFor
  <2>1. Done(t) /\ Decided(t)
    BY <1>2 DEF Done, Decided
  <2>2. Sound(t)
    BY <1>2 DEF Sound, OthersStep
  <2>3. /\ exists(t)
        /\ names[t] = ListAt(versions, t, Visited(t))
        /\ MadeIn(versions, disk, aged, t, names[t], Visited(t), cmd[t])
    BY <2>1, <2>2 DEF DoneFor
  <2>4. /\ names[t] \in Seq(Files)
        /\ \A i \in DOMAIN names[t] : Was(versions, names[t][i], Visited(t)[i])
    BY <2>1, Children
  <2>5. FilesStep(disk, aged, clock, disk', aged') /\ t \in Files
    BY RebuildAssumption DEF OthersStep
  <2>6. MadeIn(versions', disk', aged', t, names[t], Visited(t), cmd[t])
    BY <1>1, <1>2, <2>3, <2>4, <2>5, MadeKept
  <2>7. exists(t)'
    BY <1>2, <2>3 DEF exists
  <2> QED BY <1>2, <1>3, <2>1, <2>3, <2>6, <2>7
<1> QED BY <1>4, <1>5
-----------------------------------------------------------------------------
LEMMA DiskTimes ==
  ASSUME VersionsOK, DiskOK
  PROVE  \A f \in Files : disk[f].mtime \in Nat /\ disk[f].mtime <= clock
<1> SUFFICES ASSUME NEW f \in Files, disk[f].mtime > 0 PROVE disk[f].mtime <= clock
  BY DEF DiskOK, VersionsOK
<1>1. Version(f, disk[f]) \in Known
  BY DEF DiskOK, exists, Known
<1> QED BY <1>1 DEF VersionsOK, Version

LEMMA VersionsGrow ==
  ASSUME VersionsOK, NEW f, NEW c, clock' = clock + 1,
         \A v \in Known' : \/ v \in Known
                           \/ v.file = f /\ v.content = c /\ v.mtime = clock + 1
  PROVE  VersionsOK'
<1>1. clock' \in Nat /\ \A v \in Known' : v.mtime \in Nat /\ 0 < v.mtime /\ v.mtime <= clock'
  BY DEF VersionsOK
<1>2. ASSUME NEW v \in Known', NEW w \in Known', v.file = w.file, v.mtime = w.mtime
      PROVE  v.content = w.content
  <2>1. v \in Known => v.mtime < clock + 1
    BY DEF VersionsOK
  <2>2. w \in Known => w.mtime < clock + 1
    BY DEF VersionsOK
  <2>3. v \in Known /\ w \in Known => v.content = w.content
    BY <1>2 DEF VersionsOK, OneContent
  <2> QED BY <1>2, <2>1, <2>2, <2>3 DEF VersionsOK
<1> QED BY <1>1, <1>2 DEF VersionsOK, OneContent

LEMMA EntriesKept ==
  ASSUME EntriesOK, versions \subseteq versions', dated' = dated, stored' = stored,
         db' = db \/ db' = None, phase' # "idle" => phase # "idle"
  PROVE  EntriesOK'
BY DEF EntriesOK, EntriesIn, MixedIn

(* Where a NodeInfo may get its signature from: the contents, ... *)
LEMMA ComputedSig ==
  ASSUME DiskOK, VisitedOK, NEW c \in Files, Done(c), c \notin touched, c \notin mixed
  PROVE  [file |-> c, content |-> get_csig(c), mtime |-> ninfo[c].timestamp] \in versions
<1>1. exists(c) /\ ninfo[c].timestamp = disk[c].mtime /\ ~MixedIn(versions, c, ninfo[c])
  BY DEF VisitedOK
<1>2. [file |-> c, content |-> disk[c].content, mtime |-> ninfo[c].timestamp] \in versions
  BY <1>1 DEF DiskOK, Version
<1> QED BY <1>1, <1>2 DEF get_csig, MixedIn

(* ... the database, if the file is older than max_drift, ... *)
LEMMA DriftSig ==
  ASSUME EntriesIn(stored), NEW f \in Files \ dated, ninfo[f] = NoInfo
  PROVE  ~MixedIn(versions, f, VisitedInfo(f))
<1>1. ~MixedIn(versions, f, stored[f].ninfo)
  BY DEF EntriesIn
<1>2. VisitedInfo(f) = [csig |-> get_max_drift_csig(f), timestamp |-> disk[f].mtime]
  BY DEF VisitedInfo, NoInfo
<1> QED BY <1>1, <1>2 DEF MixedIn, get_max_drift_csig

(* ... and the record of the target that is decided upon. *)
LEMMA DecisionSig ==
  ASSUME DiskOK, VisitedOK, decider \in Deciders, NEW t \in Targets,
         RecordIn(versions, disk, aged, t, stored[t]),
         NEW c \in Files, Done(c), c \notin touched, c \notin mixed
  PROVE  ~MixedIn(versions, c, InfoAfterDecision(t, c))
<1> DEFINE prev == PreviousByName(t, c)
<1>1. ~MixedIn(versions, c, WithSig(c, get_csig(c)))
  BY ComputedSig DEF MixedIn, WithSig
<1>2. ~MixedIn(versions, c, ninfo[c])
  BY DEF VisitedOK
<1>3. ~MixedIn(versions, c, prev)
  <2> DEFINE at == {i \in DOMAIN stored[t].names : stored[t].names[i] = c}
  <2>1. CASE at = {}
    BY <2>1 DEF PreviousByName, NoInfo, MixedIn
  <2>2. CASE at # {}
    <3>1. PICK i \in at : prev = stored[t].sigs[i]
      BY <2>2 DEF PreviousByName
    <3>2. stored[t].bactsig # None
      BY <3>1 DEF RecordIn
    <3> QED BY <3>1, <3>2 DEF RecordIn, FormIn
  <2> QED BY <2>1, <2>2
<1> HIDE DEF prev
<1>4. ~changed_timestamp_match(c, prev) => ~MixedIn(versions, c, WithSig(c, prev.csig))
  BY <1>3 DEF changed_timestamp_match, MixedIn, WithSig
<1> QED BY <1>1, <1>2, <1>4 DEF InfoAfterDecision, Deciders, prev

LEMMA EditInv ==
  ASSUME ScannerType, IInv, NEW s \in Sources, Edit(s)
  PROVE  IInv'
<1> USE DEF IInv
<1>0. clock' = clock + 1
  BY DEF Edit, Ticks, MemoryOK
<1>1. PICK v : disk' = [disk EXCEPT ![s] = [content |-> v, mtime |-> clock + 1]]
  BY <1>0 DEF Edit
<1>2. s \in Files /\ s \notin Targets
  BY DEF Sources
<1>3. disk'[s] = [content |-> v, mtime |-> clock + 1] /\ \A f \in Files \ {s} : disk'[f] = disk[f]
  BY <1>1, <1>2 DEF DiskOK
<1>4. /\ versions' = versions \cup {[file |-> s, content |-> v, mtime |-> clock + 1]}
      /\ clock' = clock + 1 /\ cache' = cache /\ touched \subseteq touched'
      /\ status[s] # "todo" => s \in touched'
      /\ touched' \subseteq touched \cup {s}
  BY <1>0, <1>3 DEF Edit, Version
<1>5. UNCHANGED <<plan, request, decider, runs, cmd, ninfo, stored, status, names, reads, phase, db, tmp,
                  mixed, dated, aged, unrecorded, raced, misled>>
  BY DEF Edit, options, memory
<1>6. VersionsOK'
  <2>1. \A w \in Known' : \/ w \in Known
                          \/ w.file = s /\ w.content = v /\ w.mtime = clock + 1
    BY <1>4 DEF Known
  <2> QED BY <1>4, <2>1, VersionsGrow
<1>7. clock \in Nat /\ \A f \in Files : disk[f].mtime \in Nat /\ disk[f].mtime <= clock
  BY DiskTimes DEF VersionsOK
<1>8. DiskOK'
  BY <1>1, <1>2, <1>3, <1>4, <1>7 DEF DiskOK, exists, Version
<1>9. CacheOK'
  BY <1>4 DEF CacheOK
<1>10. MemoryOK'
  BY <1>2, <1>4, <1>5 DEF MemoryOK
<1>11. WrittenOK'
  BY <1>5 DEF WrittenOK, Entry, Done
<1>12. OthersStep(s)
  <2>1. FilesStep(disk, aged, clock, disk', aged')
    BY <1>3, <1>5, <1>7 DEF FilesStep
  <2>2. \A f \in Files : Done(f) => Done(f)' /\ ninfo'[f].timestamp = ninfo[f].timestamp
    BY <1>5 DEF Done
  <2>3. \A t \in Targets \ {s} : disk'[t] = disk[t]
    BY <1>2, <1>3, RebuildAssumption
  <2> QED BY <1>2, <1>4, <1>5, <2>1, <2>2, <2>3 DEF OthersStep
<1>13. VisitedOK'
  BY <1>3, <1>4, <1>5 DEF VisitedOK, Done, Was, MixedIn, exists
<1>14. WaitingOK' /\ DoneOK'
  BY <1>2, <1>6, <1>12, OthersKept DEF WaitingOK, DoneOK
<1>15. DatabaseOK' /\ StoredOK'
  BY <1>2, <1>6, <1>12, RecordsKept
<1>16. OutcomeOK'
  BY DEF OutcomeOK, Edit, Change
<1>17. EntriesOK'
  BY <1>4, <1>5, EntriesKept
<1> QED BY <1>6, <1>8, <1>9, <1>10, <1>11, <1>13, <1>14, <1>15, <1>16, <1>17
-----------------------------------------------------------------------------
(* The steps between the runs, and the end of a run. *)

LEMMA ReconfigureInv ==
  ASSUME ScannerType, IInv, Reconfigure
  PROVE  IInv'
<1> USE DEF IInv
<1>1. UNCHANGED <<plan, request, decider, runs, ninfo, stored, status, names, reads, phase, tmp, cache,
                  clock, versions, mixed, dated, aged, touched, unrecorded, raced, misled>>
  BY DEF Reconfigure, options, memory
<1>2. phase = "idle" /\ \A f \in Files : status[f] = "todo"
  BY DEF Reconfigure, MemoryOK
<1>3. \/ disk' = disk
      \/ \E t \in Targets : disk' = [disk EXCEPT ![t] = NoFile]
  BY DEF Reconfigure
<1>4. \A f \in Files : disk'[f] = disk[f] \/ (f \in Targets /\ disk'[f] = NoFile)
  BY <1>3 DEF DiskOK
<1>5. cmd' \in [Targets -> UNION {ToSet(Commands[t]) : t \in Targets}]
  <2>1. CASE cmd' = cmd
    BY <2>1 DEF MemoryOK
  <2>2. CASE \E t \in Targets : \E c \in ToSet(Commands[t]) : cmd' = [cmd EXCEPT ![t] = c]
    BY <2>2 DEF MemoryOK
  <2> QED BY <2>1, <2>2 DEF Reconfigure
<1>6. db' = db \/ db' = None
  BY DEF Reconfigure
<1>7. VersionsOK' /\ CacheOK'
  BY <1>1 DEF VersionsOK, Known, CacheOK
<1>8. DiskOK'
  <2>1. DOMAIN disk' = Files
    BY <1>3 DEF DiskOK
  <2> QED BY <2>1, <1>1, <1>4 DEF DiskOK, exists, Version, NoFile, Sources
<1>9. MemoryOK' /\ WrittenOK'
  BY <1>1, <1>2, <1>5 DEF MemoryOK, WrittenOK
<1>10. WaitingOK' /\ DoneOK' /\ VisitedOK'
  <2>1. \A f \in Files : status'[f] = "todo"
    BY <1>1, <1>2
  <2>2. WaitingOK' /\ DoneOK' /\ \A f \in Files : ~Done(f)'
    BY <2>1, RebuildAssumption DEF WaitingOK, WaitingFor, DoneOK, DoneFor, Done, Decided
  <2> QED BY <1>1, <2>2 DEF VisitedOK
<1>11. DatabaseOK'
  <2>1. FilesStep(disk, aged, clock, disk', aged')
    BY <1>1, <1>4, DiskTimes DEF FilesStep, NoFile
  <2>2. OneContent(versions) /\ clock \in Nat
    BY OneVersion
  <2>3. ASSUME NEW t \in Targets \ Explained, db' # None
        PROVE  RecordIn(versions, disk', aged', t, db[t])
    <3>1. RecordIn(versions, disk, aged, t, db[t])
      BY <1>6, <2>3 DEF DatabaseOK
    <3>2. disk'[t] = disk[t] \/ disk'[t].mtime = 0
      BY <1>4, RebuildAssumption DEF NoFile
    <3> QED BY <2>1, <2>2, <3>1, <3>2, RecordKept
  <2> QED BY <1>1, <1>6, <2>3 DEF DatabaseOK, Explained
<1>12. StoredOK' /\ OutcomeOK'
  BY <1>1, <1>2 DEF StoredOK, OutcomeOK, Reconfigure, Change
<1>13. EntriesOK'
  BY <1>1, EntriesKept DEF Reconfigure
<1> QED BY <1>7, <1>8, <1>9, <1>10, <1>11, <1>12, <1>13

LEMMA StartRunInv ==
  ASSUME IInv, StartRun
  PROVE  IInv'
<1> USE DEF IInv
<1>1. UNCHANGED <<disk, plan, cmd, ninfo, status, names, reads, db, tmp, cache, clock,
                  versions, mixed, dated, aged, touched, unrecorded, raced, misled>>
  BY DEF StartRun
<1>2. phase = "idle" /\ phase' = "walk" /\ \A f \in Files : status[f] = "todo"
  BY DEF StartRun, MemoryOK
<1>3. VersionsOK' /\ CacheOK' /\ DiskOK'
  BY <1>1 DEF VersionsOK, Known, CacheOK, DiskOK, exists
<1>4. MemoryOK' /\ WrittenOK'
  <2>1. runs' \in Nat /\ request' \subseteq Targets /\ decider' \in Deciders
    BY RebuildAssumption DEF StartRun, MemoryOK
  <2> QED BY <1>1, <1>2, <2>1 DEF MemoryOK, WrittenOK
<1>5. WaitingOK' /\ DoneOK' /\ VisitedOK'
  <2>1. \A f \in Files : status'[f] = "todo"
    BY <1>1, <1>2
  <2>2. WaitingOK' /\ DoneOK' /\ \A f \in Files : ~Done(f)'
    BY <2>1, RebuildAssumption DEF WaitingOK, WaitingFor, DoneOK, DoneFor, Done, Decided
  <2> QED BY <1>1, <2>2 DEF VisitedOK
<1>6. DatabaseOK'
  BY <1>1 DEF DatabaseOK, Explained
<1>7. StoredOK'
  <2>1. CASE db = None
    BY <2>1, RebuildAssumption DEF StartRun, StoredOK, RecordIn, NoEntry
  <2>2. CASE db # None
    BY <1>1, <2>2 DEF StartRun, StoredOK, DatabaseOK, Explained
  <2> QED BY <2>1, <2>2
<1>8. OutcomeOK'
  BY DEF OutcomeOK, StartRun
<1>9. EntriesOK'
  <2>1. EntriesIn([f \in Files |-> NoEntry])
    BY DEF EntriesIn, MixedIn, NoEntry, NoInfo
  <2> QED BY <1>1, <2>1 DEF EntriesOK, EntriesIn, StartRun
<1> QED BY <1>3, <1>4, <1>5, <1>6, <1>7, <1>8, <1>9

(* The last step of a walk, and the first of the two that replace the file. *)
LEMMA WriteInv ==
  ASSUME IInv, WriteTmp \/ Unlink
  PROVE  IInv'
<1> USE DEF IInv
<1>1. UNCHANGED <<disk, oldUpTo, cmd, options, memory, cache, clock, counters, history>>
  BY DEF WriteTmp, Unlink
<1>2. \/ db' = db
      \/ db' = None
  BY DEF WriteTmp, Unlink
<1>3. phase # "idle" /\ phase' \in {"unlink", "rename"}
  BY DEF WriteTmp, Unlink
<1>4. VersionsOK' /\ CacheOK' /\ DiskOK'
  BY <1>1 DEF VersionsOK, Known, CacheOK, DiskOK, exists, history
<1>5. MemoryOK'
  BY <1>1, <1>3 DEF MemoryOK, memory, options, history, counters
<1>6. WrittenOK'
  <2>1. tmp' = [f \in Files |-> Entry(f)]
    BY DEF WriteTmp, Unlink, WrittenOK
  <2> QED BY <1>1, <2>1 DEF WrittenOK, Entry, Done, memory
<1>7. VisitedOK'
  BY <1>1 DEF VisitedOK, Done, exists, memory, history
<1>8. WaitingOK'
  BY <1>1 DEF WaitingOK, WaitingFor, Decided, Done, Untouched, Visited, memory, history
<1>9. DoneOK'
  BY <1>1 DEF DoneOK, DoneFor, Done, Sound, Visited, exists, memory, history
<1>10. DatabaseOK' /\ StoredOK'
  BY <1>1, <1>2, <1>3 DEF DatabaseOK, StoredOK, Explained, memory, history
<1>11. OutcomeOK'
  BY <1>1, <1>3 DEF OutcomeOK, history
<1>12. EntriesOK'
  BY <1>1, <1>2, <1>3, EntriesKept DEF memory, history
<1> QED BY <1>4, <1>5, <1>6, <1>7, <1>8, <1>9, <1>10, <1>11, <1>12

LEMMA CrashInv ==
  ASSUME IInv, Crash
  PROVE  IInv'
<1> USE DEF IInv
<1>1. UNCHANGED <<disk, oldUpTo, cmd, options, db, tmp, cache, clock, runs, changes,
                 versions, unrecorded, raced, misled, dated, aged>>
  BY DEF Crash
<1>2. phase' = "idle" /\ touched' = {} /\ mixed' = {} /\ outcome' = "none"
  BY DEF Crash
<1>3. /\ ninfo' = [f \in Files |-> NoInfo] /\ status' = [f \in Files |-> "todo"]
      /\ names' = [t \in Targets |-> <<>>] /\ reads' = [t \in Targets |-> <<>>]
  BY DEF Crash, Forgotten
<1>4. VersionsOK' /\ CacheOK' /\ DiskOK'
  BY <1>1 DEF VersionsOK, Known, CacheOK, DiskOK, exists
<1>5. MemoryOK' /\ WrittenOK'
  BY <1>1, <1>2, <1>3 DEF MemoryOK, WrittenOK, options, Statuses, Sources
<1>6. WaitingOK' /\ DoneOK' /\ VisitedOK'
  <2>1. WaitingOK' /\ DoneOK' /\ \A f \in Files : ~Done(f)'
    BY <1>3, RebuildAssumption DEF WaitingOK, WaitingFor, DoneOK, DoneFor, Done, Decided
  <2> QED BY <1>3, <2>1 DEF VisitedOK, MixedIn, NoInfo
<1>7. DatabaseOK' /\ StoredOK' /\ EntriesOK' /\ OutcomeOK'
  BY <1>1, <1>2 DEF DatabaseOK, StoredOK, EntriesOK, EntriesIn, OutcomeOK, Explained
<1> QED BY <1>4, <1>5, <1>6, <1>7
-----------------------------------------------------------------------------
(* Children that were visited and not touched since are as the times of      *)
(* their visits say.                                                         *)
LEMMA AsVisited ==
  ASSUME ScannerType, VersionsOK, DiskOK, VisitedOK, NEW t \in Targets,
         NEW list \in Seq(Files), NEW times,
         times = [i \in DOMAIN list |-> ninfo[list[i]].timestamp],
         \A i \in DOMAIN list : Done(list[i]) /\ list[i] \notin touched,
         \A i \in DOMAIN Kids[t] : i \in DOMAIN list /\ list[i] = Kids[t][i]
  PROVE  /\ ContentsAt(versions, list, times) = [i \in DOMAIN list |-> disk[list[i]].content]
         /\ ListAt(versions, t, times) = children(t)
<1>1. ASSUME NEW i \in DOMAIN list
      PROVE  At(versions, list[i], times[i]) = disk[list[i]].content
  <2>1. list[i] \in Files
    OBVIOUS
  <2>2. exists(list[i]) /\ times[i] = disk[list[i]].mtime
    BY <2>1 DEF VisitedOK
  <2>3. [file |-> list[i], content |-> disk[list[i]].content, mtime |-> times[i]] \in versions
    BY <2>1, <2>2 DEF DiskOK, Version
  <2> QED BY <2>3, OneVersion, AtOf
<1>2. [i \in DOMAIN Kids[t] |-> At(versions, Kids[t][i], times[i])]
        = [i \in DOMAIN Kids[t] |-> disk[Kids[t][i]].content]
  BY <1>1
<1>3. ListAt(versions, t, times) = children(t)
  BY <1>2, Zenon DEF ListAt, children, scan
<1> QED BY <1>1, <1>3 DEF ContentsAt

(* The record that the end of the run makes of a target. *)
LEMMA EntryRecord ==
  ASSUME VersionsOK, DiskOK, MemoryOK, VisitedOK, NEW t \in Targets, WaitingFor(t),
         DoneFor(t), Done(t), Sound(t)
  PROVE  RecordIn(versions, disk, aged, t, Entry(t))
<1> DEFINE r == Entry(t)
<1>1. /\ r.names = names[t] /\ r.bactsig = cmd[t]
      /\ r.sigs = [i \in DOMAIN names[t] |-> ninfo[names[t][i]]]
  BY DEF Entry
<1> HIDE DEF r
<1>2. Decided(t)
  BY DEF Decided, Done
<1>3. /\ names[t] \in Seq(Files)
      /\ \A i \in DOMAIN names[t] : names[t][i] \in Files /\ Done(names[t][i])
      /\ \A i \in DOMAIN names[t] : Was(versions, names[t][i], Visited(t)[i])
  BY <1>2, Children
<1>4. Times(r) = Visited(t)
  BY <1>1 DEF Times, Visited
<1>5. FormIn(versions, t, r)
  <2>1. r.names \in Seq(Files) /\ DOMAIN r.sigs = DOMAIN r.names
    BY <1>1, <1>3
  <2>2. Len(r.sigs) = Len(r.names)
    BY <1>1, <1>3
  <2>3. \A i, j \in DOMAIN r.names : r.names[i] = r.names[j] => r.sigs[i] = r.sigs[j]
    BY <1>1
  <2>4. \A i \in DOMAIN r.names : Was(versions, r.names[i], r.sigs[i].timestamp)
    BY <1>1, <1>3 DEF Visited
  <2>5. \A i \in DOMAIN names[t] : names[t][i] \notin mixed
    BY DEF Sound, ToSet
  <2>6. \A i \in DOMAIN r.names : ~MixedIn(versions, r.names[i], r.sigs[i])
    BY <1>1, <1>3, <2>5 DEF VisitedOK
  <2>7. r.names = ListAt(versions, t, Times(r))
    BY <1>1, <1>4 DEF DoneFor
  <2> QED BY <2>1, <2>2, <2>3, <2>4, <2>6, <2>7 DEF FormIn
<1>6. MadeIn(versions, disk, aged, t, r.names, Times(r), r.bactsig)
  BY <1>1, <1>4 DEF DoneFor
<1>7. r.bactsig # None
  BY <1>1, RebuildAssumption DEF MemoryOK
<1> QED BY <1>5, <1>6, <1>7 DEF RecordIn, r

LEMMA RenameInv ==
  ASSUME ScannerType, IInv, Rename
  PROVE  IInv'
<1> USE DEF IInv
<1>1. UNCHANGED <<disk, oldUpTo, cmd, options, cache, clock, counters, versions, raced, aged>>
  BY DEF Rename
<1>2. /\ phase = "rename" /\ phase' = "idle" /\ touched' = {} /\ mixed' = {}
      /\ unrecorded' = unrecorded \ {t \in Targets : status[t] = "built"}
      /\ misled' = misled \cup {t \in Targets : Done(t) /\ ToSet(names[t]) \cap mixed # {}}
  BY DEF Rename
<1>3. /\ ninfo' = [f \in Files |-> NoInfo] /\ status' = [f \in Files |-> "todo"]
      /\ names' = [t \in Targets |-> <<>>] /\ reads' = [t \in Targets |-> <<>>]
  BY DEF Rename, Forgotten
<1>4. VersionsOK' /\ CacheOK' /\ DiskOK'
  BY <1>1 DEF VersionsOK, Known, CacheOK, DiskOK, exists
<1>5. MemoryOK' /\ WrittenOK'
  BY <1>1, <1>2, <1>3 DEF MemoryOK, WrittenOK, options, counters, Statuses, Sources
<1>6. WaitingOK' /\ DoneOK' /\ VisitedOK'
  <2>1. WaitingOK' /\ DoneOK' /\ \A f \in Files : ~Done(f)'
    BY <1>3, RebuildAssumption DEF WaitingOK, WaitingFor, DoneOK, DoneFor, Done, Decided
  <2> QED BY <1>3, <2>1 DEF VisitedOK, MixedIn, NoInfo
<1>7. \A t \in Targets \ Explained' : Done(t) => Sound(t)
  BY <1>1, <1>2 DEF Explained, Sound, Done
<1>8. DatabaseOK'
  <2>1. db' = [f \in Files |-> Entry(f)]
    BY <1>2 DEF Rename, WrittenOK
  <2>2. ASSUME NEW t \in Targets \ Explained'
        PROVE  RecordIn(versions, disk, aged, t, db'[t])
    <3>1. db'[t] = Entry(t)
      BY <2>1, RebuildAssumption
    <3>2. CASE Done(t)
      BY <1>7, <3>1, <3>2, EntryRecord DEF WaitingOK, DoneOK
    <3>3. CASE ~Done(t)
      <4>1. t \notin Explained
        BY <1>1, <1>2, <3>3 DEF Explained, Done
      <4>2. RecordIn(versions, disk, aged, t, stored[t])
        BY <1>2, <4>1 DEF StoredOK
      <4> QED BY <3>1, <3>3, <4>2 DEF Entry
    <3> QED BY <3>2, <3>3
  <2> QED BY <1>1, <2>2 DEF DatabaseOK
<1>9. StoredOK'
  BY <1>2 DEF StoredOK
<1>10. OutcomeOK'
  <2> SUFFICES ASSUME outcome' = "made", NEW t \in request' \ Explained'
               PROVE  exists(t)' /\ disk'[t].content = Clean(t)'
    BY <1>2 DEF OutcomeOK, NothingStale
  <2>1. touched = {} /\ request' = request /\ t \in Targets /\ Done(t)
    <3>1. outcome' = IF touched # {} THEN "overtaken"
                     ELSE IF \A u \in request : Done(u) THEN "made" ELSE "failed"
      BY DEF Rename
    <3>2. touched = {} /\ \A u \in request : Done(u)
      BY <3>1
    <3> QED BY <1>1, <3>2 DEF options, MemoryOK
  <2>2. Sound(t) /\ Decided(t)
    BY <1>7, <2>1 DEF Decided, Done
  <2>3. /\ exists(t)
        /\ names[t] = ListAt(versions, t, Visited(t))
        /\ disk[t].content = Make(t, cmd[t], ContentsAt(versions, names[t], Visited(t)))
    BY <2>1, <2>2 DEF DoneOK, DoneFor, MadeIn
  <2>4. /\ names[t] \in Seq(Files)
        /\ \A i \in DOMAIN names[t] : Done(names[t][i])
    BY <2>1, <2>2, Children DEF WaitingOK
  <2>5. \A i \in DOMAIN Kids[t] : i \in DOMAIN names[t] /\ names[t][i] = Kids[t][i]
    BY <2>1, <2>3, KidsFirst
  <2>6. /\ ContentsAt(versions, names[t], Visited(t))
             = [i \in DOMAIN names[t] |-> disk[names[t][i]].content]
        /\ ListAt(versions, t, Visited(t)) = children(t)
    BY <2>1, <2>4, <2>5, AsVisited DEF Visited
  <2>7. disk[t].content = Clean(t)
    BY <2>3, <2>6, Zenon DEF Clean
  <2> QED BY <1>1, <2>3, <2>7 DEF exists, Clean, children, scan
<1>11. EntriesOK'
  <2>1. db' = [f \in Files |-> Entry(f)]
        /\ dated' = {f \in Files : Mixed(f, db'[f].ninfo) /\ (f \in dated \cup mixed \/ Redated(f))}
    BY <1>2 DEF Rename, WrittenOK
  <2>2. ASSUME NEW f \in Files, Mixed(f, db'[f].ninfo)
        PROVE  f \in dated \cup mixed \/ Redated(f)
    <3>1. db'[f] = Entry(f)
      BY <2>1
    <3>2. f \in dated \/ ~MixedIn(versions, f, stored[f].ninfo)
      BY <1>2 DEF EntriesOK, EntriesIn
    <3>3. CASE ~Done(f)
      BY <2>2, <3>1, <3>2, <3>3 DEF Entry, Mixed, MixedIn
    <3>4. CASE Done(f)
      <4>1. db'[f].ninfo = merge(stored[f].ninfo, ninfo[f])
        BY <3>1, <3>4 DEF Entry
      <4>2. ninfo[f].timestamp # None
        <5>1. PICK v \in versions : v.mtime = ninfo[f].timestamp
          BY <3>4 DEF VisitedOK, Was
        <5>2. v \in Known
          BY DEF Known
        <5>3. v.mtime \in Nat
          BY <5>2 DEF VersionsOK
        <5> QED BY <5>1, <5>3, RebuildAssumption
      <4>3. f \in mixed \/ ~MixedIn(versions, f, ninfo[f])
        BY DEF VisitedOK
      <4> QED BY <2>2, <3>2, <3>4, <4>1, <4>2, <4>3 DEF merge, Mixed, MixedIn, Redated
    <3> QED BY <3>3, <3>4
  <2> QED BY <1>1, <1>2, <2>1, <2>2 DEF EntriesOK, EntriesIn, Mixed, MixedIn
<1> QED BY <1>4, <1>5, <1>6, <1>8, <1>9, <1>10, <1>11
-----------------------------------------------------------------------------
(* The walk. *)

LEMMA ComesInWalk ==
  ASSUME NEW f \in First
  PROVE  f \in Files /\ phase = "walk" /\ Examinable(f)
BY DEF First, Left

LEMMA VisitInv ==
  ASSUME ScannerType, IInv, NEW s \in Sources, s \in First, Visit(s)
  PROVE  IInv'
<1> USE DEF IInv
<1>1. s \in Files /\ s \notin Targets /\ phase = "walk" /\ status[s] = "todo"
  BY ComesInWalk DEF Sources, Examinable
<1>2. UNCHANGED <<disk, oldUpTo, cmd, options, stored, stopping, names, reads, phase, db, tmp,
                  cache, clock, counters, versions, unrecorded, raced, misled, touched, dated, aged,
                  outcome>>
  BY DEF Visit
<1>3. /\ status'[s] = "current" /\ ninfo'[s].timestamp = disk[s].mtime
      /\ \A f \in Files \ {s} : status'[f] = status[f] /\ ninfo'[f] = ninfo[f]
      /\ DOMAIN ninfo' = Files /\ status' \in [Files -> Statuses]
  BY <1>1 DEF Visit, MemoryOK, VisitedInfo, Statuses
<1>4. \A f \in Files \ mixed' : ~MixedIn(versions, f, ninfo'[f])
  <2> SUFFICES ASSUME NEW f \in Files \ mixed' PROVE ~MixedIn(versions, f, ninfo'[f])
    OBVIOUS
  <2>1. CASE f # s
    BY <1>3, <2>1 DEF VisitedOK, Visit
  <2>2. CASE f = s /\ s \in dated
    BY <2>2 DEF Visit, Mixes, Mixed, MixedIn
  <2>3. CASE f = s /\ s \notin dated
    <3>1. ninfo'[s] = VisitedInfo(s)
      BY <1>1 DEF Visit, MemoryOK
    <3> QED BY <1>1, <2>3, <3>1, DriftSig DEF EntriesOK, VisitedOK
  <2> QED BY <2>1, <2>2, <2>3
<1>5. mixed \subseteq mixed'
  BY DEF Visit
<1>6. VersionsOK' /\ CacheOK' /\ DiskOK'
  BY <1>2 DEF VersionsOK, Known, CacheOK, DiskOK, exists
<1>7. MemoryOK' /\ WrittenOK'
  BY <1>1, <1>2, <1>3 DEF MemoryOK, WrittenOK, options, counters, Sources
<1>8. OthersStep(s)
  <2>1. FilesStep(disk, aged, clock, disk', aged')
    BY <1>2, DiskTimes DEF FilesStep
  <2>2. \A f \in Files : Done(f) => Done(f)' /\ ninfo'[f].timestamp = ninfo[f].timestamp
    BY <1>1, <1>3 DEF Done
  <2>3. \A t \in Targets \ {s} : t \in Files \ {s}
    BY RebuildAssumption
  <2> QED BY <1>1, <1>2, <1>3, <1>5, <2>1, <2>2, <2>3 DEF OthersStep
<1>9. VisitedOK'
  <2>1. exists(s) /\ Was(versions, s, disk[s].mtime)
    BY <1>1 DEF DiskOK, Version, Was
  <2>2. \A f \in Files \ {s} : Done(f)' <=> Done(f)
    BY <1>3 DEF Done
  <2>3. \A f \in Files \ {s} : Done(f)' =>
          /\ Was(versions', f, ninfo'[f].timestamp)
          /\ f \notin touched' => exists(f)' /\ ninfo'[f].timestamp = disk'[f].mtime
    BY <1>2, <1>3, <2>2 DEF VisitedOK, exists
  <2>4. \A f \in Files : status'[f] = "todo" => ninfo'[f] = NoInfo
    BY <1>3 DEF VisitedOK
  <2> QED BY <1>2, <1>3, <1>4, <2>1, <2>3, <2>4 DEF VisitedOK, exists
<1>10. WaitingOK' /\ DoneOK'
  BY <1>1, <1>6, <1>8, OthersKept DEF WaitingOK, DoneOK
<1>11. DatabaseOK' /\ StoredOK'
  BY <1>1, <1>6, <1>8, RecordsKept
<1>12. OutcomeOK'
  BY <1>1, <1>2 DEF OutcomeOK
<1>13. EntriesOK'
  BY <1>1, <1>2, EntriesKept
<1> QED BY <1>6, <1>7, <1>9, <1>10, <1>11, <1>12, <1>13

LEMMA FailedInv ==
  ASSUME ScannerType, IInv, NEW t \in Targets, Failed(t)
  PROVE  IInv'
<1> USE DEF IInv
<1>1. t \in Files /\ phase = "walk" /\ status[t] = "running"
  BY RebuildAssumption DEF Failed
<1>2. UNCHANGED <<disk, oldUpTo, cmd, options, ninfo, stored, names, phase, db,
                  tmp, cache, clock, counters, history>>
  BY DEF Failed
<1>3. /\ status'[t] = "failed" /\ DOMAIN reads' = Targets /\ status' \in [Files -> Statuses]
      /\ \A f \in Files \ {t} : status'[f] = status[f]
      /\ \A u \in Targets \ {t} : reads'[u] = reads[u]
  BY <1>1 DEF Failed, MemoryOK, Statuses
<1>4. VersionsOK' /\ CacheOK' /\ DiskOK'
  BY <1>2 DEF VersionsOK, Known, CacheOK, DiskOK, exists, history
<1>5. MemoryOK' /\ WrittenOK'
  BY <1>1, <1>2, <1>3 DEF MemoryOK, WrittenOK, options, counters, history, Sources
<1>6. t \in unrecorded
  BY <1>1 DEF WaitingOK, WaitingFor
<1>7. OthersStep(t)
  <2>1. FilesStep(disk, aged, clock, disk', aged')
    BY <1>2, DiskTimes DEF FilesStep, history
  <2>2. \A f \in Files : Done(f) => Done(f)' /\ ninfo'[f].timestamp = ninfo[f].timestamp
    BY <1>1, <1>2, <1>3 DEF Done
  <2>3. \A u \in Targets \ {t} : u \in Files \ {t}
    BY RebuildAssumption
  <2> QED BY <1>2, <1>3, <1>6, <2>1, <2>2, <2>3 DEF OthersStep, Explained, history
<1>8. VisitedOK'
  <2>1. \A f \in Files : Done(f)' => Done(f)
    BY <1>1, <1>3 DEF Done
  <2>2. \A f \in Files : status'[f] = "todo" => status[f] = "todo"
    BY <1>1, <1>3
  <2> QED BY <1>2, <2>1, <2>2 DEF VisitedOK, exists, history
<1>9. WaitingFor(t)' /\ DoneFor(t)'
  BY <1>2, <1>3, <1>6 DEF WaitingFor, DoneFor, Decided, Done, history
<1>10. WaitingOK' /\ DoneOK'
  BY <1>1, <1>4, <1>7, <1>9, OthersKept DEF WaitingOK, DoneOK
<1>11. DatabaseOK' /\ StoredOK'
  BY <1>1, <1>4, <1>7, RecordsKept
<1>12. OutcomeOK'
  BY <1>1, <1>2 DEF OutcomeOK, history
<1>13. EntriesOK'
  BY <1>1, <1>2, EntriesKept DEF history
<1> QED BY <1>4, <1>5, <1>8, <1>10, <1>11, <1>12, <1>13
-----------------------------------------------------------------------------
(* A command starts. *)
LEMMA BeginInv ==
  ASSUME ScannerType, IInv, NEW t \in Targets, Begin(t)
  PROVE  IInv'
<1> USE DEF IInv
<1>1. t \in Files /\ phase = "walk" /\ status[t] = "ready"
  BY RebuildAssumption DEF Begin
<1>2. UNCHANGED <<oldUpTo, cmd, options, stored, stopping, names, phase, db, tmp, cache,
                  counters, unrecorded, raced, misled, touched, dated, aged, outcome>>
  BY DEF Begin
<1>3. /\ status'[t] = "running" /\ DOMAIN reads' = Targets /\ status' \in [Files -> Statuses]
      /\ \A f \in Files \ {t} : status'[f] = status[f]
      /\ \A u \in Targets \ {t} : reads'[u] = reads[u]
      /\ reads'[t] = [i \in DOMAIN names[t] |-> disk[names[t][i]].content]
  BY <1>1 DEF Begin, MemoryOK, Statuses
<1>4. /\ DOMAIN ninfo' = Files
      /\ \A f \in Files : ninfo'[f].timestamp = ninfo[f].timestamp
  BY DEF Begin, Signed, WithSig
<1>5. /\ clock' = clock + 1
      /\ DOMAIN disk' = Files /\ \A f \in Files \ {t} : disk'[f] = disk[f]
      /\ \/ disk' = disk /\ versions' = versions
         \/ disk'[t] = Partial /\ versions' = versions \cup {Version(t, Partial)}
  BY <1>1 DEF Begin, DiskOK
<1>6. \A f \in Files \ mixed' : ~MixedIn(versions', f, ninfo'[f])
  <2> SUFFICES ASSUME NEW f \in Files \ mixed' PROVE ~MixedIn(versions', f, ninfo'[f])
    OBVIOUS
  <2>1. ninfo'[f] = ninfo[f] \/ (f \in ToSet(names[t]) /\ ninfo'[f] = WithSig(f, get_csig(f)))
    BY DEF Begin, Signed
  <2>2. f \notin mixed /\ ~MixedIn(versions, f, ninfo[f])
    BY DEF Begin, VisitedOK
  <2>3. CASE f \in touched
    BY <1>5, <2>3 DEF Begin, Mixes, Mixed, MixedIn
  <2>4. CASE f \notin touched /\ f \in ToSet(names[t])
    <3>1. Done(f)
      BY <1>1, <2>4 DEF WaitingOK, WaitingFor, Decided, ToSet
    <3>2. ~MixedIn(versions, f, WithSig(f, get_csig(f)))
      BY <2>2, <2>4, <3>1, ComputedSig DEF MixedIn, WithSig
    <3> QED BY <1>5, <2>1, <2>2, <3>2 DEF MixedIn
  <2> QED BY <1>5, <2>1, <2>2, <2>3, <2>4 DEF MixedIn
<1>7. mixed \subseteq mixed'
  BY DEF Begin
<1>8. VersionsOK'
  <2>1. \A v \in Known' : \/ v \in Known
                          \/ v.file = t /\ v.content = <<"partial">> /\ v.mtime = clock + 1
    BY <1>2, <1>5 DEF Known, Version, Partial
  <2> QED BY <1>5, <2>1, VersionsGrow
<1>9. clock \in Nat /\ \A f \in Files : disk[f].mtime \in Nat /\ disk[f].mtime <= clock
  BY DiskTimes DEF VersionsOK
<1>10. DiskOK' /\ CacheOK'
  <2>1. CacheOK'
    BY <1>2 DEF CacheOK
  <2>2. \A f \in Files : disk'[f].mtime \in Nat
    BY <1>5, <1>9 DEF Partial
  <2>3. \A f \in Files : exists(f)' => Version(f, disk'[f]) \in versions'
    BY <1>5 DEF DiskOK, exists
  <2>4. \A s \in Sources : exists(s)'
    BY <1>5 DEF DiskOK, exists, Sources
  <2> QED BY <1>5, <2>1, <2>2, <2>3, <2>4 DEF DiskOK
<1>11. MemoryOK' /\ WrittenOK'
  BY <1>1, <1>2, <1>3, <1>4 DEF MemoryOK, WrittenOK, options, counters, Sources
<1>12. t \in unrecorded /\ \A i \in DOMAIN names[t] : names[t][i] # t
  BY <1>1 DEF WaitingOK, WaitingFor, Decided, Done
<1>13. OthersStep(t)
  <2>1. FilesStep(disk, aged, clock, disk', aged')
    BY <1>2, <1>5, <1>9 DEF FilesStep, Partial
  <2>2. \A f \in Files : Done(f) => Done(f)' /\ ninfo'[f].timestamp = ninfo[f].timestamp
    BY <1>1, <1>3, <1>4 DEF Done
  <2>3. \A u \in Targets \ {t} : u \in Files \ {t}
    BY RebuildAssumption
  <2> QED BY <1>2, <1>3, <1>5, <1>7, <1>12, <2>1, <2>2, <2>3 DEF OthersStep, Explained
<1>14. VisitedOK'
  <2>1. \A f \in Files : Done(f)' => Done(f) /\ f # t
    BY <1>1, <1>3 DEF Done
  <2>2. \A f \in Files : Done(f)' =>
          /\ Was(versions', f, ninfo'[f].timestamp)
          /\ f \notin touched' => exists(f)' /\ ninfo'[f].timestamp = disk'[f].mtime
    BY <1>2, <1>4, <1>5, <2>1 DEF VisitedOK, exists, Was
  <2>3. ASSUME NEW f \in Files, status'[f] = "todo" PROVE ninfo'[f] = NoInfo
    <3>1. f # t /\ status[f] = "todo"
      BY <1>3, <2>3
    <3>2. f \notin ToSet(names[t])
      BY <1>1, <3>1 DEF WaitingOK, WaitingFor, Decided, Done, ToSet
    <3> QED BY <3>1, <3>2 DEF Begin, Signed, VisitedOK
  <2> QED BY <1>6, <2>2, <2>3 DEF VisitedOK
<1>15. WaitingFor(t)' /\ DoneFor(t)'
  <2>1. /\ names[t] \in Seq(Files)
        /\ \A i \in DOMAIN names[t] : names[t][i] \in Files /\ Done(names[t][i])
        /\ \A i \in DOMAIN names[t] : Was(versions, names[t][i], Visited(t)[i])
    BY <1>1, Children DEF Decided, WaitingOK
  <2>2. Visited(t)' = Visited(t)
    BY <1>2, <1>4, <2>1 DEF Visited
  <2>3. \A i \in DOMAIN names[t] : Done(names[t][i])'
    BY <1>2, <1>13, <2>1 DEF OthersStep
  <2>4. versions \subseteq versions' /\ OneContent(versions')
    BY <1>5, <1>8 DEF VersionsOK, OneContent, Known
  <2>5. ASSUME Untouched(t)'
        PROVE  /\ names'[t] = ListAt(versions', t, Visited(t))
               /\ reads'[t] = ContentsAt(versions', names[t], Visited(t))
    <3>1. Untouched(t)
      BY <1>2, <2>5 DEF Untouched
    <3>2. names[t] = ListAt(versions, t, Visited(t))
      BY <1>1, <3>1 DEF WaitingOK, WaitingFor
    <3>3. \A i \in DOMAIN Kids[t] : i \in DOMAIN names[t] /\ names[t][i] = Kids[t][i]
      BY <3>2, KidsFirst
    <3>4. \A i \in DOMAIN names[t] : names[t][i] \notin touched
      BY <3>1 DEF Untouched, ToSet
    <3>5. ContentsAt(versions, names[t], Visited(t))
            = [i \in DOMAIN names[t] |-> disk[names[t][i]].content]
      BY <2>1, <3>3, <3>4, AsVisited DEF Visited
    <3>6. ContentsAt(versions', names[t], Visited(t)) = ContentsAt(versions, names[t], Visited(t))
      BY <2>1, <2>4, ContentsKept
    <3>7. names[t] = ListAt(versions', t, Visited(t))
      BY <2>1, <2>4, <3>2, ListKept
    <3> QED BY <1>2, <1>3, <3>5, <3>6, <3>7
  <2>6. WaitingFor(t)'
    BY <1>2, <1>3, <1>12, <2>2, <2>3, <2>5 DEF WaitingFor
  <2>7. DoneFor(t)'
    BY <1>3 DEF DoneFor, Done
  <2> QED BY <2>6, <2>7
<1>16. WaitingOK' /\ DoneOK'
  BY <1>1, <1>8, <1>13, <1>15, OthersKept DEF WaitingOK, DoneOK
<1>17. DatabaseOK' /\ StoredOK'
  BY <1>1, <1>8, <1>13, RecordsKept
<1>18. OutcomeOK'
  BY <1>1, <1>2 DEF OutcomeOK
<1>19. EntriesOK'
  BY <1>1, <1>2, <1>5, EntriesKept
<1> QED BY <1>8, <1>10, <1>11, <1>14, <1>16, <1>17, <1>18, <1>19
-----------------------------------------------------------------------------
(* A command ends well, or the cache has the target. *)

(* What the signatures of the children stand for. *)
LEMMA SigsTrue ==
  ASSUME ScannerType, IInv, NEW t \in Targets, status[t] = "running", Untouched(t),
         ToSet(names[t]) \cap mixed = {}
  PROVE  [i \in DOMAIN names[t] |-> get_csig(names[t][i])]
           = ContentsAt(versions, names[t], Visited(t))
<1>1. /\ names[t] \in Seq(Files)
      /\ \A i \in DOMAIN names[t] : names[t][i] \in Files /\ Done(names[t][i])
  BY Children DEF IInv, WaitingOK, Decided
<1>2. ASSUME NEW i \in DOMAIN names[t]
      PROVE  get_csig(names[t][i]) = At(versions, names[t][i], Visited(t)[i])
  <2> DEFINE c == names[t][i]
  <2>1. c \in Files /\ c \notin touched /\ c \notin mixed /\ Done(c)
    BY <1>1 DEF Untouched, ToSet
  <2>2. ~MixedIn(versions, c, ninfo[c])
    BY <2>1 DEF IInv, VisitedOK
  <2>3. exists(c) /\ ninfo[c].timestamp = disk[c].mtime
    BY <2>1 DEF IInv, VisitedOK
  <2>4. [file |-> c, content |-> disk[c].content, mtime |-> ninfo[c].timestamp] \in versions
    BY <2>1, <2>3 DEF IInv, DiskOK, Version
  <2>5. [file |-> c, content |-> get_csig(c), mtime |-> ninfo[c].timestamp] \in versions
    BY <2>2, <2>4 DEF get_csig, MixedIn
  <2>6. At(versions, c, ninfo[c].timestamp) = get_csig(c)
    BY <2>5, OneVersion, AtOf DEF IInv
  <2> QED BY <2>6 DEF Visited
<1> QED BY <1>2 DEF ContentsAt

LEMMA RemadeInv ==
  ASSUME ScannerType, IInv, NEW t \in Targets, NEW content, NEW mtime \in Nat, NEW wrong,
         phase = "walk", status[t] = "running", Remade(t, content, mtime, wrong),
         VersionsOK', CacheOK', 0 < mtime, mtime <= clock \/ mtime = clock + 1,
         ~wrong /\ Untouched(t) /\ ToSet(names[t]) \cap mixed = {} =>
           content = Make(t, cmd[t], ContentsAt(versions, names[t], Visited(t)))
  PROVE  IInv'
<1> USE DEF IInv
<1>1. t \in Files
  BY RebuildAssumption
<1>2. UNCHANGED <<oldUpTo, cmd, options, stored, stopping, names, phase, db, tmp,
                  counters, unrecorded, touched, mixed, dated, outcome>>
  BY DEF Remade
<1>3. /\ status'[t] = "built" /\ DOMAIN reads' = Targets /\ status' \in [Files -> Statuses]
      /\ \A f \in Files \ {t} : status'[f] = status[f] /\ ninfo'[f] = ninfo[f]
      /\ \A u \in Targets \ {t} : reads'[u] = reads[u]
      /\ DOMAIN ninfo' = Files /\ ninfo'[t] = [csig |-> content, timestamp |-> mtime]
  BY <1>1 DEF Remade, MemoryOK, Statuses
<1>4. /\ DOMAIN disk' = Files /\ \A f \in Files \ {t} : disk'[f] = disk[f]
      /\ disk'[t] = [content |-> content, mtime |-> mtime]
      /\ versions' = versions \cup {[file |-> t, content |-> content, mtime |-> mtime]}
  BY <1>1 DEF Remade, DiskOK, Version
<1>5. clock \in Nat /\ \A f \in Files : disk[f].mtime \in Nat /\ disk[f].mtime <= clock
  BY DiskTimes DEF VersionsOK
<1>6. DiskOK'
  <2>1. \A f \in Files : disk'[f].mtime \in Nat
    BY <1>4, <1>5
  <2>2. \A f \in Files : exists(f)' => Version(f, disk'[f]) \in versions'
    BY <1>4 DEF DiskOK, exists, Version
  <2>3. \A s \in Sources : exists(s)'
    BY <1>4 DEF DiskOK, exists, Sources
  <2> QED BY <1>4, <2>1, <2>2, <2>3 DEF DiskOK
<1>7. MemoryOK' /\ WrittenOK'
  BY <1>1, <1>2, <1>3 DEF MemoryOK, WrittenOK, options, counters, Sources
<1>8. t \in unrecorded /\ \A i \in DOMAIN names[t] : names[t][i] # t
  BY DEF WaitingOK, WaitingFor, Decided, Done
<1>9. \A f \in Files \ {t} : f \notin aged' => f \notin aged
  BY DEF Remade
<1>10. t \notin aged' => mtime > clock
  BY <1>5 DEF Remade
<1>11. raced \ {t} \subseteq raced' /\ misled \ {t} \subseteq misled'
  BY DEF Remade
<1>12. OthersStep(t)
  <2>1. FilesStep(disk, aged, clock, disk', aged')
    BY <1>4, <1>5, <1>9, <1>10 DEF FilesStep
  <2>2. \A f \in Files : Done(f) => Done(f)' /\ ninfo'[f].timestamp = ninfo[f].timestamp
    BY <1>3 DEF Done
  <2>3. \A u \in Targets \ {t} : u \in Files \ {t}
    BY RebuildAssumption
  <2> QED BY <1>2, <1>3, <1>4, <1>8, <1>11, <2>1, <2>2, <2>3 DEF OthersStep, Explained
<1>13. VisitedOK'
  <2>1. \A f \in Files \ {t} : Done(f)' => Done(f)
    BY <1>3 DEF Done
  <2>2. \A f \in Files \ {t} : Done(f)' =>
          /\ Was(versions', f, ninfo'[f].timestamp)
          /\ f \notin touched' => exists(f)' /\ ninfo'[f].timestamp = disk'[f].mtime
    BY <1>2, <1>3, <1>4, <2>1 DEF VisitedOK, exists, Was
  <2>3. \A f \in Files \ {t} : f \notin mixed' => ~MixedIn(versions', f, ninfo'[f])
    BY <1>2, <1>3, <1>4 DEF VisitedOK, MixedIn
  <2>4. /\ Was(versions', t, ninfo'[t].timestamp) /\ ~MixedIn(versions', t, ninfo'[t])
        /\ exists(t)' /\ ninfo'[t].timestamp = disk'[t].mtime
    <3> DEFINE v == [file |-> t, content |-> content, mtime |-> mtime]
    <3>1. v \in versions' /\ v.file = t /\ v.mtime = mtime
      BY <1>4
    <3>2. ninfo'[t].timestamp = mtime /\ ninfo'[t].csig = content /\ disk'[t].mtime = mtime
      BY <1>3, <1>4
    <3>3. Was(versions', t, mtime)
      BY <3>1 DEF Was
    <3>4. ~MixedIn(versions', t, ninfo'[t])
      BY <3>1, <3>2 DEF MixedIn
    <3> QED BY <3>2, <3>3, <3>4 DEF exists
  <2>5. \A f \in Files : status'[f] = "todo" => ninfo'[f] = NoInfo
    BY <1>3 DEF VisitedOK
  <2> QED BY <2>2, <2>3, <2>4, <2>5 DEF VisitedOK
<1>14. WaitingFor(t)' /\ DoneFor(t)'
  <2>1. /\ names[t] \in Seq(Files)
        /\ \A i \in DOMAIN names[t] : names[t][i] \in Files /\ Done(names[t][i])
        /\ \A i \in DOMAIN names[t] : Was(versions, names[t][i], Visited(t)[i])
    BY Children DEF Decided, WaitingOK
  <2>2. Visited(t)' = Visited(t)
    BY <1>2, <1>3, <1>8, <2>1 DEF Visited
  <2>3. \A i \in DOMAIN names[t] : Done(names[t][i])'
    BY <1>2, <1>12, <2>1 DEF OthersStep
  <2>4. versions \subseteq versions' /\ OneContent(versions')
    BY <1>4 DEF VersionsOK, OneContent, Known
  <2>5. WaitingFor(t)'
    BY <1>2, <1>3, <1>8, <2>3 DEF WaitingFor
  <2>6. ASSUME Sound(t)'
        PROVE  /\ names[t] = ListAt(versions', t, Visited(t))
               /\ MadeIn(versions', disk', aged', t, names[t], Visited(t), cmd[t])
    <3>1. Untouched(t) /\ ~wrong /\ ToSet(names[t]) \cap mixed = {}
      BY <1>2, <2>6 DEF Sound, Remade, Untouched
    <3>2. names[t] = ListAt(versions, t, Visited(t))
      BY <3>1 DEF WaitingOK, WaitingFor
    <3>3. names[t] = ListAt(versions', t, Visited(t))
      BY <2>1, <2>4, <3>2, ListKept
    <3>4. ContentsAt(versions', names[t], Visited(t)) = ContentsAt(versions, names[t], Visited(t))
      BY <2>1, <2>4, ContentsKept
    <3>5. disk'[t].content = Make(t, cmd[t], ContentsAt(versions', names[t], Visited(t)))
      BY <1>4, <3>1, <3>4
    <3>6. \A i \in DOMAIN names[t] : names[t][i] \notin touched
      BY <3>1 DEF Untouched, ToSet
    <3>7. NewerIn(disk', aged', t, names[t], Visited(t))
      <4> SUFFICES ASSUME NEW i \in DOMAIN names[t]
                   PROVE  disk'[names[t][i]].mtime = Visited(t)[i]
        BY DEF NewerIn
      <4>1. ninfo[names[t][i]].timestamp = disk[names[t][i]].mtime
        BY <2>1, <3>6 DEF VisitedOK
      <4> QED BY <1>4, <1>8, <2>1, <4>1 DEF Visited
    <3> QED BY <3>3, <3>5, <3>7 DEF MadeIn
  <2>7. DoneFor(t)'
    BY <1>2, <1>4, <2>2, <2>6 DEF DoneFor, exists
  <2> QED BY <2>5, <2>7
<1>15. WaitingOK' /\ DoneOK'
  BY <1>1, <1>12, <1>14, OthersKept DEF WaitingOK, DoneOK
<1>16. DatabaseOK' /\ StoredOK'
  BY <1>1, <1>12, RecordsKept
<1>17. OutcomeOK'
  BY <1>2 DEF OutcomeOK
<1>18. EntriesOK'
  BY <1>2, <1>4, EntriesKept
<1> QED BY <1>6, <1>7, <1>13, <1>15, <1>16, <1>17, <1>18

LEMMA BuiltInv ==
  ASSUME ScannerType, IInv, NEW t \in Targets, Built(t)
  PROVE  IInv'
<1> DEFINE content == Make(t, cmd[t], reads[t])
<1> USE DEF IInv
<1>1. /\ phase = "walk" /\ status[t] = "running"
      /\ Remade(t, content, clock + 1, FALSE)
  BY DEF Built
<1>2. clock' = clock + 1 /\ clock \in Nat
      /\ versions' = versions \cup {[file |-> t, content |-> content, mtime |-> clock + 1]}
  <2>1. disk'[t] = [content |-> content, mtime |-> clock + 1]
    BY <1>1, RebuildAssumption DEF Remade, DiskOK
  <2> QED BY <1>1, <2>1 DEF Remade, Version, VersionsOK
<1>3. PICK entry : /\ entry = [bsig |-> Bsig(t), content |-> content, mtime |-> clock + 1,
                               wrong |-> t \in raced' \cup misled']
                   /\ cache' = cache \cup (IF use_cache THEN {entry} ELSE {})
  BY DEF Built
<1>4. Untouched(t) => reads[t] = ContentsAt(versions, names[t], Visited(t))
  BY <1>1 DEF WaitingOK, WaitingFor
<1>5. VersionsOK'
  <2>1. \A v \in Known' : \/ v \in Known
                          \/ v.file = t /\ v.content = content /\ v.mtime = clock + 1
    BY <1>2, <1>3 DEF Known, CachedVersion, Bsig
  <2> QED BY <1>2, <2>1, VersionsGrow
<1>6. CacheOK'
  <2>1. ASSUME ~entry.wrong PROVE content = Make(t, cmd[t], Bsig(t).csigs)
    <3>1. t \notin raced' \cup misled'
      BY <1>3, <2>1
    <3>2. Untouched(t) /\ ToSet(names[t]) \cap mixed = {}
      BY <1>1, <3>1 DEF Remade, Untouched
    <3>3. Bsig(t).csigs = ContentsAt(versions, names[t], Visited(t))
      BY <1>1, <3>2, SigsTrue DEF Bsig
    <3> QED BY <1>4, <3>2, <3>3
  <2>2. entry = [bsig |-> entry.bsig, content |-> entry.content, mtime |-> entry.mtime,
                 wrong |-> entry.wrong]
    BY <1>3
  <2>3. ~entry.wrong => entry.content = Make(entry.bsig.target, entry.bsig.bactsig, entry.bsig.csigs)
    BY <1>3, <2>1 DEF Bsig
  <2> QED BY <1>3, <2>2, <2>3 DEF CacheOK
<1>7. clock + 1 \in Nat /\ 0 < clock + 1
  BY <1>2
<1> QED BY <1>1, <1>4, <1>5, <1>6, <1>7, RemadeInv

LEMMA RetrievedInv ==
  ASSUME ScannerType, IInv, NEW t \in Targets, Retrieved(t)
  PROVE  IInv'
<1> USE DEF IInv
<1>1. PICK e \in Cached(t) :
        /\ Remade(t, e.content, IF decider = "timestamp-newer" THEN clock + 1 ELSE e.mtime, e.wrong)
        /\ cache' = (cache \ {e}) \cup {[e EXCEPT !.mtime = clock + 1]}
  BY DEF Retrieved
<1>2. /\ phase = "walk" /\ status[t] = "running"
      /\ e \in cache /\ e.bsig = Bsig(t) /\ e.bsig.target = t
  BY <1>1 DEF Retrieved, Cached, Bsig
<1> DEFINE mtime == IF decider = "timestamp-newer" THEN clock + 1 ELSE e.mtime
<1>3. clock \in Nat /\ e.mtime \in Nat /\ 0 < e.mtime /\ e.mtime <= clock
  <2>1. CachedVersion(e) \in Known
    BY <1>2 DEF Known
  <2> QED BY <2>1 DEF VersionsOK, CachedVersion
<1>4. clock' = clock + 1
      /\ versions' = versions \cup {[file |-> t, content |-> e.content, mtime |-> mtime]}
  <2>1. disk'[t] = [content |-> e.content, mtime |-> mtime]
    BY <1>1, RebuildAssumption DEF Remade, DiskOK
  <2> QED BY <1>1, <2>1 DEF Remade, Version
<1>5. PICK entry : /\ entry = [e EXCEPT !.mtime = clock + 1]
                   /\ cache' = (cache \ {e}) \cup {entry}
  BY <1>1
<1>6. entry = [bsig |-> e.bsig, content |-> e.content, mtime |-> clock + 1, wrong |-> e.wrong]
  BY <1>2, <1>5 DEF CacheOK
<1>7. VersionsOK'
  <2>1. CachedVersion(e) = [file |-> t, content |-> e.content, mtime |-> e.mtime]
        /\ CachedVersion(e) \in Known
    BY <1>2 DEF Known, CachedVersion
  <2>2. \A v \in Known' : \/ v \in Known
                          \/ v.file = t /\ v.content = e.content /\ v.mtime = clock + 1
    <3> SUFFICES ASSUME NEW v \in Known'
                 PROVE  v \in Known \/ (v.file = t /\ v.content = e.content /\ v.mtime = clock + 1)
      OBVIOUS
    <3>1. CASE v \in versions'
      BY <1>4, <2>1, <3>1 DEF Known
    <3>2. CASE \E d \in cache' : v = CachedVersion(d)
      <4>1. PICK d \in cache' : v = CachedVersion(d)
        BY <3>2
      <4>2. CASE d \in cache
        BY <4>1, <4>2 DEF Known
      <4>3. CASE d = entry
        BY <1>2, <1>6, <4>1, <4>3 DEF CachedVersion
      <4> QED BY <1>5, <4>2, <4>3
    <3> QED BY <3>1, <3>2 DEF Known, CachedVersion
  <2> QED BY <1>4, <2>2, VersionsGrow
<1>8. CacheOK'
  BY <1>2, <1>5, <1>6 DEF CacheOK
<1>9. ASSUME ~e.wrong, Untouched(t), ToSet(names[t]) \cap mixed = {}
      PROVE  e.content = Make(t, cmd[t], ContentsAt(versions, names[t], Visited(t)))
  <2>1. e.content = Make(t, cmd[t], Bsig(t).csigs)
    BY <1>2, <1>9 DEF CacheOK, Bsig
  <2> QED BY <1>2, <1>9, <2>1, SigsTrue DEF Bsig
<1>10. mtime \in Nat /\ 0 < mtime /\ (mtime <= clock \/ mtime = clock + 1)
  BY <1>3
<1>11. Remade(t, e.content, mtime, e.wrong)
  BY <1>1
<1> HIDE DEF mtime
<1> QED BY <1>2, <1>7, <1>8, <1>9, <1>10, <1>11, RemadeInv
-----------------------------------------------------------------------------
(* A target is decided upon. *)

LEMMA ChildrenType ==
  ASSUME ScannerType, NEW t \in Targets
  PROVE  /\ children(t) \in Seq(Files)
         /\ \A i \in DOMAIN Kids[t] : i \in DOMAIN children(t) /\ children(t)[i] = Kids[t][i]
<1> DEFINE kids == Kids[t]
           found == scan(Kids[t])
<1>1. kids \in Seq(Files)
  BY RebuildAssumption
<1>2. found \in Seq(Files)
  BY DEF ScannerType, scan
<1>3. children(t) = kids \o found
  BY DEF children
<1> HIDE DEF kids, found
<1>4. kids \o found \in Seq(Files) /\ Len(kids \o found) = Len(kids) + Len(found)
  BY <1>1, <1>2
<1>5. \A i \in DOMAIN kids : i \in DOMAIN (kids \o found) /\ (kids \o found)[i] = kids[i]
  BY <1>1, <1>2, <1>4
<1> QED BY <1>3, <1>4, <1>5 DEF kids

LEMMA DecisionTimes ==
  ASSUME NEW t, NEW c, decider \in Deciders
  PROVE  InfoAfterDecision(t, c).timestamp = ninfo[c].timestamp
BY DEF InfoAfterDecision, WithSig, Deciders

(* A child that is not changed, in the place that it has in the record, has  *)
(* the content that the record has of it: for each of the deciders.          *)
LEMMA Unchanged ==
  ASSUME IInv, NEW t \in Targets, FormIn(versions, t, stored[t]), exists(t),
         NewerIn(disk, aged, t, stored[t].names, Times(stored[t])), SetBack(t) = {},
         NEW i \in DOMAIN children(t), i \in DOMAIN stored[t].names, ~ChildChanged(t, i),
         NEW c \in Files, c = children(t)[i], c = stored[t].names[i],
         Done(c), c \notin touched, ~MixedIn(versions, c, InfoAfterDecision(t, c))
  PROVE  At(versions, c, ninfo[c].timestamp) = At(versions, c, stored[t].sigs[i].timestamp)
<1> DEFINE r == stored[t]
           now == ninfo[c].timestamp
           then == r.sigs[i].timestamp
<1>1. /\ DOMAIN r.sigs = DOMAIN r.names /\ r.names \in Seq(Files) /\ Len(r.sigs) = Len(r.names)
      /\ Was(versions, c, then) /\ ~MixedIn(versions, c, r.sigs[i])
  BY DEF FormIn
<1>2. PreviousByPlace(t, i) = r.sigs[i]
  <2>1. i <= Len(r.sigs)
    BY <1>1
  <2> QED BY <2>1 DEF PreviousByPlace
<1>3. PreviousByName(t, c) = r.sigs[i]
  <2> DEFINE at == {j \in DOMAIN r.names : r.names[j] = c}
             k == CHOOSE j \in at : TRUE
  <2>1. i \in at
    OBVIOUS
  <2>2. k \in at
    BY <2>1
  <2>3. r.sigs[k] = r.sigs[i]
    BY <2>1, <2>2 DEF FormIn
  <2>4. PreviousByName(t, c) = r.sigs[k]
    BY <2>1 DEF PreviousByName
  <2> QED BY <2>3, <2>4
<1>4. exists(c) /\ now = disk[c].mtime /\ now \in Nat
  BY DEF IInv, VisitedOK, DiskOK
<1>5. OneContent(versions)
  BY OneVersion DEF IInv
<1>6. ASSUME ~changed_content(c, r.sigs[i]), InfoAfterDecision(t, c) = WithSig(c, get_csig(c))
      PROVE  At(versions, c, now) = At(versions, c, then)
  <2>1. r.sigs[i].csig # None /\ get_csig(c) = r.sigs[i].csig
    BY <1>6 DEF changed_content
  <2>2. [file |-> c, content |-> r.sigs[i].csig, mtime |-> then] \in versions
    BY <1>1, <2>1 DEF MixedIn
  <2>3. [file |-> c, content |-> get_csig(c), mtime |-> now] \in versions
    BY <1>6, <2>1 DEF MixedIn, WithSig
  <2>4. At(versions, c, then) = r.sigs[i].csig
    BY <1>5, <2>2, AtOf
  <2>5. At(versions, c, now) = get_csig(c)
    BY <1>5, <2>3, AtOf
  <2> QED BY <2>1, <2>4, <2>5
<1>7. CASE decider = "MD5"
  <2>1. ~changed_content(c, r.sigs[i])
    BY <1>2, <1>7 DEF ChildChanged
  <2>2. InfoAfterDecision(t, c) = WithSig(c, get_csig(c))
    BY <1>7 DEF InfoAfterDecision
  <2> QED BY <1>6, <2>1, <2>2
<1>8. CASE decider = "MD5-timestamp"
  <2>1. ~changed_timestamp_then_content(t, c)
    BY <1>8 DEF ChildChanged
  <2>2. CASE ~changed_timestamp_match(c, r.sigs[i])
    BY <2>2 DEF changed_timestamp_match
  <2>3. CASE changed_timestamp_match(c, r.sigs[i])
    <3>1. ~changed_content(c, r.sigs[i])
      BY <1>3, <2>1, <2>3 DEF changed_timestamp_then_content
    <3>2. InfoAfterDecision(t, c) = WithSig(c, get_csig(c))
      BY <1>3, <1>8, <2>3 DEF InfoAfterDecision
    <3> QED BY <1>6, <3>1, <3>2
  <2> QED BY <2>2, <2>3
<1>9. CASE decider = "timestamp-newer"
  <2>1. ~changed_timestamp_newer(c, t)
    BY <1>9 DEF ChildChanged
  <2>2. ~(disk[c].mtime > disk[t].mtime)
    BY <1>4, <2>1 DEF changed_timestamp_newer
  <2>3. CASE c \in aged
    <3>1. c \in ToSet(children(t)) \cap aged
      BY <2>3 DEF ToSet
    <3>2. PreviousByName(t, c).timestamp = ninfo[c].timestamp
      BY <1>9, <3>1 DEF SetBack
    <3> QED BY <1>3, <3>2
  <2>4. CASE c \notin aged
    <3>1. Times(r)[i] = then
      BY DEF Times
    <3>2. disk[c].mtime = then
      BY <1>4, <2>2, <2>4, <3>1 DEF NewerIn, exists
    <3> QED BY <1>4, <3>2
  <2> QED BY <2>3, <2>4
<1>10. CASE decider = "timestamp-match"
  BY <1>2, <1>10 DEF ChildChanged, changed_timestamp_match
<1> QED BY <1>7, <1>8, <1>9, <1>10 DEF IInv, MemoryOK, Deciders

(* A target that is up to date is what its command makes of its children. *)
LEMMA UpToDate ==
  ASSUME ScannerType, IInv, NEW t \in Targets \ Explained, stored[t].bactsig # None,
         RecordIn(versions, disk, aged, t, stored[t]), is_up_to_date(t), SetBack(t) = {},
         \A c \in ToSet(children(t)) : /\ Done(c) /\ c \notin touched
                                       /\ ~MixedIn(versions, c, InfoAfterDecision(t, c)),
         NEW times, times = [i \in DOMAIN children(t) |-> ninfo[children(t)[i]].timestamp]
  PROVE  /\ children(t) = ListAt(versions, t, times)
         /\ MadeIn(versions, disk, aged, t, children(t), times, cmd[t])
<1> DEFINE r == stored[t]
<1>1. children(t) \in Seq(Files)
      /\ \A i \in DOMAIN Kids[t] : i \in DOMAIN children(t) /\ children(t)[i] = Kids[t][i]
  BY ChildrenType
<1>2. exists(t) /\ ~changed(t)
  BY DEF is_up_to_date
<1>3. /\ FormIn(versions, t, r)
      /\ MadeIn(versions, disk, aged, t, r.names, Times(r), cmd[t])
      /\ r.bactsig = cmd[t]
  BY <1>2 DEF RecordIn, exists, changed
<1>4. \A i \in DOMAIN children(t) : ~ChildChanged(t, i)
  BY <1>2 DEF changed
<1>5. \A i \in DOMAIN children(t) :
        /\ children(t)[i] \in Files /\ Done(children(t)[i]) /\ children(t)[i] \notin touched
        /\ ~MixedIn(versions, children(t)[i], InfoAfterDecision(t, children(t)[i]))
  BY <1>1 DEF ToSet
<1>6. ASSUME NEW i \in DOMAIN children(t), i \in DOMAIN r.names, r.names[i] = children(t)[i]
      PROVE  At(versions, children(t)[i], times[i]) = At(versions, r.names[i], Times(r)[i])
  <2>1. At(versions, children(t)[i], ninfo[children(t)[i]].timestamp)
          = At(versions, children(t)[i], r.sigs[i].timestamp)
    BY <1>2, <1>3, <1>4, <1>5, <1>6, Unchanged DEF MadeIn
  <2> QED BY <1>6, <2>1 DEF Times
<1>7. \A i \in DOMAIN Kids[t] : i \in DOMAIN r.names /\ r.names[i] = Kids[t][i]
  BY <1>3, KidsFirst DEF FormIn
<1>8. [i \in DOMAIN Kids[t] |-> At(versions, Kids[t][i], times[i])]
        = [i \in DOMAIN Kids[t] |-> At(versions, Kids[t][i], Times(r)[i])]
  BY <1>1, <1>6, <1>7
<1>9. ListAt(versions, t, times) = r.names
  BY <1>3, <1>8, Zenon DEF ListAt, FormIn
<1>10. ListAt(versions, t, times) = children(t)
  BY <1>1, <1>5, AsVisited DEF IInv
<1>11. ContentsAt(versions, children(t), times) = ContentsAt(versions, r.names, Times(r))
  BY <1>6, <1>9, <1>10 DEF ContentsAt
<1>12. NewerIn(disk, aged, t, children(t), times)
  <2> SUFFICES ASSUME NEW i \in DOMAIN children(t)
               PROVE  disk[children(t)[i]].mtime = times[i]
    BY DEF NewerIn
  <2> QED BY <1>5 DEF IInv, VisitedOK
<1> QED BY <1>3, <1>10, <1>11, <1>12 DEF MadeIn
LEMMA EvaluateInv ==
  ASSUME ScannerType, IInv, NEW t \in Targets, t \in First, Evaluate(t)
  PROVE  IInv'
<1> DEFINE list == children(t)
           times == [i \in DOMAIN list |-> ninfo[list[i]].timestamp]
           up == is_up_to_date(t)
<1> USE DEF IInv
<1>1. /\ t \in Files /\ phase = "walk" /\ status[t] = "todo"
      /\ \A c \in ToSet(list) : Done(c)
  BY ComesInWalk DEF Examinable
<1>2. /\ list \in Seq(Files)
      /\ \A i \in DOMAIN Kids[t] : i \in DOMAIN list /\ list[i] = Kids[t][i]
  BY ChildrenType
<1>3. \A i \in DOMAIN list : list[i] \in Files /\ Done(list[i]) /\ list[i] # t /\ list[i] \in ToSet(list)
  BY <1>1, <1>2 DEF ToSet, Done
<1>4. UNCHANGED <<oldUpTo, cmd, options, stored, stopping, reads, phase, db, tmp, cache,
                  clock, counters, versions, touched, dated, aged, outcome>>
  BY DEF Evaluate
<1>5. /\ names'[t] = list /\ \A u \in Targets \ {t} : names'[u] = names[u]
      /\ names' \in [Targets -> Seq(Files)]
  BY <1>2 DEF Evaluate, MemoryOK
<1>6. /\ DOMAIN ninfo' = Files
      /\ \A f \in Files \ {t} :
           ninfo'[f] = IF f \in ToSet(list) THEN InfoAfterDecision(t, f) ELSE ninfo[f]
      /\ up => ninfo'[t].timestamp = disk[t].mtime
  BY <1>1 DEF Evaluate, VisitedInfo
<1>7. \A f \in Files \ {t} : ninfo'[f].timestamp = ninfo[f].timestamp
  <2>1. decider \in Deciders
    BY DEF MemoryOK
  <2> QED BY <1>6, <2>1, DecisionTimes
<1>8. \A f \in Files \ mixed' : ~MixedIn(versions, f, ninfo'[f])
  <2> SUFFICES ASSUME NEW f \in Files \ mixed' PROVE ~MixedIn(versions, f, ninfo'[f])
    OBVIOUS
  <2>1. f \notin mixed /\ ~MixedIn(versions, f, ninfo[f])
    BY DEF Evaluate, VisitedOK
  <2>2. CASE f \in touched \/ (f = t /\ t \in dated) \/ (f \in ToSet(list) /\ t \in Explained)
    BY <2>2 DEF Evaluate, Mixes, Mixed, MixedIn
  <2>3. CASE f = t /\ t \notin dated
    <3>1. ninfo'[t] = IF up THEN VisitedInfo(t) ELSE ninfo[t]
      BY <1>1, <1>3 DEF Evaluate, MemoryOK, ToSet
    <3>2. ninfo[t] = NoInfo /\ EntriesIn(stored)
      BY <1>1 DEF VisitedOK, EntriesOK
    <3> QED BY <1>1, <2>1, <2>3, <3>1, <3>2, DriftSig
  <2>4. CASE f # t /\ f \in ToSet(list) /\ f \notin touched /\ t \notin Explained
    <3>1. ninfo'[f] = InfoAfterDecision(t, f) /\ Done(f)
      BY <1>1, <1>6, <2>4
    <3>2. RecordIn(versions, disk, aged, t, stored[t]) /\ decider \in Deciders
      BY <1>1, <2>4 DEF StoredOK, MemoryOK
    <3> QED BY <2>1, <2>4, <3>1, <3>2, DecisionSig
  <2>5. CASE f # t /\ f \notin ToSet(list)
    BY <1>6, <2>1, <2>5
  <2> QED BY <2>2, <2>3, <2>4, <2>5
<1>9. /\ mixed \subseteq mixed' /\ unrecorded \subseteq unrecorded'
      /\ raced \subseteq raced' /\ misled \subseteq misled'
  BY DEF Evaluate
<1>10. /\ status'[t] = IF up THEN "current" ELSE "ready"
       /\ status' \in [Files -> Statuses] /\ \A f \in Files \ {t} : status'[f] = status[f]
  BY <1>1 DEF Evaluate, MemoryOK, Statuses
<1>11. /\ DOMAIN disk' = Files /\ \A f \in Files \ {t} : disk'[f] = disk[f]
       /\ disk'[t] = IF up THEN disk[t] ELSE NoFile
  BY <1>1 DEF Evaluate, DiskOK
<1>12. VersionsOK' /\ CacheOK'
  BY <1>4 DEF VersionsOK, Known, CacheOK
<1>13. clock \in Nat /\ \A f \in Files : disk[f].mtime \in Nat /\ disk[f].mtime <= clock
  BY DiskTimes DEF VersionsOK
<1>14. DiskOK'
  <2>1. \A f \in Files : disk'[f] = disk[f] \/ (f = t /\ disk'[f] = NoFile)
    BY <1>11
  <2>2. \A f \in Files : disk'[f].mtime \in Nat
    BY <1>13, <2>1 DEF NoFile
  <2>3. \A f \in Files : exists(f)' => Version(f, disk'[f]) \in versions'
    BY <1>4, <2>1 DEF DiskOK, exists, NoFile
  <2>4. \A s \in Sources : exists(s)'
    BY <2>1 DEF DiskOK, exists, Sources
  <2> QED BY <1>11, <2>2, <2>3, <2>4 DEF DiskOK
<1>15. MemoryOK' /\ WrittenOK'
  BY <1>1, <1>4, <1>5, <1>6, <1>10 DEF MemoryOK, WrittenOK, options, counters, Sources
<1>16. up => exists(t)
  BY DEF is_up_to_date
<1>17. t \notin Explained' => up /\ t \notin Explained
  BY <1>9 DEF Evaluate, Explained
<1>18. OthersStep(t)
  <2>1. FilesStep(disk, aged, clock, disk', aged')
    BY <1>4, <1>11, <1>13 DEF FilesStep, NoFile
  <2>2. \A f \in Files : Done(f) => Done(f)' /\ ninfo'[f].timestamp = ninfo[f].timestamp
    BY <1>1, <1>7, <1>10 DEF Done
  <2>3. \A u \in Targets \ {t} : u \in Files \ {t}
    BY RebuildAssumption
  <2> QED BY <1>4, <1>5, <1>9, <1>10, <1>11, <1>17, <2>1, <2>2, <2>3 DEF OthersStep
<1>19. VisitedOK'
  <2>1. \A f \in Files \ {t} : Done(f)' => Done(f)
    BY <1>10 DEF Done
  <2>2. \A f \in Files \ {t} : Done(f)' =>
          /\ Was(versions', f, ninfo'[f].timestamp)
          /\ f \notin touched' => exists(f)' /\ ninfo'[f].timestamp = disk'[f].mtime
    BY <1>4, <1>7, <1>11, <2>1 DEF VisitedOK, exists
  <2>3. up => Was(versions, t, disk[t].mtime)
    BY <1>1, <1>16 DEF DiskOK, Version, Was
  <2>4. Done(t)' => up
    BY <1>10 DEF Done
  <2>5. Done(t)' => Was(versions', t, ninfo'[t].timestamp) /\ exists(t)'
                    /\ ninfo'[t].timestamp = disk'[t].mtime
    BY <1>4, <1>6, <1>11, <1>16, <2>3, <2>4 DEF exists
  <2>6. ASSUME NEW f \in Files, status'[f] = "todo" PROVE ninfo'[f] = NoInfo
    <3>1. f # t /\ status[f] = "todo"
      BY <1>10, <2>6
    <3>2. f \notin ToSet(list)
      BY <1>1, <3>1 DEF Done
    <3> QED BY <1>6, <3>1, <3>2 DEF VisitedOK
  <2> QED BY <1>4, <1>8, <2>2, <2>5, <2>6 DEF VisitedOK
<1>20. Visited(t)' = times
  BY <1>3, <1>5, <1>7 DEF Visited
<1>21. ASSUME Untouched(t)' PROVE list = ListAt(versions, t, times)
  <2>1. \A i \in DOMAIN list : list[i] \notin touched
    BY <1>3, <1>4, <1>5, <1>21 DEF Untouched
  <2> QED BY <1>2, <1>3, <2>1, AsVisited
<1>22. WaitingFor(t)'
  <2>1. \A i \in DOMAIN names'[t] : status'[names'[t][i]] \in {"current", "built"}
    BY <1>3, <1>5, <1>10 DEF Done
  <2>2. status'[t] = "ready" => t \in unrecorded'
    BY <1>10 DEF Evaluate
  <2>3. status'[t] \in {"ready", "running"} => status'[t] = "ready"
    BY <1>10
  <2>4. status'[t] \in {"ready", "running"} /\ Untouched(t)' =>
          names'[t] = ListAt(versions', t, Visited(t)')
    BY <1>4, <1>5, <1>20, <1>21
  <2> QED BY <1>10, <2>1, <2>2, <2>3, <2>4 DEF WaitingFor, Done
<1>23. DoneFor(t)'
  <2> SUFFICES ASSUME Done(t)', Sound(t)'
               PROVE  /\ exists(t)'
                      /\ list = ListAt(versions, t, times)
                      /\ MadeIn(versions, disk', aged, t, list, times, cmd[t])
    BY <1>4, <1>5, <1>20 DEF DoneFor
  <2>1. up /\ status'[t] = "current"
    BY <1>10 DEF Done
  <2>2. /\ t \notin raced' \cup misled' \cup unrecorded'
        /\ ToSet(list) \cap mixed' = {}
    BY <1>5, <2>1 DEF Sound
  <2>3. ToSet(list) \cap touched = {} /\ SetBack(t) = {} /\ disk' = disk
    BY <2>1, <2>2 DEF Evaluate
  <2>4. t \in Targets \ Explained
    BY <1>9, <2>2 DEF Explained
  <2>5. cmd[t] = stored[t].bactsig /\ cmd[t] # None
    BY <2>1, RebuildAssumption DEF is_up_to_date, changed, MemoryOK
  <2>6. RecordIn(versions, disk, aged, t, stored[t])
    BY <1>1, <2>4 DEF StoredOK
  <2>7. \A c \in ToSet(list) : /\ Done(c) /\ c \notin touched
                               /\ ~MixedIn(versions, c, InfoAfterDecision(t, c))
    <3> SUFFICES ASSUME NEW c \in ToSet(list)
                 PROVE  ~MixedIn(versions, c, InfoAfterDecision(t, c))
      BY <1>1, <2>3
    <3>1. c \in Files \ {t} /\ c \notin mixed'
      BY <1>3, <2>2 DEF ToSet
    <3> QED BY <1>6, <1>8, <3>1
  <2>8. list = ListAt(versions, t, times) /\ MadeIn(versions, disk, aged, t, list, times, cmd[t])
    BY <2>1, <2>3, <2>4, <2>5, <2>6, <2>7, UpToDate
  <2> QED BY <1>16, <2>1, <2>3, <2>8 DEF exists
<1>24. WaitingOK' /\ DoneOK'
  BY <1>1, <1>12, <1>18, <1>22, <1>23, OthersKept DEF WaitingOK, DoneOK
<1>25. DatabaseOK' /\ StoredOK'
  BY <1>1, <1>12, <1>18, RecordsKept
<1>26. OutcomeOK'
  BY <1>1, <1>4 DEF OutcomeOK
<1>27. EntriesOK'
  BY <1>1, <1>4, EntriesKept
<1> QED BY <1>12, <1>14, <1>15, <1>19, <1>24, <1>25, <1>26, <1>27

-----------------------------------------------------------------------------
LEMMA NextInv ==
  ASSUME ScannerType, IInv, [Next]_vars
  PROVE  IInv'
<1>1. CASE Reconfigure
  BY <1>1, ReconfigureInv
<1>2. CASE StartRun
  BY <1>2, StartRunInv
<1>3. CASE WriteTmp \/ Unlink
  BY <1>3, WriteInv
<1>4. CASE Rename
  BY <1>4, RenameInv
<1>5. CASE Crash
  BY <1>5, CrashInv
<1>6. ASSUME NEW s \in Sources, Edit(s) PROVE IInv'
  BY <1>6, EditInv
<1>7. ASSUME NEW s \in First \cap Sources, Visit(s) PROVE IInv'
  BY <1>7, VisitInv
<1>8. ASSUME NEW t \in First \cap Targets, Evaluate(t) PROVE IInv'
  BY <1>8, EvaluateInv
<1>9. ASSUME NEW t \in Targets, Begin(t) \/ Built(t) \/ Retrieved(t) \/ Failed(t)
      PROVE  IInv'
  BY <1>9, BeginInv, BuiltInv, RetrievedInv, FailedInv
<1>10. CASE UNCHANGED vars
  <2> USE <1>10 DEF vars, options, memory, counters, history, IInv
  <2>1. VersionsOK' /\ DiskOK' /\ CacheOK' /\ MemoryOK' /\ WrittenOK'
    BY DEF VersionsOK, Known, DiskOK, exists, CacheOK, MemoryOK, WrittenOK, Entry, Done
  <2>2. VisitedOK' /\ WaitingOK' /\ DoneOK'
    BY DEF VisitedOK, Done, exists, WaitingOK, WaitingFor, Decided, Untouched, Visited,
           DoneOK, DoneFor, Sound
  <2>3. DatabaseOK' /\ StoredOK' /\ EntriesOK'
    BY DEF DatabaseOK, StoredOK, EntriesOK, EntriesIn, Explained
  <2>4. OutcomeOK'
    <3>1. ASSUME NEW t \in Targets PROVE Clean(t)' = Clean(t) /\ children(t)' = children(t)
      <4>1. disk' = disk /\ cmd' = cmd
        OBVIOUS
      <4>2. scan(Kids[t])' = scan(Kids[t])
        BY <4>1, Zenon DEF scan
      <4>3. children(t)' = children(t)
        BY <4>2, Zenon DEF children
      <4>4. [i \in DOMAIN children(t) |-> disk[children(t)[i]].content]'
              = [i \in DOMAIN children(t) |-> disk[children(t)[i]].content]
        BY <4>1, <4>3, Zenon
      <4> QED BY <4>1, <4>3, <4>4, Zenon DEF Clean
    <3>2. request \subseteq Targets
      BY DEF MemoryOK
    <3> QED BY <3>1, <3>2 DEF OutcomeOK, NothingStale, Explained, exists
  <2> QED BY <2>1, <2>2, <2>3, <2>4
<1> QED BY <1>1, <1>2, <1>3, <1>4, <1>5, <1>6, <1>7, <1>8, <1>9, <1>10 DEF Next

LEMMA Inductive ==
  ASSUME ScannerType, FineClock
  PROVE  Spec => []IInv
<1>1. Init => IInv
  BY InitInv
<1>2. IInv /\ [Next]_vars => IInv'
  BY NextInv
<1> QED BY <1>1, <1>2, PTL DEF Spec

(* What a record says of a child is what the child was at the time that the  *)
(* record has of it.                                                         *)
LEMMA RecordedIs ==
  ASSUME VersionsOK, NEW f, NEW info, ~MixedIn(versions, f, info)
  PROVE  Recorded(f, info) = At(versions, f, info.timestamp)
<1>1. CASE info.csig # None
  <2>1. [file |-> f, content |-> info.csig, mtime |-> info.timestamp] \in versions
    BY <1>1 DEF MixedIn
  <2> QED BY <1>1, <2>1, AtOf, OneVersion DEF Recorded
<1>2. CASE info.csig = None
  BY <1>2 DEF Recorded, At
<1> QED BY <1>1, <1>2

(* The record that a target has in the database describes the file that is   *)
(* there: the command and the contents it was made from (File.store_info,    *)
(* SConsignEntry.merge and what the deciders write to the NodeInfos they     *)
(* compare), unless a command, an edit or a NodeInfo of two moments explains *)
(* that it cannot.                                                           *)
THEOREM RecordDescribesTargetCorrect ==
  ASSUME ScannerType, FineClock
  PROVE  Spec => []RecordDescribesTarget
<1>1. ASSUME IInv PROVE RecordDescribesTarget
  <2> SUFFICES ASSUME db # None, NEW t \in Targets \ Explained,
                      exists(t), db[t].bactsig # None
               PROVE  disk[t].content =
                        Make(t, db[t].bactsig,
                             [i \in DOMAIN db[t].names |->
                                Recorded(db[t].names[i], db[t].sigs[i])])
    BY DEF RecordDescribesTarget
  <2> DEFINE r == db[t]
  <2>1. /\ FormIn(versions, t, r)
        /\ MadeIn(versions, disk, aged, t, r.names, Times(r), r.bactsig)
    BY <1>1 DEF IInv, DatabaseOK, RecordIn, exists
  <2>2. \A i \in DOMAIN r.names :
          Recorded(r.names[i], r.sigs[i]) = At(versions, r.names[i], Times(r)[i])
    BY <1>1, <2>1, RecordedIs DEF IInv, FormIn, Times
  <2>3. [i \in DOMAIN r.names |-> Recorded(r.names[i], r.sigs[i])]
          = ContentsAt(versions, r.names, Times(r))
    BY <2>2 DEF ContentsAt
  <2> QED BY <2>1, <2>3, Zenon DEF MadeIn
<1> QED BY <1>1, Inductive, PTL

(* A run that made what it was asked for leaves no stale target: each is the *)
(* file that a build from nothing would make of the sources that are there,  *)
(* whichever decider Node.changed asked in this run and in the earlier ones, *)
(* and whatever was edited, deleted, retrieved from the cache or killed      *)
(* between them, except where the record of the target cannot be right.      *)
THEOREM NothingStaleCorrect ==
  ASSUME ScannerType, FineClock
  PROVE  Spec => []NothingStale
<1>1. IInv => NothingStale
  BY DEF IInv, OutcomeOK, NothingStale
<1> QED BY <1>1, Inductive, PTL

-----------------------------------------------------------------------------
(* A build after which nothing has changed makes nothing.                    *)

(* None is no content: not of a source, nor what a command makes, nor what   *)
(* is left of a target when its command is killed.  Nor is it a database.    *)
ContentsType ==
  /\ \A s \in Sources : /\ Versions[s] \in Seq(ToSet(Versions[s])) \ {<<>>}
                        /\ None \notin ToSet(Versions[s])
  /\ \A t \in Targets : \A command, contents : Make(t, command, contents) # None
  /\ None # <<"partial">>
  /\ \A entries : None # [f \in Files |-> entries[f]]

ContentsOK == \A v \in Known : v.content # None
DriftOK == oldUpTo \in Nat /\ oldUpTo <= clock

(* While no source was touched: the NodeInfo of a file that is done has the  *)
(* signature of what is there, or one that max_drift vouches for; a target   *)
(* that was decided upon names the children that it has, whose signatures    *)
(* are known (MD5) or which are not newer than it is (timestamp-newer).      *)
SigFrom(f) == \/ ninfo[f].csig \in {None, disk[f].content}
              \/ max_drift /\ disk[f].mtime <= oldUpTo
Named(t) ==
  Decided(t) =>
    /\ names[t] = children(t)
    /\ decider = "MD5" => \A i \in DOMAIN names[t] : ninfo[names[t][i]].csig # None
NoneNewer(t) ==
  decider = "timestamp-newer" /\ Done(t) =>
    \A i \in DOMAIN names[t] : ninfo[names[t][i]].timestamp <= disk[t].mtime
RunOK ==
  touched = {} =>
    /\ decider = "MD5" => \A f \in Files : Done(f) => SigFrom(f)
    /\ \A t \in Targets : Named(t) /\ NoneNewer(t)

(* The entries describe every target, with the command and the children that *)
(* it has, as the decider of the last run will compare them.                 *)
AsRecorded(entries, t, c, info) ==
  /\ info.timestamp = disk[c].mtime
  /\ decider = "MD5" =>
       /\ info.csig # None
       /\ entries[c].ninfo.csig = info.csig /\ entries[c].ninfo.timestamp = info.timestamp
       /\ info.csig = disk[c].content \/ (max_drift /\ disk[c].mtime <= oldUpTo)
  /\ decider = "timestamp-newer" => disk[c].mtime <= disk[t].mtime
Recent(entries) ==
  \A t \in Targets :
    /\ exists(t) /\ entries[t].bactsig = cmd[t]
    /\ entries[t].names = children(t) /\ Len(entries[t].sigs) = Len(entries[t].names)
    /\ \A i \in DOMAIN entries[t].names :
         AsRecorded(entries, t, entries[t].names[i], entries[t].sigs[i])

(* In a run that has nothing to make, a child that is done has the signature *)
(* that the target has recorded of it.                                       *)
SameSigs ==
  decider = "MD5" =>
    \A t \in Targets : \A i \in DOMAIN stored[t].names :
      Done(stored[t].names[i]) => get_csig(stored[t].names[i]) = stored[t].sigs[i].csig
SettledOK ==
  settled =>
    /\ touched = {}
    /\ phase = "idle" => db # None /\ Recent(db)
    /\ phase # "idle" => /\ Recent(stored) /\ SameSigs
                         /\ \A t \in Targets : status[t] \in {"todo", "current"}

NInv == IInv /\ DriftOK /\ ContentsOK /\ RunOK /\ SettledOK

LEMMA InitNInv == ASSUME FineClock, ContentsType PROVE Init => NInv
<1> SUFFICES ASSUME Init PROVE NInv
  OBVIOUS
<1>1. IInv
  BY InitInv
<1>2. /\ disk = [f \in Files |-> IF f \in Targets THEN NoFile
                                 ELSE [content |-> Versions[f][1], mtime |-> 1]]
      /\ versions = {Version(f, disk[f]) : f \in Sources}
      /\ cache = {} /\ clock = 1 /\ oldUpTo = 0 /\ settled = FALSE
      /\ status = [f \in Files |-> "todo"]
  BY Zenon DEF Init
<1>3. DriftOK
  BY <1>2 DEF DriftOK
<1>4. ContentsOK
  <2>1. ASSUME NEW s \in Sources PROVE Version(s, disk[s]).content # None
    <3>1. Versions[s] \in Seq(ToSet(Versions[s])) /\ Versions[s] # <<>> /\ None \notin ToSet(Versions[s])
      BY DEF ContentsType
    <3>2. 1 \in DOMAIN Versions[s]
      BY <3>1
    <3>3. Versions[s][1] \in ToSet(Versions[s])
      BY <3>2 DEF ToSet
    <3> QED BY <1>2, <3>1, <3>3 DEF Version, Sources
  <2>2. Known = versions
    BY <1>2 DEF Known
  <2> QED BY <1>2, <2>1, <2>2 DEF ContentsOK
<1>5. RunOK
  BY <1>2, RebuildAssumption DEF RunOK, Done, Decided, Named, NoneNewer
<1>6. SettledOK
  BY <1>2 DEF SettledOK
<1> QED BY <1>1, <1>3, <1>4, <1>5, <1>6 DEF NInv

(* The list of children stays as long as the sources of the target do.       *)
LEMMA ChildrenKept ==
  ASSUME ScannerType, NEW t \in Targets,
         \A i \in DOMAIN Kids[t] : disk'[Kids[t][i]].content = disk[Kids[t][i]].content
  PROVE  children(t)' = children(t)
<1>1. [i \in DOMAIN Kids[t] |-> disk[Kids[t][i]].content]'
        = [i \in DOMAIN Kids[t] |-> disk[Kids[t][i]].content]
  OBVIOUS
<1>2. scan(Kids[t])' = scan(Kids[t])
  BY <1>1, Zenon DEF scan
<1> QED BY <1>2, Zenon DEF children

(* A file that is done and was not touched is there, as it was visited. *)
LEMMA AsItIs ==
  ASSUME IInv, ContentsOK, NEW f \in Files, Done(f), f \notin touched
  PROVE  /\ exists(f) /\ disk[f].mtime \in Nat /\ ninfo[f].timestamp = disk[f].mtime
         /\ disk[f].content # None /\ get_csig(f) # None
<1>1. exists(f) /\ ninfo[f].timestamp = disk[f].mtime
  BY DEF IInv, VisitedOK
<1>2. Version(f, disk[f]) \in Known
  BY <1>1 DEF IInv, DiskOK, Known
<1>3. disk[f].content # None
  BY <1>2 DEF ContentsOK, Version
<1> QED BY <1>1, <1>3 DEF get_csig, IInv, DiskOK

-----------------------------------------------------------------------------
(* A step of the file u in the walk: the others keep what is known of them,  *)
(* except that a signature may be filled in.                                 *)
WalkStep(u) ==
  /\ UNCHANGED <<touched, decider, max_drift, oldUpTo>>
  /\ \A f \in Files \ {u} : Done(f)' => Done(f)
  /\ \A f \in Files : Done(f) => /\ disk'[f] = disk[f]
                                 /\ ninfo'[f].timestamp = ninfo[f].timestamp
                                 /\ decider = "MD5" =>
                                      ninfo'[f].csig \in {ninfo[f].csig, get_csig(f)}
  /\ \A t \in Targets \ {u} : (Decided(t)' => Decided(t)) /\ names'[t] = names[t]
  /\ \A t \in Targets \ {u} : Done(t)' => disk'[t] = disk[t]

(* A target that was decided upon keeps its children. *)
LEMMA NamedKept ==
  ASSUME ScannerType, IInv, ContentsOK, NEW u, WalkStep(u), touched = {},
         NEW t \in Targets, Decided(t), Named(t), names'[t] = names[t]
  PROVE  Named(t)' /\ \A i \in DOMAIN names[t] :
                        Done(names[t][i]) /\ ninfo'[names[t][i]].timestamp = ninfo[names[t][i]].timestamp
<1>1. /\ names[t] \in Seq(Files)
      /\ \A i \in DOMAIN names[t] : names[t][i] \in Files /\ Done(names[t][i])
  BY Children DEF IInv, WaitingOK
<1>2. \A i \in DOMAIN Kids[t] : i \in DOMAIN children(t) /\ children(t)[i] = Kids[t][i]
  BY ChildrenType
<1>3. names[t] = children(t)
  BY DEF Named
<1>4. \A i \in DOMAIN Kids[t] : disk'[Kids[t][i]] = disk[Kids[t][i]]
  BY <1>1, <1>2, <1>3 DEF WalkStep
<1>5. children(t)' = children(t)
  BY <1>4, ChildrenKept
<1>6. decider = "MD5" => \A i \in DOMAIN names[t] : ninfo'[names[t][i]].csig # None
  <2> SUFFICES ASSUME decider = "MD5", NEW i \in DOMAIN names[t]
               PROVE  ninfo'[names[t][i]].csig # None
    OBVIOUS
  <2>1. ninfo[names[t][i]].csig # None /\ get_csig(names[t][i]) = ninfo[names[t][i]].csig
    BY DEF Named, get_csig
  <2> QED BY <1>1, <2>1 DEF WalkStep
<1> QED BY <1>1, <1>3, <1>5, <1>6 DEF Named, WalkStep

LEMMA RunStep ==
  ASSUME ScannerType, IInv, ContentsOK, RunOK, NEW u \in Files, WalkStep(u),
         touched = {} /\ decider = "MD5" /\ Done(u)' => SigFrom(u)',
         touched = {} /\ u \in Targets => Named(u)' /\ NoneNewer(u)'
  PROVE  RunOK'
<1> SUFFICES ASSUME touched = {}
             PROVE  /\ decider = "MD5" => \A f \in Files : Done(f)' => SigFrom(f)'
                    /\ \A t \in Targets : Named(t)' /\ NoneNewer(t)'
  BY DEF RunOK, WalkStep
<1>1. ASSUME decider = "MD5", NEW f \in Files \ {u}, Done(f)' PROVE SigFrom(f)'
  <2>1. Done(f) /\ SigFrom(f)
    BY <1>1 DEF WalkStep, RunOK
  <2>2. disk'[f] = disk[f] /\ ninfo'[f].csig \in {ninfo[f].csig, disk[f].content}
    BY <1>1, <2>1 DEF WalkStep, get_csig
  <2> QED BY <2>1, <2>2 DEF SigFrom, WalkStep
<1>2. ASSUME NEW t \in Targets \ {u} PROVE Named(t)' /\ NoneNewer(t)'
  <2>1. CASE ~Decided(t)'
    BY <2>1 DEF Named, NoneNewer, Decided, Done
  <2>2. CASE Decided(t)'
    <3>1. Decided(t) /\ Named(t) /\ NoneNewer(t) /\ names'[t] = names[t]
      BY <1>2, <2>2 DEF WalkStep, RunOK
    <3>2. Named(t)' /\ \A i \in DOMAIN names[t] :
                         ninfo'[names[t][i]].timestamp = ninfo[names[t][i]].timestamp
      BY <3>1, NamedKept
    <3>3. ASSUME Done(t)' PROVE Done(t) /\ disk'[t] = disk[t]
      BY <1>2, <3>3, RebuildAssumption DEF WalkStep
    <3>4. decider' = decider
      BY DEF WalkStep
    <3> QED BY <3>1, <3>2, <3>3, <3>4 DEF NoneNewer
  <2> QED BY <2>1, <2>2
<1> QED BY <1>1, <1>2

(* The entries stay recent as long as the files and the options do. *)
LEMMA RecentKept ==
  ASSUME ScannerType, IInv, DriftOK, UNCHANGED <<disk, cmd, decider, max_drift>>,
         oldUpTo' \in {oldUpTo, clock},
         (Recent(stored) /\ stored' = stored) \/ (Recent(db) /\ stored' = db)
  PROVE  Recent(stored)'
<1>1. \A t \in Targets : children(t)' = children(t)
  BY ChildrenKept
<1>2. oldUpTo \in Nat /\ oldUpTo' \in Nat /\ oldUpTo <= oldUpTo'
  BY DEF DriftOK, IInv, VersionsOK
<1>3. ASSUME NEW t \in Targets
      PROVE  /\ exists(t) /\ stored'[t].bactsig = cmd[t]
             /\ stored'[t].names = children(t) /\ Len(stored'[t].sigs) = Len(stored'[t].names)
  BY DEF Recent
<1>4. ASSUME NEW t \in Targets, NEW i \in DOMAIN stored'[t].names
      PROVE  AsRecorded(stored, t, stored[t].names[i], stored[t].sigs[i])'
  <2> DEFINE c == stored'[t].names[i]
             info == stored'[t].sigs[i]
  <2>1. AsRecorded(stored', t, c, info)
    BY DEF Recent
  <2>2. c \in Files
    <3>1. children(t) \in Seq(Files) /\ i \in DOMAIN children(t) /\ c = children(t)[i]
      BY <1>3, ChildrenType
    <3> QED BY <3>1
  <2>3. disk[c].mtime \in Nat
    BY <2>2 DEF IInv, DiskOK
  <2>4. disk[c].mtime <= oldUpTo => disk[c].mtime <= oldUpTo'
    BY <1>2, <2>3
  <2> HIDE DEF c, info
  <2>5. /\ info.timestamp = disk'[c].mtime
        /\ decider' = "MD5" =>
             /\ info.csig # None
             /\ stored'[c].ninfo.csig = info.csig /\ stored'[c].ninfo.timestamp = info.timestamp
             /\ info.csig = disk'[c].content \/ (max_drift' /\ disk'[c].mtime <= oldUpTo')
        /\ decider' = "timestamp-newer" => disk'[c].mtime <= disk'[t].mtime
    BY <2>1, <2>4 DEF AsRecorded
  <2> QED BY <2>5 DEF AsRecorded, c, info
<1> QED BY <1>1, <1>3, <1>4 DEF Recent, exists

(* A file that is visited gets the signature that the targets have recorded. *)
LEMMA VisitedSig ==
  ASSUME NEW t \in Targets, NEW i \in DOMAIN stored[t].names, NEW c \in Files,
         c = stored[t].names[i], AsRecorded(stored, t, c, stored[t].sigs[i]),
         decider = "MD5", ninfo[c] = NoInfo, ninfo'[c] = VisitedInfo(c), disk'[c] = disk[c]
  PROVE  get_csig(c)' = stored[t].sigs[i].csig
<1>1. ninfo'[c].csig = get_max_drift_csig(c)
  BY DEF VisitedInfo, NoInfo
<1> QED BY <1>1 DEF get_csig, get_max_drift_csig, AsRecorded

LEMMA SigKept ==
  ASSUME NEW f, ninfo'[f].csig \in {ninfo[f].csig, get_csig(f)}, disk'[f] = disk[f]
  PROVE  get_csig(f)' = get_csig(f)
BY DEF get_csig

LEMMA ListedFiles ==
  ASSUME ScannerType, Recent(stored), NEW t \in Targets, NEW i \in DOMAIN stored[t].names
  PROVE  stored[t].names[i] \in Files
<1>1. stored[t].names \in Seq(Files)
  BY ChildrenType DEF Recent
<1> QED BY <1>1

LEMMA SigsStep ==
  ASSUME ScannerType, Recent(stored), SameSigs, stored' = stored, decider' = decider,
         \A f \in Files : decider = "MD5" /\ Done(f)' =>
            \/ Done(f) /\ get_csig(f)' = get_csig(f)
            \/ ninfo[f] = NoInfo /\ ninfo'[f] = VisitedInfo(f) /\ disk'[f] = disk[f]
  PROVE  SameSigs'
<1>1. ASSUME decider = "MD5", NEW t \in Targets, NEW i \in DOMAIN stored[t].names,
             NEW c, c = stored[t].names[i], Done(c)'
      PROVE  get_csig(c)' = stored[t].sigs[i].csig
  <2>1. c \in Files /\ AsRecorded(stored, t, c, stored[t].sigs[i])
    BY <1>1, ListedFiles DEF Recent
  <2>2. CASE Done(c) /\ get_csig(c)' = get_csig(c)
    <3>1. get_csig(c) = stored[t].sigs[i].csig
      BY <1>1, <2>2 DEF SameSigs
    <3> QED BY <2>2, <3>1
  <2>3. CASE ninfo[c] = NoInfo /\ ninfo'[c] = VisitedInfo(c) /\ disk'[c] = disk[c]
    BY <1>1, <2>1, <2>3, VisitedSig
  <2> QED BY <1>1, <2>1, <2>2, <2>3
<1> QED BY <1>1 DEF SameSigs

(* Nothing is out of date, by any of the deciders. *)
LEMMA NothingToDo ==
  ASSUME ScannerType, NInv, settled, NEW t \in Targets, t \in First
  PROVE  is_up_to_date(t)
<1> DEFINE list == children(t)
<1>1. /\ touched = {} /\ Recent(stored) /\ SameSigs
      /\ \A c \in ToSet(list) : Done(c)
  BY ComesInWalk DEF NInv, SettledOK, Examinable
<1>2. /\ exists(t) /\ stored[t].bactsig = cmd[t]
      /\ stored[t].names = list /\ Len(stored[t].sigs) = Len(list)
      /\ list \in Seq(Files)
  BY <1>1, ChildrenType DEF Recent
<1>3. ASSUME NEW i \in DOMAIN list PROVE ~ChildChanged(t, i)
  <2> DEFINE c == list[i]
             info == stored[t].sigs[i]
  <2>1. c \in Files /\ Done(c) /\ AsRecorded(stored, t, c, info)
    <3>1. c \in Files /\ c \in ToSet(list) /\ i \in DOMAIN stored[t].names /\ c = stored[t].names[i]
      BY <1>2 DEF ToSet
    <3>2. AsRecorded(stored, t, stored[t].names[i], info)
      BY <1>1, <3>1 DEF Recent
    <3> QED BY <1>1, <3>1, <3>2
  <2>2. ninfo[c].timestamp = disk[c].mtime /\ disk[c].mtime \in Nat
    BY <1>1, <2>1, AsItIs DEF NInv
  <2>3. CASE decider = "MD5"
    <3>1. get_csig(c) = info.csig /\ info.csig # None
      BY <1>1, <1>2, <2>1, <2>3 DEF SameSigs, AsRecorded
    <3>2. PreviousByPlace(t, i) = info
      BY <1>2 DEF PreviousByPlace
    <3> QED BY <2>3, <3>1, <3>2 DEF ChildChanged, changed_content
  <2>4. CASE decider = "MD5-timestamp"
    <3>1. PICK j \in DOMAIN list : list[j] = c /\ PreviousByName(t, c) = stored[t].sigs[j]
      BY <1>2 DEF PreviousByName
    <3>2. stored[t].sigs[j].timestamp = disk[c].mtime
      <4>1. AsRecorded(stored, t, stored[t].names[j], stored[t].sigs[j])
        BY <1>1, <1>2 DEF Recent
      <4> QED BY <1>2, <3>1, <4>1 DEF AsRecorded
    <3>3. ~changed_timestamp_match(c, PreviousByName(t, c))
      BY <2>2, <3>1, <3>2, RebuildAssumption DEF changed_timestamp_match
    <3> QED BY <2>4, <3>3 DEF ChildChanged, changed_timestamp_then_content
  <2>5. CASE decider = "timestamp-newer"
    <3>1. disk[c].mtime <= disk[t].mtime /\ disk[t].mtime \in Nat
      BY <2>1, <2>5, RebuildAssumption DEF AsRecorded, NInv, IInv, DiskOK
    <3> QED BY <1>2, <2>2, <2>5, <3>1 DEF ChildChanged, changed_timestamp_newer
  <2>6. CASE decider = "timestamp-match"
    <3>1. PreviousByPlace(t, i) = info
      BY <1>2 DEF PreviousByPlace
    <3>2. ~changed_timestamp_match(c, info)
      BY <2>1, <2>2, RebuildAssumption DEF changed_timestamp_match, AsRecorded
    <3> QED BY <2>6, <3>1, <3>2 DEF ChildChanged
  <2> QED BY <2>3, <2>4, <2>5, <2>6 DEF NInv, IInv, MemoryOK, Deciders
<1> QED BY <1>2, <1>3 DEF is_up_to_date, changed

-----------------------------------------------------------------------------
(* The steps of the walk.                                                    *)

LEMMA VisitNothing ==
  ASSUME ScannerType, NInv, NEW s \in Sources, s \in First, Visit(s)
  PROVE  NInv'
<1> USE DEF NInv
<1>1. IInv'
  BY VisitInv
<1>2. s \in Files /\ s \notin Targets /\ phase = "walk" /\ status[s] = "todo" /\ ~Done(s)
      /\ ninfo[s] = NoInfo
  BY ComesInWalk DEF Sources, Examinable, Done, IInv, VisitedOK
<1>3. UNCHANGED <<disk, oldUpTo, cmd, options, stored, names, phase, db, cache, clock,
                  versions, touched, settled>>
  BY DEF Visit
<1>4. /\ status'[s] = "current" /\ ninfo'[s] = VisitedInfo(s)
      /\ \A f \in Files \ {s} : status'[f] = status[f] /\ ninfo'[f] = ninfo[f]
  BY <1>2 DEF Visit, IInv, MemoryOK
<1>5. DriftOK' /\ ContentsOK'
  BY <1>3 DEF DriftOK, ContentsOK, Known
<1>6. RunOK'
  <2>1. WalkStep(s)
    <3>1. \A t \in Targets : t \in Files \ {s}
      BY <1>2, RebuildAssumption
    <3> QED BY <1>2, <1>3, <1>4, <3>1 DEF WalkStep, Done, Decided, options
  <2>2. ninfo'[s].csig = get_max_drift_csig(s)
    BY <1>2, <1>4 DEF VisitedInfo, NoInfo
  <2>3. SigFrom(s)'
    BY <1>3, <2>2 DEF SigFrom, get_max_drift_csig, options
  <2> QED BY <1>2, <2>1, <2>3, RunStep
<1>7. SettledOK'
  <2> SUFFICES ASSUME settled PROVE SettledOK'
    BY <1>3 DEF SettledOK
  <2>1. touched = {} /\ Recent(stored) /\ SameSigs /\ \A t \in Targets : status[t] \in {"todo", "current"}
    BY <1>2 DEF SettledOK
  <2>2. Recent(stored)'
    BY <1>3, <2>1, RecentKept DEF options
  <2>3. SameSigs'
    <3>1. \A f \in Files \ {s} : (Done(f)' <=> Done(f)) /\ get_csig(f)' = get_csig(f)
      BY <1>3, <1>4 DEF Done, get_csig
    <3> QED BY <1>2, <1>3, <1>4, <2>1, <3>1, SigsStep DEF options
  <2>4. \A t \in Targets : status'[t] \in {"todo", "current"}
    BY <1>2, <1>4, <2>1, RebuildAssumption
  <2> QED BY <1>2, <1>3, <2>1, <2>2, <2>3, <2>4 DEF SettledOK
<1> QED BY <1>1, <1>5, <1>6, <1>7

LEMMA SigOfMD5 ==
  ASSUME decider = "MD5", NEW t, NEW f PROVE InfoAfterDecision(t, f).csig = get_csig(f)
BY DEF InfoAfterDecision, WithSig

LEMMA EvaluateNothing ==
  ASSUME ScannerType, NInv, NEW t \in Targets, t \in First, Evaluate(t)
  PROVE  NInv'
<1> DEFINE list == children(t)
           up == is_up_to_date(t)
<1> USE DEF NInv
<1>1. IInv'
  BY EvaluateInv
<1>2. /\ t \in Files /\ phase = "walk" /\ status[t] = "todo" /\ ~Done(t) /\ ninfo[t] = NoInfo
      /\ \A c \in ToSet(list) : Done(c)
  BY ComesInWalk DEF Examinable, Done, IInv, VisitedOK
<1>3. /\ list \in Seq(Files)
      /\ \A i \in DOMAIN Kids[t] : i \in DOMAIN list /\ list[i] = Kids[t][i]
  BY ChildrenType
<1>4. \A i \in DOMAIN list : list[i] \in Files /\ Done(list[i]) /\ list[i] # t /\ list[i] \in ToSet(list)
  BY <1>2, <1>3 DEF ToSet
<1>5. UNCHANGED <<oldUpTo, cmd, options, stored, phase, db, cache, clock, versions, touched, settled>>
  BY DEF Evaluate
<1>6. names'[t] = list /\ \A u \in Targets \ {t} : names'[u] = names[u]
  BY <1>3 DEF Evaluate, IInv, MemoryOK
<1>7. /\ \A f \in Files \ {t} :
           /\ ninfo'[f] = IF f \in ToSet(list) THEN InfoAfterDecision(t, f) ELSE ninfo[f]
           /\ status'[f] = status[f] /\ disk'[f] = disk[f]
      /\ status'[t] = IF up THEN "current" ELSE "ready"
      /\ up => ninfo'[t] = VisitedInfo(t) /\ disk'[t] = disk[t] /\ disk' = disk
  BY <1>2 DEF Evaluate, IInv, MemoryOK, DiskOK
<1>8. DriftOK' /\ ContentsOK'
  BY <1>5 DEF DriftOK, ContentsOK, Known
<1>9. decider \in Deciders
  BY DEF IInv, MemoryOK
<1>10. \A f \in Files : Done(f) => f # t /\ ninfo'[f].timestamp = ninfo[f].timestamp
  BY <1>2, <1>7, <1>9, DecisionTimes
<1>11. decider = "MD5" => \A f \in Files \ {t} :
         /\ ninfo'[f].csig \in {ninfo[f].csig, get_csig(f)}
         /\ f \in ToSet(list) => ninfo'[f].csig = get_csig(f)
  <2>1. decider = "MD5" => \A f : InfoAfterDecision(t, f).csig = get_csig(f)
    BY SigOfMD5
  <2> QED BY <1>7, <2>1
<1>12. RunOK'
  <2> SUFFICES ASSUME touched = {} PROVE RunOK'
    BY <1>5 DEF RunOK
  <2>1. \A c \in Files \ {t} : (Done(c)' <=> Done(c)) /\ disk'[c] = disk[c]
    BY <1>7 DEF Done
  <2>2. children(t)' = list
    BY <1>3, <1>4, <2>1, ChildrenKept
  <2>3. Named(t)'
    <3>1. ASSUME decider = "MD5", NEW i \in DOMAIN list PROVE ninfo'[list[i]].csig # None
      <4>1. get_csig(list[i]) # None
        BY <1>4, AsItIs
      <4> QED BY <1>4, <1>11, <3>1, <4>1
    <3> QED BY <1>5, <1>6, <2>2, <3>1 DEF Named, options
  <2>4. NoneNewer(t)'
    <3> SUFFICES ASSUME decider = "timestamp-newer", up, NEW i \in DOMAIN list
                 PROVE  ninfo'[list[i]].timestamp <= disk'[t].mtime
      BY <1>5, <1>6, <1>7 DEF NoneNewer, Done, options
    <3>1. ~(ninfo[list[i]].timestamp > disk[t].mtime)
      BY DEF is_up_to_date, changed, ChildChanged, changed_timestamp_newer
    <3>2. ninfo[list[i]].timestamp \in Nat /\ disk[t].mtime \in Nat
      BY <1>2, <1>4, AsItIs DEF IInv, DiskOK
    <3> QED BY <1>4, <1>7, <1>10, <3>1, <3>2
  <2>5. decider = "MD5" /\ Done(t)' => SigFrom(t)'
    <3> SUFFICES ASSUME decider = "MD5", up PROVE SigFrom(t)'
      BY <1>7 DEF Done
    <3>1. ninfo'[t].csig = get_max_drift_csig(t)
      BY <1>2, <1>7 DEF VisitedInfo, NoInfo
    <3> QED BY <1>5, <1>7, <3>1 DEF SigFrom, get_max_drift_csig, options
  <2>6. WalkStep(t)
    BY <1>2, <1>5, <1>6, <1>7, <1>10, <1>11, <2>1, RebuildAssumption
    DEF WalkStep, Decided, options
  <2> QED BY <1>2, <2>3, <2>4, <2>5, <2>6, RunStep
<1>13. SettledOK'
  <2> SUFFICES ASSUME settled PROVE SettledOK'
    BY <1>5 DEF SettledOK
  <2>1. touched = {} /\ Recent(stored) /\ SameSigs /\ \A u \in Targets : status[u] \in {"todo", "current"}
    BY <1>2 DEF SettledOK
  <2>2. up /\ disk' = disk
    BY <1>7, NothingToDo
  <2>3. Recent(stored)'
    BY <1>5, <2>1, <2>2, RecentKept DEF options
  <2>4. SameSigs'
    <3>1. decider = "MD5" =>
            \A f \in Files \ {t} : (Done(f)' <=> Done(f)) /\ get_csig(f)' = get_csig(f)
      BY <1>7, <1>11, SigKept DEF Done
    <3> QED BY <1>2, <1>5, <1>7, <2>1, <2>2, <3>1, SigsStep DEF options
  <2>5. \A u \in Targets : status'[u] \in {"todo", "current"}
    BY <1>7, <2>1, <2>2, RebuildAssumption
  <2> QED BY <1>2, <1>5, <2>1, <2>3, <2>4, <2>5 DEF SettledOK
<1> QED BY <1>1, <1>8, <1>12, <1>13

(* What the commands make, retrieve or leave behind: not in a run that has   *)
(* nothing to make.                                                          *)
LEMMA NothingMade ==
  ASSUME SettledOK, phase = "walk", NEW t \in Targets, status[t] \in {"ready", "running"},
         settled' = settled
  PROVE  SettledOK'
BY DEF SettledOK

LEMMA BeginNothing ==
  ASSUME ScannerType, ContentsType, NInv, NEW t \in Targets, Begin(t)
  PROVE  NInv'
<1> USE DEF NInv
<1>1. IInv'
  BY BeginInv
<1>2. /\ t \in Files /\ phase = "walk" /\ status[t] = "ready" /\ ~Done(t) /\ Decided(t)
  BY RebuildAssumption DEF Begin, Done, Decided
<1>3. UNCHANGED <<oldUpTo, cmd, options, stored, names, cache, touched, settled>> /\ clock' = clock + 1
  BY DEF Begin
<1>4. /\ status'[t] = "running" /\ \A f \in Files \ {t} : status'[f] = status[f]
      /\ \A f \in Files \ {t} : disk'[f] = disk[f]
      /\ versions' = versions \/ versions' = versions \cup {Version(t, disk'[t])}
      /\ \A v \in versions' \ versions : v.content = <<"partial">>
  BY <1>2 DEF Begin, IInv, MemoryOK, DiskOK, Partial, Version
<1>5. \A f \in Files : ninfo'[f].timestamp = ninfo[f].timestamp
                       /\ ninfo'[f].csig \in {ninfo[f].csig, get_csig(f)}
  BY DEF Begin, Signed, WithSig
<1>6. DriftOK'
  BY <1>3 DEF DriftOK, IInv, VersionsOK
<1>7. ContentsOK'
  BY <1>3, <1>4 DEF ContentsOK, ContentsType, Known
<1>8. WalkStep(t)
  <2>1. \A f \in Files : Done(f) => f # t
    BY <1>2
  <2> QED BY <1>2, <1>3, <1>4, <1>5, <2>1, RebuildAssumption DEF WalkStep, Done, Decided, options
<1>9. RunOK'
  <2>1. ~Done(t)'
    BY <1>4 DEF Done
  <2>2. touched = {} => Named(t)'
    BY <1>2, <1>3, <1>8, NamedKept DEF RunOK
  <2> QED BY <1>2, <1>8, <2>1, <2>2, RunStep DEF NoneNewer
<1>10. SettledOK'
  BY <1>2, <1>3, NothingMade
<1> QED BY <1>1, <1>6, <1>7, <1>9, <1>10

LEMMA RemadeNothing ==
  ASSUME ScannerType, NInv, NEW t \in Targets, NEW content, NEW mtime, NEW wrong,
         phase = "walk", status[t] = "running", Remade(t, content, mtime, wrong),
         IInv', decider = "timestamp-newer" => mtime = clock + 1
  PROVE  DriftOK' /\ RunOK' /\ SettledOK'
<1> USE DEF NInv
<1>1. t \in Files /\ ~Done(t) /\ Decided(t)
  BY RebuildAssumption DEF Done, Decided
<1>2. UNCHANGED <<oldUpTo, cmd, options, stored, names, touched, settled>> /\ clock' = clock + 1
  BY DEF Remade
<1>3. /\ status'[t] = "built" /\ ninfo'[t] = [csig |-> content, timestamp |-> mtime]
      /\ disk'[t] = [content |-> content, mtime |-> mtime]
      /\ \A f \in Files \ {t} : /\ status'[f] = status[f] /\ ninfo'[f] = ninfo[f]
                                /\ disk'[f] = disk[f]
  BY <1>1 DEF Remade, IInv, MemoryOK, DiskOK
<1>4. DriftOK'
  BY <1>2 DEF DriftOK, IInv, VersionsOK
<1>5. WalkStep(t)
  <2>1. \A f \in Files : Done(f) => f # t
    BY <1>1
  <2> QED BY <1>1, <1>2, <1>3, <2>1, RebuildAssumption DEF WalkStep, Done, Decided, options
<1>6. SigFrom(t)'
  BY <1>3 DEF SigFrom
<1>7. touched = {} => Named(t)' /\ NoneNewer(t)'
  <2> SUFFICES ASSUME touched = {} PROVE Named(t)' /\ NoneNewer(t)'
    OBVIOUS
  <2>1. /\ Named(t)'
        /\ \A i \in DOMAIN names[t] : /\ Done(names[t][i])
                                      /\ ninfo'[names[t][i]].timestamp = ninfo[names[t][i]].timestamp
    BY <1>1, <1>2, <1>5, NamedKept DEF RunOK
  <2>2. ASSUME decider = "timestamp-newer", NEW i \in DOMAIN names[t]
        PROVE  ninfo'[names[t][i]].timestamp <= disk'[t].mtime
    <3>1. names[t][i] \in Files
      BY <1>1, Children DEF IInv, WaitingOK
    <3>2. ninfo[names[t][i]].timestamp = disk[names[t][i]].mtime
      BY <2>1, <3>1, AsItIs
    <3>3. disk[names[t][i]].mtime \in Nat /\ disk[names[t][i]].mtime <= clock /\ clock \in Nat
      BY <3>1, DiskTimes DEF IInv, VersionsOK
    <3> QED BY <1>3, <2>1, <2>2, <3>2, <3>3
  <2> QED BY <1>2, <2>1, <2>2 DEF NoneNewer, options
<1>8. RunOK'
  BY <1>1, <1>5, <1>6, <1>7, RunStep
<1>9. SettledOK'
  BY <1>2, NothingMade
<1> QED BY <1>4, <1>8, <1>9

LEMMA MadeNothing ==
  ASSUME ScannerType, ContentsType, NInv, NEW t \in Targets, Built(t) \/ Retrieved(t)
  PROVE  NInv'
<1> USE DEF NInv
<1>1. clock \in Nat
  BY DEF IInv, VersionsOK
<1>2. CASE Built(t)
  <2> DEFINE content == Make(t, cmd[t], reads[t])
  <2>1. /\ phase = "walk" /\ status[t] = "running" /\ Remade(t, content, clock + 1, FALSE)
    BY <1>2 DEF Built
  <2>2. IInv'
    BY <1>2, BuiltInv
  <2>3. content # None
    BY DEF ContentsType
  <2>4. \A e \in cache' : e \in cache \/ e.content = content
    BY <1>2 DEF Built
  <2>5. \A v \in versions' : v \in versions \/ v.content = content
    BY <2>1, RebuildAssumption DEF Remade, Version, IInv, DiskOK
  <2>6. ContentsOK'
    BY <2>3, <2>4, <2>5 DEF ContentsOK, Known, CachedVersion
  <2> QED BY <2>1, <2>2, <2>6, RemadeNothing
<1>3. CASE Retrieved(t)
  <2>1. PICK e \in Cached(t) :
          /\ Remade(t, e.content, IF decider = "timestamp-newer" THEN clock + 1 ELSE e.mtime, e.wrong)
          /\ cache' = (cache \ {e}) \cup {[e EXCEPT !.mtime = clock + 1]}
    BY <1>3 DEF Retrieved
  <2>2. phase = "walk" /\ status[t] = "running" /\ e \in cache
    BY <1>3, <2>1 DEF Retrieved, Cached
  <2>3. IInv'
    BY <1>3, RetrievedInv
  <2>4. e.content # None
    <3>1. CachedVersion(e) \in Known
      BY <2>2 DEF Known
    <3> QED BY <3>1 DEF ContentsOK, CachedVersion
  <2>5. \A d \in cache' : d \in cache \/ d.content = e.content
    <3>1. [e EXCEPT !.mtime = clock + 1].content = e.content
      BY <2>2 DEF IInv, CacheOK
    <3> QED BY <2>1, <3>1
  <2>6. \A v \in versions' : v \in versions \/ v.content = e.content
    BY <2>1, RebuildAssumption DEF Remade, Version, IInv, DiskOK
  <2>7. ContentsOK'
    BY <2>4, <2>5, <2>6 DEF ContentsOK, Known, CachedVersion
  <2> QED BY <2>1, <2>2, <2>3, <2>7, RemadeNothing
<1> QED BY <1>2, <1>3

LEMMA FailedNothing ==
  ASSUME ScannerType, NInv, NEW t \in Targets, Failed(t)
  PROVE  NInv'
<1> USE DEF NInv
<1>1. IInv'
  BY FailedInv
<1>2. t \in Files /\ phase = "walk" /\ status[t] = "running" /\ ~Done(t)
  BY RebuildAssumption DEF Failed, Done
<1>3. UNCHANGED <<disk, oldUpTo, options, ninfo, names, cache, clock, versions, touched, settled>>
  BY DEF Failed, history
<1>4. /\ status'[t] = "failed" /\ \A f \in Files \ {t} : status'[f] = status[f]
  BY <1>2 DEF Failed, IInv, MemoryOK
<1>5. DriftOK' /\ ContentsOK'
  BY <1>3 DEF DriftOK, ContentsOK, Known
<1>6. WalkStep(t)
  BY <1>2, <1>3, <1>4, RebuildAssumption DEF WalkStep, Done, Decided, options
<1>7. RunOK'
  BY <1>2, <1>4, <1>6, RunStep DEF Done, Decided, Named, NoneNewer
<1>8. SettledOK'
  BY <1>2, <1>3, NothingMade
<1> QED BY <1>1, <1>5, <1>7, <1>8

LEMMA EditNothing ==
  ASSUME ScannerType, ContentsType, NInv, NEW s \in Sources, Edit(s)
  PROVE  NInv'
<1> USE DEF NInv
<1>1. IInv'
  BY EditInv
<1>2. s \in Files /\ s \notin Targets
  BY DEF Sources
<1>0. clock' = clock + 1
  BY DEF Edit, Ticks, IInv, MemoryOK
<1>3. PICK v \in ToSet(Versions[s]) : disk' = [disk EXCEPT ![s] = [content |-> v, mtime |-> clock + 1]]
  BY <1>0 DEF Edit
<1>4. UNCHANGED <<oldUpTo, options, ninfo, names, cache, status>> /\ clock' = clock + 1
      /\ settled' = FALSE
  BY <1>0 DEF Edit, Change, memory
<1>5. DriftOK'
  BY <1>4 DEF DriftOK, IInv, VersionsOK
<1>6. ContentsOK'
  <2>1. v # None /\ disk'[s].content = v
    BY <1>2, <1>3 DEF ContentsType, IInv, DiskOK
  <2>2. versions' = versions \cup {Version(s, disk'[s])}
    BY DEF Edit
  <2> QED BY <1>4, <2>1, <2>2 DEF ContentsOK, Known, Version
<1>7. RunOK'
  <2> SUFFICES ASSUME touched' = {} PROVE RunOK'
    BY DEF RunOK
  <2>1. touched' = touched /\ ~Done(s)
    BY DEF Edit, Done
  <2>2. \A f \in Files \ {s} : disk'[f] = disk[f]
    BY <1>3 DEF IInv, DiskOK
  <2>3. WalkStep(s)
    BY <1>2, <1>4, <2>1, <2>2, RebuildAssumption DEF WalkStep, Done, Decided, options
  <2> QED BY <1>2, <1>4, <2>1, <2>3, RunStep DEF Done
<1>8. SettledOK'
  BY <1>4 DEF SettledOK
<1> QED BY <1>1, <1>5, <1>6, <1>7, <1>8

-----------------------------------------------------------------------------
(* The steps between the runs, and the end of a run. *)

LEMMA BetweenNothing ==
  ASSUME ScannerType, NInv, Reconfigure \/ Crash
  PROVE  NInv'
<1> USE DEF NInv
<1>1. IInv'
  BY ReconfigureInv, CrashInv
<1>2. UNCHANGED <<oldUpTo, cache, clock, versions>> /\ settled' = FALSE /\ phase' = "idle"
  BY DEF Reconfigure, Change, Crash
<1>3. DriftOK' /\ ContentsOK' /\ SettledOK'
  BY <1>2 DEF DriftOK, ContentsOK, Known, SettledOK
<1>4. \A f \in Files : status'[f] = "todo"
  BY <1>1, <1>2 DEF IInv, MemoryOK
<1>5. RunOK'
  BY <1>4, RebuildAssumption DEF RunOK, Named, NoneNewer, Done, Decided
<1> QED BY <1>1, <1>3, <1>5

LEMMA StartRunNothing ==
  ASSUME ScannerType, NInv, StartRun
  PROVE  NInv'
<1> USE DEF NInv
<1>1. IInv'
  BY StartRunInv
<1>2. /\ UNCHANGED <<disk, cmd, cache, clock, versions, status, touched>>
      /\ phase = "idle" /\ phase' = "walk" /\ oldUpTo' \in {oldUpTo, clock}
      /\ stored' = IF db = None THEN [f \in Files |-> NoEntry] ELSE db
      /\ settled' => settled /\ decider' = decider /\ max_drift' = max_drift
  BY DEF StartRun
<1>3. \A f \in Files : status[f] = "todo"
  BY <1>2 DEF IInv, MemoryOK
<1>4. DriftOK' /\ ContentsOK'
  BY <1>2 DEF DriftOK, ContentsOK, Known, IInv, VersionsOK
<1>5. RunOK'
  BY <1>2, <1>3, RebuildAssumption DEF RunOK, Named, NoneNewer, Done, Decided
<1>6. SettledOK'
  <2> SUFFICES ASSUME settled' PROVE SettledOK'
    BY DEF SettledOK
  <2>1. touched = {} /\ db # None /\ Recent(db)
    BY <1>2 DEF SettledOK
  <2>2. Recent(stored)'
    BY <1>2, <2>1, RecentKept
  <2>3. SameSigs'
    <3>1. ASSUME NEW t \in Targets, NEW i \in DOMAIN stored'[t].names PROVE ~Done(stored[t].names[i])'
      <4>1. stored'[t].names \in Seq(Files)
        BY <1>2, <2>1, ChildrenType DEF Recent
      <4>2. stored'[t].names[i] \in Files
        BY <4>1
      <4> QED BY <1>2, <1>3, <4>2 DEF Done
    <3> QED BY <3>1 DEF SameSigs
  <2> QED BY <1>2, <1>3, <2>1, <2>2, <2>3, RebuildAssumption DEF SettledOK
<1> QED BY <1>1, <1>4, <1>5, <1>6

(* Writing the database changes nothing that the run has found; nor does a   *)
(* step that changes nothing.                                                *)
LEMMA SameNothing ==
  ASSUME ScannerType, NInv, IInv',
         UNCHANGED <<disk, cmd, decider, max_drift, oldUpTo, ninfo, stored, status, names,
                     touched, settled, cache, clock, versions>>,
         UNCHANGED <<phase, db>> \/ (phase # "idle" /\ phase' # "idle")
  PROVE  NInv'
<1> USE DEF NInv
<1>1. \A t \in Targets : children(t)' = children(t)
  BY ChildrenKept
<1>2. DriftOK' /\ ContentsOK'
  BY DEF DriftOK, ContentsOK, Known
<1>3. RunOK'
  BY <1>1 DEF RunOK, Named, NoneNewer, SigFrom, Done, Decided
<1>4. SettledOK'
  <2> SUFFICES ASSUME settled PROVE SettledOK'
    BY DEF SettledOK
  <2>1. CASE phase = "idle"
    <3>1. UNCHANGED <<phase, db>> /\ Recent(db)
      BY <2>1 DEF SettledOK
    <3>2. Recent(db)'
      BY <1>1, <3>1 DEF Recent, AsRecorded, exists
    <3> QED BY <2>1, <3>1, <3>2 DEF SettledOK
  <2>2. CASE phase # "idle"
    <3>1. phase' # "idle" /\ Recent(stored) /\ SameSigs
      BY <2>2 DEF SettledOK
    <3>2. Recent(stored)'
      BY <3>1, RecentKept
    <3>3. SameSigs'
      BY <3>1 DEF SameSigs, Done, get_csig
    <3> QED BY <2>2, <3>1, <3>2, <3>3 DEF SettledOK
  <2> QED BY <2>1, <2>2
<1> QED BY <1>2, <1>3, <1>4

(* The run that made everything has written what the next one will find. *)
LEMMA RenameNothing ==
  ASSUME ScannerType, ContentsType, NInv, Rename
  PROVE  NInv'
<1> USE DEF NInv
<1>1. IInv'
  BY RenameInv
<1>2. /\ UNCHANGED <<disk, oldUpTo, cmd, options, cache, clock, versions>>
      /\ phase = "rename" /\ phase' = "idle" /\ db' = tmp /\ touched' = {}
      /\ status' = [f \in Files |-> "todo"]
      /\ settled' => touched = {} /\ request = Targets /\ \A t \in request : Done(t)
  BY DEF Rename, Forgotten
<1>3. DriftOK' /\ ContentsOK'
  BY <1>2 DEF DriftOK, ContentsOK, Known
<1>4. RunOK'
  BY <1>2, RebuildAssumption DEF RunOK, Named, NoneNewer, Done, Decided
<1>5. SettledOK'
  <2> SUFFICES ASSUME settled' PROVE SettledOK'
    BY DEF SettledOK
  <2>1. touched = {} /\ \A t \in Targets : Done(t) /\ Decided(t) /\ Named(t) /\ NoneNewer(t)
    BY <1>2 DEF RunOK, Done, Decided
  <2>2. tmp = [f \in Files |-> Entry(f)]
    BY <1>2 DEF IInv, WrittenOK
  <2>3. ASSUME NEW t \in Targets
        PROVE  /\ exists(t) /\ tmp[t].bactsig = cmd[t]
               /\ tmp[t].names = names[t] /\ names[t] = children(t) /\ names[t] \in Seq(Files)
               /\ tmp[t].sigs = [i \in DOMAIN names[t] |-> ninfo[names[t][i]]]
               /\ Len(tmp[t].sigs) = Len(tmp[t].names)
    <3>1. t \in Files /\ tmp[t] = Entry(t) /\ exists(t)
      BY <2>1, <2>2, RebuildAssumption, AsItIs
    <3>2. names[t] = children(t) /\ names[t] \in Seq(Files)
      BY <2>1, ChildrenType DEF Named
    <3>3. /\ Entry(t).names = names[t] /\ Entry(t).bactsig = cmd[t]
          /\ Entry(t).sigs = [i \in DOMAIN names[t] |-> ninfo[names[t][i]]]
      BY <2>1, <3>1 DEF Entry
    <3>4. Len(Entry(t).sigs) = Len(names[t])
      BY <3>2, <3>3
    <3> QED BY <3>1, <3>2, <3>3, <3>4
  <2>4. ASSUME NEW t \in Targets, NEW i \in DOMAIN tmp[t].names
        PROVE  AsRecorded(tmp, t, tmp[t].names[i], tmp[t].sigs[i])
    <3> DEFINE c == names[t][i]
    <3>1. /\ i \in DOMAIN names[t] /\ tmp[t].names[i] = c /\ tmp[t].sigs[i] = ninfo[c]
          /\ c \in Files /\ Done(c)
      <4>1. \A j \in DOMAIN names[t] : names[t][j] \in Files /\ Done(names[t][j])
        BY <2>1, Children DEF IInv, WaitingOK
      <4>2. tmp[t].names = names[t] /\ tmp[t].sigs = [j \in DOMAIN names[t] |-> ninfo[names[t][j]]]
        BY <2>3
      <4>3. i \in DOMAIN names[t]
        BY <4>2
      <4> QED BY <4>1, <4>2, <4>3
    <3>2. ninfo[c].timestamp = disk[c].mtime /\ disk[c].mtime \in Nat
      BY <2>1, <3>1, AsItIs
    <3>3. ASSUME decider = "MD5"
          PROVE  /\ ninfo[c].csig # None
                 /\ tmp[c].ninfo.csig = ninfo[c].csig
                 /\ tmp[c].ninfo.timestamp = ninfo[c].timestamp
                 /\ ninfo[c].csig = disk[c].content \/ (max_drift /\ disk[c].mtime <= oldUpTo)
      <4>1. ninfo[c].csig # None /\ SigFrom(c)
        BY <2>1, <3>1, <3>3 DEF Named, RunOK
      <4>2. tmp[c].ninfo = merge(stored[c].ninfo, ninfo[c])
        BY <2>2, <3>1 DEF Entry
      <4>3. ninfo[c].timestamp # None
        BY <3>2, RebuildAssumption
      <4> QED BY <4>1, <4>2, <4>3 DEF merge, SigFrom
    <3>4. decider = "timestamp-newer" => disk[c].mtime <= disk[t].mtime
      BY <2>1, <3>1, <3>2 DEF NoneNewer
    <3> QED BY <3>1, <3>2, <3>3, <3>4 DEF AsRecorded
  <2>5. Recent(tmp)
    BY <2>3, <2>4 DEF Recent
  <2>6. Recent(db)'
    <3>1. \A t \in Targets : children(t)' = children(t)
      BY <1>2, ChildrenKept
    <3> QED BY <1>2, <2>5, <3>1 DEF Recent, AsRecorded, exists, options
  <2>7. db' # None
    <3>1. tmp = [f \in Files |-> tmp[f]]
      BY <2>2
    <3> QED BY <1>2, <3>1 DEF ContentsType
  <2> QED BY <1>2, <2>6, <2>7 DEF SettledOK
<1> QED BY <1>1, <1>3, <1>4, <1>5

LEMMA NextNothing ==
  ASSUME ScannerType, ContentsType, NInv, [Next]_vars
  PROVE  NInv'
<1>1. CASE Reconfigure \/ Crash
  BY <1>1, BetweenNothing
<1>2. CASE StartRun
  BY <1>2, StartRunNothing
<1>3. CASE WriteTmp \/ Unlink \/ UNCHANGED vars
  <2>1. IInv'
    BY <1>3, NextInv DEF NInv, Next
  <2> QED BY <1>3, <2>1, SameNothing
      DEF WriteTmp, Unlink, vars, options, memory, history
<1>4. CASE Rename
  BY <1>4, RenameNothing
<1>5. ASSUME NEW s \in Sources, Edit(s) PROVE NInv'
  BY <1>5, EditNothing
<1>6. ASSUME NEW s \in First \cap Sources, Visit(s) PROVE NInv'
  BY <1>6, VisitNothing
<1>7. ASSUME NEW t \in First \cap Targets, Evaluate(t) PROVE NInv'
  BY <1>7, EvaluateNothing
<1>8. ASSUME NEW t \in Targets, Begin(t) \/ Built(t) \/ Retrieved(t) \/ Failed(t)
      PROVE  NInv'
  BY <1>8, BeginNothing, MadeNothing, FailedNothing
<1> QED BY <1>1, <1>2, <1>3, <1>4, <1>5, <1>6, <1>7, <1>8 DEF Next

(* A run makes nothing when nothing has changed since one with the same      *)
(* decider and max_drift that made everything: whatever the project, and     *)
(* whatever had been edited, killed or retrieved before (is_up_to_date with  *)
(* each decider, get_max_drift_csig, and what File.store_info and            *)
(* SConsignEntry.merge have left in the database).                           *)
THEOREM NullBuildCorrect ==
  ASSUME ScannerType, FineClock, ContentsType
  PROVE  Spec => []NullBuild
<1>1. Init => NInv
  BY InitNInv
<1>2. NInv /\ [Next]_vars => NInv'
  BY NextNothing
<1>3. NInv => NullBuild
  BY RebuildAssumption DEF NInv, SettledOK, NullBuild, IInv, MemoryOK
<1> QED BY <1>1, <1>2, <1>3, PTL DEF Spec

=============================================================================
