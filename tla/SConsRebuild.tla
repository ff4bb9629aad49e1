----------------------------- MODULE SConsRebuild -----------------------------
(* A project that is built again and again: sources are edited, targets and  *)
(* the database deleted, the SConstruct changed, commands fail, and a run    *)
(* may be killed at any moment.  A run reads the database (.sconsign.dblite, *)
(* dblite.py and SConsign.py), visits the files children first, in any order *)
(* that a walk with several jobs may have (SConsJob), decides what is up to  *)
(* date, runs commands or retrieves targets from the cache, and writes the   *)
(* database when the walk is over.                                           *)
(*                                                                           *)
(* What SCons remembers of a file between two builds and how it decides that *)
(* a target is up to date (Node/FS.py, Node/__init__.py): the NodeInfo of a  *)
(* file (content signature and timestamp), the BuildInfo of a target (its    *)
(* children by name with their NodeInfos, and the signature of its command), *)
(* and the deciders.  A content signature stands for the content itself: two *)
(* contents with one MD5 signature are not considered.  The size is never    *)
(* compared and is left out.                                                 *)
EXTENDS Integers, Sequences, SequencesExt, FiniteSets

CONSTANTS Files,          \* the files of the project
          Kids,           \* target -> its sources, in order
          None,           \* an attribute that is not set
          IncludesOf(_),  \* the files that the contents of the sources include, in order
          Make(_, _, _)   \* what a target's command makes of the contents read

VARIABLES disk,       \* file -> content and mtime, or NoFile
          oldUpTo,    \* the latest mtime older than max_drift
          max_drift,  \* whether the option is positive
          cmd,        \* target -> the signature of its command
          decider,    \* the argument of Decider()
          ninfo,      \* file -> NodeInfo of this run
          stored      \* file -> SConsignEntry read from the database

Targets == DOMAIN Kids
Sources == Files \ Targets

NoInfo == [csig |-> None, timestamp |-> None]
NoEntry == [ninfo |-> NoInfo, names |-> <<>>, sigs |-> <<>>, bactsig |-> None]

(* A file that is there has an mtime after the epoch. *)
NoFile == [content |-> None, mtime |-> 0]
exists(f) == disk[f].mtime > 0

(* NodeInfoBase.merge: the attributes that are set overwrite the others. *)
merge(old, new) ==
  [csig |-> IF new.csig = None THEN old.csig ELSE new.csig,
   timestamp |-> IF new.timestamp = None THEN old.timestamp ELSE new.timestamp]

(* The children of a target: its sources, then what the scanner finds in them. *)
scan(kids) == IncludesOf([i \in DOMAIN kids |-> disk[kids[i]].content])
children(t) == Kids[t] \o scan(Kids[t])

(* get_max_drift_csig: the stored signature of a file that was not modified *)
(* for longer than max_drift, if it is the one stored with this timestamp.  *)
get_max_drift_csig(f) ==
  LET old == stored[f].ninfo
      mtime == disk[f].mtime
  IN IF max_drift /\ mtime <= oldUpTo /\ old.csig # None /\ old.timestamp = mtime
     THEN old.csig ELSE None

(* get_csig, once the file has been visited: its NodeInfo has the signature, *)
(* or it is computed from the contents.                                      *)
get_csig(f) == IF ninfo[f].csig # None THEN ninfo[f].csig ELSE disk[f].content

(* NodeInfo of a file that was visited without being built (File.visited). *)
VisitedInfo(f) ==
  [csig |-> IF ninfo[f].csig # None THEN ninfo[f].csig ELSE get_max_drift_csig(f),
   timestamp |-> disk[f].mtime]

-----------------------------------------------------------------------------
(* The deciders.  The NodeInfo of a child that was never recorded has no     *)
(* attributes, as if None were compared.                                     *)

changed_content(c, prev) == prev.csig = None \/ get_csig(c) # prev.csig
changed_timestamp_match(c, prev) ==
  prev.timestamp = None \/ ninfo[c].timestamp # prev.timestamp
changed_timestamp_newer(c, t) ==
  ninfo[c].timestamp > (IF exists(t) THEN disk[t].mtime ELSE 0)

(* _get_previous_signatures: the NodeInfo recorded under the child's name. *)
PreviousByName(t, c) ==
  LET at == {i \in DOMAIN stored[t].names : stored[t].names[i] = c}
  IN IF at = {} THEN NoInfo ELSE stored[t].sigs[CHOOSE i \in at : TRUE]

(* The NodeInfo recorded at the child's place in the list of children. *)
PreviousByPlace_ButLast(t, i) ==
  IF i < Len(stored[t].sigs) THEN stored[t].sigs[i] ELSE NoInfo
PreviousByPlace(t, i) ==
  IF i <= Len(stored[t].sigs) THEN stored[t].sigs[i] ELSE NoInfo

changed_timestamp_then_content(t, c) ==
  LET prev == PreviousByName(t, c)
  IN changed_timestamp_match(c, prev) /\ changed_content(c, prev)

Deciders == {"MD5", "MD5-timestamp", "timestamp-newer", "timestamp-match"}
ChildChanged(t, i) ==
  LET c == children(t)[i]
  IN CASE decider = "MD5" -> changed_content(c, PreviousByPlace(t, i))
       [] decider = "MD5-timestamp" -> changed_timestamp_then_content(t, c)
       [] decider = "timestamp-newer" -> changed_timestamp_newer(c, t)
       [] decider = "timestamp-match" ->
            changed_timestamp_match(c, PreviousByPlace(t, i))

(* Node.changed.  Every child is asked, and as a side effect may get a      *)
(* content signature: computed, or copied from what the target recorded of  *)
(* it when the timestamps match (MD5-timestamp).                            *)
changed_IgnoresCommand(t) ==
  \/ Len(children(t)) # Len(stored[t].sigs)
  \/ \E i \in DOMAIN children(t) : ChildChanged(t, i)
changed(t) ==
  \/ Len(children(t)) # Len(stored[t].sigs)
  \/ \E i \in DOMAIN children(t) : ChildChanged(t, i)
  \/ cmd[t] # stored[t].bactsig

is_up_to_date(t) == exists(t) /\ ~changed(t)

WithSig(c, csig) == [csig |-> csig, timestamp |-> ninfo[c].timestamp]
InfoAfterDecision_CopiesAnyway(t, c) ==
  LET prev == PreviousByName(t, c)
  IN IF prev.csig = None THEN ninfo[c] ELSE WithSig(c, prev.csig)
InfoAfterDecision(t, c) ==
  LET prev == PreviousByName(t, c)
  IN CASE decider = "MD5" -> WithSig(c, get_csig(c))
       [] decider = "MD5-timestamp" ->
            IF changed_timestamp_match(c, prev) THEN WithSig(c, get_csig(c))
            ELSE IF prev.csig = None THEN ninfo[c]
            ELSE WithSig(c, prev.csig)
       [] OTHER -> ninfo[c]

-----------------------------------------------------------------------------
(* The runs, and what happens to the project between them. *)

CONSTANTS Versions,     \* source -> the contents it may have, the first one first
          Commands,     \* target -> the signatures its command may have, likewise
          Fails(_, _),  \* whether a target's command fails on the contents read
          Order,        \* the files in the order a walk comes to them
          Plans         \* the options of the runs, one after the other, whether
                        \* sources change during a run or twice within the clock's
                        \* resolution, and bounds

ASSUME RebuildAssumption ==
  /\ None \notin Nat /\ Targets \subseteq Files /\ Kids \in [Targets -> Seq(Files)]
  /\ \A t \in Targets : /\ Commands[t] \in Seq(ToSet(Commands[t])) \ {<<>>}
                        /\ None \notin ToSet(Commands[t])
  /\ \A p \in Plans : \A i \in DOMAIN p.runs : /\ p.runs[i].request \subseteq Targets
                                              /\ p.runs[i].decider \in Deciders

VARIABLES phase,      \* idle, walk, or how far SConsign.write is
          plan, request, use_cache,
          status,     \* file -> todo, current, ready, running, built or failed
          stopping,   \* a failure ended the walk (no -k), or a signal
          names,      \* target -> the children its BuildInfo names
          reads,      \* target -> the contents its command has read
          db,         \* the database file: file -> entry, or None
          tmp,        \* its temporary file
          cache,      \* CacheDir: a set of files with the signature as name
          clock, runs, changes, crashes,
          \* history variables, never read by an action of the code
          versions,   \* every content a file has had, with its mtime
          unrecorded, \* targets remade since the database last recorded them
          raced,      \* targets whose children were edited before they were decided
                      \* upon, or under their command
          misled,     \* targets whose record or decision mixed two moments of a child
          touched,    \* sources edited in this run after they were visited
          mixed,      \* files whose NodeInfo mixed two moments in this run
          dated,      \* files whose entry in the database has an older signature
          aged,       \* targets that the cache gave back with an older timestamp
          blurred,    \* sources edited at a time the clock does not tell from the last
          settled,    \* nothing has changed since a run that made everything
          outcome     \* how the last run ended, if nothing has changed since

options == <<plan, request, decider, max_drift, use_cache>>
memory == <<ninfo, stored, status, stopping, names, reads>>
counters == <<runs, changes, crashes>>
history == <<versions, unrecorded, raced, misled, touched, mixed, dated, aged, blurred, settled, outcome>>
vars == <<disk, oldUpTo, cmd, options, memory, phase, db, tmp, cache, clock,
          counters, history>>

Version(f, file) == [file |-> f, content |-> file.content, mtime |-> file.mtime]

Forgotten ==
  /\ ninfo' = [f \in Files |-> NoInfo]
  /\ stored' = [f \in Files |-> NoEntry]
  /\ status' = [f \in Files |-> "todo"]
  /\ stopping' = FALSE
  /\ names' = [t \in Targets |-> <<>>] /\ reads' = [t \in Targets |-> <<>>]

Init ==
  /\ disk = [f \in Files |-> IF f \in Targets THEN NoFile
                             ELSE [content |-> Versions[f][1], mtime |-> 1]]
  /\ oldUpTo = 0 /\ clock = 1
  /\ cmd = [t \in Targets |-> Commands[t][1]]
  /\ plan \in Plans
  /\ request = Targets /\ decider = "MD5" /\ max_drift = TRUE /\ use_cache = FALSE
  /\ ninfo = [f \in Files |-> NoInfo] /\ stored = [f \in Files |-> NoEntry]
  /\ status = [f \in Files |-> "todo"] /\ stopping = FALSE
  /\ names = [t \in Targets |-> <<>>] /\ reads = [t \in Targets |-> <<>>]
  /\ phase = "idle" /\ db = None /\ tmp = None /\ cache = {}
  /\ runs = 0 /\ changes = 0 /\ crashes = 0
  /\ versions = {Version(f, disk[f]) : f \in Sources}
  /\ unrecorded = {} /\ raced = {} /\ misled = {}
  /\ touched = {} /\ mixed = {} /\ dated = {} /\ aged = {} /\ blurred = {}
  /\ settled = FALSE /\ outcome = "none"

-----------------------------------------------------------------------------
(* What happens to the project between the runs, and beside them. *)

Change == /\ changes < plan.max_changes /\ changes' = changes + 1
          /\ settled' = FALSE /\ outcome' = "none"

(* The clock of the file system may be too coarse to tell an edit from what  *)
(* happened last, unless max_drift has passed in between.                    *)
Ticks == {clock + 1} \cup IF plan.coarse_clock /\ clock > oldUpTo THEN {clock} ELSE {}

Edit(s) ==
  /\ phase = "idle" \/ plan.edits_while_building
  /\ Change
  /\ clock' \in Ticks
  /\ \E v \in ToSet(Versions[s]) \ {disk[s].content} :
       disk' = [disk EXCEPT ![s] = [content |-> v, mtime |-> clock']]
  /\ blurred' = IF clock' = clock THEN blurred \cup {s} ELSE blurred
  /\ versions' = versions \cup {Version(s, disk'[s])}
  /\ touched' = IF status[s] = "todo" THEN touched ELSE touched \cup {s}
  /\ UNCHANGED <<oldUpTo, cmd, options, memory, phase, db, tmp, cache, runs, crashes,
                 unrecorded, raced, misled, mixed, dated, aged>>

(* The SConstruct is changed, or a target or the database is deleted. *)
Reconfigure ==
  /\ phase = "idle"
  /\ Change
  /\ \/ \E t \in Targets : \E c \in ToSet(Commands[t]) \ {cmd[t]} :
          cmd' = [cmd EXCEPT ![t] = c] /\ UNCHANGED <<disk, db>>
     \/ \E t \in Targets : exists(t) /\ disk' = [disk EXCEPT ![t] = NoFile]
                           /\ UNCHANGED <<cmd, db>>
     \/ db # None /\ db' = None /\ UNCHANGED <<cmd, disk>>
  /\ UNCHANGED <<oldUpTo, options, memory, phase, tmp, cache, clock, runs, crashes,
                 versions, unrecorded, raced, misled, touched, mixed, dated, aged, blurred>>

-----------------------------------------------------------------------------
(* A run: the database is read as a whole when it is opened.  More than      *)
(* max_drift may have passed since the last change.                          *)
StartRun ==
  /\ phase = "idle" /\ runs + 1 \in DOMAIN plan.runs
  /\ runs' = runs + 1 /\ phase' = "walk"
  /\ oldUpTo' \in {oldUpTo, clock}
  /\ request' = plan.runs[runs'].request /\ decider' = plan.runs[runs'].decider
  /\ max_drift' = plan.runs[runs'].max_drift /\ use_cache' = plan.runs[runs'].use_cache
  /\ stored' = IF db = None THEN [f \in Files |-> NoEntry] ELSE db
  /\ settled' = (settled /\ decider' = decider /\ max_drift' = max_drift)
  /\ outcome' = "none"
  /\ UNCHANGED <<plan, disk, cmd, ninfo, status, stopping, names, reads, db, tmp,
                 cache, clock, changes, crashes, versions, unrecorded, raced, misled,
                 touched, mixed, dated, aged, blurred>>

Wanted ==
  LET below[i \in 0 .. Cardinality(Files)] ==
        IF i = 0 THEN request
        ELSE below[i - 1] \cup UNION {ToSet(children(t)) : t \in below[i - 1] \cap Targets}
  IN below[Cardinality(Files)]

Done(f) == status[f] \in {"current", "built"}
Examinable(f) == /\ status[f] = "todo"
                 /\ f \in Targets => \A c \in ToSet(children(f)) : Done(c)

(* The files the walk may come to: a target is passed over until its children *)
(* are done.  With several jobs the walk goes on while commands run.          *)
Left == IF phase # "walk" \/ stopping THEN {}
        ELSE LET wanted == Wanted IN {f \in Files : f \in wanted /\ Examinable(f)}
First == LET left == Left
         IN {f \in left : \A i, j \in DOMAIN Order :
                             Order[i] = f /\ Order[j] \in left => i <= j}

Explained == unrecorded \cup raced \cup misled

(* The NodeInfo of a file mixes two moments if the content it names is not   *)
(* the one that the file had with its timestamp.  The code lets this happen  *)
(* to a file in the database whose signature merge has kept for another      *)
(* timestamp, to a source that was touched, and to the children of a target  *)
(* whose own record cannot be right.                                         *)
Mixed(c, info) == info.csig # None /\ [file |-> c, content |-> info.csig,
                                       mtime |-> info.timestamp] \notin versions
Mixes(infos, doubtful) == {f \in doubtful : Mixed(f, infos[f])}

(* A source is visited: File.visited stores its info. *)
Visit(s) ==
  /\ status' = [status EXCEPT ![s] = "current"]
  /\ ninfo' = [ninfo EXCEPT ![s] = VisitedInfo(s)]
  /\ mixed' = mixed \cup Mixes(ninfo', dated \cap {s})
  /\ UNCHANGED <<disk, oldUpTo, cmd, options, stored, stopping, names, reads, phase,
                 db, tmp, cache, clock, counters, versions, unrecorded, raced, misled,
                 touched, dated, aged, blurred, settled, outcome>>

(* The children that timestamp-newer takes for those of the last time although *)
(* they are others: the cache has set their timestamps back.                  *)
SetBack(t) ==
  {c \in ToSet(children(t)) \cap aged :
     decider = "timestamp-newer" /\ PreviousByName(t, c).timestamp # ninfo[c].timestamp}

(* A target is decided upon.  If it is up to date it is visited as a source  *)
(* is; if not, File.prepare removes it.                                      *)
Evaluate(t) ==
  /\ names' = [names EXCEPT ![t] = children(t)]
  /\ LET asked == [f \in Files |-> IF f \in ToSet(children(t))
                                   THEN InfoAfterDecision(t, f) ELSE ninfo[f]]
     IN /\ ninfo' = IF is_up_to_date(t)
                    THEN [asked EXCEPT ![t] = VisitedInfo(t)] ELSE asked
  /\ mixed' = mixed \cup Mixes(ninfo', touched \cup (dated \cap {t}) \cup
                                       IF t \in Explained THEN ToSet(children(t)) ELSE {})
  /\ IF is_up_to_date(t)
     THEN /\ status' = [status EXCEPT ![t] = "current"]
          /\ raced' = IF ToSet(children(t)) \cap touched # {} THEN raced \cup {t} ELSE raced
          /\ misled' = IF SetBack(t) # {} THEN misled \cup {t} ELSE misled
          /\ UNCHANGED <<disk, unrecorded>>
     ELSE /\ status' = [status EXCEPT ![t] = "ready"]
          /\ disk' = [disk EXCEPT ![t] = NoFile]
          /\ unrecorded' = unrecorded \cup {t}
          /\ UNCHANGED <<raced, misled>>
  /\ UNCHANGED <<oldUpTo, cmd, options, stored, stopping, reads, phase, db, tmp, cache,
                 clock, counters, versions, touched, dated, aged, blurred, settled, outcome>>

(* get_cachedir_bsig: the children's signatures, the command, the path. *)
Bsig(t) == [target |-> t, bactsig |-> cmd[t],
            csigs |-> [i \in DOMAIN names[t] |-> get_csig(names[t][i])]]
Cached(t) == {e \in cache : use_cache /\ e.bsig = Bsig(t)}
Signed(t) == [f \in Files |-> IF use_cache /\ f \in ToSet(names[t])
                              THEN WithSig(f, get_csig(f)) ELSE ninfo[f]]

(* The command starts: it reads the children and may leave a part of the     *)
(* target behind from now on.  The retrieval from the cache does the same.   *)
Partial == [content |-> <<"partial">>, mtime |-> clock + 1]
Begin(t) ==
  /\ phase = "walk" /\ status[t] = "ready"
  /\ status' = [status EXCEPT ![t] = "running"]
  /\ reads' = [reads EXCEPT ![t] = [i \in DOMAIN names[t] |-> disk[names[t][i]].content]]
  /\ ninfo' = Signed(t)
  /\ mixed' = mixed \cup Mixes(ninfo', touched)
  /\ \/ UNCHANGED <<disk, versions>>
     \/ /\ disk' = [disk EXCEPT ![t] = Partial]
        /\ versions' = versions \cup {Version(t, Partial)}
  /\ clock' = clock + 1
  /\ UNCHANGED <<oldUpTo, cmd, options, stored, stopping, names, phase, db, tmp, cache,
                 counters, unrecorded, raced, misled, touched, dated, aged, blurred, settled,
                 outcome>>

(* It ends well: the target is pushed to the cache, and built() reads what   *)
(* there is to know of the new file.                                         *)
Remade(t, content, mtime, wrong) ==
  /\ disk' = [disk EXCEPT ![t] = [content |-> content, mtime |-> mtime]]
  /\ ninfo' = [ninfo EXCEPT ![t] = [csig |-> content, timestamp |-> mtime]]
  /\ status' = [status EXCEPT ![t] = "built"]
  /\ versions' = versions \cup {Version(t, disk'[t])}
  /\ raced' = IF ToSet(names[t]) \cap touched # {} THEN raced \cup {t} ELSE raced \ {t}
  /\ misled' = IF wrong \/ ToSet(names[t]) \cap mixed # {} THEN misled \cup {t}
                                                          ELSE misled \ {t}
  /\ aged' = IF mtime <= clock THEN aged \cup {t} ELSE aged \ {t}
  /\ clock' = clock + 1
  /\ reads' = [reads EXCEPT ![t] = <<>>]
  /\ UNCHANGED <<oldUpTo, cmd, options, stored, stopping, names, phase, db, tmp,
                 counters, unrecorded, touched, mixed, dated, blurred, settled, outcome>>

Built(t) ==
  LET content == Make(t, cmd[t], reads[t])
  IN /\ phase = "walk" /\ status[t] = "running"
     /\ Cached(t) = {} /\ ~Fails(t, reads[t])
     /\ Remade(t, content, clock + 1, FALSE)
     /\ cache' = cache \cup
          (IF use_cache THEN {[bsig |-> Bsig(t), content |-> content, mtime |-> clock + 1,
                               wrong |-> t \in raced' \cup misled']}
           ELSE {})

(* Decider() also chooses how a file is copied from the cache: with its      *)
(* timestamp, except for timestamp-newer.                                    *)
Retrieved(t) ==
  /\ phase = "walk" /\ status[t] = "running"
  /\ \E e \in Cached(t) :
       /\ Remade(t, e.content, IF decider = "timestamp-newer" THEN clock + 1 ELSE e.mtime,
                 e.wrong)
       /\ cache' = (cache \ {e}) \cup {[e EXCEPT !.mtime = clock + 1]}

(* The command fails and leaves the target or not.  Without -k the walk      *)
(* ends, as it does when a signal killed the command.                        *)
Failed(t) ==
  /\ phase = "walk" /\ status[t] = "running"
  /\ Cached(t) = {} /\ Fails(t, reads[t])
  /\ status' = [status EXCEPT ![t] = "failed"]
  /\ stopping' \in {stopping, TRUE}
  /\ reads' = [reads EXCEPT ![t] = <<>>]
  /\ UNCHANGED <<disk, oldUpTo, cmd, options, ninfo, stored, names, phase, db,
                 tmp, cache, clock, counters, history>>

-----------------------------------------------------------------------------
(* The end of the run. *)

(* Base.merge: the info of every file visited or built goes to its entry;    *)
(* the BuildInfo of a target refers to the NodeInfos of its children.        *)
Entry(f) ==
  IF ~Done(f) THEN stored[f]
  ELSE [ninfo |-> merge(stored[f].ninfo, ninfo[f]),
        names |-> IF f \in Targets THEN names[f] ELSE stored[f].names,
        sigs |-> IF f \in Targets THEN [i \in DOMAIN names[f] |-> ninfo[names[f][i]]]
                 ELSE stored[f].sigs,
        bactsig |-> IF f \in Targets THEN cmd[f] ELSE stored[f].bactsig]

(* SConsign.write, dblite.sync: the temporary file is written, ... *)
WriteTmp ==
  /\ phase = "walk"
  /\ \A t \in Targets : status[t] \notin {"ready", "running"}
  /\ Left = {}
  /\ tmp' = [f \in Files |-> Entry(f)]
  /\ phase' = "unlink"
  /\ UNCHANGED <<disk, oldUpTo, cmd, options, memory, db, cache, clock, counters,
                 history>>

(* ... the database is unlinked, ... *)
Unlink ==
  /\ phase = "unlink"
  /\ db' = None
  /\ phase' = "rename"
  /\ UNCHANGED <<disk, oldUpTo, cmd, options, memory, tmp, cache, clock, counters,
                 history>>

(* merge keeps the old signature for a new timestamp. *)
Redated(f) == Done(f) /\ ninfo[f].csig = None /\ stored[f].ninfo.timestamp # ninfo[f].timestamp

(* ... and the temporary file renamed.  The run is over. *)
Rename ==
  /\ phase = "rename"
  /\ db' = tmp /\ tmp' = None
  /\ phase' = "idle"
  /\ Forgotten
  /\ unrecorded' = unrecorded \ {t \in Targets : status[t] = "built"}
  /\ outcome' = IF touched # {} THEN "overtaken"
                ELSE IF \A t \in request : Done(t) THEN "made" ELSE "failed"
  /\ settled' = (outcome' = "made" /\ request = Targets)
  /\ misled' = misled \cup {t \in Targets : Done(t) /\ ToSet(names[t]) \cap mixed # {}}
  /\ dated' = {f \in Files : Mixed(f, tmp[f].ninfo) /\ (f \in dated \cup mixed \/ Redated(f))}
  /\ touched' = {} /\ mixed' = {}
  /\ UNCHANGED <<disk, oldUpTo, cmd, options, cache, clock, counters, versions, raced,
                 aged, blurred>>

(* The run is killed; a running command too. *)
Crash ==
  /\ phase # "idle" /\ crashes < plan.max_crashes
  /\ crashes' = crashes + 1
  /\ phase' = "idle"
  /\ Forgotten
  /\ settled' = FALSE /\ outcome' = "none" /\ touched' = {} /\ mixed' = {}
  /\ UNCHANGED <<disk, oldUpTo, cmd, options, db, tmp, cache, clock, runs, changes,
                 versions, unrecorded, raced, misled, dated, aged, blurred>>

Next ==
  \/ Reconfigure \/ StartRun \/ WriteTmp \/ Unlink \/ Rename \/ Crash
  \/ \E s \in Sources : Edit(s)
  \/ \E s \in First \cap Sources : Visit(s)
  \/ \E t \in First \cap Targets : Evaluate(t)
  \/ \E t \in Targets : Begin(t) \/ Built(t) \/ Retrieved(t) \/ Failed(t)

Spec == Init /\ [][Next]_vars

-----------------------------------------------------------------------------
(* What a build from nothing would make of the files that are there. *)
Clean(t) == Make(t, cmd[t], [i \in DOMAIN children(t) |-> disk[children(t)[i]].content])

(* What an entry says of a child: its signature, or what it was at the time. *)
Recorded(c, info) ==
  IF info.csig # None THEN info.csig
  ELSE (CHOOSE v \in versions : v.file = c /\ v.mtime = info.timestamp).content

(* A run that made what it was asked for leaves no stale target, except one  *)
(* whose record cannot be right (is_up_to_date never looks at the target     *)
(* itself): the command that made it last was not recorded, as it failed or  *)
(* the run was killed; a child was edited before the decision on the target  *)
(* or under its command; the NodeInfo of a child had the signature of one    *)
(* moment and the timestamp of another, or the cache had set back a          *)
(* timestamp that timestamp-newer compares.  Nor can the timestamp of a child *)
(* tell two edits apart if the clock of the file system does not.            *)
NothingStale ==
  outcome = "made" =>
    \A t \in request \ Explained :
      ToSet(children(t)) \cap blurred = {} => exists(t) /\ disk[t].content = Clean(t)

(* With the same exceptions, the record of a target describes the file that  *)
(* is there: the command and the contents it was made from (store_info,      *)
(* merge, and what the deciders write to the NodeInfos they compare).        *)
RecordDescribesTarget ==
  db # None =>
    \A t \in Targets \ Explained :
      exists(t) /\ db[t].bactsig # None /\ ToSet(db[t].names) \cap blurred = {} =>
        disk[t].content =
          Make(t, db[t].bactsig,
               [i \in DOMAIN db[t].names |-> Recorded(db[t].names[i], db[t].sigs[i])])

(* When nothing has changed since a run that made everything, the next run   *)
(* with the same decider and max_drift makes nothing, however much time has  *)
(* passed.                                                                   *)
NullBuild ==
  settled => \A t \in Targets : status[t] \in {"todo", "current"}

=============================================================================
