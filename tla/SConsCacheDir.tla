---------------------------- MODULE SConsCacheDir ----------------------------
(* Builds in several processes that share one CacheDir (CacheDir.py; the     *)
(* steps of Task.execute and Task.executed_with_callbacks that use it).  All *)
(* of them make the same targets with one command, each in its own directory,*)
(* and somebody else may delete files of the cache.  A target's signature    *)
(* (get_cachedir_bsig) is the same in all of them: the target stands for it. *)
EXTENDS Integers, Sequences, SequencesExt

CONSTANTS Procs,          \* the processes
          pid,            \* process -> the number in its temporary files' names
          Outputs,        \* the targets of the command, in order
          NoFile,
          MaxBuilds       \* bound on the builds a process starts

CacheAssumption ==
  /\ \A p \in Procs, q \in Procs : p # q => pid[p] # pid[q]
  /\ Outputs \in Seq(ToSet(Outputs)) \ {<<>>}
  /\ MaxBuilds \in Nat

VARIABLES config,      \* the cache's config file: absent, empty or written
          files,       \* the cache: target -> file, or NoFile
          temp,        \* number, target -> temporary file, or NoFile
          local,       \* process, target -> the target in its directory
          at,          \* process -> its next step
          turn,        \* process -> the place of the target it is at
          reading,     \* process -> the file it has open
          cached,      \* process -> the targets it has retrieved
          builds,      \* process -> the builds it has started
          kept         \* history: target -> every file the cache ever had

cacheVars == <<config, files, temp, local, at, turn, reading, cached, builds, kept>>

(* A file is known by the build that made it; a copy in progress is not whole. *)
File(p) == [made |-> <<p, builds[p]>>, whole |-> TRUE]
Torn(file) == [file EXCEPT !.whole = FALSE]
Names == ToSet(Outputs)
t_(p) == Outputs[turn[p]]

CacheInit ==
  /\ config = "absent"
  /\ files = [t \in Names |-> NoFile]
  /\ temp = [n \in {pid[p] : p \in Procs} |-> [t \in Names |-> NoFile]]
  /\ local = [p \in Procs |-> [t \in Names |-> NoFile]]
  /\ at = [p \in Procs |-> "idle"] /\ turn = [p \in Procs |-> 1]
  /\ reading = [p \in Procs |-> NoFile]
  /\ cached = [p \in Procs |-> {}] /\ builds = [p \in Procs |-> 0]
  /\ kept = [t \in Names |-> {}]

Goes(p, from, to) == at[p] = from /\ at' = [at EXCEPT ![p] = to]

(* _readconfig3: the config file is created by whoever comes first, empty    *)
(* until it is dumped; to read an empty one is an error that ends the run.   *)
(* The targets are removed before the task is executed (File.prepare).       *)
OpenConfig(p) ==
  /\ builds[p] < MaxBuilds
  /\ Goes(p, "idle", CASE config = "absent" -> "dump"
                       [] config = "empty" -> "dead"
                       [] OTHER -> "lookup")
  /\ config' = IF config = "absent" THEN "empty" ELSE config
  /\ builds' = [builds EXCEPT ![p] = @ + 1]
  /\ local' = [local EXCEPT ![p] = IF config = "empty" THEN @ ELSE [t \in Names |-> NoFile]]
  /\ turn' = [turn EXCEPT ![p] = 1] /\ cached' = [cached EXCEPT ![p] = {}]
  /\ UNCHANGED <<files, temp, reading, kept>>

DumpConfig(p) ==
  /\ Goes(p, "dump", "lookup")
  /\ config' = "written"
  /\ UNCHANGED <<files, temp, local, turn, reading, cached, builds, kept>>

-----------------------------------------------------------------------------
(* Task.execute: the targets are retrieved one after the other until one is  *)
(* not in the cache; then those that were retrieved are removed again.       *)

NotRetrieved(p) ==
  /\ at' = [at EXCEPT ![p] = "build"]
  /\ local' = [local EXCEPT ![p] = [t \in Names |-> IF t \in cached[p] THEN NoFile ELSE @[t]]]
  /\ cached' = [cached EXCEPT ![p] = {}]
  /\ reading' = [reading EXCEPT ![p] = NoFile]

(* CacheRetrieveFunc: the cache file exists, or has been deleted already. *)
Lookup(p) ==
  /\ at[p] = "lookup"
  /\ IF files[t_(p)] = NoFile THEN NotRetrieved(p)
     ELSE /\ at' = [at EXCEPT ![p] = "open"]
          /\ UNCHANGED <<local, cached, reading>>
  /\ UNCHANGED <<config, files, temp, turn, builds, kept>>

(* The copy: the file that was opened is read to its end, whatever becomes   *)
(* of its name.                                                              *)
OpenCached(p) ==
  /\ at[p] = "open"
  /\ IF files[t_(p)] = NoFile THEN NotRetrieved(p)
     ELSE /\ at' = [at EXCEPT ![p] = "copy"]
          /\ reading' = [reading EXCEPT ![p] = files[t_(p)]]
          /\ local' = [local EXCEPT ![p][t_(p)] = Torn(files[t_(p)])]
          /\ UNCHANGED cached
  /\ UNCHANGED <<config, files, temp, turn, builds, kept>>

CopyCached(p) ==
  /\ Goes(p, "copy", "stat")
  /\ local' = [local EXCEPT ![p][t_(p)] = reading[p]]
  /\ UNCHANGED <<config, files, temp, turn, reading, cached, builds, kept>>

(* The mode is taken from the cache file: if it is gone, the retrieval has   *)
(* failed although the file is there, and stays there for the command.       *)
StatCached(p) ==
  /\ at[p] = "stat"
  /\ IF files[t_(p)] = NoFile
     THEN NotRetrieved(p) /\ UNCHANGED turn
     ELSE /\ cached' = [cached EXCEPT ![p] = @ \cup {t_(p)}]
          /\ reading' = [reading EXCEPT ![p] = NoFile]
          /\ IF turn[p] < Len(Outputs)
             THEN /\ turn' = [turn EXCEPT ![p] = @ + 1]
                  /\ at' = [at EXCEPT ![p] = "lookup"]
             ELSE at' = [at EXCEPT ![p] = "done"] /\ UNCHANGED turn
          /\ UNCHANGED local
  /\ UNCHANGED <<config, files, temp, builds, kept>>

(* The command makes all targets, or fails and leaves what it has written. *)
BuildTargets(p) ==
  /\ at[p] = "build"
  /\ \/ /\ at' = [at EXCEPT ![p] = "push"]
        /\ local' = [local EXCEPT ![p] = [t \in Names |-> File(p)]]
     \/ /\ at' = [at EXCEPT ![p] = "idle"]
        /\ local' = [local EXCEPT ![p] = [t \in Names |-> Torn(File(p))]]
  /\ turn' = [turn EXCEPT ![p] = 1]
  /\ UNCHANGED <<config, files, temp, reading, cached, builds, kept>>

-----------------------------------------------------------------------------
(* executed_with_callbacks: every target that was built is pushed            *)
(* (CachePushFunc), unless it is in the cache by now.                        *)

Pushed(p) ==
  IF turn[p] < Len(Outputs)
  THEN turn' = [turn EXCEPT ![p] = @ + 1] /\ at' = [at EXCEPT ![p] = "push"]
  ELSE at' = [at EXCEPT ![p] = "done"] /\ UNCHANGED turn

PushStart(p) ==
  /\ at[p] = "push"
  /\ IF files[t_(p)] # NoFile THEN Pushed(p) /\ UNCHANGED temp
     ELSE /\ at' = [at EXCEPT ![p] = "fill"] /\ UNCHANGED turn
          /\ temp' = [temp EXCEPT ![pid[p]][t_(p)] = Torn(local[p][t_(p)])]
  /\ UNCHANGED <<config, files, local, reading, cached, builds, kept>>

(* The temporary file is complete, or the disk is full: a warning, and the   *)
(* temporary file stays.                                                     *)
PushFill(p) ==
  /\ at[p] = "fill"
  /\ \/ /\ temp' = [temp EXCEPT ![pid[p]][t_(p)] = local[p][t_(p)]]
        /\ at' = [at EXCEPT ![p] = "rename"] /\ UNCHANGED turn
     \/ Pushed(p) /\ UNCHANGED temp
  /\ UNCHANGED <<config, files, local, reading, cached, builds, kept>>

(* It replaces the file another process may have pushed meanwhile. *)
PushRename_WithoutTemp(p) ==
  /\ at[p] = "fill"
  /\ files' = [files EXCEPT ![t_(p)] = temp[pid[p]][t_(p)]]
  /\ kept' = [kept EXCEPT ![t_(p)] = @ \cup {temp[pid[p]][t_(p)]}]
  /\ Pushed(p)
  /\ UNCHANGED <<config, temp, local, reading, cached, builds>>
PushRename(p) ==
  /\ at[p] = "rename"
  /\ files' = [files EXCEPT ![t_(p)] = temp[pid[p]][t_(p)]]
  /\ kept' = [kept EXCEPT ![t_(p)] = @ \cup {temp[pid[p]][t_(p)]}]
  /\ temp' = [temp EXCEPT ![pid[p]][t_(p)] = NoFile]
  /\ Pushed(p)
  /\ UNCHANGED <<config, local, reading, cached, builds>>

-----------------------------------------------------------------------------
(* A finished process builds again; a killed one leaves everything as it is. *)
Again(p) ==
  /\ at[p] # "idle" /\ builds[p] < MaxBuilds
  /\ at' = [at EXCEPT ![p] = "idle"] /\ reading' = [reading EXCEPT ![p] = NoFile]
  /\ UNCHANGED <<config, files, temp, local, turn, cached, builds, kept>>

Evict(t) ==
  /\ files[t] # NoFile
  /\ files' = [files EXCEPT ![t] = NoFile]
  /\ UNCHANGED <<config, temp, local, at, turn, reading, cached, builds, kept>>

(* No process builds any more. *)
BuildsOver ==
  /\ \A p \in Procs : at[p] \in {"idle", "dead", "done"} /\ builds[p] = MaxBuilds
  /\ UNCHANGED cacheVars

CacheNext ==
  \/ \E p \in Procs :
       \/ OpenConfig(p) \/ DumpConfig(p) \/ Lookup(p) \/ OpenCached(p) \/ CopyCached(p)
       \/ StatCached(p) \/ BuildTargets(p) \/ PushStart(p) \/ PushFill(p) \/ PushRename(p)
       \/ Again(p)
  \/ \E t \in Names : Evict(t)
  \/ BuildsOver

CacheSpec == CacheInit /\ [][CacheNext]_cacheVars

-----------------------------------------------------------------------------
(* Nobody ever sees a part of a file in the cache, and a build that ends     *)
(* well has whole targets: all from the cache, each as it once was there, or *)
(* all of its own command, never some of each (cached_targets).              *)
CacheSound ==
  /\ \A t \in Names : files[t] # NoFile => files[t].whole
  /\ \A p \in Procs :
       at[p] = "done" =>
         \/ cached[p] = Names /\ \A t \in Names : local[p][t] \in kept[t]
         \/ cached[p] = {} /\ \A t \in Names : local[p][t] = File(p)
=============================================================================
