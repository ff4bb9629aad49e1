-------------------------------- MODULE SdFiles --------------------------------
(***************************************************************************)
(* sd_util.hpp and the programs of more/sd: they list, read and delete     *)
(* files on the SD card of a device through its FILE_IO registers.  The    *)
(* device has one current directory, one pending path and one open file,   *)
(* which all survive the program; so one program, or its failure, decides  *)
(* what the next one means by a relative path.                             *)
(***************************************************************************)
EXTENDS Utilities, Sequences

CONSTANTS
  Dirs, Root,     \* the directories of the card
  Files, Empty,   \* its files, as <<directory, name>>, and those of size 0
  Names,          \* names a user may ask for
  Unknown,        \* a path that was never read
  MaxRuns         \* bound: programs run one after the other

SdAssumption ==
  /\ Root \in Dirs /\ Unknown \notin Dirs
  /\ Empty \subseteq Files
  /\ Files \subseteq Dirs \X Names
  /\ MaxRuns \in Nat

VARIABLES
  todo,        \* the calls main still has to make
  cwd,         \* device: FILE_IO_DIR_CURRENT
  path,        \* device: what FILE_IO_PATH_WRITE was given
  unlisted,    \* device: entries FILE_IO_DIR_NEXT has yet to return
  opened,      \* device: the open file
  card,        \* device: the files on the card
  request,     \* argv of the program: [op, dir, name]
  start,       \* startingDirectory of ListDirContents
  dir,         \* DirContents, a map by name: the names
  sdRuns,      \* programs run so far
  userDir,     \* history: the directory the user last changed to
  excused,     \* history: cwd may be another one for a known reason
  shown        \* history: what read_file printed, NoPath before

deviceVars == <<cwd, path, unlisted, opened, card>>
historyVars == <<userDir, excused, shown>>
vars == <<sessionVars, pc, todo, deviceVars, request, start, dir, sdRuns, historyVars>>

NoPath == <<>>

(* The calls main still has to make; GoToPath is two of them (the length    *)
(* and the path are one), Start and Argument say which path.               *)
Call(op) == [op |-> op, to |-> "none"]
GoToPath(to) == <<[op |-> "PATH_WRITE", to |-> to], Call("DIR_CHANGE")>>
GetCurrentWorkingDirectory(to) == <<Call("DIR_CURRENT"), [op |-> "PATH_READ", to |-> to]>>
GetCurDirContents == <<Call("DIR_FIRST"), Call("DIR_NEXT")>>
(* The list stays where it went. *)
ListDirContents_Stays ==
  GetCurrentWorkingDirectory("start") \o GoToPath("argument") \o GetCurDirContents

ListDirContents ==
  GetCurrentWorkingDirectory("start") \o GoToPath("argument") \o
  GetCurDirContents \o GoToPath("start")

ReadFile ==
  <<Call("absolute")>> \o GoToPath("argument") \o GetCurDirContents \o
  <<Call("found"), [op |-> "PATH_WRITE", to |-> "name"],
    Call("OPEN"), Call("READ"), Call("CLOSE")>>
DeleteFile == <<[op |-> "PATH_WRITE", to |-> "file"], Call("DELETE")>>

Main(r) ==
  <<Call("open")>> \o
  (CASE r.op = "list" /\ r.dir = Unknown -> GetCurrentWorkingDirectory("argument") \o ListDirContents
     [] r.op = "list" /\ r.dir # Unknown -> ListDirContents
     [] r.op = "read" -> ReadFile
     [] r.op = "change" -> GoToPath("argument")
     [] r.op = "delete" -> DeleteFile
     [] r.op = "pwd" -> GetCurrentWorkingDirectory("start")) \o
  <<Call("close")>>

(* Directories are named by absolute paths, files by absolute ones or (dir *)
(* Unknown) by their name alone.                                           *)
Requests ==
  [op : {"list"}, dir : Dirs \cup {Unknown}, name : {""}] \cup
  [op : {"change"}, dir : Dirs, name : {""}] \cup
  [op : {"read", "delete"}, dir : Dirs \cup {Unknown}, name : Names] \cup
  [op : {"pwd"}, dir : {Unknown}, name : {""}]

Entries(d) == {f[2] : f \in {g \in card : g[1] = d}}

Init ==
  /\ SessionInit
  /\ request \in Requests
  /\ pc = "main"
  /\ todo = Main(request)
  /\ cwd = Root /\ path = NoPath /\ unlisted = {} /\ opened = NoPath /\ card = Files
  /\ start = Unknown /\ dir = {}
  /\ sdRuns = 1
  /\ userDir = Root /\ excused = FALSE /\ shown = NoPath

Calls(op) == Running /\ Head(todo).op = op

(* OpenDevice: exit(1), without closing, for a T4. *)
OpenDevice(e) ==
  /\ Calls("open")
  /\ \/ OpenOrDie(e, "main") /\ todo' = Tail(todo)
     \/ ~ErrorCheckDies(e) /\ handle' = "open" /\ exit' = "error" /\ pc' = "exit" /\ UNCHANGED todo
  /\ UNCHANGED <<deviceVars, request, start, dir, sdRuns, historyVars>>

(* FILE_IO_PATH_WRITE_LEN_BYTES and FILE_IO_PATH_WRITE *)
WritePath(e) ==
  /\ Calls("PATH_WRITE")
  /\ path' = CASE Head(todo).to = "start" -> <<start>>
               [] Head(todo).to = "argument" -> <<request.dir>>
               [] Head(todo).to = "name" -> <<cwd, request.name>>
               [] OTHER -> <<IF request.dir = Unknown THEN cwd ELSE request.dir, request.name>>
  /\ ErrorCheck(e, "main") /\ todo' = Tail(todo)
  /\ UNCHANGED <<cwd, unlisted, opened, card, request, start, dir, sdRuns, historyVars>>

(* FILE_IO_DIR_CHANGE.  A path that was never read is whatever bytes the   *)
(* new buffer held: an error, or any directory.                            *)
ChangeDir(e) ==
  /\ Calls("DIR_CHANGE")
  /\ cwd' \in IF path = <<Unknown>> THEN Dirs ELSE {path[1]} \cup {d \in {cwd} : e = "error"}
  /\ ErrorCheck(e, "main") /\ todo' = Tail(todo)
  /\ userDir' = IF request.op = "change" /\ e # "error" THEN request.dir ELSE userDir
  /\ excused' = CASE request.op = "change" -> e = "error"
                  [] request.op = "read" -> TRUE
                  [] OTHER -> excused \/ path = <<Unknown>>
  /\ UNCHANGED <<path, unlisted, opened, card, request, start, dir, sdRuns, shown>>

(* FILE_IO_DIR_CURRENT and FILE_IO_PATH_READ_LEN_BYTES *)
AskDir(e) ==
  /\ Calls("DIR_CURRENT")
  /\ ErrorCheck(e, "main") /\ todo' = Tail(todo)
  /\ UNCHANGED <<deviceVars, request, start, dir, sdRuns, historyVars>>

(* FILE_IO_PATH_READ of GetCurrentWorkingDirectory, whose result is not    *)
(* looked at.                                                              *)
ReadDir(e) ==
  /\ Calls("PATH_READ")
  /\ LET answer == IF e = "error" THEN Unknown ELSE cwd
     IN IF Head(todo).to = "start"
        THEN start' = answer /\ UNCHANGED request
        ELSE request' = [request EXCEPT !.dir = answer] /\ UNCHANGED start
  /\ todo' = Tail(todo)
  /\ UNCHANGED <<sessionVars, pc, deviceVars, dir, sdRuns, historyVars>>

(* FILE_IO_DIR_FIRST; a directory without entries has no first one. *)
DirFirst(e) ==
  /\ Calls("DIR_FIRST")
  /\ Entries(cwd) = {} => e = "error"
  /\ unlisted' = Entries(cwd)
  /\ dir' = {}
  /\ ErrorCheck(e, "main") /\ todo' = Tail(todo)
  /\ UNCHANGED <<cwd, path, opened, card, request, start, sdRuns, historyVars>>

(* The four reads of one entry, and FILE_IO_DIR_NEXT: the errors 2966, 2960 *)
(* and 2809 mean that there is no other entry.                             *)
DirNext(e) ==
  /\ Calls("DIR_NEXT")
  /\ \E name \in unlisted :
       /\ unlisted' = unlisted \ {name}
       /\ dir' = dir \cup {name}
       /\ todo' = IF unlisted = {name} THEN Tail(todo) ELSE todo
  /\ ErrorCheck(e, "main")
  /\ UNCHANGED <<cwd, path, opened, card, request, start, sdRuns, historyVars>>

(* A path without '/' ends ReadFile before it talks to the device. *)
CheckAbsolute ==
  /\ Calls("absolute")
  /\ IF request.dir = Unknown THEN BareExit /\ pc' = "exit" /\ UNCHANGED todo
     ELSE todo' = Tail(todo) /\ UNCHANGED <<sessionVars, pc>>
  /\ UNCHANGED <<deviceVars, request, start, dir, sdRuns, historyVars>>

(* "file not found": also for a file of size 0. *)
CheckFound ==
  /\ Calls("found")
  /\ IF request.name \notin dir \/ <<cwd, request.name>> \in Empty
     THEN BareExit /\ pc' = "exit" /\ UNCHANGED todo
     ELSE todo' = Tail(todo) /\ UNCHANGED <<sessionVars, pc>>
  /\ UNCHANGED <<deviceVars, request, start, dir, sdRuns, historyVars>>

OpenFile(e) ==
  /\ Calls("OPEN")
  /\ path \in card \/ e = "error"
  /\ opened' \in (card \cap {path}) \cup {o \in {opened} : e = "error"}
  /\ ErrorCheck(e, "main") /\ todo' = Tail(todo)
  /\ UNCHANGED <<cwd, path, unlisted, card, request, start, dir, sdRuns, historyVars>>

Read(e) ==
  /\ Calls("READ")
  /\ shown' = IF e = "error" THEN shown ELSE opened
  /\ ErrorCheck(e, "main") /\ todo' = Tail(todo)
  /\ UNCHANGED <<deviceVars, request, start, dir, sdRuns, userDir, excused>>

CloseFile(e) ==
  /\ Calls("CLOSE")
  /\ opened' = IF e = "error" THEN opened ELSE NoPath
  /\ ErrorCheck(e, "main") /\ todo' = Tail(todo)
  /\ UNCHANGED <<cwd, path, unlisted, card, request, start, dir, sdRuns, historyVars>>

Delete(e) ==
  /\ Calls("DELETE")
  /\ path \in card \/ e = "error"
  /\ card' \in {card \ {path}} \cup {c \in {card} : e = "error"}
  /\ ErrorCheck(e, "main") /\ todo' = Tail(todo)
  /\ UNCHANGED <<cwd, path, unlisted, opened, request, start, dir, sdRuns, historyVars>>

CloseDevice(e) ==
  /\ Calls("close")
  /\ CloseOrDie(e) /\ UNCHANGED todo
  /\ UNCHANGED <<deviceVars, request, start, dir, sdRuns, historyVars>>

(* The user runs another program; a list that did not get to its second    *)
(* GoToPath has left its directory behind.                                 *)
StartNext(r) ==
  /\ ~Running
  /\ sdRuns < MaxRuns
  /\ sdRuns' = sdRuns + 1
  /\ request' = r
  /\ pc' = "main" /\ todo' = Main(r)
  /\ exit' = "none" /\ handle' = "none"
  /\ start' = Unknown /\ dir' = {} /\ shown' = NoPath
  /\ excused' = (excused \/ (request.op = "list" /\ exit = "error"))
  /\ UNCHANGED <<deviceVars, userDir>>

ACall(e) ==
  \/ OpenDevice(e) \/ WritePath(e) \/ ChangeDir(e) \/ AskDir(e) \/ ReadDir(e)
  \/ DirFirst(e) \/ DirNext(e) \/ OpenFile(e) \/ Read(e) \/ CloseFile(e)
  \/ Delete(e) \/ CloseDevice(e)

Finished ==
  /\ ~Running
  /\ UNCHANGED vars

Next ==
  \/ \E e \in Outcome : ACall(e)
  \/ CheckAbsolute \/ CheckFound
  \/ \E r \in Requests : StartNext(r)
  \/ Finished

Spec == Init /\ [][Next]_vars
-----------------------------------------------------------------------------
(* list_directory shows every entry of the directory it was asked for, once *)
(* the listing ended without an error; and read_file prints that file.     *)
ListingComplete ==
  Running /\ request.op = "list" /\ ~excused /\ todo = GoToPath("start") \o <<Call("close")>>
    => dir = Entries(request.dir)
ReadsWhatWasAsked == shown # NoPath => shown = <<request.dir, request.name>>

(* Once list_directory is through, the device is in the directory the user  *)
(* left it in, so that a relative path still means what it did; reading a   *)
(* file, a program that was cut short and a directory whose name could not  *)
(* be read are the exceptions.                                             *)
DirectoryKept ==
  ~excused /\ (exit = "ok" \/ (Running /\ Head(todo).op \in {"open", "DELETE"})) => cwd = userDir

SdSafe == ListingComplete /\ ReadsWhatWasAsked /\ DirectoryKept
=============================================================================
