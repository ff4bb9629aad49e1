------------------------------ MODULE Utilities ------------------------------
(***************************************************************************)
(* The part of LJM_Utilities.h every example program is built on: one      *)
(* device handle, and what becomes of the process when a library call      *)
(* reports a warning or an error.  An LJM error code is abstracted to the  *)
(* three ranges _ErrorCheckWithAddress tells apart.                        *)
(***************************************************************************)
EXTENDS Integers, FiniteSets

VARIABLES
  handle,   \* "none" before the open, then "open", then "closed"
  exit,     \* "none" while the process runs, then "ok" or "error"
  pc        \* the next call main makes, "exit" after the last

sessionVars == <<handle, exit>>

(* LJME_NOERROR; LJME_WARNINGS_BEGIN..LJME_WARNINGS_END; any other code. *)
Outcome == {"ok", "warning", "error"}

SessionTypeOK ==
  /\ handle \in {"none", "open", "closed"}
  /\ exit \in {"none", "ok", "error"}

SessionInit ==
  /\ handle = "none"
  /\ exit = "none"

Running == exit = "none"

(* ErrorCheck and ErrorCheckWithAddress print a warning and carry on; any   *)
(* other code but LJME_NOERROR ends the process.                           *)
ErrorCheckDies(err) == err \notin {"ok", "warning"}

(* WriteNameOrDie tests the code itself: a warning ends the process too.   *)
WriteNameOrDieDies(err) == err # "ok"

(* ACTION_PRINT_AND_EXIT: LJM_CloseAll, then exit(err).  Nothing runs       *)
(* between the two in a program of one thread; StreamCallback parts them.  *)
CheckedExit ==
  /\ handle' = IF handle = "open" THEN "closed" ELSE handle
  /\ exit' = "error"

(* WriteNameOrDie's exit(err): no LJM_CloseAll before it. *)
BareExit ==
  /\ exit' = "error"
  /\ UNCHANGED handle

(* The normal end of main: LJM_Close accepted the handle, return 0. *)
NormalExit ==
  /\ handle' = "closed"
  /\ exit' = "ok"

-----------------------------------------------------------------------------
(* ErrorCheck(e), and on to the call "to". *)
ErrorCheck(e, to) ==
  IF ErrorCheckDies(e)
  THEN CheckedExit /\ pc' = "exit"
  ELSE pc' = to /\ UNCHANGED sessionVars

(* WriteNameOrDie, after the write. *)
WriteNameOrDie(e, to) ==
  IF WriteNameOrDieDies(e)
  THEN BareExit /\ pc' = "exit"
  ELSE pc' = to /\ UNCHANGED sessionVars

OpenOrDie(e, to) ==
  IF ErrorCheckDies(e)
  THEN CheckedExit /\ pc' = "exit"
  ELSE handle' = "open" /\ pc' = to /\ UNCHANGED exit

(* CloseOrDie, and the end of main. *)
CloseOrDie(e) ==
  /\ pc' = "exit"
  /\ IF ErrorCheckDies(e) THEN CheckedExit ELSE NormalExit

==============================================================================
