------------------------------ MODULE ScanLedger ------------------------------
(***************************************************************************)
(* What a stream program promises its reader, with no device, buffer or    *)
(* program counter in sight: scans are delivered a full read at a time, in *)
(* order and without repetition; any of them may be a gap; and the number  *)
(* of gaps it reports grows, in the same step, by exactly the gaps among   *)
(* the scans delivered.  Delivery may end at any time.                     *)
(***************************************************************************)
EXTENDS Integers, FiniteSets

CONSTANTS
  ReadSize,   \* scans delivered at a time
  Reads       \* how many deliveries the program was asked for

VARIABLES
  delivered,  \* scans 1..delivered have reached the reader
  gaps,       \* those of them that carry no data
  reported,   \* the number of gaps the program has admitted to
  ended       \* nothing is delivered any more

ledgerVars == <<delivered, gaps, reported, ended>>

LedgerInit ==
  /\ delivered = 0
  /\ gaps = {}
  /\ reported = 0
  /\ ended = FALSE

Deliver ==
  /\ ~ended
  /\ delivered < Reads * ReadSize
  /\ \E new \in SUBSET ((delivered + 1)..(delivered + ReadSize)) :
       /\ gaps' = gaps \cup new
       /\ reported' = reported + Cardinality(new)
  /\ delivered' = delivered + ReadSize
  /\ UNCHANGED ended

End ==
  /\ ~ended
  /\ ended' = TRUE
  /\ UNCHANGED <<delivered, gaps, reported>>

LedgerNext == Deliver \/ End

LedgerSpec == LedgerInit /\ [][LedgerNext]_ledgerVars

===============================================================================
