---------------------------- MODULE SavedBatches ----------------------------
(***************************************************************************)
(* What saveTransactions promises whoever reads the database, the fetcher  *)
(* among them: the batch it is given appears as a whole, once, or not at   *)
(* all, and stays.                                                         *)
(***************************************************************************)
CONSTANTS
  Transactions,
  Acceptable    \* those the schema has room for

VARIABLES
  saved,  \* the transactions in the database
  batch   \* those it is asked to add

vars == <<saved, batch>>

Init ==
  /\ saved = {}
  /\ batch = {}

Take ==
  /\ batch = {}
  /\ batch' \in SUBSET Transactions
  /\ UNCHANGED saved

Save ==
  /\ batch \subseteq Acceptable \ saved
  /\ saved' = saved \cup batch
  /\ batch' = {}

Drop ==
  /\ batch' = {}
  /\ UNCHANGED saved

Next == Take \/ Save \/ Drop

Spec == Init /\ [][Next]_vars

=============================================================================
