---------------------------- MODULE ImportBatches ----------------------------
(***************************************************************************)
(* What the directory import promises, with its threads, its buffer and    *)
(* its database cursor hidden: the directories reach EOS in atomic         *)
(* batches, in the order of the query (ORDER BY DEPTH, so that a parent    *)
(* comes before its children), none twice; after a batch every directory   *)
(* of the main query in it is in EOS or in the failed table; a batch whose *)
(* injection throws stops the injection; an error of the tool itself (a    *)
(* row it cannot read, a top-level directory it cannot create) may occur   *)
(* at any time; and the exit status is "failure" only after an error,      *)
(* "success" only when no error occurred, the top-level directory exists   *)
(* and every directory was injected, unless an injection failed.           *)
(*                                                                         *)
(* The last clause lets the tool report success after a failed batch,      *)
(* which is what EosImportDirsCmd.cpp does (SuccessMeansAccounted).         *)
(***************************************************************************)
EXTENDS Naturals

CONSTANT NDirs   \* the directories of the main query are 1..NDirs

RootDir == 0
MainDirs == 1..NDirs
Dirs == {RootDir} \cup MainDirs

VARIABLES
  eos,          \* directories that exist in the EOS namespace
  failedTable,  \* directories recorded in CTADIRSFAILED
  injected,     \* directories sent to EOS
  stopped,      \* an injection failed
  failed,       \* an error occurred: the tool will exit with "failure"
  result        \* exit status: "none" while running

vars == <<eos, failedTable, injected, stopped, failed, result>>

Init ==
  /\ eos \in SUBSET Dirs
  /\ failedTable \in {{}, MainDirs}
  /\ injected = {} /\ stopped = FALSE /\ failed = FALSE /\ result = "none"

\* A batch that may be sent: not empty, never sent before, and after every
\* directory already sent in the order of the query.
Sendable(B) ==
  /\ result = "none" /\ ~stopped
  /\ B # {} /\ B \cap injected = {}
  /\ \A i \in injected, b \in B : i < b

\* EOS gains directories of the batch only.
Grows(B) == eos \subseteq eos' /\ eos' \subseteq eos \cup B

\* The batch is injected: each directory of the main query in it ends in EOS
\* or in the failed table, and the table changes for the batch only.
Inject(B) ==
  /\ Sendable(B)
  /\ injected' = injected \cup B
  /\ Grows(B)
  /\ failedTable' \subseteq Dirs
  /\ failedTable' \ B = failedTable \ B
  /\ B \cap MainDirs \subseteq eos' \cup failedTable'
  /\ UNCHANGED <<stopped, failed, result>>

\* The injection of the batch throws, possibly after EOS created part of it;
\* the failed table is left as it was.
Fail(B) ==
  /\ Sendable(B)
  /\ injected' = injected \cup B
  /\ Grows(B)
  /\ stopped' = TRUE
  /\ UNCHANGED <<failedTable, failed, result>>

\* The tool meets an error; batches already handed over may still be sent.
Error ==
  /\ result = "none" /\ ~failed
  /\ failed' = TRUE
  /\ UNCHANGED <<eos, failedTable, injected, stopped, result>>

\* The tool exits.
Finish ==
  /\ result = "none"
  /\ result' \in {"success", "failure"}
  /\ result' = "success" =>
       ~failed /\ RootDir \in eos /\ (MainDirs \subseteq injected \/ stopped)
  /\ result' = "failure" => failed
  /\ UNCHANGED <<eos, failedTable, injected, stopped, failed>>

Next == (\E B \in SUBSET Dirs : Inject(B) \/ Fail(B)) \/ Error \/ Finish

Spec == Init /\ [][Next]_vars
=============================================================================
