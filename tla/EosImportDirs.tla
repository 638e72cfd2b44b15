---------------------------- MODULE EosImportDirs ----------------------------
(***************************************************************************)
(* The directory import of the CASTOR to EOS migration                     *)
(* (src/CTA/migration/gRPC/EosImportDirs.cpp, EosImportDirsCmd.cpp):       *)
(*   - the main thread creates the top-level directory if it is missing    *)
(*     (checkRootDirExists), then reads the directories from the database  *)
(*     in batches (processDirs / getNextBatch) and appends each batch to   *)
(*     the shared buffer m_dirs under m_dirs_mutex;                        *)
(*   - the injection thread (grpcInject) spins on the mutex, sends the     *)
(*     whole buffer to EOS with one ContainerInsert call, saves the        *)
(*     failures in the CTADIRSFAILED table (saveFailedDirs), and clears    *)
(*     the buffer; it hands an exception to the main thread through the    *)
(*     static m_exptr and returns;                                         *)
(*   - main sets m_dirs_done and joins the injection thread.               *)
(*                                                                         *)
(* A directory is a row number: RootDir is the top-level directory, which  *)
(* checkRootDirExists selects on its own, and 1..NDirs the directories of  *)
(* the main query, in the order of the query (ORDER BY DEPTH).             *)
(***************************************************************************)
EXTENDS Naturals

CONSTANTS
  NDirs,       \* number of directories the main SELECT returns
  BatchSize    \* castor.batch_size: rows fetched per getNextBatch()

\* castor.batch_size is read into an unsigned int with no check (line 83):
\* 0 is accepted.
ASSUME ImportAssumption ==
  /\ NDirs \in Nat
  /\ BatchSize \in Nat

RootDir == 0
MainDirs == 1..NDirs
Dirs == {RootDir} \cup MainDirs

VARIABLES
  retry,       \* m_is_retry (--retry): read from and update CTADIRSFAILED
  dryRun,      \* m_is_dry_run (eos.dry_run): every insert fails with EPERM
  eos,         \* directories that exist in the EOS namespace
  failedTable, \* directories recorded in CTADIRSFAILED
  cursor,      \* next row of the current result set (m_selectDirsDbRset)
  last,        \* last row of the current result set
  pending,     \* the batch getNextBatch() returned, not yet appended
  dirs,        \* m_dirs
  injHolds,    \* the injection thread holds m_dirs_mutex
  dirsDone,    \* m_dirs_done
  exptr,       \* m_exptr # nullptr
  mpc,         \* program counter of the main thread
  ipc,         \* program counter of the injection thread
  result,      \* exit status of main
  read,        \* history: rows read from the database
  sent,        \* history: sent[d] is the number of times d was sent to EOS
  handled,     \* history: rows of batches the injection thread cleared
  rootPhase    \* processDirs() was called from checkRootDirExists()

vars == <<retry, dryRun, eos, failedTable, cursor, last, pending, dirs,
          injHolds, dirsDone, exptr, mpc, ipc, result, read, sent, handled,
          rootPhase>>

MainStates == {"RootGetMD", "Check", "Read", "Append", "WaitRoot",
               "RootCheck", "Join", "JoinThrow", "Exit"}
InjStates == {"Top", "Body", "Returned"}
Results == {"none", "success", "failure"}
\* ContainerInsert's return code for one directory.
Retc == {"ok", "EINVAL", "EPERM"}

-----------------------------------------------------------------------------
\* The last row getNextBatch() reads: up to m_batch_size of those left.
BatchEnd == IF last < cursor + BatchSize - 1 THEN last ELSE cursor + BatchSize - 1

\* The rows getNextBatch() reads.
NextBatch == cursor..BatchEnd

Init ==
  /\ retry \in BOOLEAN
  /\ dryRun \in BOOLEAN
  \* a previous run may have created any of the directories
  /\ eos \in SUBSET Dirs
  \* a retry reads its directories from the failed table
  /\ failedTable = IF retry THEN MainDirs ELSE {}
  /\ cursor = 1 /\ last = 0 /\ pending = {}
  /\ dirs = {} /\ injHolds = FALSE /\ dirsDone = FALSE /\ exptr = FALSE
  /\ mpc = "RootGetMD" /\ ipc = "Top" /\ result = "none"
  /\ read = {} /\ sent = [d \in Dirs |-> 0] /\ handled = {}
  /\ rootPhase = FALSE

\* checkRootDirExists(): GetMD of the top-level directory.  If it is
\* missing, select(dirsToCreate) and processDirs() it; otherwise select()
\* the main query.
RootGetMD ==
  /\ mpc = "RootGetMD"
  /\ IF RootDir \in eos
       THEN cursor' = 1 /\ last' = NDirs /\ UNCHANGED rootPhase
       ELSE cursor' = RootDir /\ last' = RootDir /\ rootPhase' = TRUE
  /\ mpc' = "Check"
  /\ UNCHANGED <<retry, dryRun, eos, failedTable, pending, dirs, injHolds,
                 dirsDone, exptr, ipc, result, read, sent, handled>>

\* processDirs(), top of the loop: rethrow an exception of the injection
\* thread.  main's catch(...) sets m_dirs_done and joins the thread.
MainCheck ==
  /\ mpc = "Check"
  /\ IF exptr
       THEN dirsDone' = TRUE /\ mpc' = "JoinThrow"
       ELSE mpc' = "Read" /\ UNCHANGED dirsDone
  /\ UNCHANGED <<retry, dryRun, eos, failedTable, cursor, last, pending,
                 dirs, injHolds, exptr, ipc, result, read, sent, handled, rootPhase>>

\* getNextBatch().  An empty batch ends processDirs(): for the top-level
\* directory, checkRootDirExists() then waits for m_dirs to drain; for the
\* main query, main sets m_dirs_done and joins the injection thread.  The
\* conversion of a row throws when its CLASSID is missing from
\* m_storageClass (.at(), line 573) or a column cannot be read: main's
\* catch(...) sets m_dirs_done and joins the thread, with m_exptr unset.
MainRead ==
  /\ mpc = "Read"
  /\ LET batch == NextBatch IN
       \/ /\ batch # {}
          /\ pending' = batch
          /\ cursor' = BatchEnd + 1
          /\ read' = read \cup batch
          /\ mpc' = "Append"
          /\ UNCHANGED dirsDone
       \/ /\ batch = {}
          /\ UNCHANGED <<pending, cursor, read>>
          /\ IF rootPhase
               THEN mpc' = "WaitRoot" /\ UNCHANGED dirsDone
               ELSE mpc' = "Join" /\ dirsDone' = TRUE
       \/ /\ batch # {}
          /\ UNCHANGED <<pending, cursor, read>>
          /\ dirsDone' = TRUE /\ mpc' = "JoinThrow"
  /\ UNCHANGED <<retry, dryRun, eos, failedTable, last, dirs, injHolds, exptr,
                 ipc, result, sent, handled, rootPhase>>

\* m_dirs_mutex.lock(); m_dirs.insert(...); m_dirs_mutex.unlock();
MainAppend ==
  /\ mpc = "Append" /\ ~injHolds
  /\ dirs' = dirs \cup pending
  /\ pending' = {}
  /\ mpc' = "Check"
  /\ UNCHANGED <<retry, dryRun, eos, failedTable, cursor, last, injHolds,
                 dirsDone, exptr, ipc, result, read, sent, handled, rootPhase>>

\* checkRootDirExists(): one round of the busy wait, which tests m_dirs
\* under the mutex and then m_exptr.
WaitRoot ==
  /\ mpc = "WaitRoot" /\ ~injHolds
  /\ \/ exptr /\ dirsDone' = TRUE /\ mpc' = "JoinThrow"
     \/ ~exptr /\ dirs = {} /\ mpc' = "RootCheck" /\ UNCHANGED dirsDone
     \/ ~exptr /\ dirs # {} /\ UNCHANGED <<mpc, dirsDone>>
  /\ UNCHANGED <<retry, dryRun, eos, failedTable, cursor, last, pending, dirs,
                 injHolds, exptr, ipc, result, read, sent, handled, rootPhase>>

\* Mutant: a top-level directory still missing after its injection is not
\* reported; main goes on with the main query.
RootCheckNoThrow ==
  /\ mpc = "RootCheck"
  /\ cursor' = 1 /\ last' = NDirs /\ mpc' = "Check"
  /\ rootPhase' = FALSE
  /\ UNCHANGED <<retry, dryRun, eos, failedTable, pending, dirs, injHolds,
                 dirsDone, exptr, ipc, result, read, sent, handled>>

\* checkRootDirExists(): GetMD again; throw if the directory is still
\* missing, otherwise main goes on to select() and processDirs().
RootCheck ==
  /\ mpc = "RootCheck"
  /\ IF RootDir \in eos
       THEN cursor' = 1 /\ last' = NDirs /\ mpc' = "Check" /\ UNCHANGED dirsDone
       ELSE dirsDone' = TRUE /\ mpc' = "JoinThrow" /\ UNCHANGED <<cursor, last>>
  /\ rootPhase' = FALSE
  /\ UNCHANGED <<retry, dryRun, eos, failedTable, pending, dirs, injHolds,
                 exptr, ipc, result, read, sent, handled>>

\* grpcInjectThread.join(); return 0, or rethrow and return -1.
Join ==
  /\ mpc \in {"Join", "JoinThrow"} /\ ipc = "Returned"
  /\ result' = IF mpc = "Join" THEN "success" ELSE "failure"
  /\ mpc' = "Exit"
  /\ UNCHANGED <<retry, dryRun, eos, failedTable, cursor, last, pending, dirs,
                 injHolds, dirsDone, exptr, ipc, read, sent, handled, rootPhase>>

-----------------------------------------------------------------------------
\* grpcInject(): the lock_guard at the top of each iteration.
InjLock ==
  /\ ipc = "Top" /\ ~injHolds
  /\ injHolds' = TRUE
  /\ ipc' = "Body"
  /\ UNCHANGED <<retry, dryRun, eos, failedTable, cursor, last, pending, dirs,
                 dirsDone, exptr, mpc, result, read, sent, handled, rootPhase>>

\* Mutant: the loop continues on an empty buffer without testing
\* m_dirs_done.
InjEmptyIgnoresDone ==
  /\ ipc = "Body" /\ dirs = {}
  /\ injHolds' = FALSE
  /\ ipc' = "Top"
  /\ UNCHANGED <<retry, dryRun, eos, failedTable, cursor, last, pending, dirs,
                 dirsDone, exptr, mpc, result, read, sent, handled, rootPhase>>

\* grpcInject(), m_dirs empty: return if m_dirs_done, else continue; the
\* lock_guard releases the mutex either way.
InjEmpty ==
  /\ ipc = "Body" /\ dirs = {}
  /\ injHolds' = FALSE
  /\ ipc' = IF dirsDone THEN "Returned" ELSE "Top"
  /\ UNCHANGED <<retry, dryRun, eos, failedTable, cursor, last, pending, dirs,
                 dirsDone, exptr, mpc, result, read, sent, handled, rootPhase>>

\* Mutant: the test of the return code is inverted, so the successes are
\* recorded instead of the failures.
SavedFailuresInverted(batch, rc, same) ==
  IF retry
    THEN failedTable \ {d \in batch : rc[d] = "ok" \/ (rc[d] = "EINVAL" /\ d \in same)}
    ELSE failedTable \cup {d \in batch : rc[d] = "ok"}

\* saveFailedDirs(): the failed table after the batch with return codes
\* rc, of which the directories in same have the expected metadata in EOS
\* (compareMD).  A retry deletes the directories now injected; otherwise
\* the failures are inserted.
SavedFailures(batch, rc, same) ==
  IF retry
    THEN failedTable \ {d \in batch : rc[d] = "ok" \/ (rc[d] = "EINVAL" /\ d \in same)}
    ELSE failedTable \cup {d \in batch : rc[d] # "ok"}

\* The return codes ContainerInsert can give: EINVAL for a directory that
\* exists, success or a failure for one that does not; EPERM for all in a
\* dry run.
Replies(batch) ==
  IF dryRun
    THEN {[d \in batch |-> "EPERM"]}
    ELSE {rc \in [batch -> Retc] :
            \A d \in batch : (rc[d] = "EINVAL") <=> (d \in eos)}

\* Mutant: the buffer is not cleared after a successful injection.
InjBatchNoClear ==
  /\ ipc = "Body" /\ dirs # {}
  /\ sent' = [d \in Dirs |-> IF d \in dirs THEN sent[d] + 1 ELSE sent[d]]
  /\ \E rc \in Replies(dirs), same \in SUBSET dirs :
       /\ eos' = eos \cup {d \in dirs : rc[d] = "ok"}
       /\ failedTable' = SavedFailures(dirs, rc, same)
       /\ handled' = handled \cup dirs
  /\ ipc' = "Top"
  /\ injHolds' = FALSE
  /\ UNCHANGED <<retry, dryRun, cursor, last, pending, dirs, dirsDone, mpc,
                 result, read, exptr, rootPhase>>

\* grpcInject(), m_dirs not empty: ContainerInsert(m_dirs), then
\* saveFailedDirs() if retrying or any insert failed, then m_dirs.clear().
InjBatch ==
  /\ ipc = "Body" /\ dirs # {}
  /\ sent' = [d \in Dirs |-> IF d \in dirs THEN sent[d] + 1 ELSE sent[d]]
  /\ \E rc \in Replies(dirs), same \in SUBSET dirs :
       LET inserted == {d \in dirs : rc[d] = "ok"}
           errors == {d \in dirs : rc[d] # "ok"}
       IN  \/ \* the batch is injected and its failures saved
              /\ eos' = eos \cup inserted
              /\ failedTable' = IF retry \/ errors # {}
                                  THEN SavedFailures(dirs, rc, same)
                                  ELSE failedTable
              /\ dirs' = {}
              /\ handled' = handled \cup dirs
              /\ ipc' = "Top"
              /\ UNCHANGED exptr
           \/ \* saveFailedDirs() throws: AutoRollback undoes the table
              \* updates, the exception goes to m_exptr, m_dirs is kept
              /\ retry \/ errors # {}
              /\ eos' = eos \cup inserted
              /\ exptr' = TRUE
              /\ ipc' = "Returned"
              /\ UNCHANGED <<failedTable, dirs, handled>>
           \/ \* ContainerInsert throws: EOS may have inserted part of the
              \* batch before the call failed
              /\ ~dryRun
              /\ \E part \in SUBSET inserted : eos' = eos \cup part
              /\ exptr' = TRUE
              /\ ipc' = "Returned"
              /\ UNCHANGED <<failedTable, dirs, handled>>
  /\ injHolds' = FALSE
  /\ UNCHANGED <<retry, dryRun, cursor, last, pending, dirsDone, mpc, result,
                 read, rootPhase>>

Next ==
  \/ RootGetMD \/ MainCheck \/ MainRead \/ MainAppend \/ WaitRoot
  \/ RootCheck \/ Join
  \/ InjLock \/ InjEmpty \/ InjBatch

\* The main thread makes progress whenever it is enabled, except that it can
\* take m_dirs_mutex only when the spinning injection thread has released
\* it: lock() is assumed to hand the mutex to a waiting thread eventually.
\* The injection thread is weakly fair.
Fairness ==
  /\ WF_vars(RootGetMD) /\ WF_vars(MainCheck) /\ WF_vars(MainRead)
  /\ WF_vars(RootCheck) /\ WF_vars(Join)
  /\ SF_vars(MainAppend) /\ SF_vars(WaitRoot)
  /\ WF_vars(InjLock) /\ WF_vars(InjEmpty) /\ WF_vars(InjBatch)

Spec == Init /\ [][Next]_vars

FairSpec == Spec /\ Fairness

-----------------------------------------------------------------------------
TypeOK ==
  /\ retry \in BOOLEAN /\ dryRun \in BOOLEAN
  /\ eos \subseteq Dirs /\ failedTable \subseteq Dirs
  /\ cursor \in 0..NDirs + 1 /\ last \in 0..NDirs
  /\ pending \subseteq Dirs /\ dirs \subseteq Dirs
  /\ injHolds \in BOOLEAN /\ dirsDone \in BOOLEAN /\ exptr \in BOOLEAN
  /\ mpc \in MainStates /\ ipc \in InjStates /\ result \in Results
  /\ read \subseteq Dirs /\ sent \in [Dirs -> Nat] /\ handled \subseteq Dirs
  /\ rootPhase \in BOOLEAN

(***************************************************************************)
(* No directory is sent to EOS twice: the buffer is cleared after each     *)
(* ContainerInsert and main never appends a row it appended before, so no  *)
(* directory is inserted again (which EOS would refuse with EINVAL).       *)
(***************************************************************************)
InjectedOnce == \A d \in Dirs : sent[d] <= 1

(***************************************************************************)
(* Every directory of the main query whose batch the injection thread has  *)
(* finished with is in EOS or recorded in CTADIRSFAILED for a retry:       *)
(* saveFailedDirs() keeps exactly the failures, in both modes.             *)
(***************************************************************************)
RowsAccounted == \A d \in handled \cap MainDirs : d \in eos \cup failedTable

(***************************************************************************)
(* The import terminates: the injection thread sees m_dirs_done and        *)
(* returns, and main joins it, whether or not an injection failed.         *)
(***************************************************************************)
Termination == <>(mpc = "Exit")

(***************************************************************************)
(* The tool's contract: when it exits with status 0, every directory it    *)
(* read is in EOS or recorded in CTADIRSFAILED.                            *)
(***************************************************************************)
SuccessMeansAccounted ==
  (mpc = "Exit" /\ result = "success") => \A d \in read : d \in eos \cup failedTable
-----------------------------------------------------------------------------
(***************************************************************************)
(* The refinement mapping onto ImportBatches: a directory is injected once *)
(* grpcInject() has sent it, the injection is stopped once m_exptr is set, *)
(* and an error has occurred once main is in its catch(...) or has        *)
(* returned -1; EOS, the failed table and the exit status are the same.    *)
(***************************************************************************)
Failed == mpc = "JoinThrow" \/ result = "failure"

Abstract == INSTANCE ImportBatches
              WITH injected <- {d \in Dirs : sent[d] > 0}, stopped <- exptr,
                   failed <- Failed

(***************************************************************************)
(* The two threads, the buffer m_dirs and the batches of getNextBatch()    *)
(* implement the atomic, ordered batches of ImportBatches: what            *)
(* grpcInject() sends at once was read after everything sent before, a     *)
(* failure stops the injection, and main exits with "success" only after   *)
(* the top-level directory exists and every directory was sent or an       *)
(* injection failed, with no error in main, and with "failure" only after  *)
(* an error.  It holds for every batch size but 0 (see README).            *)
(***************************************************************************)
ImplementsImportBatches == Abstract!Spec
=============================================================================
