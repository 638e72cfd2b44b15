---------------------------- MODULE EosImportFiles ----------------------------
(***************************************************************************)
(* The file import of the CASTOR to EOS migration                          *)
(* (src/CTA/migration/gRPC/EosImportFiles.cpp, EosImportFilesCmd.cpp).     *)
(* It has the main/injection-thread structure of the directory import      *)
(* (EosImportDirs), without the top-level directory, and with two options  *)
(* of its own that act in the injection thread:                            *)
(*   --skip n   drops the first n rows read (m_skip);                      *)
(*   --check    prunes the buffer with compareMD before each FileInsert    *)
(*              (pruneExistingFiles).                                      *)
(* A file is a row number 1..NFiles, in the order of the SELECT; m_files   *)
(* is a sequence, so that the rows skipped are a prefix.                   *)
(***************************************************************************)
EXTENDS Naturals, Sequences

CONSTANTS
  NFiles,      \* number of rows the SELECT returns
  BatchSize,   \* castor.batch_size
  MaxSkip      \* largest --skip explored

ASSUME FilesAssumption ==
  /\ NFiles \in Nat
  /\ BatchSize \in Nat \ {0}
  /\ MaxSkip \in Nat

Files == 1..NFiles

VARIABLES
  retry,       \* m_is_retry: read from and update CTAFILESFAILED
  dryRun,      \* m_is_dry_run
  check,       \* m_is_check
  skipArg,     \* the --skip argument (constant during a run)
  skip,        \* m_skip: rows still to skip
  eos,         \* files that exist in the EOS namespace
  mismatch,    \* files in EOS whose metadata differ from the database row
  failedTable, \* files recorded in CTAFILESFAILED
  cursor,      \* next row of m_selectFilesDbRset
  last,        \* last row of the result set (0 before select())
  pending,     \* the batch getNextBatch() returned, not yet appended
  files,       \* m_files, a sequence of rows
  injHolds,    \* the injection thread holds m_files_mutex
  filesDone,   \* m_files_done
  exptr,       \* m_exptr # nullptr
  mpc,         \* program counter of the main thread
  ipc,         \* program counter of the injection thread
  result,      \* exit status of main
  sent,        \* history: sent[f] is the number of times f was sent to EOS
  skipped,     \* history: rows dropped by --skip
  pruned,      \* history: rows dropped by pruneExistingFiles()
  handled      \* history: rows of batches the injection thread cleared

vars == <<retry, dryRun, check, skipArg, skip, eos, mismatch, failedTable,
          cursor, last, pending, files, injHolds, filesDone, exptr, mpc, ipc,
          result, sent, skipped, pruned, handled>>

MainStates == {"Select", "Check", "Read", "Append", "Join", "JoinThrow", "Exit"}
InjStates == {"Top", "Body", "Returned"}
Results == {"none", "success", "failure"}
Retc == {"ok", "EINVAL", "EPERM"}

\* The rows of a sequence.
Rows(s) == {s[i] : i \in 1..Len(s)}

\* compareMD(): the file exists in EOS with the metadata of its row.
CompareMD(f) == f \in eos /\ f \notin mismatch

\* The loop of pruneExistingFiles(): kept[i] is m_files after the first i
\* files of filesToCheck, each pushed back when compareMD() is true.
PruneSteps(s) ==
  LET kept[i \in 0..Len(s)] ==
        IF i = 0 THEN <<>>
        ELSE IF CompareMD(s[i]) THEN Append(kept[i - 1], s[i]) ELSE kept[i - 1]
  IN  kept

\* pruneExistingFiles(): the files of s, in order, for which compareMD()
\* is true.
PruneExistingFiles(s) == PruneSteps(s)[Len(s)]

-----------------------------------------------------------------------------
Init ==
  /\ retry \in BOOLEAN /\ dryRun \in BOOLEAN /\ check \in BOOLEAN
  /\ skipArg \in 0..MaxSkip /\ skip = skipArg
  \* an earlier, interrupted import may have created any of the files
  /\ eos \in SUBSET Files
  /\ mismatch \in SUBSET eos
  /\ failedTable = IF retry THEN Files ELSE {}
  /\ cursor = 1 /\ last = 0 /\ pending = <<>> /\ files = <<>>
  /\ injHolds = FALSE /\ filesDone = FALSE /\ exptr = FALSE
  /\ mpc = "Select" /\ ipc = "Top" /\ result = "none"
  /\ sent = [f \in Files |-> 0]
  /\ skipped = {} /\ pruned = {} /\ handled = {}

\* select(): run the SELECT on m_tableName.  With --storage-class, a name
\* that resolves to no class id throws; main's catch(...) sets
\* m_files_done and joins the injection thread.
Select ==
  /\ mpc = "Select"
  /\ \/ last' = NFiles /\ mpc' = "Check" /\ UNCHANGED filesDone
     \/ filesDone' = TRUE /\ mpc' = "JoinThrow" /\ UNCHANGED last
  /\ UNCHANGED <<retry, dryRun, check, skipArg, skip, eos, mismatch,
                 failedTable, cursor, pending, files, injHolds, exptr, ipc,
                 result, sent, skipped, pruned, handled>>

\* processFiles(), top of the loop: rethrow an exception of the injection
\* thread.
MainCheck ==
  /\ mpc = "Check"
  /\ IF exptr
       THEN filesDone' = TRUE /\ mpc' = "JoinThrow"
       ELSE mpc' = "Read" /\ UNCHANGED filesDone
  /\ UNCHANGED <<retry, dryRun, check, skipArg, skip, eos, mismatch,
                 failedTable, cursor, last, pending, files, injHolds, exptr,
                 ipc, result, sent, skipped, pruned, handled>>

\* The last row getNextBatch() reads: up to m_batch_size of those left.
BatchEnd == IF last < cursor + BatchSize - 1 THEN last ELSE cursor + BatchSize - 1

\* getNextBatch(): the rows cursor..BatchEnd, in order.  An empty batch
\* ends processFiles(); main then sets m_files_done and joins.
MainRead ==
  /\ mpc = "Read"
  /\ IF cursor <= BatchEnd
       THEN /\ pending' = [i \in 1..BatchEnd - cursor + 1 |-> cursor + i - 1]
            /\ cursor' = BatchEnd + 1
            /\ mpc' = "Append"
            /\ UNCHANGED filesDone
       ELSE /\ mpc' = "Join" /\ filesDone' = TRUE
            /\ UNCHANGED <<pending, cursor>>
  /\ UNCHANGED <<retry, dryRun, check, skipArg, skip, eos, mismatch,
                 failedTable, last, files, injHolds, exptr, ipc, result, sent,
                 skipped, pruned, handled>>

\* m_files_mutex.lock(); m_files.insert(m_files.end(), ...); unlock();
MainAppend ==
  /\ mpc = "Append" /\ ~injHolds
  /\ files' = files \o pending
  /\ pending' = <<>>
  /\ mpc' = "Check"
  /\ UNCHANGED <<retry, dryRun, check, skipArg, skip, eos, mismatch,
                 failedTable, cursor, last, injHolds, filesDone, exptr, ipc,
                 result, sent, skipped, pruned, handled>>

\* grpcInjectThread.join(); return 0, or rethrow and return -1.
Join ==
  /\ mpc \in {"Join", "JoinThrow"} /\ ipc = "Returned"
  /\ result' = IF mpc = "Join" THEN "success" ELSE "failure"
  /\ mpc' = "Exit"
  /\ UNCHANGED <<retry, dryRun, check, skipArg, skip, eos, mismatch,
                 failedTable, cursor, last, pending, files, injHolds,
                 filesDone, exptr, ipc, sent, skipped, pruned, handled>>

-----------------------------------------------------------------------------
\* grpcInject(): the lock_guard at the top of each iteration.
InjLock ==
  /\ ipc = "Top" /\ ~injHolds
  /\ injHolds' = TRUE
  /\ ipc' = "Body"
  /\ UNCHANGED <<retry, dryRun, check, skipArg, skip, eos, mismatch,
                 failedTable, cursor, last, pending, files, filesDone, exptr,
                 mpc, result, sent, skipped, pruned, handled>>

\* Mutant: the loop continues on an empty buffer without testing
\* m_files_done.
InjEmptyIgnoresDone ==
  /\ ipc = "Body" /\ files = <<>>
  /\ injHolds' = FALSE
  /\ ipc' = "Top"
  /\ UNCHANGED <<retry, dryRun, check, skipArg, skip, eos, mismatch,
                 failedTable, cursor, last, pending, files, filesDone, exptr,
                 mpc, result, sent, skipped, pruned, handled>>

\* grpcInject(), m_files empty: return if m_files_done, else continue.
InjEmpty ==
  /\ ipc = "Body" /\ files = <<>>
  /\ injHolds' = FALSE
  /\ ipc' = IF filesDone THEN "Returned" ELSE "Top"
  /\ UNCHANGED <<retry, dryRun, check, skipArg, skip, eos, mismatch,
                 failedTable, cursor, last, pending, files, filesDone, exptr,
                 mpc, result, sent, skipped, pruned, handled>>

\* Mutant: m_skip is not decreased by the rows dropped.
InjSkipAllKeepsCount ==
  /\ ipc = "Body" /\ files # <<>> /\ skip > Len(files)
  /\ skipped' = skipped \cup Rows(files)
  /\ files' = <<>>
  /\ injHolds' = FALSE
  /\ ipc' = "Top"
  /\ UNCHANGED <<retry, dryRun, check, skipArg, skip, eos, mismatch,
                 failedTable, cursor, last, pending, filesDone, exptr, mpc,
                 result, sent, pruned, handled>>

\* Mutant: the whole buffer is dropped whenever rows are left to skip, so
\* m_skip -= m_files.size() goes below zero.
InjSkipAllWhileSkipping ==
  /\ ipc = "Body" /\ files # <<>> /\ skip > 0
  /\ skip' = skip - Len(files)
  /\ skipped' = skipped \cup Rows(files)
  /\ files' = <<>>
  /\ injHolds' = FALSE
  /\ ipc' = "Top"
  /\ UNCHANGED <<retry, dryRun, check, skipArg, eos, mismatch, failedTable,
                 cursor, last, pending, filesDone, exptr, mpc, result, sent,
                 pruned, handled>>

\* grpcInject(), m_skip > m_files.size(): drop the whole buffer and
\* continue.
InjSkipAll ==
  /\ ipc = "Body" /\ files # <<>> /\ skip > Len(files)
  /\ skip' = skip - Len(files)
  /\ skipped' = skipped \cup Rows(files)
  /\ files' = <<>>
  /\ injHolds' = FALSE
  /\ ipc' = "Top"
  /\ UNCHANGED <<retry, dryRun, check, skipArg, eos, mismatch, failedTable,
                 cursor, last, pending, filesDone, exptr, mpc, result, sent,
                 pruned, handled>>

\* Mutant: the test of the return code is inverted, so the successes are
\* recorded instead of the failures.
SavedFailuresInverted(batch, rc) ==
  IF retry
    THEN failedTable \ {f \in batch : rc[f] = "ok" \/ (rc[f] = "EINVAL" /\ CompareMD(f))}
    ELSE failedTable \cup {f \in batch : rc[f] = "ok"}

\* saveFailedFiles(): the failed table after the batch with return codes
\* rc.  A retry deletes the files now injected, counting an EINVAL for a
\* file whose metadata compareMD() finds equal as a success; otherwise
\* the failures are inserted.
SavedFailures(batch, rc) ==
  IF retry
    THEN failedTable \ {f \in batch : rc[f] = "ok" \/ (rc[f] = "EINVAL" /\ CompareMD(f))}
    ELSE failedTable \cup {f \in batch : rc[f] # "ok"}

\* The return codes FileInsert can give: EINVAL for a file that exists,
\* success or a failure for one that does not; EPERM for all in a dry run.
Replies(batch) ==
  IF dryRun
    THEN {[f \in batch |-> "EPERM"]}
    ELSE {rc \in [batch -> Retc] : \A f \in batch : (rc[f] = "EINVAL") <=> (f \in eos)}

\* Mutant: m_files is not cleared after a successful injection.
InjBatchNoClear ==
  /\ ipc = "Body" /\ files # <<>> /\ skip <= Len(files)
  /\ LET kept == SubSeq(files, skip + 1, Len(files))
         batch == IF check THEN PruneExistingFiles(kept) ELSE kept
         B == Rows(batch)
     IN  /\ skip' = 0
         /\ skipped' = skipped \cup Rows(SubSeq(files, 1, skip))
         /\ pruned' = pruned \cup (Rows(kept) \ B)
         /\ sent' = [f \in Files |-> IF f \in B THEN sent[f] + 1 ELSE sent[f]]
         /\ \E rc \in Replies(B) :
              LET inserted == {f \in B : rc[f] = "ok"}
                  errors == {f \in B : rc[f] # "ok"}
              IN  \/ \* the batch is injected and its failures saved
                     /\ eos' = eos \cup inserted
                     /\ failedTable' = IF retry \/ errors # {}
                                         THEN SavedFailures(B, rc)
                                         ELSE failedTable
                     /\ files' = batch
                     /\ handled' = handled \cup B
                     /\ ipc' = "Top"
                     /\ UNCHANGED exptr
                  \/ \* saveFailedFiles() throws: the AutoRollback undoes the
                     \* table rows, the exception goes to m_exptr
                     /\ retry \/ errors # {}
                     /\ eos' = eos \cup inserted
                     /\ files' = batch
                     /\ exptr' = TRUE
                     /\ ipc' = "Returned"
                     /\ UNCHANGED <<failedTable, handled>>
                  \/ \* FileInsert throws after EOS created part of the batch
                     /\ ~dryRun
                     /\ \E part \in SUBSET inserted : eos' = eos \cup part
                     /\ files' = batch
                     /\ exptr' = TRUE
                     /\ ipc' = "Returned"
                     /\ UNCHANGED <<failedTable, handled>>
  /\ injHolds' = FALSE
  /\ UNCHANGED <<retry, dryRun, check, skipArg, mismatch, cursor, last, pending,
                 filesDone, mpc, result>>

\* grpcInject(), m_files not empty and m_skip <= m_files.size(): erase the
\* first m_skip rows and reset m_skip; with --check, replace m_files by
\* the files pruneExistingFiles() keeps; then FileInsert(m_files),
\* saveFailedFiles() if retrying or any insert failed, and m_files.clear().
\* The skip and the pruning happen before the try block, so they stand
\* when FileInsert or saveFailedFiles() throws.
InjBatch ==
  /\ ipc = "Body" /\ files # <<>> /\ skip <= Len(files)
  /\ LET kept == SubSeq(files, skip + 1, Len(files))
         batch == IF check THEN PruneExistingFiles(kept) ELSE kept
         B == Rows(batch)
     IN  /\ skip' = 0
         /\ skipped' = skipped \cup Rows(SubSeq(files, 1, skip))
         /\ pruned' = pruned \cup (Rows(kept) \ B)
         /\ sent' = [f \in Files |-> IF f \in B THEN sent[f] + 1 ELSE sent[f]]
         /\ \E rc \in Replies(B) :
              LET inserted == {f \in B : rc[f] = "ok"}
                  errors == {f \in B : rc[f] # "ok"}
              IN  \/ \* the batch is injected and its failures saved
                     /\ eos' = eos \cup inserted
                     /\ failedTable' = IF retry \/ errors # {}
                                         THEN SavedFailures(B, rc)
                                         ELSE failedTable
                     /\ files' = <<>>
                     /\ handled' = handled \cup B
                     /\ ipc' = "Top"
                     /\ UNCHANGED exptr
                  \/ \* saveFailedFiles() throws: the AutoRollback undoes the
                     \* table rows, the exception goes to m_exptr
                     /\ retry \/ errors # {}
                     /\ eos' = eos \cup inserted
                     /\ files' = batch
                     /\ exptr' = TRUE
                     /\ ipc' = "Returned"
                     /\ UNCHANGED <<failedTable, handled>>
                  \/ \* FileInsert throws after EOS created part of the batch
                     /\ ~dryRun
                     /\ \E part \in SUBSET inserted : eos' = eos \cup part
                     /\ files' = batch
                     /\ exptr' = TRUE
                     /\ ipc' = "Returned"
                     /\ UNCHANGED <<failedTable, handled>>
  /\ injHolds' = FALSE
  /\ UNCHANGED <<retry, dryRun, check, skipArg, mismatch, cursor, last, pending,
                 filesDone, mpc, result>>

Next ==
  \/ Select \/ MainCheck \/ MainRead \/ MainAppend \/ Join
  \/ InjLock \/ InjEmpty \/ InjSkipAll \/ InjBatch

\* As in EosImportDirs: main's lock() of the mutex the injection thread
\* spins on is assumed to succeed eventually (strong fairness); the other
\* steps are weakly fair.
Fairness ==
  /\ WF_vars(Select) /\ WF_vars(MainCheck) /\ WF_vars(MainRead)
  /\ WF_vars(Join) /\ SF_vars(MainAppend)
  /\ WF_vars(InjLock) /\ WF_vars(InjEmpty) /\ WF_vars(InjSkipAll)
  /\ WF_vars(InjBatch)

Spec == Init /\ [][Next]_vars

FairSpec == Spec /\ Fairness

-----------------------------------------------------------------------------
TypeOK ==
  /\ retry \in BOOLEAN /\ dryRun \in BOOLEAN /\ check \in BOOLEAN
  /\ skipArg \in 0..MaxSkip /\ skip \in 0..skipArg
  /\ eos \subseteq Files /\ mismatch \subseteq Files /\ failedTable \subseteq Files
  /\ cursor \in 1..NFiles + 1 /\ last \in 0..NFiles
  /\ pending \in Seq(Files) /\ files \in Seq(Files)
  /\ injHolds \in BOOLEAN /\ filesDone \in BOOLEAN /\ exptr \in BOOLEAN
  /\ mpc \in MainStates /\ ipc \in InjStates /\ result \in Results
  /\ sent \in [Files -> Nat]
  /\ skipped \subseteq Files /\ pruned \subseteq Files /\ handled \subseteq Files

(***************************************************************************)
(* No file is sent to EOS twice.                                           *)
(***************************************************************************)
InjectedOnce == \A f \in Files : sent[f] <= 1

(***************************************************************************)
(* --skip n drops exactly the first n rows: a row the injection thread     *)
(* dropped for the skip is among the first skipArg, a row it went on with  *)
(* is not, and once m_skip is spent every one of the first skipArg rows    *)
(* has been dropped.  The buffer may hold several batches when the         *)
(* injection thread takes it, so the skip can end inside any of them.      *)
(***************************************************************************)
SkipsPrefix ==
  /\ \A f \in skipped : f <= skipArg
  /\ \A f \in handled \cup pruned : f > skipArg
  /\ skip = 0 => \A f \in 1..skipArg : f <= NFiles => f \in skipped

(***************************************************************************)
(* Every file the injection thread sent to EOS and finished with is in EOS *)
(* or recorded in CTAFILESFAILED by saveFailedFiles().                     *)
(***************************************************************************)
RowsAccounted == \A f \in handled : f \in eos \cup failedTable

(***************************************************************************)
(* The import terminates, whether or not an injection failed.              *)
(***************************************************************************)
Termination == <>(mpc = "Exit")

(***************************************************************************)
(* The usage text of --check: "Check if each file exists in the EOS        *)
(* namespace before injecting".  A file that pruneExistingFiles() leaves   *)
(* out of the injection must then be one that exists in EOS.               *)
(***************************************************************************)
PrunedExist == \A f \in pruned : f \in eos

====
