--------------------------- MODULE RetrieveMount ---------------------------
(***************************************************************************)
(* One retrieve mount (cta::RetrieveMount, src/CTA/scheduler/              *)
(* RetrieveMount.cpp) draining a retrieve queue, with the threads of the   *)
(* tape session that call into it concurrently:                            *)
(*   - the task injector, calling getNextJobBatch();                       *)
(*   - the tape thread, calling tapeComplete() or abort();                 *)
(*   - the disk thread, transferring jobs and calling diskComplete();      *)
(*   - the report packer, calling flushAsyncSuccessReports();              *)
(* and the environment: disk systems filling up and freeing, the process   *)
(* crashing, and a garbage collector requeueing the jobs the dead agent    *)
(* owned.                                                                  *)
(*                                                                         *)
(* The four completion methods are plain, unsynchronised reads and writes  *)
(* of the booleans m_tapeRunning / m_diskRunning / m_sessionRunning, so    *)
(* each is modelled as its individual steps: the write of the own flag,    *)
(* then the test of the other flag.  These accesses are a data race: a     *)
(* store may sit in the writing thread's store buffer (or in a register)   *)
(* while the other thread reads the old value.  Each thread therefore has  *)
(* its stores of the two flags still pending (tapeStores, diskStores);     *)
(* it reads its own pending stores, the other thread reads memory, and a   *)
(* FlushStore step makes a store visible at any later time.                *)
(* getNextJobBatch() tests m_sessionRunning and then pops from the queue:  *)
(* two steps as well.                                                      *)
(*                                                                         *)
(* The job queue is the object-store queue seen through the scheduler DB   *)
(* mount: a job is queued, owned by the mount's agent (being transferred), *)
(* transferred and waiting in the success report queue, stranded (owned,  *)
(* but its success report failed), or done (its request deleted).         *)
(***************************************************************************)
EXTENDS Naturals, FiniteSets, FiniteSetsExt

CONSTANTS
  Jobs,            \* the retrieve jobs of the queue (model values)
  DiskSystems,     \* the destination disk systems
  JobFSeq,         \* JobFSeq[j]: tape file sequence number of job j
  JobSize,         \* JobSize[j]: size in bytes of job j
  JobDisk,         \* JobDisk[j]: disk system job j is retrieved to
  FilesRequested,  \* the filesRequested arguments the injector may pass
  BytesRequested   \* the bytesRequested arguments the injector may pass

ASSUME JobsAssumption ==
  /\ IsFiniteSet(Jobs)
  /\ JobFSeq \in [Jobs -> Nat]
  /\ JobSize \in [Jobs -> Nat]
  /\ JobDisk \in [Jobs -> DiskSystems]
  \* fSeq is unique within the queue of one tape
  /\ \A j, k \in Jobs : JobFSeq[j] = JobFSeq[k] => j = k

ASSUME RequestAssumption ==
  /\ FilesRequested \subseteq Nat
  /\ BytesRequested \subseteq Nat

VARIABLES
  queued,          \* jobs in the retrieve queue
  owned,           \* jobs popped by this mount and not yet transferred
  succeeded,       \* transferred jobs in the successful-jobs report queue
  stranded,        \* owned jobs whose success report failed in the flush
  done,            \* jobs whose retrieve request was deleted
  sessionRunning,  \* m_sessionRunning
  tapeRunning,     \* m_tapeRunning, as seen in memory by another thread
  diskRunning,     \* m_diskRunning, as seen in memory by another thread
  tapeStores,      \* flags the tape thread cleared, store not yet visible
  diskStores,      \* flags the disk thread cleared, store not yet visible
  started,         \* the Scheduler has started the session
  alive,           \* the tape session process (and its agent) is alive
  tpc,             \* program counter of the tape thread
  dpc,             \* program counter of the disk thread
  ipc,             \* program counter of the task injector
  completeCalls,   \* number of calls of m_dbMount->complete()
  draining,        \* the drive status DrainingToDisk was reported
  diskFull,        \* disk systems currently without free space
  seenFull         \* history: disk systems this mount has seen full

jobVars    == <<queued, owned, succeeded, stranded, done>>
mountVars  == <<sessionRunning, tapeRunning, diskRunning, tapeStores,
                diskStores, started, alive, completeCalls, draining>>
threadVars == <<tpc, dpc, ipc>>
vars       == <<jobVars, mountVars, threadVars, diskFull, seenFull>>

TapeStates == {"Transferring", "TapeTest", "AbortDiskTest", "AbortTapeWrite",
               "AbortTapeTest", "Done", "Aborted"}
DiskStates == {"Transferring", "DiskTest", "Done"}
InjectorStates == {"Idle", "Pop", "Stopped"}
Flags == {"tape", "disk"}

-----------------------------------------------------------------------------
(***************************************************************************)
(* Candidate selection of the scheduler DB mount: the jobs of the queue in *)
(* fSeq order, skipping jobs whose disk system has no free space, taken    *)
(* greedily while they fit within filesRequested and bytesRequested.       *)
(* Because fSeq is unique, the greedy prefix is the set of eligible jobs   *)
(* whose running totals (all eligible jobs up to their fSeq) fit.          *)
(***************************************************************************)
Bytes(S) == MapThenSumSet(LAMBDA j : JobSize[j], S)

Eligible(q, full) == {j \in q : JobDisk[j] \notin full}

UpTo(q, full, j) == {k \in Eligible(q, full) : JobFSeq[k] <= JobFSeq[j]}

CandidateJobs(q, full, files, bytes) ==
  {j \in Eligible(q, full) : /\ Cardinality(UpTo(q, full, j)) <= files
                             /\ Bytes(UpTo(q, full, j)) <= bytes}

\* The disk systems a call queries (those of the queued jobs) found full.
ObservedFull(q, full) == {JobDisk[j] : j \in q} \cap full

-----------------------------------------------------------------------------
Init ==
  /\ queued = Jobs
  /\ owned = {} /\ succeeded = {} /\ stranded = {} /\ done = {}
  \* the constructors set m_sessionRunning only: the two other flags are
  \* uninitialized until the Scheduler starts the session
  /\ sessionRunning = FALSE
  /\ tapeRunning \in BOOLEAN
  /\ diskRunning \in BOOLEAN
  /\ tapeStores = {} /\ diskStores = {}
  /\ started = FALSE
  /\ alive = TRUE
  /\ tpc = "Transferring" /\ dpc = "Transferring" /\ ipc = "Idle"
  /\ completeCalls = 0
  /\ draining = FALSE
  /\ diskFull \in SUBSET DiskSystems
  /\ seenFull = {}

(***************************************************************************)
(* Mutants: plausible slips in the code below, each defined before the     *)
(* definition it would replace.                                            *)
(***************************************************************************)
\* The Scheduler hands the mount to the tape session, session running.
StartSession ==
  /\ alive /\ ~started
  /\ started' = TRUE
  /\ sessionRunning' = TRUE /\ tapeRunning' = TRUE /\ diskRunning' = TRUE
  /\ UNCHANGED <<jobVars, tapeStores, diskStores, alive, completeCalls,
                 draining, threadVars, diskFull, seenFull>>

\* m_dbMount->complete(time(NULL)); m_sessionRunning = false;
Complete ==
  /\ completeCalls' = completeCalls + 1
  /\ sessionRunning' = FALSE

\* getNextJobBatch(), first step: the test of m_sessionRunning.  A call on a
\* session that is not running throws SessionNotRunning, which ends the
\* injector.
GetBatchCheck ==
  /\ alive /\ started /\ ipc = "Idle"
  /\ ipc' = IF sessionRunning THEN "Pop" ELSE "Stopped"
  /\ UNCHANGED <<jobVars, mountVars, tpc, dpc, diskFull, seenFull>>

\* getNextJobBatch(), second step: a fresh DiskSystemFreeSpaceList is built,
\* the DB mount pops the candidate jobs, which become owned by the mount.
GetBatchPop(files, bytes) ==
  LET batch == CandidateJobs(queued, diskFull, files, bytes)
  IN  /\ alive /\ ipc = "Pop"
      /\ queued' = queued \ batch
      /\ owned' = owned \cup batch
      /\ seenFull' = seenFull \cup ObservedFull(queued, diskFull)
      /\ ipc' = "Idle"
      /\ UNCHANGED <<succeeded, stranded, done, mountVars, tpc, dpc, diskFull>>

\* The tape and disk threads transfer job j; asyncComplete() succeeded and
\* the job waits in the successful-jobs queue of the report packer.
TransferSucceeded(j) ==
  /\ alive /\ dpc = "Transferring"
  /\ owned' = owned \ {j}
  /\ succeeded' = succeeded \cup {j}
  /\ UNCHANGED <<queued, stranded, done, mountVars, threadVars, diskFull,
                 seenFull>>

\* The transfer of job j failed: the job is requeued for a retry.
TransferFailed(j) ==
  /\ alive /\ dpc = "Transferring"
  /\ owned' = owned \ {j}
  /\ queued' = queued \cup {j}
  /\ UNCHANGED <<succeeded, stranded, done, mountVars, threadVars, diskFull,
                 seenFull>>

\* flushAsyncSuccessReports(): the successful-jobs queue is drained, then
\* the DB mount deletes the requests.  An exception in the DB flush is
\* logged and swallowed: the jobs reported so far are done, the others stay
\* owned by the agent but have left the queue.
FlushAsyncSuccessReports ==
  /\ alive /\ succeeded # {}
  /\ \E reported \in SUBSET succeeded :
       /\ done' = done \cup reported
       /\ stranded' = stranded \cup (succeeded \ reported)
  /\ succeeded' = {}
  /\ UNCHANGED <<queued, owned, mountVars, threadVars, diskFull, seenFull>>

\* The value of flag f the tape thread reads: its own pending store, or
\* memory.
TapeSees(f) ==
  /\ f \notin tapeStores
  /\ IF f = "tape" THEN tapeRunning ELSE diskRunning

\* A clear of flag f written from a store buffer into memory.
ClearInMemory(f) ==
  /\ tapeRunning' = (tapeRunning /\ f # "tape")
  /\ diskRunning' = (diskRunning /\ f # "disk")

\* tapeComplete(), first step: m_tapeRunning = false.
TapeCompleteWrite ==
  /\ alive /\ started /\ tpc = "Transferring"
  /\ tapeStores' = tapeStores \cup {"tape"}
  /\ tpc' = "TapeTest"
  /\ UNCHANGED <<jobVars, sessionRunning, tapeRunning, diskRunning,
                 diskStores, started, alive, completeCalls, draining, dpc,
                 ipc, diskFull, seenFull>>

\* tapeComplete(), second step: the test of m_diskRunning.
TapeTest(next) ==
  /\ IF ~TapeSees("disk")
       THEN Complete /\ UNCHANGED draining
       ELSE draining' = TRUE /\ UNCHANGED <<completeCalls, sessionRunning>>
  /\ tpc' = next
  /\ UNCHANGED <<jobVars, tapeRunning, diskRunning, tapeStores, diskStores,
                 started, alive, dpc, ipc, diskFull, seenFull>>

TapeCompleteTest ==
  /\ alive /\ tpc = "TapeTest"
  /\ TapeTest("Done")

\* Mutant: abort() clears both flags before its two completion tests.
AbortDiskWriteClearsBoth ==
  /\ alive /\ started /\ tpc = "Transferring"
  /\ tapeStores' = tapeStores \cup {"disk", "tape"}
  /\ tpc' = "AbortDiskTest"
  /\ UNCHANGED <<jobVars, sessionRunning, tapeRunning, diskRunning,
                 diskStores, started, alive, completeCalls, draining, dpc,
                 ipc, diskFull, seenFull>>

\* Mutant: abort() calls tapeComplete() only, without diskComplete().
AbortSkipsDiskComplete ==
  /\ alive /\ started /\ tpc = "Transferring"
  /\ tpc' = "AbortTapeWrite"
  /\ UNCHANGED <<jobVars, sessionRunning, tapeRunning, diskRunning,
                 tapeStores, diskStores, started, alive, completeCalls,
                 draining, dpc, ipc, diskFull, seenFull>>

\* abort() == diskComplete(); tapeComplete(); called by the tape thread
\* instead of tapeComplete().  Its diskComplete() is the tape thread's
\* store to m_diskRunning.
AbortDiskWrite ==
  /\ alive /\ started /\ tpc = "Transferring"
  /\ tapeStores' = tapeStores \cup {"disk"}
  /\ tpc' = "AbortDiskTest"
  /\ UNCHANGED <<jobVars, sessionRunning, tapeRunning, diskRunning,
                 diskStores, started, alive, completeCalls, draining, dpc,
                 ipc, diskFull, seenFull>>

\* diskComplete(), second step: the test of m_tapeRunning, which the
\* calling thread sees as tapeSeen.
DiskTest(tapeSeen) ==
  IF ~tapeSeen THEN Complete ELSE UNCHANGED <<completeCalls, sessionRunning>>

AbortDiskTest ==
  /\ alive /\ tpc = "AbortDiskTest"
  /\ DiskTest(TapeSees("tape"))
  /\ tpc' = "AbortTapeWrite"
  /\ UNCHANGED <<jobVars, tapeRunning, diskRunning, tapeStores, diskStores,
                 started, alive, draining, dpc, ipc, diskFull, seenFull>>

AbortTapeWrite ==
  /\ alive /\ tpc = "AbortTapeWrite"
  /\ tapeStores' = tapeStores \cup {"tape"}
  /\ tpc' = "AbortTapeTest"
  /\ UNCHANGED <<jobVars, sessionRunning, tapeRunning, diskRunning,
                 diskStores, started, alive, completeCalls, draining, dpc,
                 ipc, diskFull, seenFull>>

AbortTapeTest ==
  /\ alive /\ tpc = "AbortTapeTest"
  /\ TapeTest("Aborted")

\* diskComplete(), first step: m_diskRunning = false.
DiskCompleteWrite ==
  /\ alive /\ started /\ dpc = "Transferring"
  /\ diskStores' = {"disk"}
  /\ dpc' = "DiskTest"
  /\ UNCHANGED <<jobVars, sessionRunning, tapeRunning, diskRunning,
                 tapeStores, started, alive, completeCalls, draining, tpc,
                 ipc, diskFull, seenFull>>

\* The disk thread never stores to m_tapeRunning: it reads memory.
DiskCompleteTest ==
  /\ alive /\ dpc = "DiskTest"
  /\ DiskTest(tapeRunning)
  /\ dpc' = "Done"
  /\ UNCHANGED <<jobVars, tapeRunning, diskRunning, tapeStores, diskStores,
                 started, alive, draining, tpc, ipc, diskFull, seenFull>>

\* A pending clear of flag f reaches memory, where the other thread sees
\* it.
FlushStore(f) ==
  /\ alive
  /\ \/ f \in tapeStores /\ tapeStores' = tapeStores \ {f} /\ UNCHANGED diskStores
     \/ f \in diskStores /\ diskStores' = diskStores \ {f} /\ UNCHANGED tapeStores
  /\ ClearInMemory(f)
  /\ UNCHANGED <<jobVars, sessionRunning, started, alive, completeCalls,
                 draining, threadVars, diskFull, seenFull>>

\* The free space of disk system d changes (the disk system fills up or is
\* drained by its users).
DiskSpaceChange(d) ==
  /\ diskFull' = IF d \in diskFull THEN diskFull \ {d} ELSE diskFull \cup {d}
  /\ UNCHANGED <<jobVars, mountVars, threadVars, seenFull>>

\* The tape session process dies; its agent stops heartbeating.
Crash ==
  /\ alive
  /\ alive' = FALSE
  /\ UNCHANGED <<jobVars, sessionRunning, tapeRunning, diskRunning,
                 tapeStores, diskStores, started, completeCalls, draining,
                 threadVars, diskFull, seenFull>>

\* Another agent finds the heartbeat of the dead agent stale and
\* garbage-collects the jobs it owned: they are requeued (the lost success
\* reports included, as nothing was deleted for them).
GarbageCollect ==
  /\ ~alive
  /\ owned \cup succeeded \cup stranded # {}
  /\ queued' = queued \cup owned \cup succeeded \cup stranded
  /\ owned' = {} /\ succeeded' = {} /\ stranded' = {}
  /\ UNCHANGED <<done, mountVars, threadVars, diskFull, seenFull>>

Next ==
  \/ StartSession
  \/ GetBatchCheck
  \/ \E f \in FilesRequested, b \in BytesRequested : GetBatchPop(f, b)
  \/ \E j \in owned : TransferSucceeded(j) \/ TransferFailed(j)
  \/ FlushAsyncSuccessReports
  \/ TapeCompleteWrite \/ TapeCompleteTest
  \/ AbortDiskWrite \/ AbortDiskTest \/ AbortTapeWrite \/ AbortTapeTest
  \/ DiskCompleteWrite \/ DiskCompleteTest
  \/ \E f \in Flags : FlushStore(f)
  \/ \E d \in DiskSystems : DiskSpaceChange(d)
  \/ Crash
  \/ GarbageCollect

Spec == Init /\ [][Next]_vars

-----------------------------------------------------------------------------
TypeOK ==
  /\ queued \subseteq Jobs /\ owned \subseteq Jobs /\ succeeded \subseteq Jobs
  /\ stranded \subseteq Jobs /\ done \subseteq Jobs
  /\ sessionRunning \in BOOLEAN /\ tapeRunning \in BOOLEAN
  /\ diskRunning \in BOOLEAN /\ started \in BOOLEAN /\ alive \in BOOLEAN
  /\ tapeStores \subseteq Flags /\ diskStores \subseteq {"disk"}
  /\ tpc \in TapeStates /\ dpc \in DiskStates /\ ipc \in InjectorStates
  \* two completion tests at most can find the other side complete
  /\ completeCalls \in 0..2
  /\ draining \in BOOLEAN
  /\ diskFull \subseteq DiskSystems /\ seenFull \subseteq DiskSystems

(***************************************************************************)
(* abort() reports the session complete: its tapeComplete() reads the      *)
(* clear of m_diskRunning its own diskComplete() stored, whatever the disk *)
(* thread has done and whatever of the tape thread's stores the disk       *)
(* thread has yet to see.                                                  *)
(***************************************************************************)
AbortReportsComplete == (alive /\ tpc = "Aborted") => completeCalls >= 1

(***************************************************************************)
(* The spec (the completion state machine ends in one BothComplete state): *)
(* the session is reported complete to the DB once: never twice, and once  *)
(* the tape thread has returned from tapeComplete() or abort() and the     *)
(* disk thread from diskComplete(), at least once.                         *)
(***************************************************************************)
CompletedOnce ==
  /\ completeCalls <= 1
  /\ (alive /\ tpc \in {"Done", "Aborted"} /\ dpc = "Done") => completeCalls = 1

(***************************************************************************)
(* The spec: a disk system a mount has seen full is excluded from          *)
(* scheduling for the rest of the mount (one strike out): no job for it is *)
(* popped afterwards.                                                      *)
(***************************************************************************)
OneStrikeOut ==
  [][\A j \in owned' \ owned : JobDisk[j] \notin seenFull]_vars

(***************************************************************************)
(* getNextJobBatch() hands out jobs only while the session runs: no job is *)
(* popped once the session has been completed.                             *)
(***************************************************************************)
NoPopAfterComplete ==
  [][owned' \ owned # {} => sessionRunning]_vars
=============================================================================
