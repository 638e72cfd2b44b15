------------------------ MODULE RetrieveMountProofs ------------------------
(***************************************************************************)
(* Proofs about the retrieve mount, for every set of jobs and disk        *)
(* systems, with the completion flags read and written as the racy plain   *)
(* bools they are (stores delayed in the writing thread's store buffer):   *)
(* type correctness, with the bound of two calls of m_dbMount->complete(), *)
(* and that abort() always reports the session complete.                   *)
(*                                                                         *)
(* Neither is inductive as stated.  The strengthening IInv says what each  *)
(* thread sees of the flags at each point of the completion methods:       *)
(* until the tape thread has cleared m_tapeRunning it sees the flag set,   *)
(* so abort()'s own diskComplete() never completes; after abort()'s        *)
(* diskComplete() the tape thread sees m_diskRunning cleared, from its own *)
(* store or from memory, so abort()'s tapeComplete() always completes.     *)
(* Whether the later of tapeComplete() and diskComplete() completes        *)
(* depends on when the stores reach memory, so nothing is proved about it. *)
(***************************************************************************)
EXTENDS RetrieveMount, TLAPS

\* The tape thread's program counters before it clears m_tapeRunning.
BeforeTapeWrite == {"Transferring", "AbortDiskTest", "AbortTapeWrite"}

\* The tape thread's program counters after abort()'s diskComplete().
AfterAbortDiskWrite == {"AbortDiskTest", "AbortTapeWrite", "AbortTapeTest", "Aborted"}

\* Until it clears m_tapeRunning, the tape thread sees the flag set: only
\* the tape thread clears it and the Scheduler set it before the start.
TapeFlag ==
  (started /\ tpc \in BeforeTapeWrite) => tapeRunning /\ "tape" \notin tapeStores

\* After abort()'s diskComplete(), the tape thread sees m_diskRunning
\* cleared: its store is still pending, or a clear has reached memory.
AbortFlag ==
  tpc \in AfterAbortDiskWrite => "disk" \in tapeStores \/ ~diskRunning

\* Before the session starts no thread has run and nothing was stored.
NotStarted ==
  ~started => /\ tpc = "Transferring" /\ dpc = "Transferring" /\ ipc = "Idle"
              /\ completeCalls = 0 /\ tapeStores = {} /\ diskStores = {}

\* The completion tests that have run (abort()'s disk test never completes).
TestsDone ==
  (IF tpc \in {"Done", "Aborted"} THEN 1 ELSE 0) + (IF dpc = "Done" THEN 1 ELSE 0)

CompleteBound == completeCalls <= TestsDone

\* abort()'s own test of m_diskRunning finds it cleared, so it completes.
AbortCompletes == tpc = "Aborted" => completeCalls >= 1

\* The part of the invariant about the completion protocol.
FlagInv ==
  /\ TapeFlag /\ AbortFlag /\ NotStarted /\ CompleteBound /\ AbortCompletes

IInv == TypeOK /\ FlagInv

\* TypeOK in three parts, one per kind of state.
TypeJobs ==
  /\ queued \subseteq Jobs /\ owned \subseteq Jobs /\ succeeded \subseteq Jobs
  /\ stranded \subseteq Jobs /\ done \subseteq Jobs
TypeFlags ==
  /\ sessionRunning \in BOOLEAN /\ tapeRunning \in BOOLEAN
  /\ diskRunning \in BOOLEAN /\ started \in BOOLEAN /\ alive \in BOOLEAN
  /\ tapeStores \subseteq Flags /\ diskStores \subseteq {"disk"}
  /\ draining \in BOOLEAN
TypeControl ==
  /\ tpc \in TapeStates /\ dpc \in DiskStates /\ ipc \in InjectorStates
  /\ completeCalls \in 0..2
  /\ diskFull \subseteq DiskSystems /\ seenFull \subseteq DiskSystems

-----------------------------------------------------------------------------
\* TypeOK is the conjunction of its three parts, in every state.
LEMMA TypeSplit ==
  /\ TypeOK <=> TypeJobs /\ TypeFlags /\ TypeControl
  /\ TypeOK' <=> TypeJobs' /\ TypeFlags' /\ TypeControl'
BY DEF TypeOK, TypeJobs, TypeFlags, TypeControl

\* A batch popped by getNextJobBatch() is taken from the queue.
LEMMA CandidatesQueued ==
  ASSUME NEW q, NEW full, NEW files, NEW bytes
  PROVE  CandidateJobs(q, full, files, bytes) \subseteq q
BY DEF CandidateJobs, Eligible

\* The disk systems found full by a call are disk systems.
LEMMA ObservedFullType ==
  ASSUME NEW q \in SUBSET Jobs, NEW full
  PROVE  ObservedFull(q, full) \subseteq DiskSystems
BY JobsAssumption DEF ObservedFull

\* The strengthened invariant holds in the initial states.
LEMMA InitIInv == Init => IInv
<1> SUFFICES ASSUME Init PROVE IInv
  OBVIOUS
<1>1. TypeJobs
  BY DEF Init, TypeJobs
<1>2. TypeFlags
  BY DEF Init, TypeFlags
<1>3. TypeControl
  BY DEF Init, TypeControl, TapeStates, DiskStates, InjectorStates
<1>4. FlagInv
  BY DEF Init, FlagInv, TapeFlag, AbortFlag, BeforeTapeWrite, AfterAbortDiskWrite,
         NotStarted, CompleteBound, TestsDone, AbortCompletes
<1>5. QED
  BY <1>1, <1>2, <1>3, <1>4, TypeSplit DEF IInv

\* The bound of the completion tests keeps the number of calls in 0..2.
LEMMA CallsBound ==
  ASSUME CompleteBound', completeCalls' \in Nat
  PROVE  completeCalls' \in 0..2
BY DEF CompleteBound, TestsDone

\* The mount's flags and the two completion threads are left alone.
Frozen ==
  /\ tpc' = tpc /\ dpc' = dpc
  /\ sessionRunning' = sessionRunning /\ tapeRunning' = tapeRunning
  /\ diskRunning' = diskRunning /\ tapeStores' = tapeStores
  /\ diskStores' = diskStores /\ started' = started
  /\ completeCalls' = completeCalls /\ draining' = draining

\* A step of the environment, of the injector or of the jobs, leaving the
\* flags and the completion threads alone, preserves the invariant when it
\* keeps the jobs and the disk systems typed and the injector in its states.
LEMMA QuietStep ==
  ASSUME IInv, Frozen, alive' \in BOOLEAN, started \/ ipc' = ipc,
         TypeJobs', ipc' \in InjectorStates,
         diskFull' \subseteq DiskSystems, seenFull' \subseteq DiskSystems
  PROVE  IInv'
<1>1. FlagInv'
  BY DEF IInv, Frozen, FlagInv, TapeFlag, AbortFlag, NotStarted,
         CompleteBound, TestsDone, AbortCompletes
<1>2. TypeFlags' /\ TypeControl'
  BY DEF IInv, TypeOK, TypeFlags, TypeControl, Frozen
<1>3. QED
  BY <1>1, <1>2, TypeSplit DEF IInv

\* Every step preserves the strengthened invariant.
LEMMA NextIInv == IInv /\ [Next]_vars => IInv'
<1> SUFFICES ASSUME IInv, [Next]_vars PROVE IInv'
  OBVIOUS
<1>0. /\ TypeJobs /\ TypeFlags /\ TypeControl
      /\ TapeFlag /\ AbortFlag /\ NotStarted /\ CompleteBound /\ AbortCompletes
  BY TypeSplit DEF IInv, FlagInv
<1>1. CASE StartSession
  <2>1. TypeJobs' /\ TypeFlags'
    BY <1>0, <1>1 DEF StartSession, TypeJobs, TypeFlags, jobVars
  <2>2. FlagInv'
    BY <1>0, <1>1 DEF StartSession, threadVars, FlagInv, TapeFlag, AbortFlag,
                      BeforeTapeWrite, AfterAbortDiskWrite, NotStarted,
                      CompleteBound, TestsDone, AbortCompletes
  <2>3. TypeControl'
    BY <1>0, <1>1 DEF StartSession, TypeControl, threadVars
  <2>4. QED
    BY <2>1, <2>2, <2>3, TypeSplit DEF IInv
<1>2. CASE GetBatchCheck
  <2>1. Frozen /\ alive' \in BOOLEAN /\ (started \/ ipc' = ipc)
    BY <1>0, <1>2 DEF GetBatchCheck, Frozen, mountVars, threadVars, TypeFlags, NotStarted
  <2>2. /\ TypeJobs' /\ ipc' \in InjectorStates
        /\ diskFull' \subseteq DiskSystems /\ seenFull' \subseteq DiskSystems
    BY <1>0, <1>2 DEF GetBatchCheck, TypeJobs, TypeControl, jobVars, threadVars, InjectorStates
  <2>3. QED
    BY <2>1, <2>2, QuietStep
<1>3. CASE \E f \in FilesRequested, b \in BytesRequested : GetBatchPop(f, b)
  <2>0. PICK f \in FilesRequested, b \in BytesRequested : GetBatchPop(f, b)
    BY <1>3
  <2>a. CandidateJobs(queued, diskFull, f, b) \subseteq queued
    BY CandidatesQueued
  <2>b. ObservedFull(queued, diskFull) \subseteq DiskSystems
    BY <1>0, ObservedFullType DEF TypeJobs
  <2>c. started
    BY <1>0, <2>0 DEF GetBatchPop, NotStarted
  <2>1. Frozen /\ alive' \in BOOLEAN /\ (started \/ ipc' = ipc)
    BY <1>0, <2>0, <2>c DEF GetBatchPop, Frozen, mountVars, TypeFlags
  <2>2. /\ TypeJobs' /\ ipc' \in InjectorStates
        /\ diskFull' \subseteq DiskSystems /\ seenFull' \subseteq DiskSystems
    BY <1>0, <2>0, <2>a, <2>b DEF GetBatchPop, TypeJobs, TypeControl, InjectorStates
  <2>3. QED
    BY <2>1, <2>2, QuietStep
<1>4. CASE \E j \in owned : TransferSucceeded(j) \/ TransferFailed(j)
  <2>0. PICK j \in owned : TransferSucceeded(j) \/ TransferFailed(j)
    BY <1>4
  <2>1. Frozen /\ alive' \in BOOLEAN /\ (started \/ ipc' = ipc)
    BY <1>0, <2>0 DEF TransferSucceeded, TransferFailed, Frozen, mountVars, threadVars, TypeFlags, NotStarted
  <2>2. /\ TypeJobs' /\ ipc' \in InjectorStates
        /\ diskFull' \subseteq DiskSystems /\ seenFull' \subseteq DiskSystems
    BY <1>0, <2>0 DEF TransferSucceeded, TransferFailed, TypeJobs, TypeControl, jobVars, threadVars
  <2>3. QED
    BY <2>1, <2>2, QuietStep
<1>5. CASE FlushAsyncSuccessReports
  <2>0. PICK reported \in SUBSET succeeded :
               /\ done' = done \cup reported
               /\ stranded' = stranded \cup (succeeded \ reported)
    BY <1>5 DEF FlushAsyncSuccessReports
  <2>1. Frozen /\ alive' \in BOOLEAN /\ (started \/ ipc' = ipc)
    BY <1>0, <1>5 DEF FlushAsyncSuccessReports, Frozen, mountVars, threadVars, TypeFlags
  <2>2. /\ TypeJobs' /\ ipc' \in InjectorStates
        /\ diskFull' \subseteq DiskSystems /\ seenFull' \subseteq DiskSystems
    BY <1>0, <1>5, <2>0 DEF FlushAsyncSuccessReports, TypeJobs, TypeControl, threadVars
  <2>3. QED
    BY <2>1, <2>2, QuietStep
<1>6. CASE TapeCompleteWrite
  <2>1. /\ started /\ started' = started /\ tpc = "Transferring" /\ tpc' = "TapeTest"
        /\ dpc' = dpc /\ completeCalls' = completeCalls
        /\ tapeRunning' = tapeRunning /\ diskRunning' = diskRunning
        /\ tapeStores' = tapeStores \cup {"tape"}
    BY <1>6 DEF TapeCompleteWrite
  <2>2. TapeFlag' /\ AbortFlag'
    BY <1>0, <2>1 DEF TapeFlag, BeforeTapeWrite, AbortFlag, AfterAbortDiskWrite
  <2>3. NotStarted'
    BY <1>0, <2>1 DEF NotStarted
  <2>4. CompleteBound' /\ AbortCompletes'
    BY <1>0, <2>1 DEF CompleteBound, TestsDone, AbortCompletes, TypeControl
  <2>5. TypeJobs' /\ TypeFlags'
    BY <1>0, <1>6 DEF TapeCompleteWrite, TypeJobs, TypeFlags, jobVars, Flags
  <2>6. TypeControl'
    BY <1>0, <1>6, <2>1 DEF TapeCompleteWrite, TypeControl, TapeStates
  <2>7. QED
    BY <2>2, <2>3, <2>4, <2>5, <2>6, TypeSplit DEF IInv, FlagInv
<1>7. CASE TapeCompleteTest
  <2>1. /\ tpc = "TapeTest" /\ tpc' = "Done" /\ dpc' = dpc /\ started' = started
        /\ completeCalls' \in {completeCalls, completeCalls + 1}
        /\ tapeRunning' = tapeRunning /\ diskRunning' = diskRunning
        /\ tapeStores' = tapeStores
    BY <1>7 DEF TapeCompleteTest, TapeTest, Complete
  <2>2. TapeFlag' /\ AbortFlag'
    BY <2>1 DEF TapeFlag, BeforeTapeWrite, AbortFlag, AfterAbortDiskWrite
  <2>3. started /\ NotStarted'
    BY <1>0, <2>1 DEF NotStarted
  <2>4. CompleteBound' /\ AbortCompletes'
    BY <1>0, <2>1 DEF CompleteBound, TestsDone, AbortCompletes, TypeControl
  <2>5. TypeJobs' /\ TypeFlags'
    BY <1>0, <1>7 DEF TapeCompleteTest, TapeTest, Complete, TypeJobs, TypeFlags, jobVars
  <2>6. TypeControl'
    BY <1>0, <1>7, <2>1, <2>4, CallsBound DEF TapeCompleteTest, TapeTest, TypeControl, TapeStates
  <2>7. QED
    BY <2>2, <2>3, <2>4, <2>5, <2>6, TypeSplit DEF IInv, FlagInv
<1>8. CASE AbortDiskWrite
  <2>1. /\ started /\ started' = started /\ tpc = "Transferring" /\ tpc' = "AbortDiskTest"
        /\ dpc' = dpc /\ completeCalls' = completeCalls
        /\ tapeRunning' = tapeRunning /\ diskRunning' = diskRunning
        /\ tapeStores' = tapeStores \cup {"disk"}
    BY <1>8 DEF AbortDiskWrite
  <2>2. TapeFlag' /\ AbortFlag'
    BY <1>0, <2>1 DEF TapeFlag, BeforeTapeWrite, AbortFlag, AfterAbortDiskWrite
  <2>3. NotStarted'
    BY <1>0, <2>1 DEF NotStarted
  <2>4. CompleteBound' /\ AbortCompletes'
    BY <1>0, <2>1 DEF CompleteBound, TestsDone, AbortCompletes, TypeControl
  <2>5. TypeJobs' /\ TypeFlags'
    BY <1>0, <1>8 DEF AbortDiskWrite, TypeJobs, TypeFlags, jobVars, Flags
  <2>6. TypeControl'
    BY <1>0, <1>8, <2>1 DEF AbortDiskWrite, TypeControl, TapeStates
  <2>7. QED
    BY <2>2, <2>3, <2>4, <2>5, <2>6, TypeSplit DEF IInv, FlagInv
<1>9. CASE AbortDiskTest
  <2>0. /\ tpc = "AbortDiskTest" /\ tpc' = "AbortTapeWrite" /\ dpc' = dpc
        /\ started' = started /\ DiskTest(TapeSees("tape"))
        /\ tapeRunning' = tapeRunning /\ diskRunning' = diskRunning
        /\ tapeStores' = tapeStores
    BY <1>9 DEF AbortDiskTest
  <2>a. started
    BY <1>0, <2>0 DEF NotStarted
  <2>b. TapeSees("tape")
    BY <1>0, <2>0, <2>a DEF TapeFlag, BeforeTapeWrite, TapeSees
  <2>1. completeCalls' = completeCalls /\ sessionRunning' = sessionRunning
    BY <2>0, <2>b DEF DiskTest
  <2>2. TapeFlag' /\ AbortFlag'
    BY <1>0, <2>0, <2>a DEF TapeFlag, BeforeTapeWrite, AbortFlag, AfterAbortDiskWrite
  <2>3. NotStarted'
    BY <2>0, <2>a DEF NotStarted
  <2>4. CompleteBound' /\ AbortCompletes'
    BY <1>0, <2>0, <2>1 DEF CompleteBound, TestsDone, AbortCompletes, TypeControl
  <2>5. TypeJobs' /\ TypeFlags'
    BY <1>0, <1>9, <2>1 DEF AbortDiskTest, TypeJobs, TypeFlags, jobVars
  <2>6. TypeControl'
    BY <1>0, <1>9, <2>0, <2>1 DEF AbortDiskTest, TypeControl, TapeStates
  <2>7. QED
    BY <2>2, <2>3, <2>4, <2>5, <2>6, TypeSplit DEF IInv, FlagInv
<1>10. CASE AbortTapeWrite
  <2>1. /\ tpc = "AbortTapeWrite" /\ tpc' = "AbortTapeTest" /\ dpc' = dpc /\ started' = started
        /\ completeCalls' = completeCalls
        /\ tapeRunning' = tapeRunning /\ diskRunning' = diskRunning
        /\ tapeStores' = tapeStores \cup {"tape"}
    BY <1>10 DEF AbortTapeWrite
  <2>2. TapeFlag' /\ AbortFlag'
    BY <1>0, <2>1 DEF TapeFlag, BeforeTapeWrite, AbortFlag, AfterAbortDiskWrite
  <2>3. started /\ NotStarted'
    BY <1>0, <2>1 DEF NotStarted
  <2>4. CompleteBound' /\ AbortCompletes'
    BY <1>0, <2>1 DEF CompleteBound, TestsDone, AbortCompletes, TypeControl
  <2>5. TypeJobs' /\ TypeFlags'
    BY <1>0, <1>10 DEF AbortTapeWrite, TypeJobs, TypeFlags, jobVars, Flags
  <2>6. TypeControl'
    BY <1>0, <1>10, <2>1 DEF AbortTapeWrite, TypeControl, TapeStates
  <2>7. QED
    BY <2>2, <2>3, <2>4, <2>5, <2>6, TypeSplit DEF IInv, FlagInv
<1>11. CASE AbortTapeTest
  <2>0. /\ tpc = "AbortTapeTest" /\ tpc' = "Aborted" /\ dpc' = dpc
        /\ started' = started
        /\ tapeRunning' = tapeRunning /\ diskRunning' = diskRunning
        /\ tapeStores' = tapeStores
    BY <1>11 DEF AbortTapeTest, TapeTest
  <2>a. ~TapeSees("disk")
    BY <1>0, <2>0 DEF AbortFlag, AfterAbortDiskWrite, TapeSees
  <2>1. completeCalls' = completeCalls + 1 /\ sessionRunning' = FALSE
    BY <1>11, <2>a DEF AbortTapeTest, TapeTest, Complete
  <2>2. TapeFlag' /\ AbortFlag'
    BY <1>0, <2>0 DEF TapeFlag, BeforeTapeWrite, AbortFlag, AfterAbortDiskWrite
  <2>3. started /\ NotStarted'
    BY <1>0, <2>0 DEF NotStarted
  <2>4. CompleteBound' /\ AbortCompletes'
    <3>1. completeCalls \in 0..2
      BY <1>0 DEF TypeControl
    <3>2. TestsDone' = TestsDone + 1
      BY <2>0 DEF TestsDone
    <3>3. completeCalls <= TestsDone
      BY <1>0 DEF CompleteBound
    <3>4. TestsDone \in Nat
      BY DEF TestsDone
    <3>5. completeCalls' <= TestsDone'
      BY <2>1, <3>1, <3>2, <3>3, <3>4
    <3>6. QED
      BY <2>0, <2>1, <3>1, <3>5 DEF CompleteBound, AbortCompletes
  <2>5. TypeJobs' /\ TypeFlags'
    BY <1>0, <1>11, <2>1 DEF AbortTapeTest, TapeTest, TypeJobs, TypeFlags, jobVars
  <2>6. TypeControl'
    BY <1>0, <1>11, <2>0, <2>1, <2>4, CallsBound DEF AbortTapeTest, TapeTest,
       TypeControl, TapeStates
  <2>7. QED
    BY <2>2, <2>3, <2>4, <2>5, <2>6, TypeSplit DEF IInv, FlagInv
<1>12. CASE DiskCompleteWrite
  <2>1. /\ started /\ started' = started /\ dpc = "Transferring" /\ dpc' = "DiskTest"
        /\ tpc' = tpc /\ completeCalls' = completeCalls
        /\ tapeRunning' = tapeRunning /\ diskRunning' = diskRunning
        /\ tapeStores' = tapeStores /\ diskStores' = {"disk"}
    BY <1>12 DEF DiskCompleteWrite
  <2>2. TapeFlag' /\ AbortFlag'
    BY <1>0, <2>1 DEF TapeFlag, BeforeTapeWrite, AbortFlag, AfterAbortDiskWrite
  <2>3. NotStarted'
    BY <2>1 DEF NotStarted
  <2>4. CompleteBound' /\ AbortCompletes'
    BY <1>0, <2>1 DEF CompleteBound, TestsDone, AbortCompletes, TypeControl
  <2>5. TypeJobs' /\ TypeFlags'
    BY <1>0, <1>12, <2>1 DEF DiskCompleteWrite, TypeJobs, TypeFlags, jobVars
  <2>6. TypeControl'
    BY <1>0, <1>12, <2>1 DEF DiskCompleteWrite, TypeControl, DiskStates
  <2>7. QED
    BY <2>2, <2>3, <2>4, <2>5, <2>6, TypeSplit DEF IInv, FlagInv
<1>13. CASE DiskCompleteTest
  <2>1. /\ dpc = "DiskTest" /\ dpc' = "Done" /\ tpc' = tpc /\ started' = started
        /\ completeCalls' \in {completeCalls, completeCalls + 1}
        /\ tapeRunning' = tapeRunning /\ diskRunning' = diskRunning
        /\ tapeStores' = tapeStores
    BY <1>13 DEF DiskCompleteTest, DiskTest, Complete
  <2>2. TapeFlag' /\ AbortFlag'
    BY <1>0, <2>1 DEF TapeFlag, BeforeTapeWrite, AbortFlag, AfterAbortDiskWrite
  <2>3. started /\ NotStarted'
    BY <1>0, <2>1 DEF NotStarted
  <2>4. CompleteBound' /\ AbortCompletes'
    BY <1>0, <2>1 DEF CompleteBound, TestsDone, AbortCompletes, TypeControl
  <2>5. TypeJobs' /\ TypeFlags'
    BY <1>0, <1>13 DEF DiskCompleteTest, DiskTest, Complete, TypeJobs, TypeFlags, jobVars
  <2>6. TypeControl'
    BY <1>0, <1>13, <2>1, <2>4, CallsBound DEF DiskCompleteTest, TypeControl, DiskStates
  <2>7. QED
    BY <2>2, <2>3, <2>4, <2>5, <2>6, TypeSplit DEF IInv, FlagInv
<1>14. CASE \E f \in Flags : FlushStore(f)
  <2>0. PICK f \in Flags : FlushStore(f)
    BY <1>14
  <2>1. /\ f \in tapeStores \/ f \in diskStores
        /\ tpc' = tpc /\ dpc' = dpc /\ started' = started
        /\ completeCalls' = completeCalls
        /\ tapeStores' \subseteq tapeStores
        /\ tapeRunning' = (tapeRunning /\ f # "tape")
        /\ diskRunning' = (diskRunning /\ f # "disk")
    BY <2>0 DEF FlushStore, ClearInMemory, threadVars
  <2>2. started
    BY <1>0, <2>1 DEF NotStarted
  <2>3. TapeFlag'
    <3>1. CASE f = "tape"
      <4>1. "tape" \in tapeStores
        BY <1>0, <2>1, <3>1 DEF TypeFlags
      <4>2. tpc \notin BeforeTapeWrite
        BY <1>0, <2>2, <4>1 DEF TapeFlag
      <4>3. QED
        BY <2>1, <4>2 DEF TapeFlag
    <3>2. CASE f # "tape"
      BY <1>0, <2>1, <3>2 DEF TapeFlag
    <3>3. QED
      BY <3>1, <3>2
  <2>4. AbortFlag'
    BY <1>0, <2>0, <2>1 DEF FlushStore, AbortFlag
  <2>5. NotStarted' /\ CompleteBound' /\ AbortCompletes'
    BY <1>0, <2>1, <2>2 DEF NotStarted, CompleteBound, TestsDone, AbortCompletes
  <2>6. TypeJobs' /\ TypeFlags' /\ TypeControl'
    BY <1>0, <2>0 DEF FlushStore, ClearInMemory, TypeJobs, TypeFlags,
       TypeControl, jobVars, threadVars
  <2>7. QED
    BY <2>3, <2>4, <2>5, <2>6, TypeSplit DEF IInv, FlagInv
<1>15. CASE \E d \in DiskSystems : DiskSpaceChange(d)
  <2>0. PICK d \in DiskSystems : DiskSpaceChange(d)
    BY <1>15
  <2>1. Frozen /\ alive' \in BOOLEAN /\ (started \/ ipc' = ipc)
    BY <1>0, <2>0 DEF DiskSpaceChange, Frozen, mountVars, threadVars, TypeFlags, NotStarted
  <2>2. /\ TypeJobs' /\ ipc' \in InjectorStates
        /\ diskFull' \subseteq DiskSystems /\ seenFull' \subseteq DiskSystems
    BY <1>0, <2>0 DEF DiskSpaceChange, TypeJobs, TypeControl, jobVars, threadVars
  <2>3. QED
    BY <2>1, <2>2, QuietStep
<1>16. CASE Crash
  <2>1. Frozen /\ alive' \in BOOLEAN /\ (started \/ ipc' = ipc)
    BY <1>0, <1>16 DEF Crash, Frozen, mountVars, threadVars, TypeFlags, NotStarted
  <2>2. /\ TypeJobs' /\ ipc' \in InjectorStates
        /\ diskFull' \subseteq DiskSystems /\ seenFull' \subseteq DiskSystems
    BY <1>0, <1>16 DEF Crash, TypeJobs, TypeControl, jobVars, threadVars
  <2>3. QED
    BY <2>1, <2>2, QuietStep
<1>17. CASE GarbageCollect
  <2>1. Frozen /\ alive' \in BOOLEAN /\ (started \/ ipc' = ipc)
    BY <1>0, <1>17 DEF GarbageCollect, Frozen, mountVars, threadVars, TypeFlags, NotStarted
  <2>2. /\ TypeJobs' /\ ipc' \in InjectorStates
        /\ diskFull' \subseteq DiskSystems /\ seenFull' \subseteq DiskSystems
    BY <1>0, <1>17 DEF GarbageCollect, TypeJobs, TypeControl, jobVars, threadVars
  <2>3. QED
    BY <2>1, <2>2, QuietStep
<1>18. CASE UNCHANGED vars
  <2>1. Frozen /\ alive' \in BOOLEAN /\ (started \/ ipc' = ipc)
    BY <1>0, <1>18 DEF vars, jobVars, Frozen, mountVars, threadVars, TypeFlags, NotStarted
  <2>2. /\ TypeJobs' /\ ipc' \in InjectorStates
        /\ diskFull' \subseteq DiskSystems /\ seenFull' \subseteq DiskSystems
    BY <1>0, <1>18 DEF vars, jobVars, TypeJobs, TypeControl, jobVars, threadVars, vars
  <2>3. QED
    BY <2>1, <2>2, QuietStep
<1>19. QED
  BY <1>1, <1>2, <1>3, <1>4, <1>5, <1>6, <1>7, <1>8, <1>9, <1>10, <1>11,
     <1>12, <1>13, <1>14, <1>15, <1>16, <1>17, <1>18 DEF Next
-----------------------------------------------------------------------------
(***************************************************************************)
(* The strengthened invariant holds in every reachable state: whatever the *)
(* interleaving of the threads and the delay of their stores to the flags, *)
(* each completion test calls complete() at most once, abort()'s own       *)
(* diskComplete() never, and abort()'s tapeComplete() always.              *)
(***************************************************************************)
THEOREM IInvariant == Spec => []IInv
BY InitIInv, NextIInv, PTL DEF Spec

(***************************************************************************)
(* Type correctness: in particular, whatever the interleaving of           *)
(* tapeComplete() or abort() with diskComplete() and whenever their stores *)
(* to the flags become visible, m_dbMount->complete() is called at most    *)
(* twice.                                                                  *)
(***************************************************************************)
THEOREM TypeCorrect == Spec => []TypeOK
<1>1. IInv => TypeOK
  BY DEF IInv
<1>2. QED
  BY <1>1, IInvariant, PTL

(***************************************************************************)
(* abort() reports the session complete (AbortReportsComplete), whatever   *)
(* the disk thread does and whenever the stores reach memory.              *)
(***************************************************************************)
THEOREM AbortCompleted == Spec => []AbortReportsComplete
<1>1. IInv => AbortReportsComplete
  BY DEF IInv, FlagInv, AbortCompletes, AbortReportsComplete
<1>2. QED
  BY <1>1, IInvariant, PTL
=============================================================================
