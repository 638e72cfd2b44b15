------------------------- MODULE EosImportDirsProofs -------------------------
(***************************************************************************)
(* Proofs that the directory import never sends a directory to EOS twice   *)
(* (InjectedOnce) and that every directory of the main query the injection *)
(* thread has finished with is in EOS or in CTADIRSFAILED (RowsAccounted), *)
(* for every number of directories and every batch size, and that the     *)
(* import implements ImportBatches for every batch size but 0.            *)
(***************************************************************************)
EXTENDS EosImportDirs, TLAPS

\* The rows already read lie below the cursor of the result set.
ReadBelowCursor == \A r \in read : r < cursor

\* Before checkRootDirExists() has run, nothing has been read and
\* processDirs() has not been called.
NothingReadYet == mpc = "RootGetMD" => read = {} /\ ~rootPhase

\* While processDirs() works for checkRootDirExists(), the result set is the
\* top-level directory alone.
RootPhaseRows ==
  /\ rootPhase => last = RootDir /\ read \subseteq {RootDir}
  /\ mpc \in {"WaitRoot", "RootCheck"} => rootPhase

\* The pending batch and the buffer hold distinct rows already read.
BufferRows ==
  /\ pending \cup dirs \subseteq read
  /\ pending \cap dirs = {}

\* A directory sent to EOS was read, is not pending, and stays in the
\* buffer only after an exception ended the injection thread.
SentRows ==
  \A d \in Dirs : sent[d] = 1 =>
     /\ d \in read
     /\ d \notin pending
     /\ d \in dirs => ipc = "Returned"

\* A retry keeps every directory it has not finished with in CTADIRSFAILED.
RetryRows == retry => MainDirs \ handled \subseteq failedTable

IInv ==
  /\ TypeOK /\ InjectedOnce /\ ReadBelowCursor /\ NothingReadYet
  /\ RootPhaseRows /\ BufferRows /\ SentRows /\ RowsAccounted /\ RetryRows

-----------------------------------------------------------------------------
(* The further invariants the refinement onto ImportBatches rests on.      *)

\* The pending batch holds the last rows read.
PendingLatest == \A p \in pending, r \in read \ pending : r < p

\* Only MainAppend has a batch pending.
PendingOnlyInAppend == mpc # "Append" => pending = {}

\* While the injection thread runs, every directory it has sent precedes,
\* in the order of the query, every directory still to be sent.
SentInOrder ==
  ipc # "Returned" =>
    \A i \in Dirs, b \in dirs \cup pending : sent[i] = 1 => i < b

\* A row read is sent, or pending, or in the buffer.
ReadSentOrBuffered == \A d \in read : sent[d] = 1 \/ d \in pending \cup dirs

\* m_dirs_done is set only once main is on its way out.
DoneMeansEnding == dirsDone => mpc \in {"Join", "JoinThrow", "Exit"}

\* The injection thread stops only on an exception or on an empty buffer
\* once m_dirs_done is set; and it has stopped when main exits.
InjectorStops ==
  /\ exptr => ipc = "Returned"
  /\ ipc = "Returned" /\ ~exptr => dirs = {} /\ dirsDone
  /\ mpc = "Exit" => ipc = "Returned"
  /\ result = "none" <=> mpc # "Exit"

\* In the main query the top-level directory exists and every directory
\* below the cursor was read; at the join, all of them were, unless
\* m_batch_size is 0 and getNextBatch() read nothing.
MainPhase ==
  /\ mpc \in {"Check", "Read", "Append"} /\ ~rootPhase =>
       /\ RootDir \in eos /\ last = NDirs
       /\ \A d \in MainDirs : d < cursor => d \in read
  /\ mpc = "Join" => RootDir \in eos /\ (BatchSize = 0 \/ MainDirs \subseteq read)

\* checkRootDirExists() checks the top-level directory again only once the
\* buffer has drained.
RootCheckDrained == mpc = "RootCheck" => dirs = {}

RInv ==
  /\ PendingLatest /\ PendingOnlyInAppend /\ SentInOrder /\ ReadSentOrBuffered
  /\ DoneMeansEnding /\ InjectorStops /\ MainPhase /\ RootCheckDrained

-----------------------------------------------------------------------------
\* A reply of ContainerInsert gives EINVAL only for a directory that exists.
LEMMA RepliesEINVAL ==
  ASSUME NEW batch \in SUBSET Dirs, NEW rc \in Replies(batch)
  PROVE  /\ rc \in [batch -> Retc]
         /\ \A d \in batch : rc[d] = "EINVAL" => d \in eos
BY DEF Replies, Retc

LEMMA InitIInv == Init => IInv
<1> SUFFICES ASSUME Init PROVE IInv
  OBVIOUS
<1>1. TypeOK
  <2>1. eos \subseteq Dirs /\ failedTable \subseteq Dirs
    BY DEF Init, Dirs
  <2>2. cursor \in 0..NDirs + 1 /\ last \in 0..NDirs
    BY ImportAssumption DEF Init
  <2>3. sent \in [Dirs -> Nat]
    BY DEF Init
  <2>4. mpc \in MainStates /\ ipc \in InjStates /\ result \in Results
    BY DEF Init, MainStates, InjStates, Results
  <2>5. QED
    BY <2>1, <2>2, <2>3, <2>4 DEF Init, TypeOK
<1>2. InjectedOnce /\ ReadBelowCursor /\ NothingReadYet /\ RootPhaseRows
      /\ BufferRows /\ SentRows
  BY DEF Init, InjectedOnce, ReadBelowCursor, NothingReadYet, RootPhaseRows,
         BufferRows, SentRows
<1>3. RowsAccounted /\ RetryRows
  BY DEF Init, RowsAccounted, RetryRows
<1>4. QED
  BY <1>1, <1>2, <1>3 DEF IInv

LEMMA NextIInv == IInv /\ [Next]_vars => IInv'
<1> SUFFICES ASSUME IInv, [Next]_vars PROVE IInv'
  OBVIOUS
<1> USE ImportAssumption
    DEF IInv, TypeOK, InjectedOnce, ReadBelowCursor, NothingReadYet,
        RootPhaseRows, BufferRows, SentRows, RowsAccounted, RetryRows,
        Dirs, MainDirs, RootDir, MainStates, InjStates, Results
<1>1. CASE RootGetMD
  <2>0. mpc = "RootGetMD"
    BY <1>1 DEF RootGetMD
  <2>1. CASE RootDir \in eos
    <3>1. cursor' = 1 /\ last' = NDirs /\ mpc' = "Check"
          /\ UNCHANGED <<retry, dryRun, eos, failedTable, pending, dirs, injHolds,
                         dirsDone, exptr, ipc, result, read, sent, handled,
                         rootPhase>>
      BY <1>1, <2>1 DEF RootGetMD
    <3>2. QED
      BY <2>0, <3>1
  <2>2. CASE RootDir \notin eos
    <3>1. cursor' = 0 /\ last' = 0 /\ rootPhase' /\ mpc' = "Check"
          /\ UNCHANGED <<retry, dryRun, eos, failedTable, pending, dirs, injHolds,
                         dirsDone, exptr, ipc, result, read, sent, handled>>
      BY <1>1, <2>2 DEF RootGetMD
    <3>2. QED
      BY <1>1, <3>1 DEF RootGetMD
  <2>3. QED
    BY <2>1, <2>2
<1>2. CASE MainCheck
  BY <1>2 DEF MainCheck
<1>3. CASE MainRead
  <2>0. /\ mpc = "Read"
        /\ UNCHANGED <<retry, dryRun, eos, failedTable, last, dirs, injHolds,
                       exptr, ipc, result, sent, handled, rootPhase>>
    BY <1>3 DEF MainRead
  <2>1. CASE NextBatch # {} /\ mpc' = "Append"
    <3>1. /\ pending' = NextBatch /\ cursor' = BatchEnd + 1
          /\ read' = read \cup NextBatch /\ dirsDone' = dirsDone
      BY <1>3, <2>1 DEF MainRead
    <3>2. NextBatch = cursor..BatchEnd /\ BatchEnd \in cursor..last
      BY <2>1 DEF NextBatch, BatchEnd
    <3>3. QED
      BY <2>0, <2>1, <3>1, <3>2
  <2>2. CASE NextBatch = {}
    <3>1. /\ mpc' \in {"WaitRoot", "Join"} /\ (mpc' = "WaitRoot" <=> rootPhase)
          /\ dirsDone' \in BOOLEAN
          /\ UNCHANGED <<cursor, pending, read>>
      BY <1>3, <2>2 DEF MainRead
    <3>2. QED
      BY <2>0, <3>1
  <2>3. CASE NextBatch # {} /\ mpc' # "Append"
    <3>1. mpc' = "JoinThrow" /\ dirsDone' /\ UNCHANGED <<cursor, pending, read>>
      BY <1>3, <2>3 DEF MainRead
    <3>2. QED
      BY <2>0, <3>1
  <2>4. QED
    BY <2>1, <2>2, <2>3
<1>4. CASE MainAppend
  BY <1>4 DEF MainAppend
<1>5. CASE WaitRoot
  BY <1>5 DEF WaitRoot
<1>6. CASE RootCheck
  <2>1. rootPhase /\ last = RootDir /\ read \subseteq {RootDir}
    BY <1>6 DEF RootCheck
  <2>2. /\ cursor' \in {1, cursor} /\ last' \in {NDirs, last} /\ rootPhase' = FALSE
        /\ mpc' \in {"Check", "JoinThrow"} /\ dirsDone' \in BOOLEAN
        /\ UNCHANGED <<retry, dryRun, eos, failedTable, pending, dirs, injHolds,
                       exptr, ipc, result, read, sent, handled>>
    BY <1>6 DEF RootCheck
  <2>3. TypeOK'
    <3>1. cursor' \in 0..NDirs + 1 /\ last' \in 0..NDirs
      BY <2>2
    <3>2. rootPhase' \in BOOLEAN /\ mpc' \in MainStates /\ dirsDone' \in BOOLEAN
      BY <2>2
    <3>3. QED
      BY <3>1, <3>2, <2>2
  <2>4. ReadBelowCursor'
    BY <2>1, <2>2
  <2>5. QED
    BY <2>2, <2>3, <2>4
<1>7. CASE Join
  BY <1>7 DEF Join
<1>8. CASE InjLock
  BY <1>8 DEF InjLock
<1>9. CASE InjEmpty
  BY <1>9 DEF InjEmpty
<1>10. CASE InjBatch
  <2>0. /\ ipc = "Body" /\ dirs # {}
        /\ sent' = [d \in Dirs |-> IF d \in dirs THEN sent[d] + 1 ELSE sent[d]]
        /\ injHolds' = FALSE
        /\ UNCHANGED <<retry, dryRun, cursor, last, pending, dirsDone, mpc,
                       result, read, rootPhase>>
    BY <1>10 DEF InjBatch
  <2>1. \A d \in dirs : sent[d] = 0
    BY <2>0
  <2>2. InjectedOnce' /\ sent' \in [Dirs -> Nat]
    BY <2>0, <2>1
  <2>3. PICK rc \in Replies(dirs), same \in SUBSET dirs :
          \/ /\ eos' = eos \cup {d \in dirs : rc[d] = "ok"}
             /\ failedTable' = IF retry \/ {d \in dirs : rc[d] # "ok"} # {}
                                 THEN SavedFailures(dirs, rc, same)
                                 ELSE failedTable
             /\ dirs' = {}
             /\ handled' = handled \cup dirs
             /\ ipc' = "Top"
             /\ UNCHANGED exptr
          \/ /\ \E part \in SUBSET dirs : eos' = eos \cup part
             /\ exptr' = TRUE
             /\ ipc' = "Returned"
             /\ UNCHANGED <<failedTable, dirs, handled>>
    BY <1>10 DEF InjBatch
  <2>4. rc \in [dirs -> Retc] /\ \A d \in dirs : rc[d] = "EINVAL" => d \in eos
    BY RepliesEINVAL
  <2>5. CASE dirs' = {}
    <3>1. /\ eos' = eos \cup {d \in dirs : rc[d] = "ok"}
          /\ failedTable' = IF retry \/ {d \in dirs : rc[d] # "ok"} # {}
                              THEN SavedFailures(dirs, rc, same)
                              ELSE failedTable
          /\ handled' = handled \cup dirs
          /\ ipc' = "Top"
          /\ UNCHANGED exptr
      BY <2>0, <2>3, <2>5
    <3>2. retry => RowsAccounted' /\ RetryRows' /\ failedTable' \subseteq Dirs
      <4>0. SUFFICES ASSUME retry PROVE RowsAccounted' /\ RetryRows' /\ failedTable' \subseteq Dirs
        OBVIOUS
      <4>1. failedTable' = failedTable \ {d \in dirs : rc[d] = "ok" \/ (rc[d] = "EINVAL" /\ d \in same)}
        BY <3>1, <4>0 DEF SavedFailures
      <4>2. RetryRows'
        BY <3>1, <4>0, <4>1
      <4>3. RowsAccounted'
        <5>1. SUFFICES ASSUME NEW d \in handled' \cap MainDirs
                       PROVE  d \in eos' \cup failedTable'
          BY DEF RowsAccounted
        <5>2. CASE d \in dirs /\ (rc[d] = "ok" \/ (rc[d] = "EINVAL" /\ d \in same))
          BY <2>4, <3>1, <5>2
        <5>3. CASE ~(d \in dirs /\ (rc[d] = "ok" \/ (rc[d] = "EINVAL" /\ d \in same)))
          <6>1. d \in eos \cup failedTable
            BY <3>1, <4>0, <5>1
          <6>2. QED
            BY <3>1, <4>1, <5>3, <6>1
        <5>4. QED
          BY <5>2, <5>3
      <4>4. QED
        BY <3>1, <4>1, <4>2, <4>3
    <3>3. ~retry => RowsAccounted' /\ RetryRows' /\ failedTable' \subseteq Dirs
      <4>0. SUFFICES ASSUME ~retry PROVE RowsAccounted' /\ RetryRows' /\ failedTable' \subseteq Dirs
        OBVIOUS
      <4>1. failedTable' = failedTable \cup {d \in dirs : rc[d] # "ok"}
        BY <3>1, <4>0 DEF SavedFailures
      <4>2. RowsAccounted'
        <5>1. SUFFICES ASSUME NEW d \in handled' \cap MainDirs
                       PROVE  d \in eos' \cup failedTable'
          BY DEF RowsAccounted
        <5>2. CASE d \in dirs
          BY <3>1, <4>1, <5>2
        <5>3. CASE d \notin dirs
          BY <3>1, <4>1, <5>1, <5>3
        <5>4. QED
          BY <5>2, <5>3
      <4>3. QED
        BY <2>0, <3>1, <4>0, <4>1, <4>2
    <3>4. RowsAccounted' /\ RetryRows' /\ failedTable' \subseteq Dirs
      BY <3>2, <3>3
    <3>5. SentRows'
      <4>1. SUFFICES ASSUME NEW d \in Dirs, sent'[d] = 1
                     PROVE  d \in read' /\ d \notin pending' /\ (d \in dirs' => ipc' = "Returned")
        BY DEF SentRows
      <4>2. CASE d \in dirs
        BY <2>0, <2>5, <4>2
      <4>3. CASE d \notin dirs
        BY <2>0, <2>5, <4>1, <4>3
      <4>4. QED
        BY <4>2, <4>3
    <3>6. TypeOK'
      BY <2>0, <2>2, <3>1, <3>4, <2>5
    <3>7. QED
      BY <2>0, <2>2, <2>5, <3>1, <3>4, <3>5, <3>6
  <2>6. CASE dirs' # {}
    <3>1. /\ \E part \in SUBSET dirs : eos' = eos \cup part
          /\ exptr' = TRUE
          /\ ipc' = "Returned"
          /\ UNCHANGED <<failedTable, dirs, handled>>
      BY <2>0, <2>3, <2>6
    <3>2. eos \subseteq eos' /\ eos' \subseteq Dirs
      BY <3>1
    <3>3. QED
      BY <2>0, <2>2, <3>1, <3>2
  <2>7. QED
    BY <2>5, <2>6
<1>11. CASE UNCHANGED vars
  BY <1>11 DEF vars
<1>12. QED
  BY <1>1, <1>2, <1>3, <1>4, <1>5, <1>6, <1>7, <1>8, <1>9, <1>10, <1>11 DEF Next

-----------------------------------------------------------------------------
LEMMA InitRInv == Init => RInv
BY DEF Init, RInv, PendingLatest, PendingOnlyInAppend, SentInOrder,
       ReadSentOrBuffered, DoneMeansEnding, InjectorStops, MainPhase,
       RootCheckDrained

\* A directory in the buffer of a running injection thread was never sent.
LEMMA BufferUnsent ==
  ASSUME IInv, ipc # "Returned", NEW d \in dirs
  PROVE  sent[d] = 0
BY DEF IInv, TypeOK, InjectedOnce, SentRows, BufferRows, Dirs

LEMMA NextRInv == IInv /\ RInv /\ [Next]_vars => RInv'
<1> SUFFICES ASSUME IInv, RInv, [Next]_vars PROVE RInv'
  OBVIOUS
<1> USE ImportAssumption
    DEF IInv, TypeOK, InjectedOnce, ReadBelowCursor, NothingReadYet,
        RootPhaseRows, BufferRows, SentRows, RowsAccounted, RetryRows,
        RInv, PendingLatest, PendingOnlyInAppend, SentInOrder,
        ReadSentOrBuffered, DoneMeansEnding, InjectorStops, MainPhase,
        RootCheckDrained, Dirs, MainDirs, RootDir, MainStates, InjStates, Results
<1>1. CASE RootGetMD
  BY <1>1 DEF RootGetMD
<1>2. CASE MainCheck
  BY <1>2 DEF MainCheck
<1>3. CASE MainRead
  <2>1. CASE NextBatch # {} /\ mpc' = "Append"
    <3>1. /\ pending' = cursor..BatchEnd /\ cursor' = BatchEnd + 1
          /\ read' = read \cup (cursor..BatchEnd) /\ mpc' = "Append"
          /\ BatchEnd \in cursor..last
          /\ UNCHANGED <<retry, dryRun, eos, failedTable, last, dirs, injHolds,
                         dirsDone, exptr, ipc, result, sent, handled, rootPhase>>
      BY <1>3, <2>1 DEF MainRead, NextBatch, BatchEnd
    <3>2. mpc = "Read" /\ pending = {}
      BY <1>3 DEF MainRead
    <3>3. PendingLatest' /\ SentInOrder' /\ ReadSentOrBuffered'
      BY <3>1, <3>2
    <3>4. MainPhase'
      BY <3>1, <3>2
    <3>5. QED
      BY <3>1, <3>2, <3>3, <3>4
  <2>2. CASE NextBatch = {}
    <3>1. /\ mpc = "Read"
          /\ rootPhase => mpc' = "WaitRoot" /\ dirsDone' = dirsDone
          /\ ~rootPhase => mpc' = "Join" /\ dirsDone' = TRUE
          /\ UNCHANGED <<retry, dryRun, eos, failedTable, cursor, last, pending,
                         read, dirs, injHolds, exptr, ipc, result, sent, handled,
                         rootPhase>>
      BY <1>3, <2>2 DEF MainRead
    <3>2. ~rootPhase /\ BatchSize # 0 => MainDirs \subseteq read
      <4>1. ~rootPhase /\ BatchSize # 0 => cursor > NDirs
        BY <2>2, <3>1 DEF NextBatch, BatchEnd
      <4>2. QED
        BY <3>1, <4>1
    <3>3. QED
      BY <3>1, <3>2
  <2>3. CASE NextBatch # {} /\ mpc' # "Append"
    <3>1. /\ mpc = "Read" /\ mpc' = "JoinThrow" /\ dirsDone'
          /\ UNCHANGED <<retry, dryRun, eos, failedTable, cursor, last, pending,
                         read, dirs, injHolds, exptr, ipc, result, sent, handled,
                         rootPhase>>
      BY <1>3, <2>3 DEF MainRead
    <3>2. QED
      BY <3>1
  <2>4. QED
    BY <2>1, <2>2, <2>3
<1>4. CASE MainAppend
  BY <1>4 DEF MainAppend
<1>5. CASE WaitRoot
  BY <1>5 DEF WaitRoot
<1>6. CASE RootCheck
  BY <1>6 DEF RootCheck
<1>7. CASE Join
  BY <1>7 DEF Join
<1>8. CASE InjLock
  BY <1>8 DEF InjLock
<1>9. CASE InjEmpty
  BY <1>9 DEF InjEmpty
<1>10. CASE InjBatch
  <2>0. /\ ipc = "Body" /\ dirs # {}
        /\ sent' = [d \in Dirs |-> IF d \in dirs THEN sent[d] + 1 ELSE sent[d]]
        /\ UNCHANGED <<retry, dryRun, cursor, last, pending, dirsDone, mpc,
                       result, read, rootPhase>>
    BY <1>10 DEF InjBatch
  <2>1. \A d \in dirs : sent'[d] = 1
    BY <2>0, BufferUnsent
  <2>2. \A d \in Dirs : d \notin dirs => sent'[d] = sent[d]
    BY <2>0, Zenon
  <2>3. ~exptr /\ mpc \notin {"Exit", "RootCheck"}
    <3>1. ~exptr /\ mpc # "Exit"
      BY <2>0
    <3>2. mpc # "RootCheck"
      BY <2>0, <3>1
    <3>3. QED
      BY <3>1, <3>2
  <2>4. eos \subseteq eos'
    BY <1>10 DEF InjBatch
  <2>5. \/ dirs' = {} /\ ipc' = "Top" /\ UNCHANGED exptr
        \/ dirs' = dirs /\ ipc' = "Returned" /\ exptr'
    BY <1>10 DEF InjBatch
  <2>6. CASE dirs' = {} /\ ipc' = "Top" /\ UNCHANGED exptr
    <3>1. SentInOrder'
      <4>1. SUFFICES ASSUME NEW i \in Dirs, NEW b \in pending, sent'[i] = 1
                     PROVE  i < b
        BY <2>0, <2>6
      <4>2. CASE i \in dirs
        <5>1. i \in read \ pending
          BY <4>2
        <5>2. QED
          BY <4>1, <5>1, Zenon
      <4>3. CASE i \notin dirs
        BY <2>0, <2>2, <4>1, <4>3
      <4>4. QED
        BY <4>2, <4>3
    <3>2. ReadSentOrBuffered'
      BY <2>0, <2>1, <2>2, <2>6
    <3>3. QED
      BY <2>0, <2>3, <2>4, <2>6, <3>1, <3>2
  <2>7. CASE dirs' = dirs /\ ipc' = "Returned" /\ exptr'
    <3>1. ReadSentOrBuffered'
      BY <2>0, <2>2, <2>7
    <3>2. QED
      BY <2>0, <2>3, <2>4, <2>7, <3>1
  <2>8. QED
    BY <2>5, <2>6, <2>7
<1>11. CASE UNCHANGED vars
  BY <1>11 DEF vars
<1>12. QED
  BY <1>1, <1>2, <1>3, <1>4, <1>5, <1>6, <1>7, <1>8, <1>9, <1>10, <1>11 DEF Next

-----------------------------------------------------------------------------
(* The refinement onto ImportBatches.                                      *)

\* The directories sent so far, the injected set of ImportBatches.
Injected == {d \in Dirs : sent[d] > 0}

LEMMA InitRefines == Init => Abstract!Init
<1> SUFFICES ASSUME Init PROVE Abstract!Init
  OBVIOUS
<1>1. Injected = {}
  BY DEF Init, Injected
<1>2. ~Failed
  BY DEF Init, Failed
<1>3. QED
  BY <1>1, <1>2 DEF Init, Injected, Abstract!Init, Dirs, MainDirs, RootDir,
                    Abstract!Dirs, Abstract!MainDirs, Abstract!RootDir

\* The steps that leave EOS, the failed table, sent, m_exptr, the exit
\* status and whether main has failed alone are stutters of ImportBatches.
LEMMA StutterRefines ==
  ASSUME UNCHANGED <<eos, failedTable, sent, exptr, result>>, Failed' = Failed
  PROVE  UNCHANGED Abstract!vars
BY DEF Abstract!vars

\* A step of main into its catch(...) that changes nothing else is an error
\* of ImportBatches.
LEMMA ThrowRefines ==
  ASSUME UNCHANGED <<eos, failedTable, sent, exptr, result>>,
         result = "none", mpc # "JoinThrow", mpc' = "JoinThrow"
  PROVE  Abstract!Error
BY DEF Abstract!Error, Failed

\* One ContainerInsert call of grpcInject() is a batch of ImportBatches.
LEMMA InjBatchRefines ==
  ASSUME IInv, RInv, IInv', InjBatch
  PROVE  Abstract!Next
<1> USE ImportAssumption
<1>0. /\ ipc = "Body" /\ dirs # {} /\ dirs \subseteq Dirs
      /\ sent' = [d \in Dirs |-> IF d \in dirs THEN sent[d] + 1 ELSE sent[d]]
      /\ UNCHANGED result /\ Failed' = Failed
  BY DEF InjBatch, IInv, TypeOK, Failed
<1>1. Injected' = Injected \cup dirs
  <2>1. \A d \in dirs : sent[d] = 0
    BY <1>0, BufferUnsent
  <2>2. sent \in [Dirs -> Nat]
    BY DEF IInv, TypeOK
  <2>3. QED
    BY <1>0, <2>1, <2>2 DEF Injected
<1>2. Abstract!Sendable(dirs)
  <2>1. result = "none" /\ ~exptr
    BY <1>0 DEF RInv, InjectorStops
  <2>2. dirs \cap Injected = {}
    BY <1>0, BufferUnsent DEF Injected
  <2>3. \A i \in Injected, b \in dirs : i < b
    <3>1. SUFFICES ASSUME NEW i \in Injected, NEW b \in dirs PROVE i < b
      OBVIOUS
    <3>2. sent[i] = 1
      BY DEF Injected, IInv, TypeOK, InjectedOnce
    <3>3. QED
      BY <1>0, <3>2 DEF Injected, RInv, SentInOrder
  <2>4. QED
    BY <1>0, <2>1, <2>2, <2>3 DEF Abstract!Sendable, Injected
<1>3. PICK rc \in Replies(dirs), same \in SUBSET dirs :
        LET inserted == {d \in dirs : rc[d] = "ok"}
            errors == {d \in dirs : rc[d] # "ok"}
        IN  \/ /\ eos' = eos \cup inserted
               /\ failedTable' = IF retry \/ errors # {}
                                   THEN SavedFailures(dirs, rc, same)
                                   ELSE failedTable
               /\ dirs' = {}
               /\ handled' = handled \cup dirs
               /\ UNCHANGED exptr
            \/ /\ \E part \in SUBSET inserted : eos' = eos \cup part
               /\ exptr' = TRUE
               /\ UNCHANGED failedTable
  BY DEF InjBatch
<1>4. CASE /\ eos' = eos \cup {d \in dirs : rc[d] = "ok"}
           /\ failedTable' = IF retry \/ {d \in dirs : rc[d] # "ok"} # {}
                               THEN SavedFailures(dirs, rc, same)
                               ELSE failedTable
           /\ dirs' = {}
           /\ handled' = handled \cup dirs
           /\ UNCHANGED exptr
  <2>1. failedTable' \ dirs = failedTable \ dirs
    <3>1. CASE retry
      <4>1. failedTable' = failedTable
              \ {d \in dirs : rc[d] = "ok" \/ (rc[d] = "EINVAL" /\ d \in same)}
        BY <1>4, <3>1 DEF SavedFailures
      <4>2. QED
        BY <4>1
    <3>2. CASE ~retry
      <4>1. \/ failedTable' = failedTable \cup {d \in dirs : rc[d] # "ok"}
            \/ failedTable' = failedTable
        BY <1>4, <3>2 DEF SavedFailures
      <4>2. QED
        BY <4>1
    <3>3. QED
      BY <3>1, <3>2
  <2>2. dirs \cap MainDirs \subseteq eos' \cup failedTable'
    <3>1. handled' = handled \cup dirs
      BY <1>4
    <3>2. RowsAccounted'
      BY DEF IInv
    <3>3. QED
      BY <3>1, <3>2 DEF RowsAccounted
  <2>3. failedTable' \subseteq Dirs
    BY DEF IInv, TypeOK
  <2>4. Abstract!Inject(dirs)
    BY <1>0, <1>1, <1>2, <1>4, <2>1, <2>2, <2>3
       DEF Abstract!Inject, Abstract!Grows, Injected, Abstract!Dirs, Dirs,
           Abstract!MainDirs, MainDirs, Abstract!RootDir, RootDir
  <2>5. dirs \in SUBSET Abstract!Dirs
    BY <1>0 DEF Dirs, Abstract!Dirs, MainDirs, Abstract!MainDirs,
                RootDir, Abstract!RootDir
  <2>6. \E B \in SUBSET Abstract!Dirs : Abstract!Inject(B)
    BY <2>4, <2>5 DEF Abstract!Inject, Abstract!Sendable, Abstract!Grows
  <2>7. QED
    BY <2>6, Zenon DEF Abstract!Next
<1>5. CASE /\ \E part \in SUBSET {d \in dirs : rc[d] = "ok"} : eos' = eos \cup part
           /\ exptr' = TRUE
           /\ UNCHANGED failedTable
  <2>1. Abstract!Fail(dirs)
    BY <1>0, <1>1, <1>2, <1>5 DEF Abstract!Fail, Abstract!Grows, Injected
  <2>2. dirs \in SUBSET Abstract!Dirs
    BY <1>0 DEF Dirs, Abstract!Dirs, MainDirs, Abstract!MainDirs,
                RootDir, Abstract!RootDir
  <2>3. \E B \in SUBSET Abstract!Dirs : Abstract!Fail(B)
    BY <2>1, <2>2 DEF Abstract!Fail, Abstract!Sendable, Abstract!Grows
  <2>4. QED
    BY <2>3, Zenon DEF Abstract!Next
<1>6. QED
  BY <1>3, <1>4, <1>5

\* grpcInjectThread.join() and the return of main is the exit of
\* ImportBatches, when getNextBatch() reads at least one row at a time.
LEMMA JoinRefines ==
  ASSUME IInv, RInv, Join, BatchSize # 0
  PROVE  Abstract!Finish
<1>0. /\ mpc \in {"Join", "JoinThrow"} /\ ipc = "Returned" /\ mpc' = "Exit"
      /\ result' = IF mpc = "Join" THEN "success" ELSE "failure"
      /\ UNCHANGED <<eos, failedTable, sent, exptr>>
  BY DEF Join
<1>1. result = "none"
  BY <1>0 DEF RInv, InjectorStops
<1>2. mpc = "Join" => RootDir \in eos /\ (MainDirs \subseteq Injected \/ exptr)
  <2>1. SUFFICES ASSUME mpc = "Join", ~exptr
                 PROVE  RootDir \in eos /\ MainDirs \subseteq Injected
    BY DEF RInv, MainPhase
  <2>2. dirs = {} /\ pending = {} /\ MainDirs \subseteq read /\ RootDir \in eos
    BY <1>0, <2>1 DEF RInv, InjectorStops, PendingOnlyInAppend, MainPhase
  <2>3. \A d \in read : sent[d] = 1
    BY <2>2 DEF RInv, ReadSentOrBuffered
  <2>4. QED
    BY <2>2, <2>3 DEF Injected, MainDirs, Dirs
<1>3. Failed <=> mpc = "JoinThrow"
  BY <1>0, <1>1 DEF Failed
<1>4. Failed' = Failed
  BY <1>0, <1>3 DEF Failed
<1>5. QED
  BY <1>0, <1>1, <1>2, <1>3, <1>4
     DEF Abstract!Finish, Injected, Abstract!MainDirs, MainDirs,
         Abstract!RootDir, RootDir

\* Every step of the import is a step of ImportBatches or leaves its
\* variables unchanged, for every batch size but 0.
LEMMA NextRefines ==
  ASSUME BatchSize # 0
  PROVE  IInv /\ RInv /\ IInv' /\ [Next]_vars => [Abstract!Next]_Abstract!vars
<1> SUFFICES ASSUME IInv, RInv, IInv', [Next]_vars
             PROVE  [Abstract!Next]_Abstract!vars
  OBVIOUS
<1>1. CASE InjBatch
  BY <1>1, InjBatchRefines
<1>2. CASE Join
  BY <1>2, JoinRefines DEF Abstract!Next
<1>3. CASE UNCHANGED vars
  BY <1>3, StutterRefines DEF vars, Failed
<1>4. CASE \/ RootGetMD \/ MainAppend \/ InjLock \/ InjEmpty
  <2>1. UNCHANGED <<eos, failedTable, sent, exptr, result>>
    BY <1>4 DEF RootGetMD, MainAppend, InjLock, InjEmpty
  <2>2. (mpc' = "JoinThrow") <=> (mpc = "JoinThrow")
    BY <1>4 DEF RootGetMD, MainAppend, InjLock, InjEmpty
  <2>3. QED
    BY <2>1, <2>2, StutterRefines DEF Failed
<1>5. CASE \/ MainCheck \/ MainRead \/ WaitRoot \/ RootCheck
  <2>1. UNCHANGED <<eos, failedTable, sent, exptr, result>>
    BY <1>5 DEF MainCheck, MainRead, WaitRoot, RootCheck
  <2>2. mpc \in {"Check", "Read", "WaitRoot", "RootCheck"}
    BY <1>5 DEF MainCheck, MainRead, WaitRoot, RootCheck
  <2>3. result = "none"
    BY <2>2 DEF RInv, InjectorStops
  <2>4. CASE mpc' = "JoinThrow"
    BY <2>1, <2>2, <2>3, <2>4, ThrowRefines DEF Abstract!Next
  <2>5. CASE mpc' # "JoinThrow"
    BY <2>1, <2>2, <2>5, StutterRefines DEF Failed
  <2>6. QED
    BY <2>4, <2>5
<1>6. QED
  BY <1>1, <1>2, <1>3, <1>4, <1>5 DEF Next

-----------------------------------------------------------------------------
\* IInv holds in every state of every behaviour of the import.
THEOREM IInvariant == Spec => []IInv
BY InitIInv, NextIInv, PTL DEF Spec

\* Every variable of the import keeps its type.
THEOREM TypeCorrect == Spec => []TypeOK
<1>1. IInv => TypeOK
  BY DEF IInv
<1>2. QED
  BY IInvariant, <1>1, PTL

\* grpcInject() never sends a directory to EOS twice, whatever the number of
\* directories, the batch size, the mode and the failures of ContainerInsert
\* and saveFailedDirs().
THEOREM NoDoubleInjection == Spec => []InjectedOnce
<1>1. IInv => InjectedOnce
  BY DEF IInv
<1>2. QED
  BY IInvariant, <1>1, PTL

\* Every directory of the main query that grpcInject() has cleared from
\* m_dirs is in EOS or recorded by saveFailedDirs() in CTADIRSFAILED, in
\* normal, retry and dry-run mode.
THEOREM FailuresRecorded == Spec => []RowsAccounted
<1>1. IInv => RowsAccounted
  BY DEF IInv
<1>2. QED
  BY IInvariant, <1>1, PTL


\* For every number of directories and every batch size but 0, the two
\* threads of the directory import, the shared buffer m_dirs and the batches
\* of getNextBatch() implement ImportBatches: grpcInject() sends each batch
\* after all it sent before, a failed injection stops it, and main exits
\* with "failure" only after an error in either thread and with "success"
\* only with no error in main, the top-level directory in EOS, and every
\* directory sent unless an injection failed.
THEOREM ImportRefinement ==
  ASSUME BatchSize # 0
  PROVE  Spec => ImplementsImportBatches
<1>1. Spec => [](IInv /\ RInv)
  <2>1. Init => IInv /\ RInv
    BY InitIInv, InitRInv
  <2>2. IInv /\ RInv /\ [Next]_vars => (IInv /\ RInv)'
    BY NextIInv, NextRInv
  <2>3. QED
    BY <2>1, <2>2, PTL DEF Spec
<1>2. IInv /\ RInv /\ IInv' /\ [Next]_vars => [Abstract!Next]_Abstract!vars
  BY NextRefines
<1>3. QED
  BY <1>1, <1>2, InitRefines, PTL DEF Spec, ImplementsImportBatches, Abstract!Spec

====
