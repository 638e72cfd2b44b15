------------------------ MODULE EosImportFilesProofs ------------------------
(***************************************************************************)
(* Proofs about the file import (EosImportFiles): the type invariant, no   *)
(* file sent twice, --skip dropping exactly a prefix of the rows, and every *)
(* file finished with in EOS or in CTAFILESFAILED, for every number of      *)
(* files, batch size and --skip.                                           *)
(***************************************************************************)
EXTENDS EosImportFiles, WellFoundedInduction, TLAPS

\* The rows m, m+1, ..., m+n-1, in order: what getNextBatch() returns and,
\* appended one after the other, what m_files holds.
Interval(m, n) == [i \in 1..n |-> m + i - 1]

\* The first row not yet taken from m_files by the injection thread: the
\* rows read are 1..cursor-1, the last Len(pending) of them pending and the
\* Len(files) before them buffered.
Front == cursor - Len(pending) - Len(files)

\* The pending batch is the last rows read; only MainAppend holds one.
PendingRows ==
  /\ Len(pending) <= cursor - 1
  /\ pending = Interval(cursor - Len(pending), Len(pending))
  /\ mpc # "Append" => pending = <<>>

\* While the injection thread runs, m_files holds the rows just before the
\* pending batch, and none of the rows from Front on has been sent.
BufferRows ==
  ipc # "Returned" =>
    /\ Front >= 1
    /\ files = Interval(Front, Len(files))
    /\ \A f \in Files : f >= Front => sent[f] = 0

\* The rows skipped are the first skipArg - skip; while the injection
\* thread runs they are the rows before Front as long as rows are left to
\* skip, and lie before Front once m_skip is spent.
SkipRows ==
  /\ skipped = 1..(skipArg - skip)
  /\ ipc # "Returned" =>
       /\ skipArg - skip <= Front - 1
       /\ skip > 0 => skipArg - skip = Front - 1

\* The rows handled or pruned come after the skipped prefix.
AfterSkip == \A f \in handled \cup pruned : f > skipArg

\* A retry keeps every file in CTAFILESFAILED until it exists in EOS.
RetryRows == retry => Files \subseteq failedTable \cup eos

IInv ==
  /\ TypeOK
  /\ PendingRows
  /\ BufferRows
  /\ SkipRows
  /\ AfterSkip
  /\ InjectedOnce
  /\ RowsAccounted
  /\ RetryRows

-----------------------------------------------------------------------------
(* Lemmas about the operators the model is built from.                     *)

\* The rows of a sequence over R lie in R.
LEMMA RowsIn ==
  ASSUME NEW R, NEW t \in Seq(R)
  PROVE  Rows(t) \subseteq R
BY DEF Rows

\* pruneExistingFiles() returns a sequence of files of its argument.  The
\* loop is a recursive function over 0..Len(s): the library's theorem on
\* such definitions gives its equation, and the least i whose kept[i] would
\* hold another value contradicts that equation.
LEMMA PruneRows ==
  ASSUME NEW S, NEW s \in Seq(S)
  PROVE  PruneExistingFiles(s) \in Seq(Rows(s))
<1>. DEFINE Def(v, i) == IF CompareMD(s[i]) THEN Append(v, s[i]) ELSE v
            kept == PruneSteps(s)
            Bad == {n \in 0..Len(s) : kept[n] \notin Seq(Rows(s))}
<1>1. Len(s) \in Nat
  OBVIOUS
<1>2. FiniteNatInductiveDefHypothesis(kept, <<>>, Def, 0, Len(s))
  BY DEF FiniteNatInductiveDefHypothesis, PruneSteps
<1>3. FiniteNatInductiveDefConclusion(kept, <<>>, Def, 0, Len(s))
  BY <1>1, <1>2, FiniteNatInductiveDef
<1>4. kept[0] = <<>> /\ <<>> \in Seq(Rows(s))
  BY <1>1, <1>3 DEF FiniteNatInductiveDefConclusion
<1>5. ASSUME NEW n \in 1..Len(s) PROVE kept[n] = Def(kept[n - 1], n)
  <2>1. kept = [i \in 0..Len(s) |-> IF i = 0 THEN <<>> ELSE Def(kept[i - 1], i)]
    BY <1>3 DEF FiniteNatInductiveDefConclusion
  <2>2. n \in 0..Len(s) /\ n # 0
    BY <1>1
  <2>3. QED
    BY <2>1, <2>2, Zenon
<1>6. \A v \in Seq(Rows(s)), i \in 1..Len(s) : Def(v, i) \in Seq(Rows(s))
  BY DEF Rows
<1>7. Bad = {}
  <2>. SUFFICES ASSUME Bad # {} PROVE FALSE
    OBVIOUS
  <2>1. Bad \subseteq Nat
    BY DEF Bad
  <2>2. PICK x \in Bad : \A y \in Bad : ~(<<y, x>> \in OpToRel(<, Nat))
    BY <2>1, WFMin, NatLessThanWellFounded
  <2>3. x \in 0..Len(s) /\ kept[x] \notin Seq(Rows(s))
    BY <2>2 DEF Bad
  <2>4. x - 1 \in 0..Len(s) /\ x \in 1..Len(s)
    <3>1. x # 0
      BY <2>3, <1>4
    <3>2. QED
      BY <2>3, <3>1, <1>1
  <2>5. <<x - 1, x>> \in OpToRel(<, Nat)
    BY <2>4, <1>1 DEF OpToRel
  <2>6. kept[x - 1] \in Seq(Rows(s))
    BY <2>2, <2>4, <2>5 DEF Bad
  <2>7. QED
    BY <2>3, <2>4, <2>6, <1>5, <1>6
<1>8. QED
  BY <1>1, <1>7 DEF PruneExistingFiles, Bad

\* A sequence over a subset is a sequence over the set.
LEMMA SeqSubset ==
  ASSUME NEW S, NEW T, S \subseteq T
  PROVE  Seq(S) \subseteq Seq(T)
<1> SUFFICES ASSUME NEW t \in Seq(S) PROVE t \in Seq(T)
  OBVIOUS
<1>1. t \in [1..Len(t) -> S] /\ Len(t) \in Nat
  OBVIOUS
<1>2. QED
  BY <1>1

\* An interval is a sequence of its rows, of the length given.
LEMMA IntervalType ==
  ASSUME NEW m \in Int, NEW n \in Nat
  PROVE  /\ Interval(m, n) \in Seq(m..(m + n - 1))
         /\ Len(Interval(m, n)) = n
         /\ Rows(Interval(m, n)) = m..(m + n - 1)
<1>1. Interval(m, n) \in [1..n -> m..(m + n - 1)]
  BY DEF Interval
<1>2. Interval(m, n) \in Seq(m..(m + n - 1)) /\ Len(Interval(m, n)) = n
  BY <1>1 DEF Interval
<1>3. Rows(Interval(m, n)) = m..(m + n - 1)
  <2>1. ASSUME NEW r \in m..(m + n - 1) PROVE r \in Rows(Interval(m, n))
    <3>1. r - m + 1 \in 1..n /\ Interval(m, n)[r - m + 1] = r
      BY DEF Interval
    <3>2. QED
      BY <3>1, <1>2 DEF Rows
  <2>2. QED
    BY <2>1, <1>1, <1>2 DEF Rows
<1>4. QED
  BY <1>2, <1>3

\* getNextBatch()'s batch appended to a buffer that ends just before it.
LEMMA IntervalConcat ==
  ASSUME NEW m \in Int, NEW n \in Nat, NEW k \in Nat
  PROVE  Interval(m, n) \o Interval(m + n, k) = Interval(m, n + k)
BY DEF Interval

\* The first k rows of an interval, and the rest.
LEMMA IntervalSplit ==
  ASSUME NEW m \in Int, NEW n \in Nat, NEW k \in 0..n
  PROVE  /\ SubSeq(Interval(m, n), 1, k) = Interval(m, k)
         /\ SubSeq(Interval(m, n), k + 1, n) = Interval(m + k, n - k)
BY DEF Interval

-----------------------------------------------------------------------------
(* The inductive invariant.                                                *)

LEMMA InitIInv == Init => IInv
<1> SUFFICES ASSUME Init PROVE IInv
  OBVIOUS
<1> USE FilesAssumption
<1>1. TypeOK
  <2>1. skipArg \in 0..MaxSkip /\ skip \in 0..skipArg
    BY DEF Init
  <2>2. eos \subseteq Files /\ mismatch \subseteq Files /\ failedTable \subseteq Files
    BY DEF Init
  <2>3. cursor \in 1..NFiles + 1 /\ last \in 0..NFiles
    BY DEF Init
  <2>4. pending \in Seq(Files) /\ files \in Seq(Files) /\ sent \in [Files -> Nat]
    BY DEF Init
  <2>5. mpc \in MainStates /\ ipc \in InjStates /\ result \in Results
    BY DEF Init, MainStates, InjStates, Results
  <2>6. QED
    BY <2>1, <2>2, <2>3, <2>4, <2>5 DEF Init, TypeOK
<1>2. Interval(1, 0) = <<>>
  BY DEF Interval
<1>3. PendingRows /\ BufferRows
  BY <1>2 DEF Init, PendingRows, BufferRows, Front
<1>4. SkipRows
  <2>1. skipArg - skip = 0 /\ skipped = {}
    BY <1>1 DEF Init, TypeOK
  <2>2. Front = 1
    BY DEF Init, Front
  <2>3. QED
    BY <2>1, <2>2 DEF SkipRows
<1>5. AfterSkip /\ InjectedOnce /\ RowsAccounted /\ RetryRows
  BY DEF Init, AfterSkip, InjectedOnce, RowsAccounted, RetryRows
<1>6. QED
  BY <1>1, <1>3, <1>4, <1>5 DEF IInv

\* A step of the main thread that changes neither the buffers nor the rows:
\* it leaves every conjunct of IInv but the control state as it was.
LEMMA MainControlStep ==
  ASSUME IInv,
         mpc' \in MainStates, filesDone' \in BOOLEAN, last' \in 0..NFiles,
         result' \in Results,
         mpc # "Append", mpc' # "Append",
         UNCHANGED <<retry, dryRun, check, skipArg, skip, eos, mismatch,
                     failedTable, cursor, pending, files, injHolds, exptr, ipc,
                     sent, skipped, pruned, handled>>
  PROVE  IInv'
BY DEF IInv, TypeOK, PendingRows, BufferRows, Front, SkipRows, AfterSkip,
       InjectedOnce, RowsAccounted, RetryRows

\* A step of the injection thread that moves only its control state.
LEMMA InjControlStep ==
  ASSUME IInv,
         ipc' \in InjStates, injHolds' \in BOOLEAN,
         ipc' = "Returned" \/ ipc # "Returned",
         UNCHANGED <<retry, dryRun, check, skipArg, skip, eos, mismatch,
                     failedTable, cursor, last, pending, files, filesDone,
                     exptr, mpc, result, sent, skipped, pruned, handled>>
  PROVE  IInv'
BY DEF IInv, TypeOK, PendingRows, BufferRows, Front, SkipRows, AfterSkip,
       InjectedOnce, RowsAccounted, RetryRows

\* getNextBatch(): the batch read is the rows just after those read before,
\* so the buffer and the pending batch stay consecutive.
LEMMA MainReadStep ==
  ASSUME IInv, MainRead
  PROVE  IInv'
<1> USE FilesAssumption
<1>1. CASE cursor <= BatchEnd
  <2> DEFINE n == BatchEnd - cursor + 1
  <2>1. /\ pending' = Interval(cursor, n) /\ cursor' = BatchEnd + 1
        /\ mpc' = "Append"
        /\ UNCHANGED <<retry, dryRun, check, skipArg, skip, eos, mismatch,
                       failedTable, last, files, injHolds, filesDone, exptr,
                       ipc, result, sent, skipped, pruned, handled>>
    BY <1>1 DEF MainRead, Interval
  <2>2. pending = <<>> /\ cursor \in 1..NFiles + 1 /\ last \in 0..NFiles
        /\ files \in Seq(Files)
    BY DEF MainRead, IInv, PendingRows, TypeOK
  <2>3. n \in Nat \ {0} /\ BatchEnd \in cursor..last
    BY <1>1, <2>2 DEF BatchEnd
  <2>4. pending' \in Seq(Files) /\ Len(pending') = n
    <3>0. cursor \in Int /\ n \in Nat
      BY <2>2, <2>3
    <3>1. Interval(cursor, n) \in Seq(cursor..(cursor + n - 1))
          /\ Len(Interval(cursor, n)) = n
      BY <3>0, IntervalType, Zenon
    <3>3. Interval(cursor, n) \in Seq(Files)
      BY <2>2, <2>3 DEF Interval, Files
    <3>4. QED
      BY <2>1, <3>1, <3>3
  <2>5. Front' = Front
    BY <2>1, <2>2, <2>3, <2>4 DEF Front
  <2>6. TypeOK'
    BY <2>1, <2>2, <2>3, <2>4 DEF IInv, TypeOK, MainStates
  <2>7. PendingRows'
    BY <2>1, <2>2, <2>3, <2>4 DEF PendingRows
  <2>8. BufferRows' /\ SkipRows'
    BY <2>1, <2>5 DEF IInv, BufferRows, SkipRows
  <2>9. QED
    BY <2>1, <2>6, <2>7, <2>8
       DEF IInv, AfterSkip, InjectedOnce, RowsAccounted, RetryRows
<1>2. CASE ~(cursor <= BatchEnd)
  <2>1. /\ mpc' = "Join" /\ filesDone' = TRUE
        /\ UNCHANGED <<retry, dryRun, check, skipArg, skip, eos, mismatch,
                       failedTable, cursor, last, pending, files, injHolds,
                       exptr, ipc, result, sent, skipped, pruned, handled>>
    BY <1>2 DEF MainRead
  <2>2. QED
    BY <2>1, MainControlStep DEF MainRead, MainStates, IInv, TypeOK
<1>3. QED
  BY <1>1, <1>2

\* The append under m_files_mutex: the pending batch goes to the end of
\* m_files, which keeps the buffer consecutive.
LEMMA MainAppendStep ==
  ASSUME IInv, MainAppend
  PROVE  IInv'
<1> USE FilesAssumption
<1>1. /\ files' = files \o pending /\ pending' = <<>> /\ mpc' = "Check"
      /\ UNCHANGED <<retry, dryRun, check, skipArg, skip, eos, mismatch,
                     failedTable, cursor, last, injHolds, filesDone, exptr, ipc,
                     result, sent, skipped, pruned, handled>>
  BY DEF MainAppend
<1>2. files \in Seq(Files) /\ pending \in Seq(Files) /\ cursor \in 1..NFiles + 1
  BY DEF IInv, TypeOK
<1>3. Front' = Front
  BY <1>1, <1>2 DEF Front
<1>4. TypeOK'
  BY <1>1, <1>2 DEF IInv, TypeOK, MainStates
<1>5. PendingRows'
  BY <1>1, <1>2 DEF PendingRows, Interval
<1>6. BufferRows'
  <2>1. SUFFICES ASSUME ipc' # "Returned" PROVE files' = Interval(Front', Len(files'))
    BY <1>1, <1>3 DEF IInv, BufferRows
  <2>2. files = Interval(Front, Len(files))
        /\ pending = Interval(Front + Len(files), Len(pending))
    BY <1>1, <1>2, <2>1 DEF IInv, BufferRows, PendingRows, Front
  <2>3. Interval(Front, Len(files)) \o Interval(Front + Len(files), Len(pending))
          = Interval(Front, Len(files) + Len(pending))
    <3>1. Front \in Int /\ Len(files) \in Nat /\ Len(pending) \in Nat
      BY <1>2 DEF Front
    <3>2. QED
      BY <3>1, IntervalConcat, Zenon
  <2>4. QED
    BY <1>1, <1>2, <1>3, <2>2, <2>3
<1>7. QED
  BY <1>1, <1>3, <1>4, <1>5, <1>6
     DEF IInv, SkipRows, AfterSkip, InjectedOnce, RowsAccounted, RetryRows

\* m_skip > m_files.size(): the rows dropped are the next ones after those
\* skipped before, so the skipped rows stay a prefix.
LEMMA InjSkipAllStep ==
  ASSUME IInv, InjSkipAll
  PROVE  IInv'
<1> USE FilesAssumption
<1>1. /\ ipc = "Body" /\ files # <<>> /\ skip > Len(files)
      /\ skip' = skip - Len(files) /\ skipped' = skipped \cup Rows(files)
      /\ files' = <<>> /\ injHolds' = FALSE /\ ipc' = "Top"
      /\ UNCHANGED <<retry, dryRun, check, skipArg, eos, mismatch, failedTable,
                     cursor, last, pending, filesDone, exptr, mpc, result, sent,
                     pruned, handled>>
  BY DEF InjSkipAll
<1>2. /\ files \in Seq(Files) /\ pending \in Seq(Files)
      /\ skipArg \in 0..MaxSkip /\ skip \in 0..skipArg
      /\ cursor \in 1..NFiles + 1 /\ skipped \subseteq Files
      /\ Front >= 1 /\ files = Interval(Front, Len(files))
      /\ \A f \in Files : f >= Front => sent[f] = 0
      /\ skipped = 1..(skipArg - skip) /\ skipArg - skip = Front - 1
  BY <1>1 DEF IInv, TypeOK, BufferRows, SkipRows
<1>3. Front \in Int /\ Len(files) \in Nat \ {0}
  BY <1>1, <1>2 DEF Front
<1>4. Rows(files) = Front..(Front + Len(files) - 1)
  BY <1>2, <1>3, IntervalType, Zenon
<1>5. Front' = Front + Len(files)
  BY <1>1, <1>2 DEF Front
<1>6. skipped' = 1..(skipArg' - skip') /\ skipArg' - skip' = Front' - 1
  BY <1>1, <1>2, <1>3, <1>4, <1>5
<1>7. TypeOK'
  <2>1. skip' \in 0..skipArg'
    BY <1>1, <1>2, <1>3
  <2>3. Rows(files) \subseteq Files
    BY <1>2, RowsIn, Zenon
  <2>4. skipped' \subseteq Files
    BY <1>1, <1>2, <2>3
  <2>5. files' \in Seq(Files)
    BY <1>1
  <2>7. ipc' \in InjStates /\ injHolds' \in BOOLEAN
    BY <1>1 DEF InjStates
  <2>6. /\ retry' \in BOOLEAN /\ dryRun' \in BOOLEAN /\ check' \in BOOLEAN
        /\ skipArg' \in 0..MaxSkip
        /\ eos' \subseteq Files /\ mismatch' \subseteq Files /\ failedTable' \subseteq Files
        /\ cursor' \in 1..NFiles + 1 /\ last' \in 0..NFiles
        /\ pending' \in Seq(Files)
        /\ filesDone' \in BOOLEAN /\ exptr' \in BOOLEAN
        /\ mpc' \in MainStates /\ result' \in Results
        /\ sent' \in [Files -> Nat]
        /\ pruned' \subseteq Files /\ handled' \subseteq Files
    BY <1>1 DEF IInv, TypeOK
  <2>2. QED
    BY <2>1, <2>4, <2>5, <2>6, <2>7 DEF TypeOK
<1>8. BufferRows'
  <2>1. Interval(Front', 0) = <<>>
    BY DEF Interval
  <2>2. QED
    BY <1>1, <1>2, <1>3, <1>5, <2>1 DEF BufferRows
<1>9. QED
  BY <1>1, <1>5, <1>6, <1>7, <1>8
     DEF IInv, PendingRows, SkipRows, AfterSkip, InjectedOnce, RowsAccounted,
         RetryRows

\* Every sequence is a sequence of its own rows.
LEMMA SeqOfRows ==
  ASSUME NEW S, NEW s \in Seq(S)
  PROVE  s \in Seq(Rows(s))
BY DEF Rows

\* The facts about one InjBatch step that hold whatever FileInsert and
\* saveFailedFiles() do: the rows skipped complete the prefix, and the
\* batch sent is made of rows after it that no earlier batch held.
LEMMA InjBatchRows ==
  ASSUME IInv, ipc = "Body", files # <<>>, skip <= Len(files)
  PROVE  LET kept == SubSeq(files, skip + 1, Len(files))
             batch == IF check THEN PruneExistingFiles(kept) ELSE kept
         IN  /\ batch \in Seq(Files)
             /\ Rows(batch) \subseteq Rows(kept)
             /\ Rows(kept) \subseteq (Front + skip)..(Front + Len(files) - 1)
             /\ skipped \cup Rows(SubSeq(files, 1, skip)) = 1..skipArg
             /\ skipArg <= Front + skip - 1
             /\ Front + Len(files) = cursor - Len(pending)
<1> USE FilesAssumption
<1> DEFINE kept == SubSeq(files, skip + 1, Len(files))
           batch == IF check THEN PruneExistingFiles(kept) ELSE kept
<1>1. /\ files \in Seq(Files) /\ pending \in Seq(Files)
      /\ skipArg \in 0..MaxSkip /\ skip \in 0..skipArg
      /\ cursor \in 1..NFiles + 1
      /\ Front >= 1 /\ files = Interval(Front, Len(files))
      /\ skipped = 1..(skipArg - skip)
      /\ skipArg - skip <= Front - 1
      /\ skip > 0 => skipArg - skip = Front - 1
  BY DEF IInv, TypeOK, BufferRows, SkipRows
<1>2. Front \in Int /\ Len(files) \in Nat /\ skip \in 0..Len(files)
  BY <1>1 DEF Front
<1>3. kept = Interval(Front + skip, Len(files) - skip)
      /\ SubSeq(files, 1, skip) = Interval(Front, skip)
  <2>1. /\ SubSeq(Interval(Front, Len(files)), 1, skip) = Interval(Front, skip)
        /\ SubSeq(Interval(Front, Len(files)), skip + 1, Len(files))
             = Interval(Front + skip, Len(files) - skip)
    BY <1>2, IntervalSplit, Zenon
  <2>2. QED
    BY <1>1, <2>1 DEF kept
<1>4. Front + skip \in Int /\ Len(files) - skip \in Nat
  BY <1>2
<1>5. Rows(kept) = (Front + skip)..(Front + skip + (Len(files) - skip) - 1)
      /\ kept \in Seq((Front + skip)..(Front + skip + (Len(files) - skip) - 1))
  <2>1. Rows(Interval(Front + skip, Len(files) - skip))
          = (Front + skip)..(Front + skip + (Len(files) - skip) - 1)
        /\ Interval(Front + skip, Len(files) - skip)
          \in Seq((Front + skip)..(Front + skip + (Len(files) - skip) - 1))
    BY <1>4, IntervalType, Zenon
  <2>2. QED
    BY <1>3, <2>1
<1>6. Rows(SubSeq(files, 1, skip)) = Front..(Front + skip - 1)
  <2>1. skip \in Nat
    BY <1>2
  <2>2. Rows(Interval(Front, skip)) = Front..(Front + skip - 1)
    BY <1>2, <2>1, IntervalType, Zenon
  <2>3. QED
    BY <1>3, <2>2
<1>7. (Front + skip)..(Front + skip + (Len(files) - skip) - 1) \subseteq Files
  <2>1. Front + Len(files) - 1 <= cursor - 1 /\ cursor - 1 <= NFiles
    BY <1>1, <1>2 DEF Front
  <2>2. QED
    BY <1>1, <1>2, <2>1 DEF Files
<1>8. kept \in Seq(Files)
  BY <1>5, <1>7 DEF Files
<1>9. batch \in Seq(Rows(kept))
  <2>1. CASE check
    BY <1>8, <2>1, PruneRows
  <2>2. CASE ~check
    BY <1>8, <2>2, SeqOfRows
  <2>3. QED
    BY <2>1, <2>2
<1>10. Rows(batch) \subseteq Rows(kept)
  BY <1>9, RowsIn
<1>11. batch \in Seq(Files)
  <2>1. Rows(kept) \subseteq Files
    BY <1>5, <1>7
  <2>2. Seq(Rows(kept)) \subseteq Seq(Files)
    BY <2>1, SeqSubset
  <2>3. QED
    BY <1>9, <2>2
<1>12. skipped \cup Rows(SubSeq(files, 1, skip)) = 1..skipArg
  BY <1>1, <1>2, <1>6
<1>13. QED
  BY <1>1, <1>2, <1>5, <1>10, <1>11, <1>12 DEF Front


\* One batch of the injection thread: m_files after the skip and the
\* pruning, sent to EOS, then cleared or left in place by an exception.
LEMMA InjBatchStep ==
  ASSUME IInv, InjBatch
  PROVE  IInv'
<1> USE FilesAssumption
<1> DEFINE kept == SubSeq(files, skip + 1, Len(files))
           batch == IF check THEN PruneExistingFiles(kept) ELSE kept
           B == Rows(batch)
           Inserted(r) == {f \in B : r[f] = "ok"}
           Errors(r) == {f \in B : r[f] # "ok"}
<1>1. ipc = "Body" /\ files # <<>> /\ skip <= Len(files)
  BY DEF InjBatch
<1>2. /\ batch \in Seq(Files)
      /\ B \subseteq Rows(kept)
      /\ Rows(kept) \subseteq (Front + skip)..(Front + Len(files) - 1)
      /\ skipped \cup Rows(SubSeq(files, 1, skip)) = 1..skipArg
      /\ skipArg <= Front + skip - 1
      /\ Front + Len(files) = cursor - Len(pending)
  BY <1>1, InjBatchRows DEF kept, batch, B
<1>3. /\ skip' = 0
      /\ skipped' = skipped \cup Rows(SubSeq(files, 1, skip))
      /\ pruned' = pruned \cup (Rows(kept) \ B)
      /\ sent' = [f \in Files |-> IF f \in B THEN sent[f] + 1 ELSE sent[f]]
      /\ injHolds' = FALSE
      /\ UNCHANGED <<retry, dryRun, check, skipArg, mismatch, cursor, last,
                     pending, filesDone, mpc, result>>
  BY DEF InjBatch, kept, batch, B
<1>4. PICK rc \in Replies(B) :
        \/ /\ eos' = eos \cup Inserted(rc)
           /\ failedTable' = IF retry \/ Errors(rc) # {}
                               THEN SavedFailures(B, rc)
                               ELSE failedTable
           /\ files' = <<>>
           /\ handled' = handled \cup B
           /\ ipc' = "Top"
           /\ UNCHANGED exptr
        \/ /\ retry \/ Errors(rc) # {}
           /\ eos' = eos \cup Inserted(rc)
           /\ files' = batch
           /\ exptr' = TRUE
           /\ ipc' = "Returned"
           /\ UNCHANGED <<failedTable, handled>>
        \/ /\ ~dryRun
           /\ \E part \in SUBSET Inserted(rc) : eos' = eos \cup part
           /\ files' = batch
           /\ exptr' = TRUE
           /\ ipc' = "Returned"
           /\ UNCHANGED <<failedTable, handled>>
  BY DEF InjBatch, kept, batch, B, Inserted, Errors
<1>5. /\ TypeOK /\ PendingRows /\ AfterSkip /\ InjectedOnce /\ RowsAccounted
      /\ RetryRows
      /\ Front >= 1
      /\ \A f \in Files : f >= Front => sent[f] = 0
  BY <1>1 DEF IInv, BufferRows
<1>6. Front \in Int /\ Len(pending) \in Nat /\ cursor \in 1..NFiles + 1
      /\ skip \in Nat /\ skipArg \in Nat /\ Len(files) \in Nat
  BY <1>5 DEF TypeOK, Front
<1>7. \A f \in Rows(kept) : /\ f \in Files /\ f > skipArg
                            /\ f >= Front /\ f < Front + Len(files)
  BY <1>2, <1>5, <1>6 DEF Files
<1>8. B \subseteq Files /\ Inserted(rc) \subseteq Files
  BY <1>2, <1>7
<1>9. \* what holds after the step, whatever FileInsert does
      /\ skip' \in 0..skipArg' /\ skipped' = 1..(skipArg' - skip')
      /\ skipped' \subseteq Files /\ pruned' \subseteq Files
      /\ \A f \in pruned' : f > skipArg'
      /\ sent' \in [Files -> Nat] /\ InjectedOnce'
      /\ \A f \in Files : f >= Front + Len(files) => sent'[f] = 0
      /\ PendingRows'
  <2>1. skip' \in 0..skipArg' /\ skipped' = 1..(skipArg' - skip')
    BY <1>2, <1>3, <1>6
  <2>2. skipped' \subseteq Files /\ pruned' \subseteq Files
    <3>1. skipArg' <= NFiles
      BY <1>1, <1>2, <1>3, <1>6
    <3>2. skipped' \subseteq Files
      BY <2>1, <3>1, <1>3, <1>6 DEF Files
    <3>3. pruned \subseteq Files
      BY <1>5 DEF TypeOK
    <3>4. QED
      BY <3>2, <3>3, <1>3, <1>7
  <2>3. \A f \in pruned' : f > skipArg'
    BY <1>3, <1>5, <1>7 DEF AfterSkip
  <2>4. sent' \in [Files -> Nat] /\ InjectedOnce'
    <3>1. \A f \in B : sent[f] = 0
      BY <1>2, <1>5, <1>7
    <3>2. QED
      BY <1>3, <1>5, <3>1 DEF TypeOK, InjectedOnce
  <2>5. \A f \in Files : f >= Front + Len(files) => sent'[f] = 0
    <3>1. \A f \in B : f < Front + Len(files)
      BY <1>2, <1>7
    <3>2. ASSUME NEW f \in Files, f >= Front + Len(files) PROVE sent'[f] = 0
      <4>1. f \notin B /\ f >= Front
        BY <3>1, <3>2, <1>6 DEF Files
      <4>2. QED
        BY <4>1, <1>3, <1>5
    <3>3. QED
      BY <3>2
  <2>6. PendingRows'
    BY <1>3, <1>5 DEF PendingRows
  <2>7. QED
    BY <2>1, <2>2, <2>3, <2>4, <2>5, <2>6
<1>10. \* the batch is injected and m_files cleared
       ASSUME /\ eos' = eos \cup Inserted(rc)
              /\ failedTable' = IF retry \/ Errors(rc) # {}
                                  THEN SavedFailures(B, rc)
                                  ELSE failedTable
              /\ files' = <<>>
              /\ handled' = handled \cup B
              /\ ipc' = "Top"
              /\ UNCHANGED exptr
       PROVE  IInv'
  <2>1. Front' = Front + Len(files)
    <3>1. Len(files') = 0 /\ cursor' = cursor /\ pending' = pending
      BY <1>3, <1>10
    <3>2. Front' = cursor - Len(pending)
      BY <3>1, <1>6 DEF Front
    <3>3. QED
      BY <1>2, <3>2
  <2>2. eos' \subseteq Files /\ failedTable' \subseteq Files /\ handled' \subseteq Files
    BY <1>5, <1>8, <1>10 DEF TypeOK, SavedFailures
  <2>3. TypeOK'
    <3>1. files' \in Seq(Files) /\ ipc' \in InjStates /\ exptr' \in BOOLEAN
      BY <1>5, <1>10 DEF TypeOK, InjStates
    <3>2. /\ retry' \in BOOLEAN /\ dryRun' \in BOOLEAN /\ check' \in BOOLEAN
          /\ skipArg' \in 0..MaxSkip /\ mismatch' \subseteq Files
          /\ cursor' \in 1..NFiles + 1 /\ last' \in 0..NFiles
          /\ pending' \in Seq(Files) /\ injHolds' \in BOOLEAN
          /\ filesDone' \in BOOLEAN /\ mpc' \in MainStates /\ result' \in Results
      BY <1>3, <1>5 DEF TypeOK
    <3>3. QED
      BY <1>9, <2>2, <3>1, <3>2 DEF TypeOK
  <2>4. BufferRows'
    <3>1. Interval(Front', 0) = <<>>
      BY DEF Interval
    <3>2. QED
      BY <1>5, <1>6, <1>9, <1>10, <2>1, <3>1 DEF BufferRows
  <2>5. SkipRows'
    BY <1>1, <1>2, <1>3, <1>6, <1>9, <1>10, <2>1 DEF SkipRows
  <2>6. AfterSkip'
    BY <1>2, <1>3, <1>5, <1>7, <1>9, <1>10 DEF AfterSkip
  <2>7. RetryRows'
    <3>1. CASE retry
      <4>1. ASSUME NEW f \in Files PROVE f \in failedTable' \cup eos'
        BY <1>3, <1>5, <1>10, <3>1 DEF RetryRows, SavedFailures, CompareMD, Inserted
      <4>2. QED
        BY <4>1, <1>3 DEF RetryRows
    <3>2. CASE ~retry
      BY <1>3, <3>2 DEF RetryRows
    <3>3. QED
      BY <3>1, <3>2
  <2>8. RowsAccounted'
    <3>1. CASE retry
      BY <1>3, <2>2, <2>7, <3>1 DEF RowsAccounted, RetryRows
    <3>2. CASE ~retry
      <4>1. failedTable \subseteq failedTable'
        BY <1>10, <3>2 DEF SavedFailures
      <4>2. ASSUME NEW f \in B PROVE f \in eos' \cup failedTable'
        <5>1. CASE rc[f] = "ok"
          BY <1>10, <5>1 DEF Inserted
        <5>2. CASE rc[f] # "ok"
          <6>1. f \in Errors(rc)
            BY <5>2 DEF Errors
          <6>2. QED
            BY <1>10, <3>2, <6>1 DEF SavedFailures, Errors
        <5>3. QED
          BY <5>1, <5>2
      <4>3. QED
        BY <1>5, <1>10, <4>1, <4>2 DEF RowsAccounted
    <3>3. QED
      BY <3>1, <3>2
  <2>9. QED
    BY <1>9, <2>3, <2>4, <2>5, <2>6, <2>7, <2>8 DEF IInv
<1>11. \* FileInsert or saveFailedFiles() throws: m_files keeps the batch
       ASSUME eos \subseteq eos', eos' \subseteq Files, files' = batch,
              exptr' = TRUE, ipc' = "Returned",
              UNCHANGED <<failedTable, handled>>
       PROVE  IInv'
  <2>1. TypeOK'
    <3>1. files' \in Seq(Files) /\ ipc' \in InjStates /\ exptr' \in BOOLEAN
      BY <1>2, <1>11 DEF InjStates
    <3>2. /\ retry' \in BOOLEAN /\ dryRun' \in BOOLEAN /\ check' \in BOOLEAN
          /\ skipArg' \in 0..MaxSkip /\ mismatch' \subseteq Files
          /\ cursor' \in 1..NFiles + 1 /\ last' \in 0..NFiles
          /\ pending' \in Seq(Files) /\ injHolds' \in BOOLEAN
          /\ filesDone' \in BOOLEAN /\ mpc' \in MainStates /\ result' \in Results
          /\ failedTable' \subseteq Files /\ handled' \subseteq Files
      BY <1>3, <1>5, <1>11 DEF TypeOK
    <3>3. QED
      BY <1>9, <1>11, <3>1, <3>2 DEF TypeOK
  <2>2. QED
    BY <1>3, <1>5, <1>9, <1>11, <2>1
       DEF IInv, BufferRows, SkipRows, AfterSkip, RowsAccounted, RetryRows
<1>12. QED
  <2>1. Inserted(rc) \subseteq Files
    BY <1>8
  <2>2. \A part \in SUBSET Inserted(rc) : eos \cup part \subseteq Files
    BY <1>5, <2>1 DEF TypeOK
  <2>3. QED
    BY <1>4, <1>10, <1>11, <2>2, Zenon


\* Every step of the import keeps the inductive invariant.
LEMMA NextIInv == IInv /\ [Next]_vars => IInv'
<1> SUFFICES ASSUME IInv, [Next]_vars PROVE IInv'
  OBVIOUS
<1> USE FilesAssumption
<1>1. CASE Select
  <2>1. /\ mpc' \in MainStates /\ filesDone' \in BOOLEAN /\ last' \in 0..NFiles
        /\ result' \in Results /\ mpc # "Append" /\ mpc' # "Append"
        /\ UNCHANGED <<retry, dryRun, check, skipArg, skip, eos, mismatch,
                       failedTable, cursor, pending, files, injHolds, exptr, ipc,
                       sent, skipped, pruned, handled>>
    <3>1. filesDone \in BOOLEAN /\ last \in 0..NFiles /\ result \in Results
      BY DEF IInv, TypeOK
    <3>2. mpc = "Select"
      BY <1>1 DEF Select
    <3>3. mpc' \in {"Check", "JoinThrow"}
      BY <1>1 DEF Select
    <3>4. filesDone' \in BOOLEAN /\ last' \in 0..NFiles
      <4>1. \/ last' = NFiles /\ filesDone' = filesDone
            \/ filesDone' = TRUE /\ last' = last
        BY <1>1 DEF Select
      <4>2. NFiles \in 0..NFiles
        OBVIOUS
      <4>3. QED
        BY <3>1, <4>1, <4>2
    <3>5. QED
      BY <1>1, <3>1, <3>2, <3>3, <3>4 DEF Select, MainStates
  <2>2. QED
    BY <2>1, MainControlStep, Zenon
<1>2. CASE MainCheck
  BY <1>2, MainControlStep DEF MainCheck, MainStates, IInv, TypeOK
<1>3. CASE MainRead
  BY <1>3, MainReadStep
<1>4. CASE MainAppend
  BY <1>4, MainAppendStep
<1>5. CASE Join
  BY <1>5, MainControlStep DEF Join, MainStates, Results, IInv, TypeOK
<1>6. CASE InjLock
  BY <1>6, InjControlStep DEF InjLock, InjStates
<1>7. CASE InjEmpty
  BY <1>7, InjControlStep DEF InjEmpty, InjStates
<1>8. CASE InjSkipAll
  BY <1>8, InjSkipAllStep
<1>9. CASE InjBatch
  BY <1>9, InjBatchStep
<1>10. CASE UNCHANGED vars
  BY <1>10 DEF vars, IInv, TypeOK, PendingRows, BufferRows, Front, SkipRows,
               AfterSkip, InjectedOnce, RowsAccounted, RetryRows
<1>11. QED
  BY <1>1, <1>2, <1>3, <1>4, <1>5, <1>6, <1>7, <1>8, <1>9, <1>10 DEF Next

\* The inductive invariant holds in every reachable state.
LEMMA SpecIInv == Spec => []IInv
BY InitIInv, NextIInv, PTL DEF Spec

-----------------------------------------------------------------------------
(* The theorems.                                                           *)

\* Every variable of the import keeps its type: in particular m_skip never
\* goes below zero and the buffer only ever holds rows of the SELECT.
THEOREM TypeCorrect == Spec => []TypeOK
BY SpecIInv, PTL DEF IInv

\* grpcInject() sends no file to EOS twice, however the main thread's
\* appends interleave with the injection thread's batches, the skip and the
\* pruning, and whether FileInsert or saveFailedFiles() throws.
THEOREM NoDoubleInjection == Spec => []InjectedOnce
BY SpecIInv, PTL DEF IInv

\* --skip n drops exactly the first n rows (SkipsPrefix), whatever the
\* batch size and however many batches the buffer holds when the injection
\* thread takes it.
THEOREM SkipsExactPrefix == Spec => []SkipsPrefix
<1>1. IInv => SkipsPrefix
  <2> SUFFICES ASSUME IInv PROVE SkipsPrefix
    OBVIOUS
  <2>1. skip \in 0..skipArg /\ skipArg \in Nat /\ skipped = 1..(skipArg - skip)
    BY FilesAssumption DEF IInv, TypeOK, SkipRows
  <2>2. \A f \in handled \cup pruned : f > skipArg
    BY DEF IInv, AfterSkip
  <2>3. QED
    BY <2>1, <2>2 DEF SkipsPrefix
<1>2. QED
  BY <1>1, SpecIInv, PTL

\* Every file of a batch the injection thread finished with exists in EOS
\* or has been recorded in CTAFILESFAILED by saveFailedFiles(), also in a
\* retry, where saveFailedFiles() deletes rows from that table.
THEOREM FailuresRecorded == Spec => []RowsAccounted
BY SpecIInv, PTL DEF IInv

=============================================================================
