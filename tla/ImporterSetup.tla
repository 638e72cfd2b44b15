------------------------------- MODULE ImporterSetup -------------------------------
(***************************************************************************)
(* The constructors of EosImportDirs and EosImportFiles                    *)
(* (src/CTA/migration/gRPC/EosImportDirs.cpp, EosImportFiles.cpp) and the  *)
(* batching of the rows of the main SELECT by processDirs()/processFiles()  *)
(* and getNextBatch().  The constructor reads the configuration file,      *)
(* chooses the table, sizes the connection pool and sets the batch size;   *)
(* processXxx() then calls getNextBatch() until it returns an empty batch  *)
(* and hands each batch to the injection thread (m_dirs / m_files).        *)
(*                                                                         *)
(* A row is its position in the result set, 1..NRows.  The options the     *)
(* properties do not tell apart (json, dry run, strict compare, prefixes,  *)
(* endpoint, token, layout) are left out.                                  *)
(***************************************************************************)
EXTENDS Integers, Sequences

CONSTANTS
  Tool,       \* "dirs" or "files"
  Configs,    \* the configuration files: records of option values, Absent or an int
  NRows,      \* rows the main SELECT returns
  UIntWrap,   \* 2^32: an int stored in unsigned int wraps modulo it
  ULongWrap,  \* 2^64: an int cast to uint64_t wraps modulo it
  Absent      \* an option the configuration file does not set

\* The constants are meant to satisfy:
\*   /\ Tool \in {"dirs", "files"}
\*   /\ NRows \in Nat
\*   /\ UIntWrap \in Nat \ {0} /\ ULongWrap \in Nat \ {0}

\* The conversion of an int to an unsigned type of the given range.
Unsigned(v, wrap) == IF v < 0 THEN v + wrap ELSE v

MinNumConns == 2

VARIABLES
  pc,       \* "Construct", "Process", "Done", "Threw"
  table,    \* m_tableName
  conns,    \* actual_max_num_conns, the size of m_dbConnPool
  batch,    \* m_batch_size
  cursor,   \* the rows next() has consumed
  queued    \* the rows handed to the injection thread, in order

vars == <<pc, table, conns, batch, cursor, queued>>

Init ==
  /\ pc = "Construct" /\ table = "none" /\ conns = 0 /\ batch = 0
  /\ cursor = 0 /\ queued = <<>>

\* The table: CTADIRSFAILED/CTAFILESFAILED on --retry, CTADELTADIRSHELPER
\* on --delta (dirs only), the helper table otherwise.
TableName(retry, delta) ==
  IF Tool = "dirs"
    THEN IF retry THEN "CTADIRSFAILED" ELSE IF delta THEN "CTADELTADIRSHELPER" ELSE "CTADIRSHELPER"
    ELSE IF retry THEN "CTAFILESFAILED" ELSE "CTAFILESHELPER"

\* Mutant: the configured count is used whenever it is set.
ActualMaxNumConnsNoMin(c) ==
  IF c.max_num_connections # Absent THEN Unsigned(c.max_num_connections, ULongWrap)
  ELSE MinNumConns

\* actual_max_num_conns: the configured count when it is set and, cast to
\* uint64_t, above min_num_conns; min_num_conns otherwise.
ActualMaxNumConns(c) ==
  IF c.max_num_connections # Absent /\ Unsigned(c.max_num_connections, ULongWrap) > MinNumConns
    THEN Unsigned(c.max_num_connections, ULongWrap)
    ELSE MinNumConns

\* The constructor: it throws without castor.db_login, and when the login
\* does not parse or the pool cannot hand out a connection; it sets
\* m_batch_size to castor.batch_size (an int stored in an unsigned int) or
\* 10000.  Then select() runs the main SELECT and main() calls processXxx().
Construct ==
  /\ pc = "Construct"
  /\ \E c \in Configs, retry \in BOOLEAN, delta \in BOOLEAN :
       /\ Tool = "files" => ~delta
       /\ retry => ~delta
       /\ \/ c.db_login = "absent" /\ pc' = "Threw"
             /\ UNCHANGED <<table, conns, batch>>
          \/ c.db_login = "bad" /\ pc' = "Threw"
             /\ table' = TableName(retry, delta) /\ UNCHANGED <<conns, batch>>
          \/ /\ c.db_login = "good" /\ pc' = "Process"
             /\ table' = TableName(retry, delta)
             /\ conns' = ActualMaxNumConns(c)
             /\ batch' = IF c.batch_size = Absent THEN 10000 ELSE Unsigned(c.batch_size, UIntWrap)
  /\ UNCHANGED <<cursor, queued>>

\* Mutant: next() is called before the batch size is tested, so the row it
\* fetches when the batch is full is dropped.
BatchReadNextFirst(n) ==
  IF NRows - n > batch THEN [taken |-> batch, consumed |-> batch + 1]
  ELSE [taken |-> NRows - n, consumed |-> NRows - n]

\* for(b = 0; b < m_batch_size && rset.next(); ++b): the rows of one batch
\* after n rows have been consumed; b < m_batch_size is tested first, so no
\* row is consumed that is not taken.
BatchRead(n) ==
  IF NRows - n > batch THEN [taken |-> batch, consumed |-> batch]
  ELSE [taken |-> NRows - n, consumed |-> NRows - n]

\* One round of processXxx(): getNextBatch(); an empty batch ends the loop,
\* another is appended to m_dirs/m_files under the mutex.
ProcessBatch ==
  /\ pc = "Process"
  /\ LET r == BatchRead(cursor)
     IN  /\ cursor' = cursor + r.consumed
         /\ IF r.taken = 0
              THEN pc' = "Done" /\ UNCHANGED queued
              ELSE /\ queued' = queued \o [i \in 1..r.taken |-> cursor + i]
                   /\ UNCHANGED pc
  /\ UNCHANGED <<table, conns, batch>>

Next == Construct \/ ProcessBatch

Spec == Init /\ [][Next]_vars

-----------------------------------------------------------------------------
TypeOK ==
  /\ pc \in {"Construct", "Process", "Done", "Threw"}
  /\ cursor \in 0..NRows
  /\ queued \in Seq(1..NRows)

(***************************************************************************)
(* The pool the constructor builds has the two connections its comment     *)
(* asks for, one for the main SELECT and one for the storage classes,      *)
(* whatever castor.max_num_connections says.                               *)
(***************************************************************************)
MinimumConnections == pc \in {"Process", "Done"} => conns >= MinNumConns

(***************************************************************************)
(* processXxx() ends only once every row of the main SELECT has been       *)
(* handed to the injection thread, each once and in the order of the       *)
(* result set.                                                             *)
(***************************************************************************)
EveryRowQueuedOnce == pc = "Done" => queued = [i \in 1..NRows |-> i]

====
