------------------------------ MODULE ModeFilter ------------------------------
(***************************************************************************)
(* The FILEMODE column on its way to EOS.  Both imports filter out the     *)
(* set-user-ID, set-group-ID and sticky bits, which EOS does not give      *)
(* POSIX meaning, before they hand the mode to EOS:                        *)
(*   EosImportDirs::getNextBatch()  (EosImportDirs.cpp 556-559):           *)
(*       filemode &= ~(S_ISUID | S_ISGID | S_ISVTX); dir.set_mode(...)     *)
(*   EosImportFiles::getNextBatch() (EosImportFiles.cpp 602-605):          *)
(*       filemode &= !(S_ISUID | S_ISGID | S_ISVTX); file.set_flags(...)   *)
(* and saveFailedDirs() / saveFailedFiles() write the mode of the proto    *)
(* back to the failed table.  The modes are the 16 bits of a mode_t; the   *)
(* 64-bit complement of the code clears nothing above them.                *)
(***************************************************************************)
EXTENDS Integers, Bitwise

CONSTANT Modes   \* the FILEMODE values of the rows

\* The constants are meant to satisfy:
\*   Modes \subseteq 0..2^16 - 1

S_ISUID == 2048   \* 04000
S_ISGID == 1024   \* 02000
S_ISVTX == 512    \* 01000

\* C's ~ on the 16 bits of a mode_t.
Compl(x) == (2^16 - 1) - x

\* C's ! : 1 for 0, 0 for anything else.
LNot(x) == IF x = 0 THEN 1 ELSE 0

\* Mutant: the directory filter written with ! as in the file import.
DirModeLogicalNot(m) == m & LNot(S_ISUID | S_ISGID | S_ISVTX)

\* EosImportDirs::getNextBatch(): the mode of the directory.
DirMode(m) == m & Compl(S_ISUID | S_ISGID | S_ISVTX)

\* EosImportFiles::getNextBatch(): the flags of the file.
FileFlags(m) == m & LNot(S_ISUID | S_ISGID | S_ISVTX)

VARIABLES
  mode,      \* FILEMODE of the row in the namespace database
  dirMode,   \* dir.mode() sent to EOS, -1 before the row is read
  fileFlags, \* file.flags() sent to EOS, -1 before the row is read
  saved      \* FILEMODE written to the failed table, -1 before

vars == <<mode, dirMode, fileFlags, saved>>

Init ==
  /\ mode \in Modes
  /\ dirMode = -1 /\ fileFlags = -1 /\ saved = -1

\* The row read as a directory, and its mode saved by saveFailedDirs()
\* (stmt.bindUint64(":FILEMODE", dir_it->mode())) when EOS refuses it.
ReadDir ==
  /\ dirMode = -1 /\ fileFlags = -1
  /\ dirMode' = DirMode(mode)
  /\ \/ saved' = dirMode'
     \/ UNCHANGED saved
  /\ UNCHANGED <<mode, fileFlags>>

\* The row read as a file, and its flags saved by saveFailedFiles()
\* (stmt.bindUint64(":FILEMODE", file_it->flags())) when EOS refuses it.
ReadFile ==
  /\ dirMode = -1 /\ fileFlags = -1
  /\ fileFlags' = FileFlags(mode)
  /\ \/ saved' = fileFlags'
     \/ UNCHANGED saved
  /\ UNCHANGED <<mode, dirMode>>

Next == ReadDir \/ ReadFile

Spec == Init /\ [][Next]_vars

-----------------------------------------------------------------------------
\* The mode with bits 9 to 11 cleared, by arithmetic alone.
WithoutSetIdBits(m) == m - ((m \div 512) % 8) * 512

(***************************************************************************)
(* What reaches EOS, and what is kept of a refused row, is the mode of the *)
(* database with exactly the set-ID and sticky bits cleared: the type and  *)
(* permission bits survive (directory import).                             *)
(***************************************************************************)
DirModeFiltered ==
  /\ dirMode # -1 => dirMode = WithoutSetIdBits(mode)
  /\ saved # -1 /\ dirMode # -1 => saved = WithoutSetIdBits(mode)

(***************************************************************************)
(* The same for the file import, as the comment at EosImportFiles.cpp:602  *)
(* says: only S_ISUID, S_ISGID and S_ISVTX are filtered out.               *)
(***************************************************************************)
FileFlagsFiltered ==
  /\ fileFlags # -1 => fileFlags = WithoutSetIdBits(mode)
  /\ saved # -1 /\ fileFlags # -1 => saved = WithoutSetIdBits(mode)

====
