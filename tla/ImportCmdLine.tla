------------------------------- MODULE ImportCmdLine -------------------------------
(***************************************************************************)
(* The command lines of the two CASTOR to EOS import tools                 *)
(* (src/CTA/migration/gRPC/EosImportDirsCmd.cpp, EosImportFilesCmd.cpp):   *)
(* parseCmdLine() reads the options one getopt_long() result at a time,    *)
(* then checks the operands; main() runs the command it chose.  Of the     *)
(* commands, the model keeps the rows of CTADIRSHELPER that the directory  *)
(* INJECT selects (EosImportDirs::select()) and the rows of the failed     *)
(* table that FORGET_FAILURES deletes; the import itself is EosImportDirs  *)
(* and EosImportFiles.                                                     *)
(*                                                                         *)
(* An argv word is a record: a short option (-r, or -cVALUE with its      *)
(* argument attached), a long one (--retry), or an operand.  getopt_long() *)
(* permutes the operands after the options, as GNU getopt does by default. *)
(* A path is a sequence of atoms: "/", letters and "_".                    *)
(***************************************************************************)
EXTENDS Naturals, Sequences, FiniteSets

CONSTANTS
  Tool,      \* "dirs" or "files"
  Argvs,     \* the command lines, without argv[0]
  DbPaths,   \* the PATH of the rows of the tables the command reads
  NoArg      \* no argument attached to an option word

\* The constants are meant to satisfy:
\*   Tool \in {"dirs", "files"}

\* The optstring and longopts[] of EosImportDirsCmdLine::parseCmdLine():
\* "c:fhlrF", and the option character each long name stands for.
DirsShortOpts == {"c", "f", "h", "l", "r", "F"}
DirsLongOpts ==
  [config |-> "c", delta |-> "d", failure_modes |-> "f", help |-> "h",
   list_failures |-> "l", retry |-> "r", forget_failures |-> "F"]

\* The same for EosImportFilesCmdLine: "c:k:s:xfhlrF".
FilesShortOpts == {"c", "k", "s", "x", "f", "h", "l", "r", "F"}
FilesLongOpts ==
  [config |-> "c", check |-> "x", skip |-> "k", storage_class |-> "s",
   failure_modes |-> "f", help |-> "h", list_failures |-> "l",
   retry |-> "r", forget_failures |-> "F"]

ShortOpts == IF Tool = "dirs" THEN DirsShortOpts ELSE FilesShortOpts
LongOpts == IF Tool = "dirs" THEN DirsLongOpts ELSE FilesLongOpts
\* The options declared "c:", "k:", "s:" and required_argument.
ArgOpts == {"c", "k", "s"}

\* SQL LIKE: "%" matches any sequence of atoms and "_" any one atom.
RECURSIVE Like(_, _)
Like(s, p) ==
  IF p = <<>> THEN s = <<>>
  ELSE IF Head(p) = "%" THEN \E k \in 0..Len(s) : Like(SubSeq(s, k + 1, Len(s)), Tail(p))
  ELSE s # <<>> /\ Head(p) \in {"_", Head(s)} /\ Like(Tail(s), Tail(p))

\* topLevelPathPattern of EosImportDirs::select() and forgetFailures().
Pattern(top) == IF top[Len(top)] = "/" THEN top \o <<"%">> ELSE top \o <<"/", "%">>

\* EosImportDirs::select(): the rows of the table whose PATH is LIKE the
\* pattern of the top-level path.
DirsSelectRows(top) == {p \in DbPaths : Like(p, Pattern(top))}

\* EosImportDirs::forgetFailures(): DELETE FROM CTADIRSFAILED WHERE PATH
\* LIKE the pattern of the top-level path.
DirsForgetFailures(top) == {p \in DbPaths : Like(p, Pattern(top))}

\* EosImportFiles::forgetFailures(): DELETE FROM CTAFILESFAILED, every row.
FilesForgetFailures == DbPaths

\* The option character getopt_long() returns for an option word, "?" for
\* one it does not know.
OptChar(w) ==
  CASE w.kind = "short" -> IF w.name \in ShortOpts THEN w.name ELSE "?"
    [] w.kind = "long"  -> IF w.name \in DOMAIN LongOpts THEN LongOpts[w.name] ELSE "?"

\* The command line before the first option: cmd = INJECT, the flags false,
\* no storage class.
NoCmdLine == [cmd |-> "INJECT", delta |-> FALSE, retry |-> FALSE, check |-> FALSE,
              storageClass |-> FALSE]

\* The command each command option selects.
CmdOf == [h |-> "HELP", f |-> "LIST_FAILURE_MODES", l |-> "LIST_FAILURES",
          F |-> "FORGET_FAILURES"]

-----------------------------------------------------------------------------
VARIABLES
  argv,     \* the command line
  i,        \* optind: the next word getopt_long() looks at
  cl,       \* the EosImport*CmdLine being built
  operands, \* the operands passed over, in order
  given,    \* the option characters getopt_long() returned
  err,      \* the word reported as an unknown option, or NoArg
  pc,       \* "Parse", "Run", "Exit"
  status,   \* main()'s return value: "none", "0", "-1"
  table,    \* the table the INJECT constructor chose, "none" before
  touched   \* the rows the command selected (INJECT) or deleted (FORGET)

vars == <<argv, i, cl, operands, given, err, pc, status, table, touched>>

Init ==
  /\ argv \in Argvs /\ i = 1 /\ cl = NoCmdLine /\ operands = <<>> /\ given = {}
  /\ err = NoArg /\ pc = "Parse" /\ status = "none" /\ table = "none" /\ touched = {}

\* Mutant: --retry does not check for --delta.
DirsConflictNoDelta(c) ==
  CASE c = "d" -> cl.cmd # "INJECT" \/ cl.retry
    [] c = "r" -> cl.cmd # "INJECT"
    [] c \in {"h", "f", "l", "F"} -> cl.cmd # "INJECT"
    [] c = "c" -> FALSE

\* The "Invalid combination of options" checks of the directory switch(opt).
DirsConflict(c) ==
  CASE c = "d" -> cl.cmd # "INJECT" \/ cl.retry
    [] c = "r" -> cl.cmd # "INJECT" \/ cl.delta
    [] c \in {"h", "f", "l", "F"} -> cl.cmd # "INJECT"
    [] c = "c" -> FALSE

\* Mutant: --help does not check the command already chosen.
FilesConflictHelpUnchecked(c) ==
  CASE c \in {"r", "f", "l", "F", "k", "x"} -> cl.cmd # "INJECT"
    [] c \in {"c", "s", "h"} -> FALSE

\* The same checks of the file switch(opt).
FilesConflict(c) ==
  CASE c \in {"r", "h", "f", "l", "F", "k", "x"} -> cl.cmd # "INJECT"
    [] c \in {"c", "s"} -> FALSE

Conflict(c) == IF Tool = "dirs" THEN DirsConflict(c) ELSE FilesConflict(c)

\* Mutant: --forget-failures copied from --list-failures.
ApplyForgetAsList(c) ==
  CASE c = "d" -> [cl EXCEPT !.delta = TRUE]
    [] c = "r" -> [cl EXCEPT !.retry = TRUE]
    [] c = "x" -> [cl EXCEPT !.check = TRUE]
    [] c = "s" -> [cl EXCEPT !.storageClass = TRUE]
    [] c \in {"l", "F"} -> [cl EXCEPT !.cmd = "LIST_FAILURES"]
    [] c \in {"h", "f"} -> [cl EXCEPT !.cmd = CmdOf[c]]
    [] c \in {"c", "k"} -> cl

\* The assignments of switch(opt): -c and -k set values the model does not
\* keep.
Apply(c) ==
  CASE c = "d" -> [cl EXCEPT !.delta = TRUE]
    [] c = "r" -> [cl EXCEPT !.retry = TRUE]
    [] c = "x" -> [cl EXCEPT !.check = TRUE]
    [] c = "s" -> [cl EXCEPT !.storageClass = TRUE]
    [] c \in DOMAIN CmdOf -> [cl EXCEPT !.cmd = CmdOf[c]]
    [] c \in {"c", "k"} -> cl

\* A parse that throws: main() prints the usage and returns -1.
Reject ==
  /\ pc' = "Exit" /\ status' = "-1"
  /\ UNCHANGED <<cl, table, touched>>

\* One round of while(getopt_long(...) != -1).  An operand is passed over
\* (getopt permutes it after the options).  An option that takes an
\* argument and has none attached takes the next word, whatever it is, and
\* is "?" at the end of argv.  "?" and a conflicting option throw.
GetOpt ==
  /\ pc = "Parse" /\ i <= Len(argv)
  /\ LET w == argv[i]
         c == OptChar(w)
         needsNext == w.kind # "operand" /\ c \in ArgOpts /\ w.arg = NoArg
     IN  IF w.kind = "operand"
           THEN /\ operands' = Append(operands, w.name) /\ i' = i + 1
                /\ UNCHANGED <<cl, given, err, pc, status, table, touched>>
           ELSE /\ given' = given \cup {c} /\ UNCHANGED operands
                /\ err' = IF c = "?" THEN w ELSE err
                /\ IF c = "?" \/ (needsNext /\ i = Len(argv)) \/ Conflict(c)
                     THEN Reject /\ UNCHANGED i
                     ELSE /\ cl' = Apply(c)
                          /\ i' = IF needsNext THEN i + 2 ELSE i + 1
                          /\ UNCHANGED <<pc, status, table, touched>>
  /\ UNCHANGED argv

\* After the loop, for directories: one operand, the top_level_path, for
\* INJECT and FORGET_FAILURES, none for the other commands.
DirsArgsOk == Len(operands) = IF cl.cmd \in {"INJECT", "FORGET_FAILURES"} THEN 1 ELSE 0

\* For files: a storage class only with INJECT, and no operand.
FilesArgsOk == (cl.cmd # "INJECT" => ~cl.storageClass) /\ operands = <<>>

EndOpts ==
  /\ pc = "Parse" /\ i > Len(argv)
  /\ IF IF Tool = "dirs" THEN DirsArgsOk ELSE FilesArgsOk
       THEN pc' = "Run" /\ UNCHANGED <<cl, status, table, touched>>
       ELSE Reject
  /\ UNCHANGED <<argv, i, operands, given, err>>

\* main() of eos-import-dirs.  HELP prints the usage.  The other commands
\* construct EosImportDirs, which throws when the configuration or the
\* database cannot be used, and main() returns -1.  FORGET_FAILURES deletes
\* the rows of CTADIRSFAILED LIKE the pattern of the top-level path.  INJECT
\* reads CTADIRSFAILED with --retry, CTADELTADIRSHELPER with --delta,
\* CTADIRSHELPER otherwise; select() takes its rows LIKE the pattern, and
\* the import that follows may throw.
DirsMain ==
  \/ cl.cmd # "HELP" /\ status' = "-1" /\ UNCHANGED <<table, touched>>
  \/ /\ cl.cmd \in {"HELP", "LIST_FAILURE_MODES", "LIST_FAILURES"}
     /\ status' = "0" /\ UNCHANGED <<table, touched>>
  \/ /\ cl.cmd = "FORGET_FAILURES" /\ status' = "0"
     /\ touched' = DirsForgetFailures(operands[1])
     /\ UNCHANGED table
  \/ /\ cl.cmd = "INJECT"
     /\ table' = IF cl.retry THEN "CTADIRSFAILED"
                 ELSE IF cl.delta THEN "CTADELTADIRSHELPER" ELSE "CTADIRSHELPER"
     /\ touched' = DirsSelectRows(operands[1])
     /\ status' \in {"0", "-1"}

\* main() of eos-import-files: the same, but FORGET_FAILURES deletes every
\* row of CTAFILESFAILED, and INJECT reads CTAFILESFAILED with --retry and
\* CTAFILESHELPER otherwise, all of it.
FilesMain ==
  \/ cl.cmd # "HELP" /\ status' = "-1" /\ UNCHANGED <<table, touched>>
  \/ /\ cl.cmd \in {"HELP", "LIST_FAILURE_MODES", "LIST_FAILURES"}
     /\ status' = "0" /\ UNCHANGED <<table, touched>>
  \/ /\ cl.cmd = "FORGET_FAILURES" /\ status' = "0"
     /\ touched' = FilesForgetFailures /\ UNCHANGED table
  \/ /\ cl.cmd = "INJECT"
     /\ table' = IF cl.retry THEN "CTAFILESFAILED" ELSE "CTAFILESHELPER"
     /\ touched' = DbPaths
     /\ status' \in {"0", "-1"}

Run ==
  /\ pc = "Run" /\ pc' = "Exit"
  /\ \/ Tool = "dirs" /\ DirsMain
     \/ Tool = "files" /\ FilesMain
  /\ UNCHANGED <<argv, i, cl, operands, given, err>>

Next == GetOpt \/ EndOpts \/ Run

Spec == Init /\ [][Next]_vars

-----------------------------------------------------------------------------
TypeOK ==
  /\ i \in 1..Len(argv) + 1
  /\ cl \in [cmd : {"INJECT"} \cup {CmdOf[c] : c \in DOMAIN CmdOf},
             delta : BOOLEAN, retry : BOOLEAN, check : BOOLEAN, storageClass : BOOLEAN]
  /\ pc \in {"Parse", "Run", "Exit"} /\ status \in {"none", "0", "-1"}
  /\ touched \subseteq DbPaths

(***************************************************************************)
(* The command main() runs is the one every command option on the command  *)
(* line names: parseCmdLine() throws when two of --help, --failure-modes,  *)
(* --list-failures and --forget-failures are given, in either order.       *)
(***************************************************************************)
CommandIsTheOneGiven ==
  pc = "Run" => \A c \in given \cap DOMAIN CmdOf : cl.cmd = CmdOf[c]

(***************************************************************************)
(* The usage text of eos-import-dirs: --delta takes the input from         *)
(* CTADELTADIRSHELPER.  An import reads that table exactly when --delta    *)
(* was given: --retry, which the constructor checks first, is refused with *)
(* --delta in either order.                                                *)
(***************************************************************************)
DeltaHonoured ==
  table # "none" => ((table = "CTADELTADIRSHELPER") <=> cl.delta)

(***************************************************************************)
(* The usage text lists -d, --delta among the options of eos-import-dirs:  *)
(* getopt_long() never reports a documented option as unknown.             *)
(***************************************************************************)
DocumentedOptionsAccepted ==
  err # NoArg => ~(err.kind = "short" /\ err.name \in {"c", "d", "f", "h", "l", "r", "F"})

(***************************************************************************)
(* The usage texts: the options in brackets are alternatives.  For         *)
(* eos-import-dirs, [--delta|--retry|--forget-failures], and --help,       *)
(* --failure-modes and --list-failures on the other usage line; for        *)
(* eos-import-files, [--help|--storage-class|--failure-modes|              *)
(* --list-failures|--retry|--forget-failures].  An accepted command line   *)
(* has at most one of them.                                                *)
(***************************************************************************)
Alternatives ==
  IF Tool = "dirs" THEN {"d", "r", "F", "h", "f", "l"} ELSE {"h", "s", "f", "l", "r", "F"}

ExclusiveOptionsRejected ==
  pc = "Run" => \A c1, c2 \in given \cap Alternatives : c1 = c2

(***************************************************************************)
(* The usage text: --forget-failures removes the paths under               *)
(* <top_level_path>, and the import takes the directories under it: every  *)
(* row a command selects or deletes lies under the top-level path.         *)
(***************************************************************************)
UnderTop(p) ==
  LET top == operands[1]
      dir == IF top[Len(top)] = "/" THEN top ELSE top \o <<"/">>
  IN  Len(p) >= Len(dir) /\ SubSeq(p, 1, Len(dir)) = dir

OnlyUnderTop == Tool = "dirs" => \A p \in touched : UnderTop(p)

====
