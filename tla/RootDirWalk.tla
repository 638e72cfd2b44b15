------------------------------- MODULE RootDirWalk -------------------------------
(***************************************************************************)
(* EosImportDirs::checkRootDirExists()                                     *)
(* (src/CTA/migration/gRPC/EosImportDirs.cpp), called by cta-eos-import-   *)
(* dirs before the import: when the top-level directory, mangled into the  *)
(* EOS namespace, is missing, it walks up the CASTOR path collecting the   *)
(* directories to create, selects their rows from CTADIRSHELPER with       *)
(* select(dirs), injects them, and checks that the top-level directory     *)
(* now exists.                                                             *)
(*                                                                         *)
(* A path is the sequence of its components; the empty sequence is the    *)
(* empty string.  The injection of the selected rows, which EosImportDirs  *)
(* models thread by thread, is one step here: rows in DEPTH order, each    *)
(* created in EOS when its parent exists and it does not.                  *)
(***************************************************************************)
EXTENDS Naturals, Sequences, SequencesExt

CONSTANTS
  CastorPrefix,  \* m_castor_prefix, as components
  EosPrefix,     \* m_eos_prefix, as components
  Tops,          \* the top-level paths (trailing slashes, stripped by the walk, left out)
  HelperDirs,    \* the PATHs of CTADIRSHELPER
  EosStates      \* the directory trees EOS may hold when the import starts

\* eos::client::manglePathname(): the CASTOR prefix of a path replaced by
\* the EOS prefix; a path not under the CASTOR prefix is left as it is.
Mangle(p) ==
  IF Len(p) > Len(CastorPrefix) /\ SubSeq(p, 1, Len(CastorPrefix)) = CastorPrefix
    THEN EosPrefix \o SubSeq(p, Len(CastorPrefix) + 1, Len(p))
    ELSE p

VARIABLES
  top,       \* m_topLevelPath
  eos,       \* the directories EOS holds
  path,      \* the local path of the walk (trailing slashes stripped)
  found,     \* tld_pb.cmd().id() != 0 after the last GetMD()
  toCreate,  \* dirsToCreate
  failed,    \* the rows the injection recorded as failed
  pc         \* "Start", "Walk", "Create", "Done", "Threw"

vars == <<top, eos, path, found, toCreate, failed, pc>>

Init ==
  /\ top \in Tops /\ eos \in EosStates
  /\ path = <<>> /\ found = FALSE /\ toCreate = <<>> /\ failed = {}
  /\ pc = "Start"

\* GetMD(CONTAINER, 0, tld.pathname) on the mangled top-level path: it
\* returns when the directory exists.  (Every top here begins with '/'.)
\* Otherwise path is m_topLevelPath and the loop begins, its trailing
\* slashes stripped at the head of the first round.
Start ==
  /\ pc = "Start"
  /\ found' = (Mangle(top) \in eos)
  /\ IF found' THEN pc' = "Done" /\ UNCHANGED path
               ELSE pc' = "Walk" /\ path' = top
  /\ UNCHANGED <<top, eos, toCreate, failed>>

\* Mutant: dirsToCreate.push_back(path) instead of push_front(path).
WalkStepPushBack ==
  /\ pc = "Walk" /\ ~found
  /\ IF path = <<>>
       THEN pc' = "Create" /\ UNCHANGED <<path, found, toCreate>>
       ELSE /\ toCreate' = Append(toCreate, path)
            /\ path' = Front(path)
            /\ found' = (path' # <<>> /\ path' \in eos)
            /\ UNCHANGED pc
  /\ UNCHANGED <<top, eos, failed>>

\* Mutant: GetMD() asks for the path just pushed, not for its parent.
WalkStepSamePath ==
  /\ pc = "Walk" /\ ~found
  /\ IF path = <<>>
       THEN pc' = "Create" /\ UNCHANGED <<path, found, toCreate>>
       ELSE /\ toCreate' = <<path>> \o toCreate
            /\ path' = Front(path)
            /\ found' = (path \in eos)
            /\ UNCHANGED pc
  /\ UNCHANGED <<top, eos, failed>>

\* One round of while(tld_pb.cmd().id() == 0): an empty path breaks the
\* loop; otherwise push_front(path), path.resize(path.find_last_of('/'))
\* and GetMD(CONTAINER, 0, path) on that path as it is, unmangled.  GetMD()
\* of the empty string finds nothing.
WalkStep ==
  /\ pc = "Walk" /\ ~found
  /\ IF path = <<>>
       THEN pc' = "Create" /\ UNCHANGED <<path, found, toCreate>>
       ELSE /\ toCreate' = <<path>> \o toCreate
            /\ path' = Front(path)
            /\ found' = (path' # <<>> /\ path' \in eos)
            /\ UNCHANGED pc
  /\ UNCHANGED <<top, eos, failed>>

\* The loop ends when GetMD() found the path.
WalkFound ==
  /\ pc = "Walk" /\ found /\ pc' = "Create"
  /\ UNCHANGED <<top, eos, path, found, toCreate, failed>>

\* select(dirs): SELECT ... FROM CTADIRSHELPER WHERE PATH='d1' OR ... ORDER
\* BY DEPTH ASC, the paths in order of their depth.
SelectDirs(dirs) == SetToSortSeq(HelperDirs \cap Range(dirs), LAMBDA a, b : Len(a) < Len(b))

\* The injection of one row: CreateContainer() on the mangled path
\* succeeds when its parent exists and it does not; a failure is recorded.
InjectRow(acc, d) ==
  LET q == Mangle(d)
  IN  IF q \notin acc.eos /\ (Len(q) = 1 \/ Front(q) \in acc.eos)
        THEN [acc EXCEPT !.eos = @ \cup {q}]
        ELSE [acc EXCEPT !.failed = @ \cup {d}]

\* select(dirsToCreate), processDirs(), the wait for m_dirs to drain, then
\* GetMD() on the mangled top-level path: missing, it throws "Could not
\* create parent directory for import".
Create ==
  /\ pc = "Create"
  /\ LET r == FoldLeft(InjectRow, [eos |-> eos, failed |-> failed], SelectDirs(toCreate))
     IN  /\ eos' = r.eos /\ failed' = r.failed
         /\ pc' = IF Mangle(top) \in r.eos THEN "Done" ELSE "Threw"
  /\ UNCHANGED <<top, path, found, toCreate>>

Next == Start \/ WalkStep \/ WalkFound \/ Create

Spec == Init /\ [][Next]_vars

-----------------------------------------------------------------------------
TypeOK ==
  /\ pc \in {"Start", "Walk", "Create", "Done", "Threw"}
  /\ found \in BOOLEAN
  /\ toCreate \in Seq(Seq(STRING))

(***************************************************************************)
(* The walk up the tree collects the ancestors of the top-level path,      *)
(* outermost first and ending with the top-level path itself, so that      *)
(* select(dirs) and the injection create parents before children.          *)
(***************************************************************************)
AncestorsOutermostFirst ==
  pc \in {"Walk", "Create"} =>
    \A k \in 1..Len(toCreate) :
      toCreate[k] = SubSeq(top, 1, Len(top) - Len(toCreate) + k)

(***************************************************************************)
(* checkRootDirExists() asks to create only directories EOS lacks: the     *)
(* walk stops at the first ancestor that exists in the EOS namespace.      *)
(***************************************************************************)
OnlyMissingAncestorsRequested ==
  pc \in {"Walk", "Create"} => \A d \in Range(toCreate) : Mangle(d) \notin eos

====
