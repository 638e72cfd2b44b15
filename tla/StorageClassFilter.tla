------------------------------- MODULE StorageClassFilter -------------------------------
(***************************************************************************)
(* The --storage-class filter of eos-import-files                          *)
(* (src/CTA/migration/gRPC/EosImportFiles.cpp).  getStorageClasses()       *)
(* reads CNS_CLASS_METADATA into m_storageClass (CLASSID -> NAME) and      *)
(* builds the reverse map m_storageClassRev (NAME -> the CLASSID written   *)
(* by std::to_string()); select() looks the filter up as a name, takes it  *)
(* for a numeric id otherwise, converts the result with                    *)
(* strtoul(sc, NULL, 0), and refuses 0.                                    *)
(*                                                                         *)
(* A string is a sequence of one-character strings.                        *)
(***************************************************************************)
EXTENDS Naturals, Sequences, SequencesExt

CONSTANTS
  ClassTables,  \* the contents CNS_CLASS_METADATA may have: sets of [id, name]
  Filters,      \* the --storage-class arguments, non-empty strings
  NoClass       \* scid before select()

Digits == <<"0", "1", "2", "3", "4", "5", "6", "7", "8", "9">>

\* std::to_string() of a CLASSID below 100.
to_string(n) ==
  IF n < 10 THEN <<Digits[n + 1]>> ELSE <<Digits[(n \div 10) + 1], Digits[(n % 10) + 1]>>

\* The value of a digit character in base 16, or 16 for a character that is
\* no digit.
DigitValue(c) ==
  CASE c \in Range(Digits) -> CHOOSE k \in 0..9 : Digits[k + 1] = c
    [] c \in {"a", "A"} -> 10
    [] c \in {"b", "B"} -> 11
    [] OTHER -> 16

\* strtoul(s, NULL, 0) of the C library: base 16 after "0x" followed by a hex
\* digit, base 8 after a leading "0", base 10 otherwise; the value of the
\* longest prefix of digits of the base, 0 when there is none.  (The
\* strings here have no white space and no sign.)
strtoul(s) ==
  LET hex == Len(s) >= 3 /\ s[1] = "0" /\ s[2] \in {"x", "X"} /\ DigitValue(s[3]) < 16
      base == IF hex THEN 16 ELSE IF Len(s) >= 1 /\ s[1] = "0" THEN 8 ELSE 10
      digits == IF hex THEN SubSeq(s, 3, Len(s)) ELSE s
      step(acc, c) ==
        IF acc.stop \/ DigitValue(c) >= base THEN [acc EXCEPT !.stop = TRUE]
        ELSE [acc EXCEPT !.val = @ * base + DigitValue(c)]
  IN  FoldLeft(step, [val |-> 0, stop |-> FALSE], digits).val

-----------------------------------------------------------------------------
VARIABLES
  table,    \* the rows of CNS_CLASS_METADATA
  filter,   \* m_storageClassFilter
  classes,  \* m_storageClass
  rev,      \* m_storageClassRev
  pc,       \* "Read", "Select", "Done"
  scid      \* the CLASSID select() computes (0 makes it throw), or NoClass

vars == <<table, filter, classes, rev, pc, scid>>

Init ==
  /\ table \in ClassTables /\ filter \in Filters
  /\ classes = <<>> /\ rev = <<>> /\ pc = "Read" /\ scid = NoClass

\* getStorageClasses(): m_storageClass from the rows, then, for each class
\* in increasing CLASSID (the order of the std::map), insert(NAME,
\* to_string(CLASSID)) into m_storageClassRev, which keeps the first entry
\* of a name.
GetStorageClasses ==
  /\ pc = "Read" /\ pc' = "Select"
  /\ LET sc == [id \in {r.id : r \in table} |-> (CHOOSE r \in table : r.id = id).name]
         insert(m, id) == IF sc[id] \in DOMAIN m THEN m ELSE (sc[id] :> to_string(id)) @@ m
     IN  /\ classes' = sc
         /\ rev' = FoldLeft(insert, <<>>, SetToSortSeq(DOMAIN sc, <))
  /\ UNCHANGED <<table, filter, scid>>

\* Mutant: the filter is tried as a numeric id before it is looked up as a
\* name.
ResolveNumericFirst(f) ==
  IF strtoul(f) # 0 THEN strtoul(f)
  ELSE IF f \in DOMAIN rev THEN strtoul(rev[f]) ELSE 0

\* select() with a filter: sc is m_storageClassRev.at(filter), or the filter
\* itself when at() throws; then strtoul(sc, NULL, 0).
Resolve(f) == strtoul(IF f \in DOMAIN rev THEN rev[f] ELSE f)

\* select(): a CLASSID of 0 throws "Could not resolve ... to a valid
\* storage class"; another is bound to :CLASSID.
Select ==
  /\ pc = "Select" /\ pc' = "Done"
  /\ scid' = Resolve(filter)
  /\ UNCHANGED <<table, filter, classes, rev>>

Next == GetStorageClasses \/ Select

Spec == Init /\ [][Next]_vars

-----------------------------------------------------------------------------
TypeOK ==
  /\ pc \in {"Read", "Select", "Done"}
  /\ scid \in Nat \cup {NoClass}

\* The classes the usage text lets a filter stand for: "Storage class can
\* be the string name or numeric id".  A name is a name first; a string
\* that names no class is the decimal CLASSID of a class.
Meant(f) ==
  LET named == {r.id : r \in {s \in table : s.name = f}}
  IN  IF named # {} THEN named ELSE {r.id : r \in {s \in table : to_string(s.id) = f}}

(***************************************************************************)
(* getStorageClasses() and select(): a filter that is the name of a class  *)
(* selects that class, even when the name reads as the number of another.  *)
(***************************************************************************)
NamedClassSelected ==
  pc = "Done" => \A r \in table : r.name = filter => scid = r.id

(***************************************************************************)
(* The usage text: the filter is the string name or the numeric id of a    *)
(* storage class.  select() selects a class the filter stands for, and     *)
(* refuses a filter that stands for none.                                  *)
(***************************************************************************)
FilterMeansDocumentedClass ==
  pc = "Done" => IF Meant(filter) = {} THEN scid = 0 ELSE scid \in Meant(filter)

====
