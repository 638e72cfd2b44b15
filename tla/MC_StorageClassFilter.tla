------------------------------- MODULE MC_StorageClassFilter -------------------------------
(***************************************************************************)
(* Two contents of CNS_CLASS_METADATA, with unique names: one class named  *)
(* "1" whose CLASSID is 9, and classes 8 and 10; and every filter of one   *)
(* to three characters among digits, "x", "a" and "s".                     *)
(***************************************************************************)
EXTENDS StorageClassFilter

CONSTANT MCNoClass

MCClassTables ==
  { {[id |-> 8, name |-> <<"s">>], [id |-> 10, name |-> <<"a">>], [id |-> 9, name |-> <<"1">>]},
    {[id |-> 1, name |-> <<"s">>]} }

MCFilters == UNION {[1..n -> {"0", "1", "8", "9", "x", "a", "s"}] : n \in 1..3}

====
