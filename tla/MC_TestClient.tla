----------------------------- MODULE MC_TestClient -----------------------------
(***************************************************************************)
(* TestClient for TLC: the command sent three times, a stream of two      *)
(* records, so that a later response can race the header of its request.  *)
(***************************************************************************)
EXTENDS TestClient

MCRepeat == 3
MCRecords == 2
====
