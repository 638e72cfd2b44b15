----------------------------- MODULE MC_SsiServer -----------------------------
(***************************************************************************)
(* SsiServer for TLC: a stream of six records, sent in one buffer or in   *)
(* up to six.                                                              *)
(***************************************************************************)
EXTENDS SsiServer

MCRepeat == 6
====
