------------------------- MODULE MC_RetrieveMount -------------------------
(***************************************************************************)
(* A queue of four jobs for two disk systems, with sizes that make the     *)
(* byte quota cut a batch short, for TLC.                                  *)
(***************************************************************************)
EXTENDS RetrieveMount, TLC

CONSTANTS j1, j2, j3, j4, dsA, dsB

MCJobs == {j1, j2, j3, j4}
MCDiskSystems == {dsA, dsB}
MCJobFSeq == (j1 :> 10) @@ (j2 :> 11) @@ (j3 :> 12) @@ (j4 :> 13)
MCJobSize == (j1 :> 1) @@ (j2 :> 2) @@ (j3 :> 1) @@ (j4 :> 1)
MCJobDisk == (j1 :> dsA) @@ (j2 :> dsB) @@ (j3 :> dsA) @@ (j4 :> dsB)
MCFilesRequested == {2}
MCBytesRequested == {2, 3}
=============================================================================
