--------------------------- MODULE MC_EosImportDirs ---------------------------
(* Three directories read in batches of two, so that main appends a second *)
(* batch while the first may still be in the buffer.                       *)
EXTENDS EosImportDirs

MCNDirs == 3
MCBatchSize == 2
=============================================================================
