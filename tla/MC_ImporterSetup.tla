------------------------------- MODULE MC_ImporterSetup -------------------------------
(***************************************************************************)
(* Instances of ImporterSetup for TLC.  The unsigned widths are scaled     *)
(* down to what TLC's integers hold: only the wrap of a negative value     *)
(* above every small value matters.                                        *)
(***************************************************************************)
EXTENDS ImporterSetup

MCUIntWrap == 2^16
MCULongWrap == 2^20

\* A configuration file: castor.db_login absent, unparsable or good;
\* castor.max_num_connections and castor.batch_size absent or an int.
ConfigsOf(batchSizes) ==
  [db_login : {"absent", "bad", "good"},
   max_num_connections : {Absent, -1, 0, 1, 3},
   batch_size : batchSizes]

\* The batch sizes a positive or negative castor.batch_size gives.
MCConfigs == ConfigsOf({Absent, -1, 1, 2, 3})

\* Every batch size, zero included.
MCAllConfigs == ConfigsOf({Absent, -1, 0, 1, 2})

====
