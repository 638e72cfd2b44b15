\* The directory import keeps every mode bit but the set-ID and sticky bits.
CONSTANT Modes <- MCModes
SPECIFICATION Spec
INVARIANT DirModeFiltered
\* A row is read once, as a directory or as a file.
CHECK_DEADLOCK FALSE
