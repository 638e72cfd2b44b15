\* The file import is meant to keep every mode bit but the set-ID and
\* sticky bits; the ! of the code clears them all.
CONSTANT Modes <- MCModes
SPECIFICATION Spec
INVARIANT FileFlagsFiltered
CHECK_DEADLOCK FALSE
