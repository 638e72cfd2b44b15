\* The mount's type (at most two calls of complete()) and abort()'s
\* completion under every interleaving of the tape, disk and injector
\* threads, every delay of their stores to the flags, crashes and GC.
CONSTANTS
  j1 = j1
  j2 = j2
  j3 = j3
  j4 = j4
  dsA = dsA
  dsB = dsB
  Jobs <- MCJobs
  DiskSystems <- MCDiskSystems
  JobFSeq <- MCJobFSeq
  JobSize <- MCJobSize
  JobDisk <- MCJobDisk
  FilesRequested <- MCFilesRequested
  BytesRequested <- MCBytesRequested
SPECIFICATION Spec
INVARIANTS
  TypeOK
  AbortReportsComplete
\* A mount ends: once the threads are done and the queue drained, or the
\* process crashed and its jobs were collected, nothing is left to do.
CHECK_DEADLOCK FALSE
