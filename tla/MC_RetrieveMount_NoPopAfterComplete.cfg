\* Violation run: NoPopAfterComplete
\* interleaving of the tape, disk and injector threads, crashes and GC.
CONSTANTS
  j1 = j1
  j2 = j2
  j3 = j3
  j4 = j4
  dsA = dsA
  dsB = dsB
  Jobs <- MCJobs
  DiskSystems <- MCDiskSystems
  JobFSeq <- MCJobFSeq
  JobSize <- MCJobSize
  JobDisk <- MCJobDisk
  FilesRequested <- MCFilesRequested
  BytesRequested <- MCBytesRequested
SPECIFICATION Spec
PROPERTY NoPopAfterComplete
CHECK_DEADLOCK FALSE
