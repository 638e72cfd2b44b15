# Formal models of CTA's retrieve mount, EOS namespace import and XRootD SSI framework (TLA+)

This directory holds TLA+ models of parts of the CTA tape archive code under
`src/CTA`, and their checks:

- **TLC** configurations that model-check the modules on small instances;
- **TLAPS** proofs of the main safety properties, for every value of the constants;
- `PROJECT.json`, which lists every component, run, mutant, finding and hazard. It also maps each TLA+ definition to the source lines it models.

All commands are run from this directory:

```
tlasany RetrieveMount.tla
tlc -workers 2 -config MC_RetrieveMount.cfg MC_RetrieveMount
tlapm RetrieveMountProofs.tla
tlc -workers 2 -config MC_EosImportDirs.cfg MC_EosImportDirs
tlapm EosImportDirsProofs.tla
tlapm Checksum.tla
tlapm SsiClient.tla
```

Every run of section 3 is `tlc -workers 2 -config <cfg> <MC module>`, with the
cfg and module named in its text. `PROJECT.json` lists the project's runs.

## 1. The system

`spec.md` describes the core of CTA as five parts:

1. a sharded job queue in an object store;
2. the agents that own objects in that store;
3. a garbage collector that reclaims the objects of dead agents;
4. the **mount**, which drains the queue in batches for one tape-drive session;
5. an external free-space tracker for the destination disk systems.

Of this core, `src/` holds:

- the retrieve mount (`scheduler/RetrieveMount.{hpp,cpp}`);
- the declaration of the retrieve queue shard (`objectstore/RetrieveQueueShard.hpp`).

The rest of `src/` is code around that core. Two parts of it have real concurrency of their own:

- the XRootD SSI protobuf framework (`xrootd-ssi-protobuf-interface/`). A client thread sends a request and waits on two futures. XRootD callbacks fulfil them and release the request.
- the EOS namespace migration tools (`migration/gRPC/EosImport*`). In each, a main thread reads batches from a database and hands them to an injector thread through a mutex-protected buffer. Errors travel back through a static `exception_ptr`.

### Inventory

| Component | Source | State | Operations | Concurrency / hard behaviour |
|---|---|---|---|---|
| Retrieve mount | `scheduler/RetrieveMount.cpp` | `m_sessionRunning`, `m_tapeRunning`, `m_diskRunning` (plain `bool`s), the DB mount | `getNextJobBatch`, `flushAsyncSuccessReports`, `tapeComplete`, `diskComplete`, `abort`, `setDriveStatus`, `setTapeMounted` | tape thread, disk thread, task injector and report packer call it concurrently with no lock; exceptions swallowed in the flush; flags uninitialized by the constructors |
| Queue shard | `objectstore/RetrieveQueueShard.hpp` (declarations only) | jobs by fSeq, summary | `addJobsBatch`, `removeJobs`, `getCandidateJobList`, `rebuild`, `garbageCollect` | shard lock, duplicate fSeq, summary drift |
| Agent and GC | not under `src/` (spec.md §4.4) | agent liveness, owned objects | heartbeat, collect | crash of the owner, requeue |
| Free-space tracker | external | free space per disk system | query | space changes between queries |
| XRootD SSI protobuf framework | `xrootd-ssi-protobuf-interface/include` | request object, metadata and data promises, stream buffer | `ProcessResponse`, `ProcessResponseData`, `Alert`, `SendAsync`, `DataFuture::wait` | XRootD callbacks run concurrently with the client thread; a promise is fulfilled before `Finished()`; the request can be deleted by either side |
| EOS import (directories, files) | `migration/gRPC/EosImport*.cpp` | the batch buffer `m_dirs`/`m_files`, `m_dirs_done`, `m_exptr`, counters | `processDirs`/`processFiles` (producer), `grpcInject` (consumer thread), `saveFailed*` retries | producer/consumer under a mutex, an error hand-off through a static `exception_ptr` read without synchronisation, thread join at exit |
| Import command lines | `migration/gRPC/EosImport{Dirs,Files}Cmd.cpp` | the `getopt_long` cursor, the command line built so far | `parseCmdLine`, `main` | option order, exclusive options, operand counts, exit status |
| Import set-up | the importers' constructors, `select`, `getStorageClasses`, `checkRootDirExists` | table name, pool size, batch size, storage-class maps, the directories to create | one step each | unchecked configuration values, `strtoul` base detection, CASTOR and EOS names of one directory |
| SSI configuration and the CTA frontend's start | `XrdSsiPbConfig.hpp`, `XrdSsiPbLog.hpp`, `xroot_plugins/XrdSsiCtaServiceProvider.cpp` | the option map, the log mask, the namespace keytab | `Config`, `set`, `getOptionList`, the providers' `Init` | tokenizing, namespaces, keytab format |
| Catalogue tools, rdbms wrappers, media changer, common utilities, tape server pieces, statistics | see `PROJECT.json` | – | – | I/O, parsing, formatting, out of scope per spec.md |

## 2. The modules

### `RetrieveMount.tla`: the retrieve mount and its threads

This module models one retrieve mount draining one retrieve queue.

**Constants.** The constants are:

- the jobs, and for each job its fSeq, size and destination disk system;
- the disk systems;
- the sets of `filesRequested` and `bytesRequested` arguments the injector may pass.

**Variables and what they stand for in the code:**

| Variable | Code |
|---|---|
| `sessionRunning`, `tapeRunning`, `diskRunning` | `m_sessionRunning`, `m_tapeRunning`, `m_diskRunning`, as they are in memory |
| `tapeStores`, `diskStores` | the clears of `m_tapeRunning`/`m_diskRunning` each thread has made and that are still in its store buffer |
| `queued`, `owned`, `succeeded`, `stranded`, `done` | where each job is: in the queue; popped by the mount; waiting in the report packer's success queue; its report failed in the flush; its request deleted |
| `tpc`, `dpc`, `ipc` | program counters of the tape thread, disk thread and task injector |
| `completeCalls` | the number of calls of `m_dbMount->complete()` |
| `draining` | the `DrainingToDisk` drive status was reported |
| `diskFull` | the free-space tracker |
| `seenFull` | history: the disk systems a call of `getNextJobBatch` found full |
| `started`, `alive` | the Scheduler has handed the mount to the session; the process (and its agent) is alive |

**Actions and the code they model:**

- **The completion methods.** They read and write the flags with no lock. Each is therefore split into its steps:
  - `tapeComplete()` (lines 256-268) is `TapeCompleteWrite`, then `TapeCompleteTest`;
  - `diskComplete()` (273-283) is `DiskCompleteWrite`, then `DiskCompleteTest`;
  - `abort()` (288-291) is `diskComplete(); tapeComplete();`, that is `AbortDiskWrite`, `AbortDiskTest`, `AbortTapeWrite` and `AbortTapeTest`. The tape thread calls it instead of `tapeComplete()`.

  Each test (`TapeTest`, `DiskTest`) either calls `complete()` and clears `m_sessionRunning` (`Complete`), or sets the draining status.
- **The racy flags.** `m_tapeRunning` and `m_diskRunning` are plain `bool`s (RetrieveMount.hpp lines 218-228) written and read by two threads with no lock and no atomic. That is a data race, and the build is free to keep a write in the writing thread's store buffer while the other thread reads the old value. The model therefore gives each thread a set of pending stores. A write puts the clear in the writer's set (`tapeStores`, `diskStores`). A thread reads its own pending stores first and memory otherwise (`TapeSees`); the disk thread never writes `m_tapeRunning`, so it reads memory. `FlushStore(f)` makes a pending clear visible (`ClearInMemory`). `m_sessionRunning` is kept sequentially consistent: its only reader is `GetBatchCheck`, and a stale `TRUE` there is already the race `NoPopAfterComplete` exhibits.
- **`getNextJobBatch()`** (138-161) is two steps:
  - `GetBatchCheck` tests `m_sessionRunning` and throws `SessionNotRunning` when it is false. The injector then stops.
  - `GetBatchPop` builds a *fresh* free-space list, records which disk systems it found full (`ObservedFull`), and pops the candidate batch.
- **Candidate selection.** Only the shard's header is under `src/`, so `CandidateJobs` is modelled from spec.md §4.1. It takes the jobs in fSeq order, skips those whose disk system is full, and keeps them greedily while they fit the file and byte quotas.
- **`flushAsyncSuccessReports()`** (166-244) drains the success queue, then lets the DB delete the requests. An exception is logged and swallowed. The model chooses, for every subset, which jobs were reported: those become `done`, the rest `stranded`.
- **Transfers.** `TransferSucceeded` and `TransferFailed` (a failure requeues the job) come from the spec, as the transfer code is not under `src/`.
- **Environment.**
  - `StartSession`: the Scheduler sets the three flags.
  - `DiskSpaceChange`: a disk system fills up or frees space.
  - `Crash`: the process dies.
  - `GarbageCollect`: another agent requeues everything the dead agent owned.

**Init.** `m_tapeRunning` and `m_diskRunning` start with any value, since the constructors (lines 27-38) do not initialize them. The free-space state is arbitrary.

### `RetrieveMountProofs.tla`: proofs

This module holds the TLAPS proofs about `RetrieveMount` (section 4), under the store-buffer model of the flags.

### `MC_RetrieveMount.tla`: the instance for TLC

This module fixes the instance that TLC checks (section 3).

### `EosImportDirs.tla`: the directory import

This module models the `INJECT` command of `cta-eos-import-dirs`
(`migration/gRPC/EosImportDirs.cpp`, `EosImportDirsCmd.cpp`). It has two threads.

- **The main thread.** Its program counter is `mpc`. It runs `checkRootDirExists`, then `select`, then `processDirs`. When the top-level directory is missing, it first selects and processes that directory alone. It then busy-waits until `m_dirs` is empty (`WaitRoot`) and runs `GetMD` again (`RootCheck`).
  - Each round of `processDirs` is three actions: the test of `m_exptr` (`MainCheck`), `getNextBatch` (`MainRead`) and the append under the mutex (`MainAppend`).
  - `getNextBatch` can throw while it converts a row: `m_storageClass.at()` (line 573) throws for a `CLASSID` missing from the storage classes, and a column read throws for a value it cannot convert. `MainRead` has this as a third outcome for a non-empty batch. Main goes to its `catch(...)`, sets `m_dirs_done` and joins, with `m_exptr` unset. Batches appended earlier are still in `m_dirs`, and the injection thread still sends them.
  - On leaving, main sets `m_dirs_done`. On the normal path and on the `catch` path alike, it then joins the injection thread (`Join`).
- **The injection thread.** Its program counter is `ipc`.
  - `InjLock` is the `lock_guard` at the top of each iteration.
  - `InjEmpty` is the empty-buffer branch: it returns if `m_dirs_done` is set, otherwise it continues.
  - `InjBatch` is one `ContainerInsert` of the whole buffer, followed by `saveFailedDirs` and `m_dirs.clear()`.
  - Its three outcomes are success, `saveFailedDirs` throwing (the `AutoRollback` undoes the table rows) and `ContainerInsert` throwing after a partial insert. A throw sets `m_exptr` and returns without clearing `m_dirs`.

**How the data is modelled.**

- A directory is a row number. `RootDir` stands for the rows of `dirsToCreate`. `1..NDirs` are the rows of the main query. The result set is the row range `cursor..last`.
- EOS is the set `eos` of directories that exist. `CTADIRSFAILED` is `failedTable`.
- `ContainerInsert`'s reply gives each directory `EINVAL` exactly when it already exists, and success or a failure otherwise. A dry run gives `EPERM` for all.
- `compareMD` is a free choice, `same`, of the `EINVAL` directories whose metadata match.
- `read`, `sent` and `handled` are history variables.
- `rootPhase` records where `processDirs` was called from, and so where it returns: to the wait of `checkRootDirExists`, or to `main`, which then sets `m_dirs_done`.

**Fairness.** The main thread's steps and the injection thread's steps are weakly fair. The main thread's two mutex acquisitions (`MainAppend`, `WaitRoot`) are **strongly** fair. The injection thread releases and retakes the mutex in a tight loop, so main's `lock()` is enabled only intermittently. Strong fairness assumes that `std::mutex` eventually hands the lock to the waiting thread. The standard does not promise this; common implementations give it in practice.

### `ImportBatches.tla`: what the directory import promises

This module is the abstract specification of the directory import. It hides the threads, the buffer and the cursor. Its state is EOS, `CTADIRSFAILED`, the set of directories sent, whether an injection failed, and the exit status. A step is one of three:

- `Inject(B)`: a batch `B` is sent and succeeds. Each directory of the main query in it ends in EOS or in the failed table.
- `Fail(B)`: the batch throws, possibly after EOS created part of it.
- `Error`: the tool itself meets an error (a row it cannot convert, a top-level directory it cannot create). Batches already handed over may still be sent.
- `Finish`: the tool exits. It exits with `failure` only after an error. It exits with `success` only if no error occurred, the top-level directory exists, and every directory was sent or an injection failed.

A batch is sendable only while no injection has failed. It must be new and must come after every directory already sent, in the order of the query. The exit status may be `success` after a failed batch, because `EosImportDirsCmd.cpp` allows it.

`EosImportDirs` ends with the refinement mapping `Abstract == INSTANCE ImportBatches WITH injected <- {d : sent[d] > 0}, stopped <- exptr, failed <- Failed`. `Failed` holds once main is in its `catch(...)` or has returned -1. `ImplementsImportBatches == Abstract!Spec` is checked as a PROPERTY.

**Batch size 0.** `castor.batch_size` is read with no check (line 83), so `ImportAssumption` admits `BatchSize = 0`. Then `getNextBatch` returns nothing, and the tool exits 0 having injected nothing. `ImportBatches` forbids that, and TLC finds `ImplementsImportBatches` violated with `BatchSize = 0`. The refinement is therefore stated and proved for a non-zero batch size only.

### `EosImportDirsProofs.tla`: proofs

This module holds the TLAPS proofs about `EosImportDirs` (section 4).

### `MC_EosImportDirs.tla`: the instance for TLC

This module fixes three directories and a batch size of two. Main can then append a second batch while the first is still in the buffer, and a batch can be cut by the batch size. `Init` ranges over retry and dry-run mode and over every initial content of EOS, so the `EINVAL` paths occur.

### `EosImportFiles.tla`: the file import

This module models the `INJECT` command of `eos-import-files`
(`migration/gRPC/EosImportFiles.cpp`). It has the two threads of the directory import, without the top-level directory.

- **The main thread:**
  - `Select` runs the main query; it fails when the storage class does not resolve.
  - `MainCheck`, `MainRead` and `MainAppend` are the rounds of `processFiles`.
  - `Join` ends the thread.
- **The injection thread:**
  - `InjLock` and `InjEmpty` are as in the directory import.
  - `InjSkipAll` drops a buffer shorter than the rows still to skip.
  - `InjBatch` runs one round on a buffer. It drops the rows still to skip and, with `--check`, prunes the buffer (`pruneExistingFiles`, `compareMD`). Then it calls `FileInsert` and `saveFailedFiles`, or fails on one of them.
- **The data.** `m_files` is a sequence, so that the rows skipped are a prefix. EOS is the set `eos`, and `mismatch` holds the files there whose metadata differ. `CTAFILESFAILED` is `failedTable`.
- **Fairness.** The same as the directory import's, with `MainAppend` strongly fair.
- **The loop of `pruneExistingFiles`.** `PruneSteps(s)` is a recursive function over `0..Len(s)`: entry `i` is the kept buffer after the first `i` files. `PruneExistingFiles(s)` is its last entry. It is written this way instead of with `SelectSeq`, which the provers cannot unfold.
- **The instance.** `MC_EosImportFiles.cfg` gives the constants directly: four files, a batch size of two and `--skip` from 0 to 3. A skip then ends inside a batch, at its end, and in the next batch.

`EosImportFilesProofs.tla` holds the TLAPS proofs about this module (section 4).

### `ImporterSetup.tla`: the constructors and the batching of the main query

One `Construct` step models the constructor of `EosImportDirs` (and the matching lines of `EosImportFiles`):

- it throws without `castor.db_login`, or when the login does not parse;
- it chooses the table (`TableName`);
- it sizes the pool (`ActualMaxNumConns`);
- it stores `castor.batch_size` in the `unsigned int` `m_batch_size` (`Unsigned`).

`ProcessBatch` is one round of `processDirs()` (or `processFiles()`): `getNextBatch()` (`BatchRead`), then either the end of the loop or the append to `m_dirs`. A row is its position in the result set.

The unsigned widths are constants. `MC_ImporterSetup.tla` scales them to 2^16 and 2^20, which TLC's integers hold. Only the wrap of a negative value above every small value matters. The instance ranges over every combination of:

- the login (absent, bad or good);
- `castor.max_num_connections` in {absent, -1, 0, 1, 3};
- `castor.batch_size` in {absent, -1, 1, 2, 3}; `MCAllConfigs` adds 0, under which `EveryRowQueuedOnce` fails (section 3).

With four rows, a batch then ends exactly at the last row, and before it.

### `RootDirWalk.tla`: creating the import's top-level directory

This module models `EosImportDirs::checkRootDirExists()` and `select(dirs)`.

- **`Start`** is the `GetMD` of the mangled top-level path.
- **`WalkStep`** is one round of the loop:
  - `push_front` of the path;
  - `resize(find_last_of('/'))`;
  - `GetMD` of the shortened path, **unmangled**, as the code does.
- **`WalkFound`** ends the loop when that lookup finds the path.
- **`Create`** is in one step:
  - `select(dirs)` (`SelectDirs`: the rows of `CTADIRSHELPER` among the paths, by depth);
  - the injection of those rows (`InjectRow`: created when the parent exists and the directory does not, otherwise recorded as failed);
  - the final check, which throws.

The two threads that carry out the injection are the subject of `EosImportDirs`. Here only its result matters.

`manglePathname()` is not in the repository. `Mangle` models it from its use: it replaces the CASTOR prefix with the EOS prefix. A path is the sequence of its components.

`MC_RootDirWalk.tla` takes:

- every top-level path of a tree of depth three under `/castor`;
- every state of the EOS tree that is closed under parents;
- a helper table that lacks one directory, so that the final check can throw.

### `StorageClassFilter.tla`: `--storage-class`

`GetStorageClasses` builds `m_storageClass` and its reverse `m_storageClassRev`, in `CLASSID` order, keeping the first entry of a name. `Select` looks the filter up as a name, or takes it for a number, and converts the result with `strtoul(sc, NULL, 0)`. The model of `strtoul` detects base 16, 8 and 10 and takes the longest prefix of digits, as the C library does.

`MC_StorageClassFilter.tla` has two tables:

- one with names that read as numbers (`"1"` for class 9);
- one with a single class.

It tries every filter of one to three characters over `0 1 8 9 x a s`.

### `Checksum.tla` and `ModeFilter.tla`: conversions of the file import

`Checksum` models both `convertChecksum` overloads, as `getNextBatch()` and `saveFailedFiles()` use them. `Char` covers either signedness of `char`. The byte base is a parameter: TLC runs the algorithm with 3-bit bytes on every 12-bit word, and the proofs are for 8-bit bytes.

`ModeFilter` models the `FILEMODE` filters of both `getNextBatch()` functions, on the 16 bits of a `mode_t`, with `Bitwise`. Directories use `&= ~(...)`; files use `&= !(...)`. The instance covers:

- three file types;
- every combination of the three special bits;
- twelve permission patterns.

### `ImportCmdLine.tla`: the command lines of the import tools

This module models, for either tool (`Tool`):

- each round of `getopt_long()` in `parseCmdLine()`, with its "Invalid combination of options" checks (`GetOpt`);
- the checks after the loop (`DirsArgsOk`, `FilesArgsOk`);
- `main()`'s dispatch and exit status (`Run`).

A word of `argv` is a short option, a long option or an operand. The option tables are those of the code: the `optstring` of `eos-import-dirs` lacks `d`.

The rows that `FORGET_FAILURES` deletes and `INJECT` selects are computed with SQL `LIKE` (`Like`, a recursive operator), against a few database paths. This module therefore holds no theorem.

`MC_ImportCmdLine.tla` tries every command line of up to three words over eleven to thirteen words per tool.

### `SsiClient.tla`: one request of the SSI client framework

This module has two threads: the client thread (`cpc`) and the framework's callback thread (`fpc`). They meet in the Request's two promises.

- **The client thread** runs `ServiceClientSide::Send()`:
  - `SendAsync`;
  - `GetMetadata` waits on the metadata future;
  - `WaitData` is `DataFuture::wait()`, which deletes the Request.
- **The callback thread** runs:
  - `Alert`, up to `MaxAlerts` times;
  - `ProcessResponse`;
  - `ProcessResponseData`, up to `MaxChunks` chunks;
  - `SetDataAfterFinished`, then `Finished`.

A callback that fulfils a promise and then calls `Finished()` is two steps, because the client thread may run in between. Whether `catch(XrdSsiException &)` catches a `PbException` depends on `XrdSsiPbException.hpp`, which is outside the tree. It is the constant `PbExceptionIsXrdSsiException`. Every step but `Alert` is weakly fair: a thread that can run eventually does, while the server need not send alerts.

### `SsiServer.tla`: one request on the server side, with the test service

The server thread (`spc`) runs `Service::ProcessRequest()`:

- `BindRequest`;
- `Execute` and `ExecuteAction` (the test service's `TestRequestProc.cpp`);
- `Post` of the metadata and the response;
- `Wait` for `Finished()`;
- `UnBindRequest`.

The framework runs these steps:

- `DeliverAlert`;
- `GetBuff`, `GetBuffThrows` and `SendBuff`: the pulls of a stream's buffers;
- `Finish`;
- `Cancel`, at any time after `BindRequest`.

`GetBuff` is strongly fair: the framework keeps pulling the stream while the response is not finished. The instance streams six records.

### `TestClient.tla` and `TestThreads.tla`: the test clients

`TestClient` models the main loop of `TestClient.cpp`. It sends the command `--repeat` times (`SendRequest`), takes the metadata (`MetaGet`) and waits on the data (`DataGet`). The framework side runs `ProcessResponse`, `DataCallback` and `DataLast`. `out` records what is printed, each header and record tagged with its request. The instance has three repeats and two records. Fairness is `WF_vars(Next)`: the program is one loop with threads that make progress.

`TestThreads` models `TestThreads.cpp` with four threads, each running `SendOnce()`. Main joins them in order.

### `SsiConfig.tla`: the framework's configuration

This module models `XrdSsiPb::Config`:

- the constructor from a file (`ConfigFromFile`): tokenizing and comment stripping on sequences of atoms;
- `setNamespace`, `set` and `getOptionList`, with its namespace rules;
- the environment's log level (`getEnv`);
- the configuration part of `ServiceClientSide`;
- the `Init()` of the test and CTA service providers (`ProviderInit`).

`assigned` and `defaulted` are reference variables, which record what the calls meant. The instance runs every sequence of up to three calls over two files, four keys and six values.

### `CtaProvider.tla`: the CTA frontend's start

`ProviderInit` is `Init()` and `ExceptionThrowingInit()` of `XrdSsiCtaServiceProvider.cpp` for one content of the configuration. It covers:

- the logger URL;
- the catalogue login and `numberofconnections`;
- `ping`;
- the object store path;
- the two optional integer options;
- the namespace keytab, parsed by `setNamespaceMap` as a fold of `KeytabLine` over its lines.

Any exception ends in `exit(1)`. The instance has every keytab of zero to three lines drawn from seven: a blank line, a comment, good lines for two disk instances (one named twice, with two endpoints, one with a trailing comment), a line of two words and one of four.

### `EosTestInject.tla`: the EOS test injectors

This module models `main()` of `EosTestDirInject.cpp` and `EosTestFileInject.cpp`, chosen by `Tool`. `main()` does four things in order:

1. It scans `argv` by hand: `ArgValue`, `ArgFlag`, `ArgInvalid` and `ArgsDone`.
2. It builds the injector (`Construct`). The constructor reads the configuration file (`ConfigRead`), then `castor.json` and, in the file tool, `eos.layout`.
3. It pings EOS (`Ping`), reads a file's metadata (`CheckMD`), or refuses a missing `--path` (`NoPath`).
4. It inserts one entry (`Inject`, `Insert`).

`exit` records how `main()` ends. `ok` and `error` are its two `return`s, `error` after it catches a `std::runtime_error`. `abort` stands for any other exception escaping `main()`. `std::invalid_argument` from the Config getters is such an exception.

## 3. Runs

`PROJECT.json` lists twelve runs:

- five passing runs, one for each module that holds proofs or whose proofs rest on it: the retrieve mount, both imports, the checksum and the SSI client;
- seven violation runs, one for each of the most serious disagreements between the code and what its comments, usage text or spec say.

Each passing-run property has a mutant in `PROJECT.json`: a plausible slip in the modelled code that TLC catches.

The other modules are checked by the configurations kept beside them. These are listed under "Further configurations" below. Each module also states properties that no kept configuration checks. To check one, copy the module's cfg and name that property alone: as its `INVARIANT`, or as its `PROPERTY` for an action or temporal property. The counterexample described below is what TLC then reports.

### The retrieve mount

The retrieve mount runs use `MC_RetrieveMount`, which fixes this instance:

| Job | fSeq | Size | Disk system |
|---|---|---|---|
| `j1` | 10 | 1 | `dsA` |
| `j2` | 11 | 2 | `dsB` |
| `j3` | 12 | 1 | `dsA` |
| `j4` | 13 | 1 | `dsB` |

The injector passes `filesRequested = 2` and `bytesRequested ∈ {2, 3}`.

This instance is large enough for the interesting cases:

- a batch is cut by the byte quota (`j2` does not fit after `j1` with 2 bytes) and by the file quota;
- a job is skipped because its disk system is full while a later one is taken;
- both outcomes of a flush occur;
- jobs are requeued by failures and by the collector.

Every action and every disjunct of `Next` fires in the passing run. Deadlock checking is off because a mount really stops: once the threads are done and the queue is drained, or once the process has died and its jobs were collected, no step is enabled.

| Run | cfg | Expect | What it shows |
|---|---|---|---|
| `retrieve_mount_safety` | `MC_RetrieveMount.cfg` | pass (4.8M states) | `TypeOK` (which includes: at most two calls of `complete()`) and `AbortReportsComplete` (`abort()` always calls `complete()`), under all interleavings, all delays of the flag stores, crashes and collections |
| `retrieve_complete_once` | `MC_RetrieveMount_CompletedOnce.cfg` | violation | `CompletedOnce`: once both sides are done, `complete()` was called exactly once. TLC finds both threads calling `m_dbMount->complete()`. With the sequentially consistent half removed, it also finds the store-buffering trace in which each thread's clear is still buffered when the other tests, and `complete()` is never called |

| Property | Mutant |
|---|---|
| `TypeOK` | `abort()` clears both flags before its tests; three `complete()` calls follow |
| `AbortReportsComplete` | `abort()` skips its `diskComplete()`, so its `tapeComplete()` may read `m_diskRunning` still set |

Two properties of the module fail under the same constants:

- `NoPopAfterComplete`, checked by `MC_RetrieveMount_NoPopAfterComplete.cfg`: a batch is popped after the session completed between the check and the pop.
- `OneStrikeOut`: a disk system found full is queried again and its jobs are popped. spec.md's one-strike-out rule is not implemented.

### The directory import

`import_dirs_safety` (`MC_EosImportDirs.cfg`: pass, 6,144 states, every action fires) checks four properties under `FairSpec`:

- `InjectedOnce`: no directory is sent to EOS twice;
- `RowsAccounted`: every directory of the main query that the injector has finished with is in EOS or in `CTADIRSFAILED`. The top-level directory is exempt: in retry mode its failure is not recorded, but `RootCheck` then fails the run.
- `Termination`: main reaches its exit, whether or not an injection failed or `getNextBatch` threw.
- `ImplementsImportBatches`: every behaviour of the two threads is a behaviour of `ImportBatches` under the mapping above. So batches reach EOS in query order, none twice, and nothing is sent after a failure. Each exit status must also be one the abstract spec allows.

Deadlock checking is off because the program ends. `TypeOK` is not in this run: it is proved (`TypeCorrect`), and no plausible slip in the code breaks it.

| Property | Mutant |
|---|---|
| `InjectedOnce` | `m_dirs` is not cleared after a successful insert |
| `RowsAccounted` | `saveFailedDirs` records the successes instead of the failures |
| `Termination` | the empty-buffer branch never tests `m_dirs_done` |
| `ImplementsImportBatches` | `checkRootDirExists` does not throw when the top-level directory is still missing after its creation, so the tool reports success without it |

`import_dirs_exit_status` (`MC_EosImportDirs_SuccessMeansAccounted.cfg`, violation) checks `SuccessMeansAccounted`: when the tool exits with status 0, every directory it read is in EOS or recorded.

TLC finds this counterexample:

1. Main reads the last batch, appends it and sets `m_dirs_done`.
2. The injector's `ContainerInsert` throws, and the injector stores `m_exptr` and returns.
3. Main joins and returns 0. It never tests `m_exptr` after `processDirs`.

The failed batch is neither in EOS nor in `CTADIRSFAILED`, and nothing reports it.

### The file import

`import_files_safety` (`MC_EosImportFiles.cfg`) passes with 152,408 states under `FairSpec`. It checks:

- `TypeOK`;
- `InjectedOnce`;
- `SkipsPrefix`: the rows `--skip` drops are exactly the first rows read;
- `RowsAccounted`;
- `Termination`.

Besides mutants like those of the directory import, two mutants change `InjSkipAll`. One forgets to reduce `m_skip`, and `SkipsPrefix` catches it. The other drops the whole buffer whenever rows are left to skip, so that `m_skip` goes below zero, and `TypeOK` catches it.

`import_files_check_prunes` (`MC_EosImportFiles_PrunedExist.cfg`) is a violation run. `PrunedExist` says that with `--check`, only files missing from EOS are injected. TLC shows that `pruneExistingFiles()` keeps exactly the files that already exist with the same metadata.

### Conversions of the file import

- `checksum_round_trip` (`MC_Checksum.cfg`) passes with 24,576 states. `RoundTrip` says the saved checksum is the one read. Two mutants break it: a sign-extended `unsigned char` cast, and little-endian bytes.
- `file_mode_filter` (`MC_ModeFilter_FileFlagsFiltered.cfg`) is a violation run: the file import's `!` clears every bit of the mode.

### The import's top-level directory and command line

- `root_dir_walk_prefixes` (`MC_RootDirWalk_Prefixes.cfg`, violation) uses `/castor` and `/eos`, as the defaults do. `OnlyMissingAncestorsRequested` says the walk asks only for directories EOS lacks, and it fails. The loop looks up `/castor/v` in EOS, which holds it as `/eos/v`. It finds nothing and asks to create it again. The injection then fails and records it as a failure.
- `import_cmdline_under_top` (`MC_ImportCmdLine_UnderTop.cfg`, violation) checks `OnlyUnderTop`. A top-level path with `_` selects and forgets rows outside it: the path goes unescaped into a `LIKE` pattern.

### The SSI client

`ssi_client_send` (`MC_SsiClient.cfg`) passes with 142 states under `FairSpec`. It checks:

- `DataAfterMetadata`: the data promise is never set before the metadata promise;
- `ClientReturns`: `Send()` returns.

`ssi_client_delete_after_finished` (`MC_SsiClient_DeletedAfterFinished.cfg`, violation) shows that the client can delete the Request between a callback's promise and its `Finished()`. This is a use after free.

`RequestReclaimed` also fails: `Send()` can return with the Request never deleted.

### Further configurations

These configurations are kept for the modules without a passing run. Each passes, except `MC_SsiServer_ProcessorOutlivesFinished.cfg`. The state counts are TLC's distinct states.

| cfg | States | Checks |
|---|---|---|
| `MC_ImporterSetup.cfg` | 185 | `MinimumConnections`: the pool has the two connections the constructor's comment asks for. `EveryRowQueuedOnce`: when `processDirs()` ends, every row of the main query has gone to the injection thread, once and in order. |
| `MC_RootDirWalk.cfg` | 570 | with equal CASTOR and EOS prefixes: `AncestorsOutermostFirst` (`dirsToCreate` lists the ancestors of the top-level path, parents first) and `OnlyMissingAncestorsRequested` |
| `MC_StorageClassFilter.cfg` | 2,394 | `NamedClassSelected`: a filter that is a class name selects that class |
| `MC_ModeFilter.cfg` | 1,440 | `DirModeFiltered`: the directory import's filter clears the set-uid, set-gid and sticky bits and keeps the others |
| `MC_ImportCmdLine_Dirs.cfg` | 8,600 | `CommandIsTheOneGiven` (the command run is the one the command option named) and `DeltaHonoured` (an import reads `CTADELTADIRSHELPER` exactly when `--delta` was given) |
| `MC_SsiServer.cfg` | 118 | `ServerReturns`: `ProcessRequest()` returns |
| `MC_SsiServer_ProcessorOutlivesFinished.cfg` | violation | the `RequestProc` is destroyed before `Finished()` |
| `MC_TestClient.cfg` | 311 | `ClientTerminates` |
| `MC_TestThreads.cfg` | 131 | `ReturnAfterAllAnswered` |
| `MC_SsiConfig.cfg` | 9,816 | `ConfigRoundTrip`: `getOptionList()` returns the words last given to a key |
| `MC_EosTestInject.cfg` | 47,485 | `SuccessMeansDone`: `main()` returns 0 only after it did what the command line asked. That is the ping, else the metadata read, else the insertion of the `--path`, which is then in EOS. With `Tool = "dir"`: 39,972 states. |
| `MC_CtaProvider.cfg` | 874 | `NamespaceMapMatchesKeytab`: the frontend starts only with a well-formed keytab, and its map is that of a declarative reading of the format |

The modules also state properties that these configurations do not check. Each fails when named alone:

- `EveryRowQueuedOnce`, when a configuration may set `castor.batch_size = 0` (`MCAllConfigs`). The first `getNextBatch()` is empty, so the import ends at once, successfully, with nothing imported.
- `FilterMeansDocumentedClass`: filter `9` is accepted with table `{1: s}`, and `010` selects class 8 because `strtoul` reads octal.
- `DocumentedOptionsAccepted`: `-d` is rejected although documented.
- `ExclusiveOptionsRejected`, with `Tool = "files"` and `Argvs <- MCFilesArgvs`: `eos-import-files` accepts `--retry --forget-failures` but refuses `--forget-failures --retry`.
- `StreamReclaimed` and `GetBuffReturnsLiveBuffer` (`SsiServer`): a stream created after a cancel is never deleted, and `GetBuff()` returns a deleted buffer.
- `RecordsAfterHeader` and `RepeatHonoured` (`TestClient`): records are printed before the header of their response, and the metadata command is sent once whatever `--repeat` says.
- `ExitStatusDocumented` (`TestThreads`): an error response aborts the process through an uncaught exception in a `std::thread`.
- `NoAbort` (`EosTestInject`): a `castor.json` other than `true`/`false`, or an `eos.layout` that `std::stoi` rejects, throws `std::invalid_argument`. The `catch (std::runtime_error &)` of `main()` does not catch it, so the process aborts instead of returning 1.
- `CheckMeansFound` (`EosTestInject`): `--check` on a path that EOS does not hold exits 0. `GetMD()` returns an empty reply and never reports the missing file.
- `NamespacedRoundTrip`, with `NsArgs <- MCNsArgsTest`, and `DefaultNoLogging` (`SsiConfig`): with a namespace, a key already namespaced is not found; without a `log` option, ERROR messages are still logged.

## 4. Proofs

### The retrieve mount

`RetrieveMountProofs.tla` proves, for every finite set of jobs and disk systems and every delay of the flag stores:

- `IInvariant`: `Spec => []IInv`;
- `TypeCorrect`: `Spec => []TypeOK`, so `complete()` is called at most twice;
- `AbortCompleted`: `Spec => []AbortReportsComplete`.

These rest on the assumptions `JobsAssumption` and `RequestAssumption` of `RetrieveMount`.

**The inductive invariant.** Neither property is inductive alone. The strengthening `IInv` is `TypeOK` and `FlagInv`, which says what the tape thread sees of the flags:

- **`TapeFlag`.** After the start and until the tape thread clears `m_tapeRunning`, the flag is set in memory and no clear of it is pending. Only the tape thread clears it. So `abort()`'s own disk test never completes.
- **`AbortFlag`.** After `abort()`'s `diskComplete()`, the tape thread sees `m_diskRunning` cleared: its own store is pending, or a clear has reached memory. So `abort()`'s tape test always completes.
- **`NotStarted`.** Before the start, nothing has run and nothing is buffered.
- **`CompleteBound`.** `complete()` has been called at most once per completion test that has run. This gives the bound of two.
- **`AbortCompletes`.** Once `abort()` has returned, `complete()` has been called.

Nothing is proved about the later of `tapeComplete()` and `diskComplete()`. Whether it completes depends on when the stores reach memory, and under store buffering it may not (the finding of `retrieve_complete_once`).

**How the proof runs.** TLC checked `IInv` as an invariant on the instance above (4.8M states) before it was proved. The proof has one case per action of `Next`. Each case first states the action's effect as plain equalities, then proves each part of the invariant from them:

- the job sets (`TypeJobs`);
- the flags (`TypeFlags`);
- the counters and program counters (`TypeControl`);
- the completion protocol (`FlagInv`).

The lemma `QuietStep` covers the steps that leave the flags and the completion threads alone (`Frozen`). These are the injector, the transfers, the flush, the disk-space changes, the crash and the collector. The temporal theorems follow from `InitIInv` and `NextIInv` by PTL.

**Left to TLC.** The properties that fail (`CompletedOnce`, `NoPopAfterComplete`, `OneStrikeOut`) and liveness stay with TLC.

### The directory import

`EosImportDirsProofs.tla` proves, for every `NDirs` and every `BatchSize` that `ImportAssumption` allows (0 included):

- `TypeCorrect`: `Spec => []TypeOK`;
- `NoDoubleInjection`: `Spec => []InjectedOnce`;
- `FailuresRecorded`: `Spec => []RowsAccounted`.

**The inductive invariant.** `IInv` strengthens the three properties with what relates the threads' state to the history:

- **`ReadBelowCursor`.** Rows already read lie below the cursor, so `getNextBatch` never returns a row twice.
- **`NothingReadYet`.** Before `checkRootDirExists`, nothing has been read and `processDirs` has not been called.
- **`RootPhaseRows`.** While `processDirs` works for `checkRootDirExists`, the result set is the top-level directory alone. This is why `RootCheck` may reset the cursor to row 1.
- **`BufferRows`.** The pending batch and `m_dirs` are disjoint sets of rows already read.
- **`SentRows`.** A directory already sent was read and is not pending. It stays in `m_dirs` only once an exception has ended the injection thread, which is why `InjBatch` finds every buffered row unsent.
- **`RetryRows`.** A retry keeps every directory it has not finished with in `CTADIRSFAILED`. Without it, a failed retry could not be shown to stay recorded.

**How the proof runs.** TLC checked `IInv` as an invariant on the instances (`NDirs`, `BatchSize`) = (3, 2), (2, 1), (4, 3) and (3, 0) before it was proved. `NextIInv` has one case per action. `InjBatch` splits into the success outcome, in retry and in normal mode, and the two exception outcomes. The lemma `RepliesEINVAL` gives the only fact about `ContainerInsert`'s replies that the proof needs: `EINVAL` only for a directory that exists.

**The refinement.** `ImportRefinement` proves `Spec => ImplementsImportBatches`, the refinement onto `ImportBatches`, for every `NDirs` and every `BatchSize # 0`, the errors of main included. It rests on `IInv` and on a second invariant, `RInv`. TLC checked `RInv` on (3, 2), (2, 1), (4, 3) and (4, 1). It says:

- **`PendingLatest`.** The pending batch holds the last rows read.
- **`PendingOnlyInAppend`.** Only `MainAppend` has a batch pending.
- **`SentInOrder`.** While the injection thread runs, every directory it has sent precedes every directory still buffered or pending. This is what makes each `InjBatch` batch sendable in the abstract spec.
- **`ReadSentOrBuffered`.** A row read is sent, pending or buffered.
- **`DoneMeansEnding`** and **`InjectorStops`.** `m_dirs_done` is set only on main's way out. The injection thread stops only on an exception or on an empty buffer once `m_dirs_done` is set. When main exits, the injection thread has returned.
- **`MainPhase`.** In the main query the top-level directory exists, and every row below the cursor was read. At the join, every row was read, unless `BatchSize = 0`.
- **`RootCheckDrained`.** `checkRootDirExists` runs `GetMD` again only once the buffer has drained.

The step simulation maps each action:

- `InjBatch` with a successful insert maps to `Inject(dirs)`.
- `InjBatch` with a throw maps to `Fail(dirs)`.
- A step of main into its `catch(...)` maps to `Error` (`ThrowRefines`). These are `MainCheck` on `m_exptr`, `WaitRoot` on `m_exptr`, `RootCheck` on a missing directory, and `MainRead` on a row it cannot convert.
- `Join` maps to `Finish`.
- Every other action leaves the mapped state unchanged.

`RInv` supplies what `Finish` requires of a `success` exit. At `Join`, every row was read and then sent, unless an injection failed. This is where `BatchSize # 0` is needed: `JoinRefines` and `NextRefines` take it as a hypothesis.

**Left to TLC.** `Termination` (liveness under the fairness above) and the violated `SuccessMeansAccounted` stay with TLC.

### The checksum conversion

`Checksum.tla` proves:

- **`ChecksumRoundTrip`.** `convertChecksum(const std::string &)` undoes `convertChecksum(uint32_t)` for every value below 2^32 and either signedness of `char`. The proof names the four base-256 digits of the value. `UCharOfChar` shows that the cast to `unsigned char` recovers each byte from the `char` it was stored in. The shifts and sums then rebuild the value.
- **`CodeRoundTrip`.** This is `Spec => []RoundTrip` for 8-bit bytes (`ByteBits = 8`). The inductive invariant `IInv` says:
  - the bytes held are those of the row;
  - a saved checksum was computed from them.

  Its step case cites `ChecksumRoundTrip`.
- **`CodeTypeCorrect`.** The bytes fit in a `char` and the saved value in a `uint32_t` (`ToBytesType`).

TLC runs the same operators with 3-bit bytes, on every word.

### The SSI client

`SsiClient.tla` proves `TypeCorrect` (`Spec => []TypeOK`) and `DataOnlyAfterMetadata` (`Spec => []DataAfterMetadata`). They hold for every `MaxChunks` and `MaxAlerts` and for either exception hierarchy.

`DataAfterMetadata` is not inductive alone: a callback step may set the data promise only at a position where the code has already set the metadata. `IInv` therefore records which promises each position of the callback thread has set:

- none before the response;
- the metadata alone while chunks are handed over;
- the client thread is at `Send` exactly while the callback thread is idle.

`NextIInv` has one case per action.

### The file import

`EosImportFilesProofs.tla` proves, for every `NFiles`, every `BatchSize` and every `MaxSkip` that `FilesAssumption` allows:

- `TypeCorrect`: `Spec => []TypeOK`;
- `NoDoubleInjection`: `Spec => []InjectedOnce`;
- `SkipsExactPrefix`: `Spec => []SkipsPrefix`;
- `FailuresRecorded`: `Spec => []RowsAccounted`.

**The inductive invariant.** The rows read so far are `1..cursor-1`, in order. `Front == cursor - Len(pending) - Len(files)` is the first row the injection thread has not yet taken out of `m_files`. `Interval(m, n)` is the sequence `m, ..., m+n-1`. `IInv` adds these parts to the four properties:

- **`PendingRows`.** The pending batch is the interval of the last rows read. Only `MainAppend` holds one.
- **`BufferRows`.** While the injection thread runs, `m_files` is the interval that starts at `Front`, and no row from `Front` on has been sent. This is why `InjBatch` never sends a row twice.
- **`SkipRows`.** The rows skipped are `1..skipArg-skip`. While rows are left to skip, these are exactly the rows before `Front`. This is why the skip inside `InjBatch` drops the first `skip` rows of the buffer and no others.
- **`AfterSkip`.** Every row handled or pruned comes after the first `skipArg`.
- **`RetryRows`.** In a retry, every file is in `CTAFILESFAILED` or in EOS. `saveFailedFiles()` deletes a row only for a file that is then in EOS: inserted, or `EINVAL` with `compareMD()` true. Without this part, `RowsAccounted` could not be shown in a retry.

**How the proof runs.** TLC checked `IInv` as an invariant on (`NFiles`, `BatchSize`, `MaxSkip`) = (4, 2, 3), (3, 1, 4), (5, 3, 5), (2, 4, 1) and (0, 1, 2) before it was proved. Lemmas on `Interval` give its type, the concatenation `MainAppend` performs, and the split `InjBatch` performs at `skip`.

`PruneRows` shows that `pruneExistingFiles()` returns a sequence of rows of its argument. `FiniteNatInductiveDef` of `NaturalsInduction` gives the equation of the recursive function. The least index whose entry would break the claim, from `WFMin` of `WellFoundedInduction`, contradicts that equation.

`InjBatchRows` collects what the skip and the pruning leave:

- the batch is a sequence of files, whose rows lie in `Front+skip..Front+Len(files)-1`;
- the skipped rows become `1..skipArg`.

`InjBatchStep` then splits on the outcome: the batch is injected and `m_files` cleared, or `FileInsert` or `saveFailedFiles()` throws. `NextIInv` has one case per action. The theorems follow from `InitIInv` and `NextIInv` by PTL.

**Left to TLC.** `Termination` (liveness) and the violated `PrunedExist` stay with TLC.

### What stays with TLC

- **Liveness.** `Termination`, `ClientReturns`, `ServerReturns`, `ClientTerminates` and `RequestReclaimed` hold under fairness. `tlapm` does not reason about `ENABLED`, so they are checked only on the instances above.
- **Recursion.** `ImportCmdLine` uses a recursive `Like`. A module that reaches a `RECURSIVE` declaration loses the SMT backend, so it holds no theorem. What a recursive definition computes for every input would need induction over the data. The library's induction theorems take an operator parameter, which the installed provers cannot instantiate. Only the type of `PruneSteps` is proved, through `FiniteNatInductiveDef` and a least counterexample. No theorem states which files it keeps: that stays with TLC.
- **`Bitwise`.** `ModeFilter` needs `Bitwise`, which cannot be used from a module with a theorem.
- **Fold-based models.** `SsiConfig`, `CtaProvider`, `StorageClassFilter` and `RootDirWalk` compute with folds over sequences, and `ImporterSetup` relates sequences to bounds. Their properties are checked over every input of the bounded sets above; they are not proved for all inputs.

## 5. Not modelled

`PROJECT.json` gives each component a status and a note. The main gaps:

- **The queue shard's own operations** (`addJobsBatch`, `removeJobs`, `rebuild`, `garbageCollect`). Only the header is under `src/`. The candidate selection is modelled from spec.md inside `RetrieveMount`.
- **The logical queue and its splits.** There is no code under `src/`.
- **The import tools' read-only commands** (`listFailureModes`, `listFailures`) and `preFlightCheck`. These are SQL queries whose results are printed or turned into warnings; they change no state.
- **The shared `m_dbConn`** between the two import threads, and the size of `m_dirs`. See the hazards in `PROJECT.json`.
- **`manglePathname` and `checkPrefix`.** They are declared in `GrpcUtils.hpp`, which is not in the repository. `Mangle` models the first from its use; prefixes are taken as already normalised.
- **The catalogue and rdbms tools, the media changer and the common utilities.** These are single-shot command-line tools, I/O wrappers or value types, with no state machine.

**Further work.**

- A refinement mapping to show that the two threads of `EosImportDirs` implement the one-step injection of `RootDirWalk`'s `Create`.
- Proofs of `EveryRowQueuedOnce` and `AncestorsOutermostFirst` for every instance. They need invariants over sequence prefixes, without the folds used for TLC.
