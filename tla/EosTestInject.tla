---------------------------- MODULE EosTestInject ----------------------------
(***************************************************************************)
(* The two test injectors of the migration tools                           *)
(* (src/CTA/migration/gRPC/EosTestDirInject.cpp, EosTestFileInject.cpp):   *)
(* main() scans argv by hand, builds the injector (its constructor reads   *)
(* the configuration file), then pings EOS, reads the metadata of a file   *)
(* (--check, file injector only) or inserts one directory or file.  main   *)
(* catches std::runtime_error only: it prints the message and returns 1.   *)
(*                                                                         *)
(* A word of argv, a path and a configuration value are strings of a small *)
(* set.  The file id is parsed with strtoul() and only sent to EOS, which  *)
(* the model does not look into, so it is left out.  The gRPC calls whose  *)
(* code is not in the repository (ping, GetCurrentIds) are assumed to      *)
(* return.                                                                 *)
(***************************************************************************)
EXTENDS Naturals, Sequences

CONSTANTS
  Tool,        \* "dir" (EosTestDirInject) or "file" (EosTestFileInject)
  Words,       \* the words argv[1..argc-1] is made of
  MaxArgs,     \* the longest argv[1..argc-1] tried
  ConfFiles,   \* the configuration files that can be opened
  JsonValues,  \* values castor.json may have in the configuration file
  LayoutValues,\* values eos.layout may have
  IntWords,    \* the values of eos.layout std::stoi() converts
  Paths,       \* the paths EOS may hold
  Absent       \* an option missing from the configuration file

\* The command lines tried: every argv[1..argc-1] of at most MaxArgs words.
Argvs == UNION {[1..n -> Words] : n \in 0..MaxArgs}

DefaultConfig == "/etc/cta/castor-migration.conf"

\* The options that take a value.
ValueOptions == {"--config", "--path", "--fileid"}

\* The options without a value: --check exists in the file injector only.
FlagOptions == IF Tool = "file" THEN {"--check", "ping"} ELSE {"ping"}

\* How main() ends: return 0, return 1 after catching a std::runtime_error,
\* or std::terminate() on any other exception.
Exits == {"running", "ok", "error", "abort"}

VARIABLES
  argv,        \* argv[1..argc-1]
  i,           \* the loop index of main(), argv[0] excluded
  configfile,  \* configfile
  path,        \* path
  doPing,      \* doPing
  doCheck,     \* doCheck
  json,        \* the value of castor.json in the configuration file
  layout,      \* the value of eos.layout in the configuration file
  eos,         \* the paths whose mangled EOS path exists in the namespace
  pc,          \* "args", "construct", "dispatch" or "done"
  op,          \* what main did with EOS: "none", "ping", "check", "inject"
  exit         \* how main ended

vars == <<argv, i, configfile, path, doPing, doCheck, json, layout, eos, pc,
          op, exit>>

\* main(): the defaults of the locals, and whatever the configuration file
\* and EOS hold.
Init ==
  /\ argv \in Argvs
  /\ i = 1
  /\ configfile = DefaultConfig /\ path = ""
  /\ doPing = FALSE /\ doCheck = FALSE
  /\ json \in JsonValues /\ layout \in LayoutValues
  /\ eos \in SUBSET Paths
  /\ pc = "args" /\ op = "none" /\ exit = "running"

\* An exception ends main().
Throw(how) == pc' = "done" /\ exit' = how

\* option == "--config" && argc > ++i, and so on: an option with its value.
ArgValue ==
  /\ pc = "args" /\ i + 1 <= Len(argv) /\ argv[i] \in ValueOptions
  /\ configfile' = IF argv[i] = "--config" THEN argv[i + 1] ELSE configfile
  /\ path' = IF argv[i] = "--path" THEN argv[i + 1] ELSE path
  /\ i' = i + 2
  /\ UNCHANGED <<argv, doPing, doCheck, json, layout, eos, pc, op, exit>>

\* option == "--check" or option == "ping".
ArgFlag ==
  /\ pc = "args" /\ i <= Len(argv) /\ argv[i] \in FlagOptions
  /\ doCheck' = (doCheck \/ argv[i] = "--check")
  /\ doPing' = (doPing \/ argv[i] = "ping")
  /\ i' = i + 1
  /\ UNCHANGED <<argv, configfile, path, json, layout, eos, pc, op, exit>>

\* throwUsage(argv[0], "invalid option " + option): an unknown word, or a
\* value option with nothing after it.
ArgInvalid ==
  /\ pc = "args" /\ i <= Len(argv)
  /\ argv[i] \notin FlagOptions
  /\ argv[i] \in ValueOptions => i + 1 > Len(argv)
  /\ Throw("error")
  /\ UNCHANGED <<argv, i, configfile, path, doPing, doCheck, json, layout, eos, op>>

\* End of the loop: construct the injector.
ArgsDone ==
  /\ pc = "args" /\ i > Len(argv)
  /\ pc' = "construct"
  /\ UNCHANGED <<argv, i, configfile, path, doPing, doCheck, json, layout, eos,
                 op, exit>>

\* Config::getOptionValueBool(): "true" or "false" in any case, or throw
\* std::invalid_argument.
BoolOk(v) == v \in {Absent, "true", "false", "True", "FALSE"}

\* Config::getOptionValueInt(): std::stoi() throws std::invalid_argument or
\* std::out_of_range on a value it cannot convert.
IntOk(v) == v = Absent \/ v \in IntWords

\* The reads both constructors make: XrdSsiPb::Config opens the file, then
\* castor.json is read as a Boolean; the string options cannot fail, and
\* GrpcClient::Create() only builds a channel.
ConfigRead == configfile \in ConfFiles /\ BoolOk(json)

\* The constructor: XrdSsiPb::Config throws XrdSsiException when the file
\* cannot be opened (a class defined outside the repository: whether main
\* catches it is left open); castor.json is read first, then, in the file
\* injector, eos.layout; std::invalid_argument and std::out_of_range are
\* not std::runtime_error and escape main().
Construct ==
  /\ pc = "construct"
  /\ \/ configfile \notin ConfFiles /\ \E how \in {"error", "abort"} : Throw(how)
     \/ configfile \in ConfFiles /\ ~BoolOk(json) /\ Throw("abort")
     \/ ConfigRead /\ Tool = "file" /\ ~IntOk(layout) /\ Throw("abort")
     \/ /\ ConfigRead /\ Tool = "file" => IntOk(layout)
        /\ pc' = "dispatch" /\ UNCHANGED exit
  /\ UNCHANGED <<argv, i, configfile, path, doPing, doCheck, json, layout, eos, op>>

\* ping(): its reply is printed.
Ping ==
  /\ pc = "dispatch" /\ doPing
  /\ op' = "ping" /\ pc' = "done" /\ exit' = "ok"
  /\ UNCHANGED <<argv, i, configfile, path, doPing, doCheck, json, layout, eos>>

\* getMD(): GrpcClient::GetMD() reads replies until the completion queue
\* reports a failure, and returns what it read, an empty MDResponse when the
\* file does not exist: getMD() prints it and never throws.
CheckMD ==
  /\ pc = "dispatch" /\ ~doPing /\ doCheck
  /\ op' = "check" /\ pc' = "done" /\ exit' = "ok"
  /\ UNCHANGED <<argv, i, configfile, path, doPing, doCheck, json, layout, eos>>

\* if(path.empty()) throwUsage(argv[0], "path not specified").
NoPath ==
  /\ pc = "dispatch" /\ ~doPing /\ ~doCheck /\ path = ""
  /\ Throw("error")
  /\ UNCHANGED <<argv, i, configfile, path, doPing, doCheck, json, layout, eos, op>>

\* ContainerInsert or FileInsert of one entry at p: an error in the reply
\* throws std::runtime_error.  EOS refuses a path it holds, and may refuse
\* another one (a missing parent, a permission).
Insert(p) ==
  \/ p \notin eos /\ eos' = eos \cup {p} /\ pc' = "done" /\ exit' = "ok"
  \/ Throw("error") /\ UNCHANGED eos

\* inject(): the metadata of one directory or file at the mangled path,
\* inserted.
Inject ==
  /\ pc = "dispatch" /\ ~doPing /\ ~doCheck /\ path # ""
  /\ op' = "inject"
  /\ Insert(path)
  /\ UNCHANGED <<argv, i, configfile, path, doPing, doCheck, json, layout>>

Next ==
  \/ ArgValue \/ ArgFlag \/ ArgInvalid \/ ArgsDone \/ Construct
  \/ Ping \/ CheckMD \/ NoPath \/ Inject

Spec == Init /\ [][Next]_vars

-----------------------------------------------------------------------------
TypeOK ==
  /\ argv \in Argvs /\ i \in 1..MaxArgs + 1
  /\ configfile \in Words \cup {DefaultConfig} /\ path \in Words \cup {""}
  /\ doPing \in BOOLEAN /\ doCheck \in BOOLEAN
  /\ eos \subseteq Words
  /\ pc \in {"args", "construct", "dispatch", "done"}
  /\ op \in {"none", "ping", "check", "inject"} /\ exit \in Exits

(***************************************************************************)
(* main() returns 0 only after doing what the command line asked: the      *)
(* ping when "ping" was given (whatever else was), else the metadata read  *)
(* when --check was, else the insertion of the path given with the last   *)
(* --path, which is then in EOS.                                           *)
(***************************************************************************)
SuccessMeansDone ==
  exit = "ok" =>
    /\ doPing => op = "ping"
    /\ ~doPing /\ doCheck => op = "check"
    /\ ~doPing /\ ~doCheck => op = "inject" /\ path \in eos

(***************************************************************************)
(* Every error ends main() with a message and exit status 1, as its catch  *)
(* block intends: fails on a castor.json or eos.layout the Config getters  *)
(* reject, whose exceptions are not std::runtime_error.                    *)
(***************************************************************************)
NoAbort == exit # "abort"

(***************************************************************************)
(* --check exits 0 only for a file EOS holds: fails, GetMD() reports a     *)
(* missing file as an empty reply.                                         *)
(***************************************************************************)
CheckMeansFound == op = "check" /\ exit = "ok" => path \in eos
=============================================================================
