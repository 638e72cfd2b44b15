------------------------------- MODULE TestThreads -------------------------------
(***************************************************************************)
(* The XRootD SSI protocol-buffer thread test client                       *)
(* (test/src/TestThreads.cpp): main() parses the command line, starts one  *)
(* thread running SendOnce() per --repeat, all on the same service object, *)
(* joins them in order and returns 0.  SendOnce() sends a metadata-only    *)
(* request with ServiceClientSide::Send() and handles the response type;   *)
(* it catches XrdSsiException only, and an exception that leaves a         *)
(* std::thread function calls std::terminate(), which aborts the process.  *)
(***************************************************************************)
EXTENDS Naturals

CONSTANTS
  Threads,     \* --repeat <num>, m_repeat
  PbExceptionIsXrdSsiException
               \* whether catch(XrdSsiException &) catches a PbException: the
               \* classes are declared in XrdSsiPbException.hpp, outside this tree

\* The constants are meant to satisfy:
\*   /\ Threads \in Nat
\*   /\ PbExceptionIsXrdSsiException \in BOOLEAN

ThreadIds == 1..Threads

\* How Send() ends for one thread: an RSP_SUCCESS response; RSP_ERR_USER or
\* RSP_ERR_SERVER, for which SendOnce() throws std::runtime_error;
\* RSP_ERR_PROTOBUF or an invalid type, for which it throws PbException; a
\* PbException thrown by Send() itself (metadata that does not parse); an
\* XrdSsiException from the framework.
Outcomes == {"SUCCESS", "RUNTIME", "PBTYPE", "PBEXC", "SSIEXC"}

\* The outcomes SendOnce() survives: catch(XrdSsiPb::XrdSsiException &).
Caught == {"SUCCESS", "SSIEXC"}
          \cup (IF PbExceptionIsXrdSsiException THEN {"PBTYPE", "PBEXC"} ELSE {})

VARIABLES
  mpc,      \* the main thread
  spawned,  \* the threads started
  joined,   \* the threads joined
  tpc,      \* tpc[t]: thread t
  status    \* how the process ended: "none", "0", "1", "abort"

vars == <<mpc, spawned, joined, tpc, status>>

Init ==
  /\ mpc = "Construct" /\ spawned = 0 /\ joined = 0
  /\ tpc = [t \in ThreadIds |-> "Idle"]
  /\ status = "none"

\* main(): TestClientCmd cmd(argc, argv); a bad option or a service that
\* cannot be created throws, and main() returns 1.
Construct ==
  /\ status = "none" /\ mpc = "Construct"
  /\ \/ mpc' = "Spawn" /\ UNCHANGED status
     \/ status' = "1" /\ mpc' = "Exit"
  /\ UNCHANGED <<spawned, joined, tpc>>

\* TestClientCmd::Send(): while(m_repeat-- > 0), a std::thread running
\* SendOnce() on the shared service.  A std::thread that cannot be created
\* throws std::system_error out of Send(): main() returns 1 when no thread
\* runs yet, and otherwise the vector destroys joinable threads, which
\* calls std::terminate().
Spawn ==
  /\ status = "none" /\ mpc = "Spawn"
  /\ \/ /\ spawned < Threads
        /\ spawned' = spawned + 1
        /\ tpc' = [tpc EXCEPT ![spawned + 1] = "Sending"]
        /\ UNCHANGED <<mpc, status>>
     \/ /\ spawned < Threads
        /\ status' = IF spawned = 0 THEN "1" ELSE "abort"
        /\ mpc' = "Exit" /\ UNCHANGED <<spawned, tpc>>
     \/ /\ spawned = Threads /\ mpc' = "Join"
        /\ UNCHANGED <<spawned, tpc, status>>
  /\ UNCHANGED joined

\* Mutant: the threads detached instead of joined.
JoinDetached ==
  /\ status = "none" /\ mpc = "Join"
  /\ \/ joined < Threads /\ joined' = joined + 1 /\ UNCHANGED <<mpc, status>>
     \/ joined = Threads /\ mpc' = "Exit" /\ status' = "0" /\ UNCHANGED joined
  /\ UNCHANGED <<spawned, tpc>>

\* for(auto &t : threads) t.join(); then main() returns 0.
Join ==
  /\ status = "none" /\ mpc = "Join"
  /\ \/ /\ joined < Threads /\ tpc[joined + 1] = "Done"
        /\ joined' = joined + 1 /\ UNCHANGED <<mpc, status>>
     \/ joined = Threads /\ mpc' = "Exit" /\ status' = "0" /\ UNCHANGED joined
  /\ UNCHANGED <<spawned, tpc>>

\* SendOnce(): Send(), then the switch on response.type(); an exception it
\* does not catch terminates the process.
SendOnce(t) ==
  /\ status = "none" /\ tpc[t] = "Sending"
  /\ \E o \in Outcomes :
       IF o \in Caught
         THEN tpc' = [tpc EXCEPT ![t] = "Done"] /\ UNCHANGED status
         ELSE status' = "abort" /\ UNCHANGED tpc
  /\ UNCHANGED <<mpc, spawned, joined>>

Next ==
  \/ Construct \/ Spawn \/ Join
  \/ \E t \in ThreadIds : SendOnce(t)

Spec == Init /\ [][Next]_vars

-----------------------------------------------------------------------------
TypeOK ==
  /\ mpc \in {"Construct", "Spawn", "Join", "Exit"}
  /\ spawned \in 0..Threads /\ joined \in 0..spawned
  /\ tpc \in [ThreadIds -> {"Idle", "Sending", "Done"}]
  /\ status \in {"none", "0", "1", "abort"}

(***************************************************************************)
(* main() returns 0 only once every request has been answered: the thread  *)
(* of each has run SendOnce() to its end.                                  *)
(***************************************************************************)
ReturnAfterAllAnswered == status = "0" => \A t \in ThreadIds : tpc[t] = "Done"

(***************************************************************************)
(* The documentation of main(): it returns 0 on success and 1 when the     *)
(* client threw an exception; the process never ends otherwise.            *)
(***************************************************************************)
ExitStatusDocumented == status # "abort"

====
