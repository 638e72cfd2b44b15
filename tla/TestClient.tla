------------------------------- MODULE TestClient -------------------------------
(***************************************************************************)
(* The XRootD SSI protocol-buffer test client (test/src/TestClient.cpp)   *)
(* against the client framework.  The main thread sends the command        *)
(* --repeat times with ServiceClientSide::SendAsync(), prints the header   *)
(* the metadata carries, sets is_metadata_done and waits on the data       *)
(* future.  A framework thread sets the metadata promise, then hands each  *)
(* record of a data or stream response to                                  *)
(* IStreamBuffer<test::Data>::DataCallback(), which spins until            *)
(* is_metadata_done before printing the record.                            *)
(*                                                                         *)
(* The output is the sequence of the headers and records printed, each    *)
(* tagged with the number of the request it belongs to.                    *)
(***************************************************************************)
EXTENDS Naturals, Sequences

CONSTANTS
  Repeat,   \* --repeat <num>, m_repeat
  Records   \* stream <num_records>, request.repeat()

\* The constants are meant to satisfy:
\*   Repeat \in Nat /\ Records \in Nat \ {0}

\* The metadata a request gets: a Response of type RSP_SUCCESS, an error
\* type (RSP_ERR_PROTOBUF, RSP_ERR_USER, RSP_ERR_SERVER), or an
\* XrdSsiException put in the metadata promise by ProcessResponse().
MetadataOutcomes == {"SUCCESS", "ERROR", "SSIERR"}

VARIABLES
  cmd,      \* the command of the command line
  mpc,      \* the main thread
  left,     \* m_repeat
  sent,     \* the requests sent
  flag,     \* is_metadata_done
  fw,       \* the current Request in the framework: "Idle", "Meta", "Data", "Done"
  meta,     \* the metadata future of the current Request, "none" before
  recs,     \* the records of the current response not yet handed over
  out       \* what was printed: <<"H", n>> a header, <<"R", n>> a record

vars == <<cmd, mpc, left, sent, flag, fw, meta, recs, out>>

\* TestClientCmd::TestClientCmd(): a command and its arguments accepted.
Init ==
  /\ cmd \in {"metadata", "data", "stream"}
  /\ mpc = "Send" /\ left = Repeat /\ sent = 0 /\ flag = FALSE
  /\ fw = "Idle" /\ meta = "none" /\ recs = 0 /\ out = <<>>

\* The framework receives a new Request: ServiceClientSide::SendAsync().
Issue ==
  /\ sent' = sent + 1
  /\ fw' = "Meta" /\ meta' = "none"
  /\ mpc' = "MetaWait"

-----------------------------------------------------------------------------
(* The main thread.                                                        *)

\* TestClientCmd::Send() for the metadata command: one Send(), whatever
\* --repeat says; SendAsync() for the others, in while(m_repeat-- > 0).
SendRequest ==
  /\ mpc = "Send"
  /\ \/ cmd = "metadata" /\ sent = 0 /\ Issue /\ UNCHANGED left
     \/ cmd # "metadata" /\ left > 0 /\ left' = left - 1 /\ Issue
     \/ cmd # "metadata" /\ left = 0 /\ mpc' = "Exit0"
        /\ UNCHANGED <<left, sent, fw, meta>>
  /\ UNCHANGED <<cmd, flag, recs, out>>

\* Mutant: is_metadata_done = true left out.
MetaGetNoFlag ==
  /\ mpc = "MetaWait" /\ meta # "none"
  /\ \/ /\ meta = "SSIERR"
        /\ mpc' = IF cmd = "metadata" THEN "Exit0" ELSE "Send"
        /\ UNCHANGED <<flag, out>>
     \/ meta = "ERROR" /\ mpc' = "Exit1" /\ UNCHANGED <<flag, out>>
     \/ /\ meta = "SUCCESS"
        /\ out' = Append(out, <<"H", sent>>)
        /\ mpc' = "DataWait" /\ UNCHANGED flag
  /\ UNCHANGED <<cmd, left, sent, fw, meta, recs>>

\* metadata_future.get(), then the switch on response.type(): an
\* XrdSsiException is caught and the loop goes on (Send() returns for the
\* metadata command); an error type throws out of Send() to main(), which
\* returns 1; RSP_SUCCESS prints message_txt, and SendAsync() sets
\* is_metadata_done before stream_future.wait().
MetaGet ==
  /\ mpc = "MetaWait" /\ meta # "none"
  /\ \/ /\ meta = "SSIERR"
        /\ mpc' = IF cmd = "metadata" THEN "Exit0" ELSE "Send"
        /\ UNCHANGED <<flag, out>>
     \/ meta = "ERROR" /\ mpc' = "Exit1" /\ UNCHANGED <<flag, out>>
     \/ /\ meta = "SUCCESS"
        /\ out' = Append(out, <<"H", sent>>)
        /\ mpc' = "DataWait"
        /\ flag' = (flag \/ cmd # "metadata")
  /\ UNCHANGED <<cmd, left, sent, fw, meta, recs>>

\* DataFuture::wait(): the data promise, then delete the Request; the loop
\* goes on (Send() returns for the metadata command).
DataGet ==
  /\ mpc = "DataWait" /\ fw = "Done"
  /\ fw' = "Idle"
  /\ mpc' = IF cmd = "metadata" THEN "Exit0" ELSE "Send"
  /\ UNCHANGED <<cmd, left, sent, flag, meta, recs, out>>

-----------------------------------------------------------------------------
(* The framework thread.                                                   *)

\* Request::ProcessResponse(): the metadata promise is set (or given an
\* XrdSsiException); a metadata-only response sets the data promise, a
\* data or stream response goes on with GetResponseData().  The test server
\* sends one record for SEND_DATA and request.repeat() for SEND_STREAM.
ProcessResponse ==
  /\ fw = "Meta"
  /\ \E o \in MetadataOutcomes :
       /\ meta' = o
       /\ fw' = IF o = "SUCCESS" /\ cmd # "metadata" THEN "Data" ELSE "Done"
  /\ recs' = IF cmd = "stream" THEN Records ELSE 1
  /\ UNCHANGED <<cmd, mpc, left, sent, flag, out>>

\* Request::ProcessResponseData(), m_istream_buffer.Push(): each record is
\* handed to DataCallback(), which spins while !is_metadata_done and then
\* prints the record.
DataCallback ==
  /\ fw = "Data" /\ recs > 0 /\ flag
  /\ out' = Append(out, <<"R", sent>>)
  /\ recs' = recs - 1
  /\ UNCHANGED <<cmd, mpc, left, sent, flag, fw, meta>>

\* ProcessResponseData() with is_last: the data promise is set.
DataLast ==
  /\ fw = "Data" /\ recs = 0
  /\ fw' = "Done"
  /\ UNCHANGED <<cmd, mpc, left, sent, flag, meta, recs, out>>

Next ==
  \/ SendRequest \/ MetaGet \/ DataGet
  \/ ProcessResponse \/ DataCallback \/ DataLast

Spec == Init /\ [][Next]_vars

(***************************************************************************)
(* The program does not stop while one of its threads can go on, and the  *)
(* spin in DataCallback() sees the store to is_metadata_done.              *)
(***************************************************************************)
FairSpec == Spec /\ WF_vars(Next)

-----------------------------------------------------------------------------
TypeOK ==
  /\ cmd \in {"metadata", "data", "stream"}
  /\ mpc \in {"Send", "MetaWait", "DataWait", "Exit0", "Exit1"}
  /\ left \in 0..Repeat /\ sent \in 0..Repeat + 1 /\ flag \in BOOLEAN
  /\ fw \in {"Idle", "Meta", "Data", "Done"}
  /\ meta \in {"none"} \cup MetadataOutcomes
  /\ recs \in 0..Records
  /\ out \in Seq({"H", "R"} \X (1..Repeat + 1))

(***************************************************************************)
(* The client ends: the records of a response are printed once the main    *)
(* thread has set is_metadata_done, the data future is then set, and the   *)
(* loop runs m_repeat times.                                               *)
(***************************************************************************)
ClientTerminates == <>(mpc \in {"Exit0", "Exit1"})

(***************************************************************************)
(* The comment of DataCallback(): metadata responses are fully processed   *)
(* before the data responses are handled, so every record is printed after *)
(* the header of its own response.                                         *)
(***************************************************************************)
RecordsAfterHeader ==
  \A j \in 1..Len(out) :
    out[j][1] = "R" => \E i \in 1..j - 1 : out[i] = <<"H", out[j][2]>>

(***************************************************************************)
(* The usage text: --repeat <num> is the number of times the command is    *)
(* sent; a client that ends normally has sent it that many times.          *)
(***************************************************************************)
RepeatHonoured == mpc = "Exit0" => sent = Repeat

====
