------------------------------- MODULE SsiServer -------------------------------
(***************************************************************************)
(* One request on the server side of the XRootD SSI protocol-buffer        *)
(* framework, with the test service's request handling:                    *)
(*                                                                         *)
(*  - the server thread runs Service::ProcessRequest(): BindRequest(),     *)
(*    RequestProc::Execute(), which parses the request, runs the test      *)
(*    ExecuteAction() (TestRequestProc.cpp), posts the metadata and the    *)
(*    response and waits for Finished(), then UnBindRequest();             *)
(*  - the framework delivers the alerts, pulls the buffers of a stream     *)
(*    response with TestStream::GetBuff(), and calls                       *)
(*    RequestProc::Finished() once the response is sent, or at any time   *)
(*    after BindRequest() when the client cancels or goes away.            *)
(*                                                                         *)
(* Protocol buffers are abstracted to whether they parse or serialize, a   *)
(* response to its kind, a stream to the number of records left.           *)
(***************************************************************************)
EXTENDS Naturals

CONSTANT Repeat   \* request.repeat(): the records a stream response sends

\* The constants are meant to satisfy:
\*   Repeat \in Nat

\* The commands of test::Request, and a value that is none of them.
Commands == {"SEND_METADATA", "SEND_DATA", "SEND_STREAM", "INVALID"}

VARIABLES
  spc,          \* the server thread, in ProcessRequest()
  alertPending, \* an AlertMsg posted and not yet recycled
  dataStr,      \* m_response_str is not empty
  stream,       \* the object m_response_stream_ptr points to: "none", "live", "freed"
  posted,       \* the response posted: "none", "nil", "data", "stream"
  finished,     \* RequestProc::Finished() has run (m_promise is set)
  repeat,       \* TestStream::m_repeat
  last,         \* GetBuff() has reported the end of the stream
  buf           \* the buffer GetBuff() returned: "none", "live", "freed"

vars == <<spc, alertPending, dataStr, stream, posted, finished, repeat, last, buf>>

Init ==
  /\ spc = "Bind"
  /\ alertPending = FALSE /\ dataStr = FALSE
  /\ stream = "none" /\ posted = "none" /\ finished = FALSE
  /\ repeat = Repeat /\ last = FALSE /\ buf = "none"

-----------------------------------------------------------------------------
(* The server thread.                                                      *)

\* Service::ProcessRequest(): the RequestProc is constructed on the stack
\* and bound to the request.
BindRequest ==
  /\ spc = "Bind"
  /\ spc' = "Execute"
  /\ UNCHANGED <<alertPending, dataStr, stream, posted, finished, repeat, last, buf>>

\* RequestProc::Execute(): a request that parses goes to ExecuteAction();
\* one that does not is turned into an error response by the
\* ExceptionHandler.
Execute ==
  /\ spc = "Execute"
  /\ \E parses \in BOOLEAN : spc' = IF parses THEN "Action" ELSE "Post"
  /\ UNCHANGED <<alertPending, dataStr, stream, posted, finished, repeat, last, buf>>

\* The test ExecuteAction() and RequestMessage::process(): a server that is
\* not the test service, or a TestStream that cannot be allocated, is a
\* std::exception, answered by the alert "Something bad happened" and an
\* RSP_ERR_SERVER response (an alert that does not serialize throws out of
\* the catch block, and out of ProcessRequest()); SEND_DATA fills
\* m_response_str with the length-prefixed Data; SEND_STREAM creates a
\* TestStream; another command is answered RSP_ERR_PROTOBUF.
ExecuteAction ==
  /\ spc = "Action"
  /\ \E isTestService \in BOOLEAN, cmd \in Commands, allocates \in BOOLEAN,
        alertSerializes \in BOOLEAN :
       IF ~isTestService \/ (cmd = "SEND_STREAM" /\ ~allocates)
         THEN /\ alertPending' = alertSerializes
              /\ spc' = IF alertSerializes THEN "Post" ELSE "Thrown"
              /\ UNCHANGED <<dataStr, stream>>
         ELSE /\ dataStr' = (cmd = "SEND_DATA")
              /\ stream' = IF cmd = "SEND_STREAM" THEN "live" ELSE stream
              /\ spc' = "Post"
              /\ UNCHANGED alertPending
  /\ UNCHANGED <<posted, finished, repeat, last, buf>>

\* Mutant: the metadata-only case posts no response.
PostNoNilResponse ==
  /\ spc = "Post"
  /\ \/ /\ spc' = "Wait"
        /\ posted' = IF stream # "none" THEN "stream"
                     ELSE IF dataStr THEN "data" ELSE posted
     \/ spc' = "Thrown" /\ UNCHANGED posted
  /\ UNCHANGED <<alertPending, dataStr, stream, finished, repeat, last, buf>>

\* Execute(): ReleaseRequestBuffer(), the metadata serialized (a failure
\* throws a PbException out of ProcessRequest(), which destroys the
\* RequestProc) and set, then SetResponse() with the stream when
\* m_response_stream_ptr is not null, with m_response_str when it is not
\* empty, and SetNilResponse() otherwise.
Post ==
  /\ spc = "Post"
  /\ \/ /\ spc' = "Wait"
        /\ posted' = IF stream # "none" THEN "stream"
                     ELSE IF dataStr THEN "data" ELSE "nil"
     \/ spc' = "Thrown" /\ UNCHANGED posted
  /\ UNCHANGED <<alertPending, dataStr, stream, finished, repeat, last, buf>>

\* Execute(): m_promise.get_future().wait() returns once Finished() has run.
Wait ==
  /\ spc = "Wait" /\ finished
  /\ spc' = "Unbind"
  /\ UNCHANGED <<alertPending, dataStr, stream, posted, finished, repeat, last, buf>>

\* ProcessRequest(): UnBindRequest(), and the RequestProc goes out of scope.
UnBindRequest ==
  /\ spc = "Unbind"
  /\ spc' = "Done"
  /\ UNCHANGED <<alertPending, dataStr, stream, posted, finished, repeat, last, buf>>

-----------------------------------------------------------------------------
(* The framework.                                                          *)

\* An alert is sent before the final response, then AlertMsg::RecycleMsg()
\* deletes it.
DeliverAlert ==
  /\ alertPending /\ ~finished
  /\ alertPending' = FALSE
  /\ UNCHANGED <<spc, dataStr, stream, posted, finished, repeat, last, buf>>

\* The framework asks the stream of the response for its next buffer.
StreamPulled == posted = "stream" /\ ~finished /\ ~last /\ buf = "none"

\* TestStream::GetBuff(): with no record left it reports the last buffer;
\* otherwise it fills a new OStreamBuffer with records until it is full or
\* none is left.
GetBuff ==
  /\ StreamPulled
  /\ \/ repeat = 0 /\ last' = TRUE /\ UNCHANGED <<repeat, buf>>
     \/ /\ repeat > 0
        /\ \E k \in 1..repeat : repeat' = repeat - k
        /\ buf' = "live" /\ UNCHANGED last
  /\ UNCHANGED <<spc, alertPending, dataStr, stream, posted, finished>>

\* TestStream::GetBuff() when the allocation of the buffer or Push() throws:
\* the catch blocks delete streambuf and the function still returns it, with
\* last false, which the framework takes for a buffer to send.
GetBuffThrows ==
  /\ StreamPulled /\ repeat > 0
  /\ buf' = "freed"
  /\ UNCHANGED <<spc, alertPending, dataStr, stream, posted, finished, repeat, last>>

\* The framework sends the buffer and recycles it.
SendBuff ==
  /\ buf # "none"
  /\ buf' = "none"
  /\ UNCHANGED <<spc, alertPending, dataStr, stream, posted, finished, repeat, last>>

\* RequestProc::Finished(): delete m_response_stream_ptr, then
\* m_promise.set_value().  A cancelled request discards its alerts.
FinishedBody(cancel) ==
  /\ ~finished
  /\ stream' = IF stream = "live" THEN "freed" ELSE stream
  /\ finished' = TRUE
  /\ alertPending' = (alertPending /\ ~cancel)
  /\ UNCHANGED <<spc, dataStr, posted, repeat, last, buf>>

\* Finished() once the whole response is sent.
Finish ==
  /\ ~alertPending
  /\ \/ posted \in {"nil", "data"}
     \/ posted = "stream" /\ last /\ buf = "none"
  /\ FinishedBody(FALSE)

\* Finished(cancel = true), when the client cancels or its connection
\* breaks, at any time after the request is bound.
Cancel ==
  /\ spc # "Bind"
  /\ FinishedBody(TRUE)

Next ==
  \/ BindRequest \/ Execute \/ ExecuteAction \/ Post \/ Wait \/ UnBindRequest
  \/ DeliverAlert \/ GetBuff \/ GetBuffThrows \/ SendBuff \/ Finish \/ Cancel

Spec == Init /\ [][Next]_vars

(***************************************************************************)
(* The server thread runs when it can, and the framework sends what is     *)
(* posted and calls Finished() once it is sent; nothing forces a cancel.   *)
(* An exception in GetBuff() is transient: a stream pulled again and again *)
(* eventually gets a buffer (strong fairness of GetBuff).                  *)
(***************************************************************************)
FairSpec ==
  /\ Spec
  /\ WF_vars(BindRequest) /\ WF_vars(Execute) /\ WF_vars(ExecuteAction)
  /\ WF_vars(Post) /\ WF_vars(Wait) /\ WF_vars(UnBindRequest)
  /\ WF_vars(DeliverAlert) /\ SF_vars(GetBuff) /\ WF_vars(SendBuff)
  /\ WF_vars(Finish)

-----------------------------------------------------------------------------
TypeOK ==
  /\ spc \in {"Bind", "Execute", "Action", "Post", "Wait", "Unbind", "Done", "Thrown"}
  /\ alertPending \in BOOLEAN /\ dataStr \in BOOLEAN
  /\ stream \in {"none", "live", "freed"}
  /\ posted \in {"none", "nil", "data", "stream"}
  /\ finished \in BOOLEAN
  /\ repeat \in 0..Repeat /\ last \in BOOLEAN
  /\ buf \in {"none", "live", "freed"}

(***************************************************************************)
(* ProcessRequest() returns: every path of Execute() either throws or      *)
(* posts a response, nil for a metadata-only one, so that the framework    *)
(* calls Finished() and the wait on m_promise ends, and a stream response  *)
(* reaches its last buffer.                                                *)
(***************************************************************************)
ServerReturns == <>(spc \in {"Done", "Thrown"})

(***************************************************************************)
(* The RequestProc, a local of ProcessRequest(), is not destroyed before   *)
(* Finished() has run: the framework calls Finished() on the bound         *)
(* request, so it must not be called on a dead object.                     *)
(***************************************************************************)
ProcessorOutlivesFinished == spc \in {"Done", "Thrown"} => finished

(***************************************************************************)
(* When ProcessRequest() returns normally, the TestStream of a stream      *)
(* response has been deleted, by Finished().                               *)
(***************************************************************************)
StreamReclaimed == spc = "Done" => stream # "live"

(***************************************************************************)
(* The buffer TestStream::GetBuff() hands to the framework is alive.       *)
(***************************************************************************)
GetBuffReturnsLiveBuffer == buf # "freed"

====
