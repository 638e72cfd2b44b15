------------------------------- MODULE SsiClient -------------------------------
(***************************************************************************)
(* One request of the client side of the XRootD SSI protocol-buffer        *)
(* framework (src/CTA/xrootd-ssi-protobuf-interface/include):              *)
(*                                                                         *)
(*  - the client thread runs ServiceClientSide::Send(): SendAsync() hands  *)
(*    the Request to the framework, blocks on the metadata future, and     *)
(*    DataFuture::wait() blocks on the data future and deletes the         *)
(*    Request;                                                             *)
(*  - the framework's callback thread calls Request::Alert(),              *)
(*    Request::ProcessResponse() once and Request::ProcessResponseData()   *)
(*    for each chunk asked for with GetResponseData().                     *)
(*                                                                         *)
(* The two threads meet in the two promises of the Request; a callback     *)
(* that fulfils a promise and then calls Finished() is split into those    *)
(* two steps, since the client thread may run in between.  Protocol-buffer *)
(* contents are abstracted to whether they parse; a response buffer to     *)
(* whether it is an error (-1), empty or not.                              *)
(***************************************************************************)
EXTENDS Naturals, TLAPS

CONSTANTS
  MaxChunks,   \* the most ProcessResponseData() calls of a response
  MaxAlerts,   \* the most Alert() calls before the response
  PbExceptionIsXrdSsiException
               \* whether catch(XrdSsiException &) in SendAsync() catches a
               \* PbException: the two classes are declared in
               \* XrdSsiPbException.hpp, outside this tree

ASSUME ClientAssumption ==
  /\ MaxChunks \in Nat \ {0}
  /\ MaxAlerts \in Nat
  /\ PbExceptionIsXrdSsiException \in BOOLEAN

\* The state of a std::promise.
Unset == "unset"
Value == "value"
Error == "error"
PromiseStates == {Unset, Value, Error}

VARIABLES
  cpc,      \* the client thread: "Send", "WaitMeta", "WaitData", "Done", "Thrown"
  meta,     \* m_metadata_promise
  metaErr,  \* the exception in it: "none", "ssi" (XrdSsiException), "pb" (PbException)
  data,     \* m_data_promise
  fpc,      \* the callback thread: "Idle", "Respond", "Chunk", "SetData", "Finish", "Over"
  chunks,   \* ProcessResponseData() calls so far
  alerts,   \* Alert() calls so far
  deleted   \* the Request object has been deleted

vars == <<cpc, meta, metaErr, data, fpc, chunks, alerts, deleted>>

Init ==
  /\ cpc = "Send"
  /\ meta = Unset /\ metaErr = "none" /\ data = Unset
  /\ fpc = "Idle" /\ chunks = 0 /\ alerts = 0
  /\ deleted = FALSE

-----------------------------------------------------------------------------
(* The client thread.                                                      *)

\* SendAsync(): new Request(...), then m_server_ptr->ProcessRequest().
SendAsync ==
  /\ cpc = "Send"
  /\ cpc' = "WaitMeta" /\ fpc' = "Respond"
  /\ UNCHANGED <<meta, metaErr, data, chunks, alerts, deleted>>

\* SendAsync(): response = metadata_future.get().  A value returns the
\* DataFuture; an XrdSsiException deletes the Request and is rethrown; any
\* other exception leaves SendAsync() with the Request not deleted.
GetMetadata ==
  /\ cpc = "WaitMeta" /\ meta # Unset
  /\ IF meta = Value
       THEN cpc' = "WaitData" /\ UNCHANGED deleted
       ELSE /\ cpc' = "Thrown"
            /\ deleted' = (metaErr = "ssi" \/ PbExceptionIsXrdSsiException)
  /\ UNCHANGED <<meta, metaErr, data, fpc, chunks, alerts>>

\* Send() calls DataFuture::wait(): GetDataFuture().get(), then delete
\* m_request_ptr; an exception in the promise is thrown by get() before
\* the delete.
WaitData ==
  /\ cpc = "WaitData" /\ data # Unset
  /\ IF data = Value
       THEN cpc' = "Done" /\ deleted' = TRUE
       ELSE cpc' = "Thrown" /\ UNCHANGED deleted
  /\ UNCHANGED <<meta, metaErr, data, fpc, chunks, alerts>>

-----------------------------------------------------------------------------
(* The framework's callback thread.                                        *)

\* Request::Alert(): the alert is parsed and passed to AlertCallback, or
\* the parse error is logged; the message is recycled.  The framework sends
\* every alert before the response.
Alert ==
  /\ fpc = "Respond" /\ alerts < MaxAlerts
  /\ alerts' = alerts + 1
  /\ UNCHANGED <<cpc, meta, metaErr, data, fpc, chunks, deleted>>

\* Mutant: the exception always stored in the data promise.
CatchSetsDataOnly(metaSet, kind) ==
  /\ IF metaSet THEN meta' = Value ELSE UNCHANGED meta
  /\ data' = Error /\ UNCHANGED metaErr
  /\ fpc' = "Finish"

\* The catch block of ProcessResponse(), metaSet telling whether the try
\* block fulfilled the metadata promise before it threw: the exception goes
\* to the metadata promise, or to the data promise when set_exception()
\* throws future_error because the metadata promise is already fulfilled;
\* then Finished() is called.
CatchInProcessResponse(metaSet, kind) ==
  /\ IF metaSet
       THEN meta' = Value /\ data' = Error /\ UNCHANGED metaErr
       ELSE meta' = Error /\ metaErr' = kind /\ UNCHANGED data
  /\ fpc' = "Finish"

\* Request::ProcessResponse(), by response type.  ProcessResponseMetadata()
\* fulfils the metadata promise when the metadata parses and throws a
\* PbException otherwise.  isData with data and isStream then allocate the
\* response buffer, which may throw, and ask for the first chunk; isData
\* without data calls Finished() and then fulfils the data promise;
\* isError, isHandle, isFile and isNone throw an XrdSsiException.
ProcessResponse ==
  /\ fpc = "Respond"
  /\ \/ \E parses \in BOOLEAN, allocates \in BOOLEAN :
          IF ~parses THEN CatchInProcessResponse(FALSE, "pb")
          ELSE IF allocates
            THEN meta' = Value /\ fpc' = "Chunk" /\ UNCHANGED <<metaErr, data>>
            ELSE CatchInProcessResponse(TRUE, "none")
     \/ \E parses \in BOOLEAN :
          IF parses
            THEN meta' = Value /\ fpc' = "SetData" /\ UNCHANGED <<metaErr, data>>
            ELSE CatchInProcessResponse(FALSE, "pb")
     \/ CatchInProcessResponse(FALSE, "ssi")
  /\ UNCHANGED <<cpc, chunks, alerts, deleted>>

\* The metadata-only branch of ProcessResponse(), after its Finished():
\* m_data_promise.set_value().
SetDataAfterFinished ==
  /\ fpc = "SetData"
  /\ data' = Value /\ fpc' = "Over"
  /\ UNCHANGED <<cpc, meta, metaErr, chunks, alerts, deleted>>

\* Mutant: the error branch (length -1) returns without set_value().
ProcessResponseDataErrorUnset ==
  /\ fpc = "Chunk"
  /\ \/ UNCHANGED data /\ fpc' = "Finish" /\ UNCHANGED chunks
     \/ \E nonEmpty \in BOOLEAN, isLast \in BOOLEAN :
          /\ chunks' = IF nonEmpty THEN chunks + 1 ELSE chunks
          /\ isLast \/ chunks' < MaxChunks
          /\ IF isLast THEN data' = Value /\ fpc' = "Finish"
                       ELSE UNCHANGED data /\ fpc' = "Chunk"
  /\ UNCHANGED <<cpc, meta, metaErr, alerts, deleted>>

\* Request::ProcessResponseData().  A length of -1 fulfils the data
\* promise; a non-empty chunk is pushed onto the input stream; the last
\* chunk fulfils the data promise, any other asks for the next one.
\* Finished() follows the set_value() as its own step.
ProcessResponseData ==
  /\ fpc = "Chunk"
  /\ \/ data' = Value /\ fpc' = "Finish" /\ UNCHANGED chunks
     \/ \E nonEmpty \in BOOLEAN, isLast \in BOOLEAN :
          /\ chunks' = IF nonEmpty THEN chunks + 1 ELSE chunks
          /\ isLast \/ chunks' < MaxChunks
          /\ IF isLast THEN data' = Value /\ fpc' = "Finish"
                       ELSE UNCHANGED data /\ fpc' = "Chunk"
  /\ UNCHANGED <<cpc, meta, metaErr, alerts, deleted>>

\* Finished(), called by ProcessResponse() and ProcessResponseData() after
\* they fulfil a promise.
Finished ==
  /\ fpc = "Finish"
  /\ fpc' = "Over"
  /\ UNCHANGED <<cpc, meta, metaErr, data, chunks, alerts, deleted>>

Next ==
  \/ SendAsync \/ GetMetadata \/ WaitData
  \/ Alert \/ ProcessResponse \/ SetDataAfterFinished
  \/ ProcessResponseData \/ Finished

(***************************************************************************)
(* Both threads run when they can: the client thread wakes up when its     *)
(* future is ready, and the framework calls back (with isError if the      *)
(* server does not answer in time).                                        *)
(***************************************************************************)
Spec == Init /\ [][Next]_vars

FairSpec ==
  /\ Spec
  /\ WF_vars(SendAsync) /\ WF_vars(GetMetadata) /\ WF_vars(WaitData)
  /\ WF_vars(ProcessResponse) /\ WF_vars(SetDataAfterFinished)
  /\ WF_vars(ProcessResponseData) /\ WF_vars(Finished)

-----------------------------------------------------------------------------
TypeOK ==
  /\ cpc \in {"Send", "WaitMeta", "WaitData", "Done", "Thrown"}
  /\ meta \in PromiseStates /\ data \in PromiseStates
  /\ metaErr \in {"none", "ssi", "pb"}
  /\ fpc \in {"Idle", "Respond", "Chunk", "SetData", "Finish", "Over"}
  /\ chunks \in 0..MaxChunks
  /\ alerts \in 0..MaxAlerts
  /\ deleted \in BOOLEAN

(***************************************************************************)
(* The data promise is fulfilled only after the metadata promise holds a   *)
(* value: the client, which waits for the metadata first, never misses a   *)
(* data result, and an error of ProcessResponse() reaches the promise the  *)
(* client is waiting on (the future_error fallback of the catch block).    *)
(***************************************************************************)
DataAfterMetadata == data # Unset => meta = Value

(***************************************************************************)
(* Send() returns, with the response or with an exception: every path of   *)
(* the callbacks fulfils the promise the client thread is blocked on.      *)
(***************************************************************************)
ClientReturns == <>(cpc \in {"Done", "Thrown"})

(***************************************************************************)
(* The Request is deleted only once the framework is done with it: after   *)
(* the last callback has called Finished() and returned (the comment of    *)
(* the metadata-only branch: "It is now safe to delete the Request         *)
(* object" after Finished()).                                              *)
(***************************************************************************)
DeletedAfterFinished == deleted => fpc = "Over"

(***************************************************************************)
(* Send() leaves no Request behind: "The Request object is automatically   *)
(* garbage collected" (ServiceClientSide::Send()).                         *)
(***************************************************************************)
RequestReclaimed == <>deleted

-----------------------------------------------------------------------------
(***************************************************************************)
(* Proofs, for every bound and either exception hierarchy.                 *)
(*                                                                         *)
(* DataAfterMetadata is not inductive by itself: a step of the callback    *)
(* thread may set the data promise only where the code has already set the *)
(* metadata, so the invariant says which promises each position of the     *)
(* callback thread has set.                                                *)
(***************************************************************************)
IInv ==
  /\ TypeOK
  /\ DataAfterMetadata
  /\ fpc \in {"Idle", "Respond"} => meta = Unset /\ data = Unset /\ chunks = 0
  /\ fpc \in {"Chunk", "SetData"} => meta = Value /\ data = Unset
  /\ cpc = "Send" <=> fpc = "Idle"
  /\ fpc = "Chunk" => chunks < MaxChunks

\* The invariant holds initially.
LEMMA InitIInv == Init => IInv
<1> SUFFICES ASSUME Init PROVE IInv
  OBVIOUS
<1> USE DEF Init, Unset, Value, Error
<1>a. cpc \in {"Send", "WaitMeta", "WaitData", "Done", "Thrown"}
  OBVIOUS
<1>b. meta \in PromiseStates /\ data \in PromiseStates
  BY DEF PromiseStates
<1>c. metaErr \in {"none", "ssi", "pb"}
  OBVIOUS
<1>d. fpc \in {"Idle", "Respond", "Chunk", "SetData", "Finish", "Over"}
  OBVIOUS
<1>e. chunks \in 0..MaxChunks /\ alerts \in 0..MaxAlerts
  BY ClientAssumption
<1>f. deleted \in BOOLEAN
  BY Zenon
<1>1. TypeOK
  BY <1>a, <1>b, <1>c, <1>d, <1>e, <1>f DEF TypeOK
<1>2. DataAfterMetadata
  BY DEF DataAfterMetadata
<1>3. cpc = "Send" <=> fpc = "Idle"
  OBVIOUS
<1>4. QED
  BY <1>1, <1>2, <1>3 DEF IInv

\* Every step of either thread preserves the invariant.
LEMMA NextIInv == IInv /\ [Next]_vars => IInv'
<1> SUFFICES ASSUME IInv, [Next]_vars PROVE IInv'
  OBVIOUS
<1> USE ClientAssumption DEF IInv, TypeOK, DataAfterMetadata, PromiseStates,
        Unset, Value, Error
<1>1. CASE SendAsync
  BY <1>1 DEF SendAsync
<1>2. CASE GetMetadata
  BY <1>2 DEF GetMetadata
<1>3. CASE WaitData
  BY <1>3 DEF WaitData
<1>4. CASE Alert
  BY <1>4 DEF Alert
<1>5. CASE ProcessResponse
  <2>1. fpc = "Respond" /\ meta = Unset /\ data = Unset
    BY <1>5 DEF ProcessResponse
  <2>2. UNCHANGED <<cpc, chunks, alerts, deleted>>
    BY <1>5 DEF ProcessResponse
  <2>3. ASSUME NEW metaSet \in BOOLEAN, NEW kind \in {"none", "ssi", "pb"},
               CatchInProcessResponse(metaSet, kind)
        PROVE  IInv'
    BY <2>1, <2>2, <2>3 DEF CatchInProcessResponse
  <2>4. CASE meta' = Value /\ fpc' \in {"Chunk", "SetData"} /\ UNCHANGED <<metaErr, data>>
    BY <2>1, <2>2, <2>4
  <2>5. QED
    BY <1>5, <2>3, <2>4 DEF ProcessResponse
<1>6. CASE SetDataAfterFinished
  BY <1>6 DEF SetDataAfterFinished
<1>7. CASE ProcessResponseData
  BY <1>7 DEF ProcessResponseData
<1>8. CASE Finished
  BY <1>8 DEF Finished
<1>9. CASE UNCHANGED vars
  BY <1>9 DEF vars
<1>10. QED
  BY <1>1, <1>2, <1>3, <1>4, <1>5, <1>6, <1>7, <1>8, <1>9 DEF Next

\* Every state of a Send() is well typed, for every bound.
THEOREM TypeCorrect == Spec => []TypeOK
<1>1. IInv => TypeOK
  BY DEF IInv
<1>2. QED
  BY <1>1, InitIInv, NextIInv, PTL DEF Spec

\* The callbacks never fulfil the data promise before the metadata promise
\* holds a value (DataAfterMetadata), for every bound.
THEOREM DataOnlyAfterMetadata == Spec => []DataAfterMetadata
<1>1. IInv => DataAfterMetadata
  BY DEF IInv
<1>2. QED
  BY <1>1, InitIInv, NextIInv, PTL DEF Spec

====
