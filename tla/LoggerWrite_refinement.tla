----------------------- MODULE LoggerWrite_refinement -----------------------
(***************************************************************************)
(* Proof that the liblog front end (LoggerWrite) keeps the contract       *)
(* LoggerWriteAbs: every API step is a step of the contract or leaves its *)
(* state alone, under the mapping of LoggerWrite's Client instance (a     *)
(* thread running its logger is busy in its call).                        *)
(***************************************************************************)
EXTENDS LoggerWrite_proofs

\* The image of a thread's stage under the mapping.
Stage(x) == IF x = "logger" THEN "busy" ELSE x

\* The abstract program counters.
CPc == [u \in Threads |-> Stage(fpc[u])]

\* The abstract state other than the program counters.
cRest == <<permitted, aborted, apiCalls>>

-----------------------------------------------------------------------------
(* Lemmas: how one thread's step maps *)

\* A step of thread t alone moves only t's abstract stage.
LEMMA PcMove ==
    ASSUME TypeOK, NEW t \in Threads, fpc' = [fpc EXCEPT ![t] = fpc'[t]]
    PROVE  CPc' = [CPc EXCEPT ![t] = Stage(fpc'[t])]
BY DEF CPc, TypeOK

\* Return(t) ends the API call: it returns, or goes on to abort.
LEMMA ReturnLeave ==
    ASSUME TypeOK, NEW t \in Threads, Return(t)
    PROVE  Client!Leave(t)
<1>1. CPc' = [CPc EXCEPT ![t] = IF asserting[t] THEN "abort" ELSE "idle"]
  <2>1. fpc' = [fpc EXCEPT ![t] = fpc'[t]]
        /\ fpc'[t] = IF asserting[t] THEN "abort" ELSE "idle"
    BY DEF Return, TypeOK
  <2> QED BY <2>1, PcMove DEF Stage
<1> QED BY <1>1 DEF Client!Leave, CPc, Stage

\* A step that moves thread t to stage s and leaves LogdWrite() alone.
LEMMA MoveTo ==
    ASSUME TypeOK, NEW t \in Threads, NEW s, fpc' = [fpc EXCEPT ![t] = s]
    PROVE  CPc' = [CPc EXCEPT ![t] = Stage(s)]
BY PcMove DEF TypeOK

\* write_to_log begins LogdWrite() with an id the contract allows.
LEMMA HandStep ==
    ASSUME TypeOK, NEW t \in Threads, NEW x,
           W!Begin(t), wlogId'[t] = x, x \in Client!ClientIds(permitted),
           fpc' = [fpc EXCEPT ![t] = "writer"], permitted' = permitted
    PROVE  Client!Hand(t)
<1>1. CPc' = [CPc EXCEPT ![t] = "writer"]
  BY MoveTo DEF Stage
<1>2. Client!W!Begin(t)
  BY DEF W!Begin, Client!W!Begin, WriteIds, Client!WriteIds, LogBufs,
         Client!LogBufs
<1> QED BY <1>1, <1>2 DEF Client!Hand, CPc, Stage

\* write_to_log: refused (the call returns), or LogdWrite() begun with an
\* id of the contract.
LEMMA WriteToLogClient ==
    ASSUME TypeOK, NEW t \in Threads, NEW id, NEW frame,
           WriteToLog(t, id, frame), permitted' = permitted,
           ~Rejected(id, frame)
              => [buf |-> id, frame |-> frame] \in Client!ClientIds(permitted)
    PROVE  (Client!Leave(t) /\ UNCHANGED wvars) \/ Client!Hand(t)
<1>1. CASE (Rejected(id, frame) \/ id = "security") /\ Return(t)
           /\ UNCHANGED wvars
  BY <1>1, ReturnLeave
<1>2. CASE /\ ~Rejected(id, frame)
           /\ W!Begin(t)
           /\ wlogId'[t] = [buf |-> id, frame |-> frame]
           /\ fpc' = [fpc EXCEPT ![t] = "writer"]
           /\ UNCHANGED <<msgBuf, msgTag, msgLogger>>
  BY <1>2, HandStep
<1> QED BY <1>1, <1>2 DEF WriteToLog

\* write_log_message: the buffer filter returns, or the logger is to run.
LEMMA WriteLogMessageClient ==
    ASSUME TypeOK, NEW t \in Threads, NEW buf, NEW tag,
           WriteLogMessage(t, buf, tag)
    PROVE  Client!Leave(t) \/ CPc' = [CPc EXCEPT ![t] = "busy"]
<1>1. CASE Return(t)
  BY <1>1, ReturnLeave
<1>2. CASE fpc' = [fpc EXCEPT ![t] = "logger"]
  BY <1>2, MoveTo DEF Stage
<1> QED BY <1>1, <1>2 DEF WriteLogMessage

\* The logd logger's text record, when write_to_log lets it through, has an
\* id of the contract: DEFAULT was mapped to MAIN, KERNEL and the text-framed
\* binary logs are refused.
LEMMA TextId ==
    ASSUME NEW b \in LogBufs,
           ~Rejected(IF b = "default" THEN "main" ELSE b, "text")
    PROVE  [buf |-> IF b = "default" THEN "main" ELSE b, frame |-> "text"]
              \in Client!ClientIds(permitted)
BY DEF Rejected, Client!ClientIds, Client!WriteIds, Client!LogBufs,
       Client!BinaryBufs, LogBufs

\* A binary writer's record, when write_to_log lets it through, has an id
\* of the contract: the security log only if the uid/gid check passed.
LEMMA BinaryId ==
    ASSUME NEW id \in BinaryBufs, ~Rejected(id, "binary")
    PROVE  [buf |-> id, frame |-> "binary"] \in Client!ClientIds(permitted)
BY DEF Rejected, Client!ClientIds, Client!WriteIds, Client!LogBufs,
       Client!BinaryBufs, BinaryBufs

-----------------------------------------------------------------------------
(* Lemmas: each action of the front end and the step of the contract it   *)
(* is *)

\* The API entries that pass the message to write_log_message start a
\* call of the contract.
LEMMA BufWriteClient ==
    ASSUME TypeOK, NEW t \in Threads, BufWrite(t)
    PROVE  Client!Start(t)
<1>1. /\ Client!Leave(t) \/ CPc' = [CPc EXCEPT ![t] = "busy"]
      /\ UNCHANGED wvars
  <2>1. PICK buf \in CallBufs, tag \in {"given", "null"} :
               Return(t) \/ WriteLogMessage(t, buf, tag)
    BY DEF BufWrite
  <2>2. Client!Leave(t) \/ CPc' = [CPc EXCEPT ![t] = "busy"]
    BY <2>1, ReturnLeave, WriteLogMessageClient
  <2> QED BY <2>2 DEF BufWrite
<1> QED BY <1>1 DEF BufWrite, Ready, Client!Start, CPc, Stage,
               wvars, Client!wvars

LEMMA LogAssertClient ==
    ASSUME TypeOK, NEW t \in Threads, LogAssert(t)
    PROVE  Client!Start(t)
<1>1. Client!Leave(t) \/ CPc' = [CPc EXCEPT ![t] = "busy"]
  <2>1. PICK tag \in {"given", "null"} :
               \/ fpc' = [fpc EXCEPT ![t] = "abort"]
               \/ WriteLogMessage(t, "main", tag)
    BY DEF LogAssert
  <2>2. CASE fpc' = [fpc EXCEPT ![t] = "abort"]
    <3>1. CPc' = [CPc EXCEPT ![t] = "abort"]
      BY <2>2, MoveTo DEF Stage
    <3> QED BY <3>1 DEF Client!Leave, CPc, Stage
  <2>3. CASE WriteLogMessage(t, "main", tag)
    BY <2>3, WriteLogMessageClient
  <2> QED BY <2>1, <2>2, <2>3
<1> QED BY <1>1 DEF LogAssert, Ready, Client!Start, CPc, Stage, wvars,
               Client!wvars

LEMMA LogdLoggerCallClient ==
    ASSUME TypeOK, NEW t \in Threads, LogdLoggerCall(t)
    PROVE  Client!Start(t)
<1>1. CPc' = [CPc EXCEPT ![t] = "busy"]
  BY MoveTo DEF LogdLoggerCall, Stage
<1> QED BY <1>1 DEF LogdLoggerCall, Ready, Client!Start, CPc, Stage,
               wvars, Client!wvars

LEMMA BinaryWriteClient ==
    ASSUME TypeOK, NEW t \in Threads, BinaryWrite(t)
    PROVE  Client!Start(t)
<1>1. PICK id \in BinaryBufs : WriteToLog(t, id, "binary")
  BY DEF BinaryWrite
<1>2. (Client!Leave(t) /\ UNCHANGED wvars) \/ Client!Hand(t)
  BY <1>1, BinaryId, WriteToLogClient DEF BinaryWrite
<1> QED BY <1>2 DEF BinaryWrite, Ready, Client!Start, CPc, Stage,
               wvars, Client!wvars

\* The logger runs: the busy call returns, or hands its record on.
LEMMA RunLoggerClient ==
    ASSUME TypeOK, NEW t \in Threads, RunLogger(t)
    PROVE  Client!Serve(t)
<1>1. (Client!Leave(t) /\ UNCHANGED wvars) \/ Client!Hand(t)
  <2>1. CASE msgLogger[t] = "logd" /\ ~fileLogger
    <3> DEFINE b == msgBuf[t]
    <3>1. b \in LogBufs
      BY DEF TypeOK
    <3>2. WriteToLog(t, IF b = "default" THEN "main" ELSE b, "text")
      BY <2>1 DEF RunLogger
    <3> QED BY <3>1, <3>2, TextId, WriteToLogClient DEF RunLogger
  <2>2. CASE ~(msgLogger[t] = "logd" /\ ~fileLogger)
    BY <2>2, ReturnLeave DEF RunLogger
  <2> QED BY <2>1, <2>2
<1> QED BY <1>1 DEF RunLogger, Client!Serve, CPc, Stage,
               wvars, Client!wvars

\* A step of LogdWrite() is a step of the contract's LogdWrite().
LEMMA WriterStepClient ==
    ASSUME TypeOK, NEW t \in Threads, WriterStep(t)
    PROVE  Client!Write(t)
<1>1. \/ Client!W!Quit(t) \/ Client!W!Report(t) \/ Client!W!Proceed(t)
      \/ Client!W!Deliver(t) \/ Client!W!Lose(t)
  BY DEF WriterStep, W!Quit, W!Report, W!Proceed, W!Deliver, W!Lose,
         W!Room, W!DropRange, Client!W!Quit, Client!W!Report,
         Client!W!Proceed, Client!W!Deliver, Client!W!Lose, Client!W!Room,
         Client!W!DropRange
<1> QED BY <1>1 DEF WriterStep, front, Client!Write, CPc, Stage

LEMMA FinishClient ==
    ASSUME TypeOK, NEW t \in Threads, Finish(t)
    PROVE  Client!Finish(t)
BY ReturnLeave DEF Finish, Client!Finish, CPc, Stage,
               wvars, Client!wvars

LEMMA AbortClient ==
    ASSUME NEW t \in Threads, Abort(t)
    PROVE  Client!Abort(t)
BY DEF Abort, Client!Abort, wvars, Client!wvars

LEMMA LogdClient ==
    ASSUME Logd
    PROVE  Client!Logd
BY DEF Logd, front, Client!Logd, W!LogdRead, W!LogdCrash, W!LogdRestart,
       Client!W!LogdRead, Client!W!LogdCrash, Client!W!LogdRestart

\* The default tag and the logger are data the contract does not see.
LEMMA SetClient ==
    ASSUME NEW t \in Threads, SetDefaultTag(t) \/ SetLogger(t)
    PROVE  UNCHANGED Client!vars
BY DEF SetDefaultTag, SetLogger, Client!vars, Client!wvars, wvars

-----------------------------------------------------------------------------
(* The refinement *)

\* The initial state of the front end is one of the contract's.
LEMMA ClientInit == Init => Client!Init
<1> SUFFICES ASSUME Init PROVE Client!Init
  OBVIOUS
<1>1. Client!W!Init
  BY DEF Init, W!Init, Client!W!Init, WriteIds, Client!WriteIds, LogBufs,
         Client!LogBufs
<1>2. CPc = [t \in Threads |-> "idle"]
  BY DEF Init, CPc, Stage
<1> QED BY <1>1, <1>2 DEF Init, Client!Init, CPc, Stage

\* Every step of the front end is a step of the contract or leaves the
\* contract's state alone.
LEMMA ClientStep ==
    TypeOK /\ [Next]_vars => [Client!Next]_Client!vars
<1> SUFFICES ASSUME TypeOK, [Next]_vars PROVE [Client!Next]_Client!vars
  OBVIOUS
<1>1. ASSUME NEW t \in Threads,
             \/ BufWrite(t) \/ LogAssert(t) \/ LogdLoggerCall(t)
             \/ BinaryWrite(t)
      PROVE  Client!Next
  BY <1>1, BufWriteClient, LogAssertClient, LogdLoggerCallClient,
     BinaryWriteClient DEF Client!Next
<1>2. ASSUME NEW t \in Threads, RunLogger(t) PROVE Client!Next
  BY <1>2, RunLoggerClient DEF Client!Next
<1>3. ASSUME NEW t \in Threads, WriterStep(t) PROVE Client!Next
  BY <1>3, WriterStepClient DEF Client!Next
<1>4. ASSUME NEW t \in Threads, Finish(t) \/ Abort(t) PROVE Client!Next
  BY <1>4, FinishClient, AbortClient DEF Client!Next
<1>5. ASSUME Logd PROVE Client!Next
  BY <1>5, LogdClient DEF Client!Next
<1>6. ASSUME NEW t \in Threads, SetDefaultTag(t) \/ SetLogger(t)
      PROVE  UNCHANGED Client!vars
  BY <1>6, SetClient
<1>7. ASSUME UNCHANGED vars PROVE UNCHANGED Client!vars
  BY <1>7 DEF vars, front, wvars, Client!vars, Client!wvars
<1> QED BY <1>1, <1>2, <1>3, <1>4, <1>5, <1>6, <1>7 DEF Next

\* Refinement (ClientContract, checked by loggerwrite_safety): every
\* behaviour of the liblog front end -- the API entries, the loggers,
\* write_to_log's gate, LogdWrite() and logd -- is a behaviour of
\* LoggerWriteAbs, for any number of threads and any bounds.
THEOREM ClientRefinement == Spec => ClientContract
<1>1. Init => Client!Init
  BY ClientInit
<1>2. TypeOK /\ [Next]_vars => [Client!Next]_Client!vars
  BY ClientStep
<1> QED BY <1>1, <1>2, TypeCorrect, PTL DEF Spec, ClientContract, Client!Spec

=============================================================================
