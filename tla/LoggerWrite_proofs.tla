------------------------- MODULE LoggerWrite_proofs -------------------------
(***************************************************************************)
(* Proofs about the front end, for every value of the constants: whatever *)
(* API entry, logger and interleaving a record took, logd receives it     *)
(* under a partition a client may write, framed as that partition         *)
(* expects, and on the security log only from a permitted process.        *)
(***************************************************************************)
EXTENDS LoggerWrite, SequenceTheorems, TLAPS

\* The datagrams LogdWrite() can hand to logd.
Dg == [type : {"record"}, id : WriteIds] \cup [type : {"drops"}, n : Int]

\* A log id LogdWrite() may be called with, for a process whose uid/gid
\* check gives p.
GoodId(id, p) ==
    /\ id.buf \notin {"default", "kernel"}
    /\ id.frame = "binary" <=> id.buf \in BinaryBufs
    /\ id.buf = "security" => p

\* Every record of the sequence s has a good log id.
RecOK(s, p) == \A i \in 1..Len(s) : s[i].type = "record" => GoodId(s[i].id, p)

-----------------------------------------------------------------------------
(* The datagram sequences *)

LEMMA RecEmpty ==
    ASSUME NEW p
    PROVE  <<>> \in Seq(Dg) /\ RecOK(<<>>, p)
<1>1. <<>> \in Seq(Dg)
  BY EmptySeq
<1>2. RecOK(<<>>, p)
  BY DEF RecOK
<1> QED BY <1>1, <1>2

\* Appending a datagram that is a drop event or a good record.
LEMMA RecAppend ==
    ASSUME NEW p, NEW s \in Seq(Dg), NEW x \in Dg, RecOK(s, p),
           x.type = "record" => GoodId(x.id, p)
    PROVE  Append(s, x) \in Seq(Dg) /\ RecOK(Append(s, x), p)
<1>1. Append(s, x) \in Seq(Dg) /\ Len(Append(s, x)) = Len(s) + 1
      /\ \A i \in 1..Len(s) : Append(s, x)[i] = s[i]
      /\ Append(s, x)[Len(s) + 1] = x
  BY AppendProperties
<1> QED BY <1>1 DEF RecOK

\* logd reads the head of its queue.
LEMMA RecTail ==
    ASSUME NEW p, NEW s \in Seq(Dg), s # <<>>, RecOK(s, p)
    PROVE  /\ Tail(s) \in Seq(Dg) /\ RecOK(Tail(s), p)
           /\ Head(s) \in Dg
           /\ Head(s).type = "record" => GoodId(Head(s).id, p)
<1>1. Tail(s) \in Seq(Dg) /\ Len(Tail(s)) = Len(s) - 1
      /\ \A i \in 1..Len(Tail(s)) : Tail(s)[i] = s[i + 1]
  BY HeadTailProperties
<1>2. Len(s) >= 1 /\ Head(s) = s[1]
  BY HeadTailProperties, EmptySeq, LenProperties
<1> QED BY <1>1, <1>2 DEF RecOK

\* logd crashes: its queue joins what it lost.
LEMMA RecConcat ==
    ASSUME NEW p, NEW s \in Seq(Dg), NEW r \in Seq(Dg), RecOK(s, p), RecOK(r, p)
    PROVE  s \o r \in Seq(Dg) /\ RecOK(s \o r, p)
<1>1. s \o r \in Seq(Dg) /\ Len(s \o r) = Len(s) + Len(r)
      /\ \A i \in 1..Len(s) + Len(r) :
            (s \o r)[i] = IF i <= Len(s) THEN s[i] ELSE r[i - Len(s)]
  BY ConcatProperties
<1> QED BY <1>1 DEF RecOK

\* A record of a sequence with good records has a good log id.
LEMMA RecElems ==
    ASSUME NEW p, NEW s \in Seq(Dg), RecOK(s, p), NEW d \in Elems(s),
           d.type = "record"
    PROVE  GoodId(d.id, p)
<1>1. PICK i \in DOMAIN s : d = s[i]
  BY DEF Elems
<1>2. i \in 1..Len(s)
  BY <1>1, LenProperties
<1> QED BY <1>1, <1>2 DEF RecOK

-----------------------------------------------------------------------------
(* The inductive invariant *)

\* WellFramed and SecurityGate are not inductive by themselves: a record
\* reaches logd with the log id its writer holds, so every id a thread
\* holds for LogdWrite() must already be good, and the log ids the logd
\* logger may be handed must be log_id_t values.
IInv ==
    /\ msgBuf \in [Threads -> LogBufs]
    /\ wlogId \in [Threads -> WriteIds]
    /\ queue \in Seq(Dg) /\ logdRead \in Seq(Dg) /\ crashLost \in Seq(Dg)
    /\ \A t \in Threads : GoodId(wlogId[t], permitted)
    /\ RecOK(queue, permitted)
    /\ RecOK(logdRead, permitted)
    /\ RecOK(crashLost, permitted)

LEMMA InitIInv == Init => IInv
<1> SUFFICES ASSUME Init PROVE IInv
  OBVIOUS
<1>1. queue = <<>> /\ logdRead = <<>> /\ crashLost = <<>>
  BY DEF Init, W!Init
<1>2. \A t \in Threads : wlogId[t] = [buf |-> "main", frame |-> "text"]
  BY DEF Init
<1>3. msgBuf \in [Threads -> LogBufs] /\ wlogId \in [Threads -> WriteIds]
  BY DEF Init, LogBufs, WriteIds
<1>4. \A t \in Threads : GoodId(wlogId[t], permitted)
  <2> TAKE t \in Threads
  <2>1. wlogId[t].buf = "main" /\ wlogId[t].frame = "text"
    BY <1>2
  <2> QED BY <2>1 DEF GoodId, BinaryBufs
<1> QED BY <1>1, <1>3, <1>4, RecEmpty DEF IInv

\* A step that leaves LogdWrite's state and the credentials alone.
LEMMA FrontStep ==
    ASSUME IInv, msgBuf' \in [Threads -> LogBufs],
           wlogId' = wlogId, queue' = queue, logdRead' = logdRead,
           crashLost' = crashLost, permitted' = permitted
    PROVE  IInv'
BY DEF IInv, RecOK, GoodId

\* Return(t) keeps msgBuf in its type.
LEMMA ReturnType ==
    ASSUME IInv, NEW t \in Threads, Return(t)
    PROVE  msgBuf' \in [Threads -> LogBufs]
BY DEF IInv, Return, LogBufs

\* write_to_log: refused, or LogdWrite() begins with a good log id.
LEMMA WriteToLogStep ==
    ASSUME IInv, NEW t \in Threads, NEW id, NEW frame, WriteToLog(t, id, frame),
           ~Rejected(id, frame) => [buf |-> id, frame |-> frame] \in WriteIds
                                   /\ GoodId([buf |-> id, frame |-> frame], permitted),
           permitted' = permitted
    PROVE  IInv'
<1>1. CASE (Rejected(id, frame) \/ id = "security") /\ Return(t) /\ UNCHANGED wvars
  <2>1. msgBuf' \in [Threads -> LogBufs]
    BY <1>1, ReturnType
  <2> QED BY <1>1, <2>1, FrontStep DEF wvars
<1>2. CASE /\ ~Rejected(id, frame)
           /\ W!Begin(t)
           /\ wlogId'[t] = [buf |-> id, frame |-> frame]
           /\ UNCHANGED <<msgBuf, msgTag, msgLogger>>
  <2>1. PICK x \in WriteIds : wlogId' = [wlogId EXCEPT ![t] = x]
    BY <1>2 DEF W!Begin
  <2>2. queue' = queue /\ logdRead' = logdRead /\ crashLost' = crashLost
    BY <1>2 DEF W!Begin
  <2>3. wlogId' \in [Threads -> WriteIds]
    BY <2>1 DEF IInv
  <2>4. \A s \in Threads : GoodId(wlogId'[s], permitted)
    BY <1>2, <2>1 DEF IInv
  <2> QED BY <1>2, <2>2, <2>3, <2>4 DEF IInv, RecOK
<1> QED BY <1>1, <1>2 DEF WriteToLog

\* write_log_message keeps msgBuf in its type.
LEMMA WriteLogMessageType ==
    ASSUME IInv, NEW t \in Threads, NEW buf \in LogBufs, NEW tag,
           WriteLogMessage(t, buf, tag)
    PROVE  msgBuf' \in [Threads -> LogBufs]
<1>1. CASE Return(t)
  BY <1>1, ReturnType
<1>2. CASE msgBuf' = [msgBuf EXCEPT ![t] = buf]
  BY <1>2 DEF IInv
<1> QED BY <1>1, <1>2 DEF WriteLogMessage

\* A step of a thread inside LogdWrite(): a drop event, or the record of
\* the log id the thread holds, may join logd's queue.
LEMMA WriterIInv ==
    ASSUME IInv, NEW t \in Threads, WriterStep(t)
    PROVE  IInv'
<1>1. msgBuf' = msgBuf /\ permitted' = permitted
  BY DEF WriterStep, front
<1>2. CASE W!Quit(t) \/ W!Proceed(t) \/ W!Lose(t)
  BY <1>1, <1>2, FrontStep DEF W!Quit, W!Proceed, W!Lose, IInv
<1>3. CASE W!Report(t)
  <2>1. PICK n \in W!DropRange \ {0} :
             queue' = Append(queue, [type |-> "drops", n |-> n])
    BY <1>3 DEF W!Report
  <2>2. [type |-> "drops", n |-> n] \in Dg
    BY <2>1, BoundsAssumption DEF W!DropRange, Dg
  <2>3. queue' \in Seq(Dg) /\ RecOK(queue', permitted)
    BY <2>1, <2>2, RecAppend DEF IInv
  <2>4. wlogId' = wlogId /\ logdRead' = logdRead /\ crashLost' = crashLost
    BY <1>3 DEF W!Report
  <2> QED BY <1>1, <2>3, <2>4 DEF IInv, RecOK
<1>4. CASE W!Deliver(t)
  <2>1. queue' = Append(queue, [type |-> "record", id |-> wlogId[t]])
    BY <1>4 DEF W!Deliver
  <2>2. [type |-> "record", id |-> wlogId[t]] \in Dg
        /\ GoodId(wlogId[t], permitted)
    BY DEF IInv, Dg
  <2>3. queue' \in Seq(Dg) /\ RecOK(queue', permitted)
    BY <2>1, <2>2, RecAppend DEF IInv
  <2>4. wlogId' = wlogId /\ logdRead' = logdRead /\ crashLost' = crashLost
    BY <1>4 DEF W!Deliver
  <2> QED BY <1>1, <2>3, <2>4 DEF IInv, RecOK
<1> QED BY <1>2, <1>3, <1>4 DEF WriterStep

\* logd reads, crashes and restarts.
LEMMA LogdIInv ==
    ASSUME IInv, Logd
    PROVE  IInv'
<1>1. msgBuf' = msgBuf /\ permitted' = permitted
  BY DEF Logd, front
<1>2. CASE W!LogdRead
  <2>1. queue # <<>> /\ logdRead' = Append(logdRead, Head(queue))
        /\ queue' = Tail(queue)
        /\ wlogId' = wlogId /\ crashLost' = crashLost
    BY <1>2 DEF W!LogdRead
  <2>2. Tail(queue) \in Seq(Dg) /\ RecOK(Tail(queue), permitted)
        /\ Head(queue) \in Dg
        /\ (Head(queue).type = "record" => GoodId(Head(queue).id, permitted))
    BY <2>1, RecTail DEF IInv
  <2>3. logdRead' \in Seq(Dg) /\ RecOK(logdRead', permitted)
    <3>1. Append(logdRead, Head(queue)) \in Seq(Dg)
          /\ RecOK(Append(logdRead, Head(queue)), permitted)
      <4>1. logdRead \in Seq(Dg) /\ RecOK(logdRead, permitted)
        BY DEF IInv
      <4>2. Head(queue) \in Dg
            /\ (Head(queue).type = "record" => GoodId(Head(queue).id, permitted))
        BY <2>2
      <4> QED BY <4>1, <4>2, RecAppend
    <3> QED BY <2>1, <3>1
  <2> QED BY <1>1, <2>1, <2>2, <2>3 DEF IInv, RecOK
<1>3. CASE W!LogdCrash
  <2>1. queue' = <<>> /\ crashLost' = crashLost \o queue
        /\ wlogId' = wlogId /\ logdRead' = logdRead
    BY <1>3 DEF W!LogdCrash
  <2>2. crashLost' \in Seq(Dg) /\ RecOK(crashLost', permitted)
    BY <2>1, RecConcat DEF IInv
  <2>3. queue' \in Seq(Dg) /\ RecOK(queue', permitted)
    BY <2>1, RecEmpty
  <2> QED BY <1>1, <2>1, <2>2, <2>3 DEF IInv, RecOK
<1>4. CASE W!LogdRestart
  BY <1>1, <1>4, FrontStep DEF W!LogdRestart, IInv
<1> QED BY <1>2, <1>3, <1>4 DEF Logd

\* Every step keeps IInv.
LEMMA IInvStep == IInv /\ [Next]_vars => IInv'
<1> SUFFICES ASSUME IInv, [Next]_vars PROVE IInv'
  OBVIOUS
<1> USE DEF front
<1>1. ASSUME NEW t \in Threads, BufWrite(t) PROVE IInv'
  <2>1. PICK buf \in CallBufs, tag \in {"given", "null"} :
             Return(t) \/ WriteLogMessage(t, buf, tag)
    BY <1>1 DEF BufWrite
  <2>2. msgBuf' \in [Threads -> LogBufs]
    BY <2>1, ReturnType, WriteLogMessageType, CallBufsAssumption
  <2> QED BY <1>1, <2>2, FrontStep DEF BufWrite, wvars
<1>2. ASSUME NEW t \in Threads, LogAssert(t) PROVE IInv'
  <2>1. PICK tag \in {"given", "null"} :
             \/ fpc' = [fpc EXCEPT ![t] = "abort"] /\ msgBuf' = msgBuf
             \/ WriteLogMessage(t, "main", tag)
    BY <1>2 DEF LogAssert
  <2>2. msgBuf' \in [Threads -> LogBufs]
    BY <2>1, WriteLogMessageType DEF IInv, LogBufs
  <2> QED BY <1>2, <2>2, FrontStep DEF LogAssert, wvars
<1>3. ASSUME NEW t \in Threads, LogdLoggerCall(t) PROVE IInv'
  <2>1. msgBuf' \in [Threads -> LogBufs]
    BY <1>3, CallBufsAssumption DEF LogdLoggerCall, IInv
  <2> QED BY <1>3, <2>1, FrontStep DEF LogdLoggerCall, wvars
<1>4. ASSUME NEW t \in Threads, RunLogger(t) PROVE IInv'
  <2> DEFINE id == IF msgBuf[t] = "default" THEN "main" ELSE msgBuf[t]
  <2>1. permitted' = permitted
    BY <1>4 DEF RunLogger
  <2>2. CASE msgLogger[t] = "logd" /\ ~fileLogger
    <3>1. WriteToLog(t, id, "text")
      BY <1>4, <2>2 DEF RunLogger
    <3>2. ~Rejected(id, "text") => [buf |-> id, frame |-> "text"] \in WriteIds
                                  /\ GoodId([buf |-> id, frame |-> "text"], permitted)
      BY DEF IInv, Rejected, GoodId, WriteIds, BinaryBufs, LogBufs
    <3> QED BY <2>1, <3>1, <3>2, WriteToLogStep
  <2>3. CASE ~(msgLogger[t] = "logd" /\ ~fileLogger)
    <3>1. Return(t) /\ UNCHANGED wvars
      BY <1>4, <2>3 DEF RunLogger
    <3> QED BY <2>1, <3>1, ReturnType, FrontStep DEF wvars
  <2> QED BY <2>2, <2>3
<1>5. ASSUME NEW t \in Threads, BinaryWrite(t) PROVE IInv'
  <2>1. PICK id \in BinaryBufs : WriteToLog(t, id, "binary")
    BY <1>5 DEF BinaryWrite
  <2>2. ~Rejected(id, "binary") => [buf |-> id, frame |-> "binary"] \in WriteIds
                                  /\ GoodId([buf |-> id, frame |-> "binary"], permitted)
    BY DEF Rejected, GoodId, WriteIds, BinaryBufs, LogBufs
  <2> QED BY <1>5, <2>1, <2>2, WriteToLogStep DEF BinaryWrite
<1>6. ASSUME NEW t \in Threads, WriterStep(t) PROVE IInv'
  BY <1>6, WriterIInv
<1>7. ASSUME NEW t \in Threads, Finish(t) PROVE IInv'
  BY <1>7, ReturnType, FrontStep DEF Finish, wvars
<1>8. ASSUME NEW t \in Threads,
             Abort(t) \/ SetDefaultTag(t) \/ SetLogger(t)
      PROVE IInv'
  BY <1>8, FrontStep DEF Abort, SetDefaultTag, SetLogger, wvars, IInv
<1>9. CASE Logd
  BY <1>9, LogdIInv
<1>10. CASE UNCHANGED vars
  BY <1>10, FrontStep DEF vars, wvars, IInv
<1> QED BY <1>1, <1>2, <1>3, <1>4, <1>5, <1>6, <1>7, <1>8, <1>9, <1>10
        DEF Next

-----------------------------------------------------------------------------
(* Theorems *)

\* Every record that reaches logd from this library, through any API entry,
\* logger and interleaving, names a partition a client may write and is
\* framed as that partition expects (write_log_message's buffer filter,
\* the logd logger's DEFAULT-to-MAIN mapping and write_to_log's vec[0]
\* checks), for every number of threads, calls and queue capacity.
THEOREM FramingSound == Spec => []WellFramed
<1>1. IInv => WellFramed
  <2> SUFFICES ASSUME IInv, NEW d \in Received, d.type = "record"
               PROVE  /\ d.id.buf \notin {"default", "kernel"}
                      /\ (d.id.frame = "binary" <=> d.id.buf \in BinaryBufs)
    BY DEF WellFramed
  <2>1. GoodId(d.id, permitted)
    <3>1. d \in Elems(queue) \/ d \in Elems(logdRead) \/ d \in Elems(crashLost)
      BY DEF Received
    <3> QED BY <3>1, RecElems DEF IInv
  <2> QED BY <2>1 DEF GoodId
<1> QED BY <1>1, InitIInv, IInvStep, PTL DEF Spec

\* logd receives a security-log record from this process only if
\* check_log_uid_permissions() accepts it, for every value of the constants.
THEOREM SecurityGateSound == Spec => []SecurityGate
<1>1. IInv => SecurityGate
  <2> SUFFICES ASSUME IInv, NEW d \in Received, d.type = "record",
                      d.id.buf = "security"
               PROVE  permitted
    BY DEF SecurityGate
  <2>1. GoodId(d.id, permitted)
    <3>1. d \in Elems(queue) \/ d \in Elems(logdRead) \/ d \in Elems(crashLost)
      BY DEF Received
    <3> QED BY <3>1, RecElems DEF IInv
  <2> QED BY <2>1 DEF GoodId
<1> QED BY <1>1, InitIInv, IInvStep, PTL DEF Spec

-----------------------------------------------------------------------------
(* Type correctness *)

\* The per-thread message fields, the part of TypeOK a call changes.
MsgTypeOK ==
    /\ fpc \in [Threads -> {"idle", "logger", "writer", "abort"}]
    /\ msgBuf \in [Threads -> LogBufs]
    /\ msgTag \in [Threads -> {OwnTag} \cup Nat]
    /\ msgLogger \in [Threads -> Loggers]

\* The state of the threads' LogdWrite() calls.
WriterTypeOK ==
    /\ wpc \in [Threads -> {"idle", "call", "record"}]
    /\ wlogId \in [Threads -> WriteIds]

\* The rest of TypeOK: process-wide settings and counters.
GlobalTypeOK ==
    /\ asserting \in [Threads -> BOOLEAN]
    /\ loggerFn \in Loggers /\ defaultTag \in Nat
    /\ {permitted, fileLogger, aborted} \subseteq BOOLEAN
    /\ apiCalls \in Nat

LEMMA TypeSplit == TypeOK <=> MsgTypeOK /\ WriterTypeOK /\ GlobalTypeOK
BY DEF TypeOK, MsgTypeOK, WriterTypeOK, GlobalTypeOK

\* Return(t) resets the message fields of t.
LEMMA ReturnMsgType ==
    ASSUME MsgTypeOK, NEW t \in Threads, Return(t)
    PROVE  MsgTypeOK'
BY DEF MsgTypeOK, Return, LogBufs, Loggers, OwnTag

\* write_log_message with a buffer id of log_id_t and a default tag
\* generation in Nat.
LEMMA WriteLogMessageMsgType ==
    ASSUME MsgTypeOK, GlobalTypeOK, NEW t \in Threads, NEW buf \in LogBufs,
           NEW tag, WriteLogMessage(t, buf, tag)
    PROVE  MsgTypeOK'
<1>1. CASE Return(t)
  BY <1>1, ReturnMsgType
<1>2. CASE /\ buf \in {"default", "main", "system", "radio", "crash"}
           /\ msgBuf' = [msgBuf EXCEPT ![t] = buf]
           /\ msgTag' = [msgTag EXCEPT ![t] = IF tag = "given" THEN OwnTag
                                                              ELSE defaultTag]
           /\ msgLogger' = [msgLogger EXCEPT ![t] = loggerFn]
           /\ fpc' = [fpc EXCEPT ![t] = "logger"]
  BY <1>2 DEF MsgTypeOK, GlobalTypeOK
<1> QED BY <1>1, <1>2 DEF WriteLogMessage

\* write_to_log with a log_id_t and a frame either returns or begins a
\* LogdWrite() call with that log id.
LEMMA WriteToLogType ==
    ASSUME MsgTypeOK, WriterTypeOK, NEW t \in Threads, NEW id \in LogBufs,
           NEW frame \in {"text", "binary"}, WriteToLog(t, id, frame)
    PROVE  MsgTypeOK' /\ WriterTypeOK'
<1>1. CASE Return(t) /\ UNCHANGED wvars
  BY <1>1, ReturnMsgType DEF WriterTypeOK, wvars
<1>2. CASE /\ W!Begin(t)
           /\ wlogId'[t] = [buf |-> id, frame |-> frame]
           /\ fpc' = [fpc EXCEPT ![t] = "writer"]
           /\ UNCHANGED <<msgBuf, msgTag, msgLogger>>
  <2>1. PICK x \in WriteIds : wlogId' = [wlogId EXCEPT ![t] = x]
    BY <1>2 DEF W!Begin
  <2>2. wpc' = [wpc EXCEPT ![t] = "call"]
    BY <1>2 DEF W!Begin
  <2> QED BY <1>2, <2>1, <2>2 DEF MsgTypeOK, WriterTypeOK
<1> QED BY <1>1, <1>2 DEF WriteToLog

\* Every step keeps every variable in its type.
LEMMA TypeStep ==
    ASSUME TypeOK, [Next]_vars
    PROVE  TypeOK'
<1> USE DEF front, wvars
<1>1. ASSUME NEW t \in Threads, BufWrite(t) PROVE TypeOK'
  <2>1. PICK buf \in CallBufs, tag \in {"given", "null"} :
             Return(t) \/ WriteLogMessage(t, buf, tag)
    BY <1>1 DEF BufWrite
  <2>2. MsgTypeOK'
    BY <2>1, ReturnMsgType, WriteLogMessageMsgType, CallBufsAssumption,
       TypeSplit
  <2> QED BY <1>1, <2>2 DEF BufWrite, TypeOK, MsgTypeOK, WriterTypeOK, GlobalTypeOK
<1>2. ASSUME NEW t \in Threads, LogAssert(t) PROVE TypeOK'
  <2>1. PICK tag \in {"given", "null"} :
             \/ fpc' = [fpc EXCEPT ![t] = "abort"]
                /\ UNCHANGED <<msgBuf, msgTag, msgLogger>>
             \/ WriteLogMessage(t, "main", tag)
    BY <1>2 DEF LogAssert
  <2>2. MsgTypeOK'
    BY <2>1, WriteLogMessageMsgType DEF TypeOK, MsgTypeOK, GlobalTypeOK,
                                         LogBufs
  <2>3. GlobalTypeOK'
    BY <1>2 DEF LogAssert, TypeOK, GlobalTypeOK
  <2>4. WriterTypeOK'
    BY <1>2 DEF LogAssert, TypeOK, WriterTypeOK, wvars
  <2> QED BY <2>2, <2>3, <2>4 DEF TypeOK, MsgTypeOK, WriterTypeOK,
                                  GlobalTypeOK
<1>3. ASSUME NEW t \in Threads, LogdLoggerCall(t) PROVE TypeOK'
  BY <1>3, CallBufsAssumption
     DEF LogdLoggerCall, TypeOK, Loggers, OwnTag
<1>4. ASSUME NEW t \in Threads, RunLogger(t) PROVE TypeOK'
  <2> DEFINE id == IF msgBuf[t] = "default" THEN "main" ELSE msgBuf[t]
  <2>1. id \in LogBufs
    BY DEF TypeOK, LogBufs
  <2>2. MsgTypeOK' /\ WriterTypeOK'
    <3>1. CASE msgLogger[t] = "logd" /\ ~fileLogger
      BY <1>4, <2>1, <3>1, WriteToLogType, TypeSplit DEF RunLogger
    <3>2. CASE ~(msgLogger[t] = "logd" /\ ~fileLogger)
      BY <1>4, <3>2, ReturnMsgType, TypeSplit DEF RunLogger, WriterTypeOK, MsgTypeOK
    <3> QED BY <3>1, <3>2
  <2> QED BY <1>4, <2>2 DEF RunLogger, TypeOK, MsgTypeOK, WriterTypeOK, GlobalTypeOK
<1>5. ASSUME NEW t \in Threads, BinaryWrite(t) PROVE TypeOK'
  <2>1. PICK id \in BinaryBufs : WriteToLog(t, id, "binary")
    BY <1>5 DEF BinaryWrite
  <2>2. MsgTypeOK' /\ WriterTypeOK'
    BY <2>1, WriteToLogType, TypeSplit DEF BinaryBufs, LogBufs
  <2> QED BY <1>5, <2>2 DEF BinaryWrite, TypeOK, MsgTypeOK, WriterTypeOK, GlobalTypeOK
<1>6. ASSUME NEW t \in Threads, WriterStep(t) PROVE TypeOK'
  <2>1. wlogId' = wlogId
    BY <1>6 DEF WriterStep, W!Quit, W!Report, W!Proceed, W!Deliver, W!Lose
  <2>2. wpc' \in [Threads -> {"idle", "call", "record"}]
    BY <1>6 DEF WriterStep, W!Quit, W!Report, W!Proceed, W!Deliver, W!Lose,
                TypeOK
  <2> QED BY <1>6, <2>1, <2>2 DEF WriterStep, TypeOK
<1>7. ASSUME NEW t \in Threads, Finish(t) PROVE TypeOK'
  BY <1>7, ReturnMsgType
     DEF Finish, TypeOK, MsgTypeOK, WriterTypeOK, GlobalTypeOK
<1>8. ASSUME NEW t \in Threads,
             Abort(t) \/ SetDefaultTag(t) \/ SetLogger(t)
      PROVE TypeOK'
  <2>1. CASE Abort(t)
    BY <2>1 DEF Abort, TypeOK
  <2>2. CASE SetDefaultTag(t)
    BY <2>2 DEF SetDefaultTag, TypeOK
  <2>3. CASE SetLogger(t)
    BY <2>3 DEF SetLogger, TypeOK
  <2> QED BY <1>8, <2>1, <2>2, <2>3
<1>9. CASE Logd
  BY <1>9 DEF Logd, W!LogdRead, W!LogdCrash, W!LogdRestart, TypeOK
<1>10. CASE UNCHANGED vars
  BY <1>10 DEF vars, TypeOK
<1> QED BY <1>1, <1>2, <1>3, <1>4, <1>5, <1>6, <1>7, <1>8, <1>9, <1>10
        DEF Next

\* For every value of the constants, every reachable state of the front
\* end is well typed: in particular a thread only ever hands LogdWrite() a
\* log_id_t with a text or binary frame, and a message's tag is the
\* caller's own or a generation of the default tag's buffer.
THEOREM TypeCorrect == Spec => []TypeOK
<1>1. Init => TypeOK
  <2> SUFFICES ASSUME Init PROVE TypeOK
    OBVIOUS
  <2>1. MsgTypeOK
    BY DEF Init, MsgTypeOK, LogBufs, Loggers, OwnTag
  <2>2. WriterTypeOK
    BY DEF Init, W!Init, WriterTypeOK, WriteIds, LogBufs
  <2>3. GlobalTypeOK
    BY DEF Init, GlobalTypeOK, Loggers
  <2> QED BY <2>1, <2>2, <2>3 DEF TypeOK, MsgTypeOK, WriterTypeOK,
                                  GlobalTypeOK
<1> QED BY <1>1, TypeStep, PTL DEF Spec

=============================================================================
