----------------------------- MODULE LoggerWrite -----------------------------
(***************************************************************************)
(* The client front end of liblog, src/liblog/logger_write.cpp, composed  *)
(* with what LogdWrite() promises (module LogdWriteAbs, which             *)
(* LogdWriter is checked to implement).                                    *)
(*                                                                         *)
(* Threads of one process call the public API: the text writers           *)
(* (__android_log_buf_write and its print/write variants), the public     *)
(* logd logger, the binary writers (bwrite, btwrite, bswrite,             *)
(* stats_bwrite, security_bwrite, security_bswrite) and                    *)
(* __android_log_assert, and change the process-wide settings             *)
(* (set_default_tag, set_logger).  A text message with no tag is given   *)
(* the default tag's buffer, which the logger reads later: the model     *)
(* records which generation of that buffer a message holds.              *)
(*                                                                         *)
(* Data is abstracted to what the properties tell apart: a message is its *)
(* log id and whether its tag is the caller's or the default one; a       *)
(* logger is logd, stderr or a custom one; the checks that live outside   *)
(* this repository (__android_log_is_loggable, __android_log_security)    *)
(* are free choices.                                                       *)
(***************************************************************************)
EXTENDS Integers, Sequences

CONSTANTS
    Threads,     \* threads of the client process
    CallBufs,    \* log ids the callers pass (a subset of LogBufs)
    MaxCalls,    \* bound on API calls
    MaxTagSets,  \* bound on __android_log_set_default_tag calls
    QueueCap,    \* datagrams logd's socket queues
    MaxCrashes,  \* bound on logd crashes
    DropHalf     \* 2^(w-1) for the w-bit drop count of LogdWrite

\* log_id_t values (LOG_ID_DEFAULT included).
LogBufs == {"default", "main", "radio", "events", "system", "crash", "stats",
            "security", "kernel"}

\* The ids whose payload starts with a 4-byte tag (vec[0].iov_len == 4).
BinaryBufs == {"events", "stats", "security"}

\* What LogdWrite() is called with: the log id and how vec[0] frames it.
WriteIds == [buf : LogBufs, frame : {"text", "binary"}]

\* Loggers __android_log_set_logger may install.
Loggers == {"logd", "stderr", "custom"}

\* The tag of a message: generation g >= 0 of the default tag's buffer, or
\* OwnTag for a string of the caller's own.
OwnTag == -1

ASSUME CallBufsAssumption == CallBufs \subseteq LogBufs
ASSUME BoundsAssumption ==
    /\ MaxCalls \in Nat /\ MaxTagSets \in Nat /\ QueueCap \in Nat
    /\ MaxCrashes \in Nat /\ DropHalf \in Nat \ {0}

VARIABLES
    fpc,          \* per thread: "idle", "logger", "writer" or "abort"
    msgBuf,       \* per thread: buffer_id of its message
    msgTag,       \* per thread: OwnTag, or the default-tag generation held
    msgLogger,    \* per thread: the logger_function it read
    asserting,    \* per thread: inside __android_log_assert
    loggerFn,     \* static logger_function
    defaultTag,   \* generation of GetDefaultTag()'s buffer
    permitted,    \* check_log_uid_permissions() succeeds for this process
    fileLogger,   \* ro.log.file_logger.path is set
    aborted,      \* the process has called abort()
    apiCalls,     \* API calls so far
    \* LogdWrite's state, as LogdWriteAbs has it:
    wpc, wlogId, queue, logdUp, crashes, calls, failed, logdRead, crashLost

front == <<fpc, msgBuf, msgTag, msgLogger, asserting, loggerFn, defaultTag,
           permitted, fileLogger, aborted, apiCalls>>
wvars == <<wpc, wlogId, queue, logdUp, crashes, calls, failed, logdRead,
           crashLost>>
vars == <<front, wvars>>

W == INSTANCE LogdWriteAbs WITH pc <- wpc, logId <- wlogId, LogIds <- WriteIds

Init ==
    /\ W!Init /\ wlogId = [t \in Threads |-> [buf |-> "main", frame |-> "text"]]
    /\ fpc = [t \in Threads |-> "idle"]
    /\ msgBuf = [t \in Threads |-> "main"]
    /\ msgTag = [t \in Threads |-> OwnTag]
    /\ msgLogger = [t \in Threads |-> "logd"]
    /\ asserting = [t \in Threads |-> FALSE]
    /\ loggerFn = "logd"
    /\ defaultTag = 0
    /\ permitted \in BOOLEAN
    /\ fileLogger \in BOOLEAN
    /\ aborted = FALSE
    /\ apiCalls = 0

\* A thread that may start an API call.
Ready(t) == fpc[t] = "idle" /\ ~aborted

\* The thread's call returns (its __android_log_message, a local, is gone);
\* __android_log_assert goes on to abort.
Return(t) ==
    /\ fpc' = [fpc EXCEPT ![t] = IF asserting[t] THEN "abort" ELSE "idle"]
    /\ msgBuf' = [msgBuf EXCEPT ![t] = "main"]
    /\ msgTag' = [msgTag EXCEPT ![t] = OwnTag]
    /\ msgLogger' = [msgLogger EXCEPT ![t] = "logd"]

\* Mutant: write_to_log without the LOG_ID_KERNEL check.
RejectedNoKernelCheck(id, frame) ==
    \/ id = "security" /\ (frame = "text" \/ ~permitted)
    \/ id \in {"events", "stats"} /\ frame = "text"

\* Mutant: the events/stats branch checks LOG_ID_EVENTS only.
RejectedNoStatsCheck(id, frame) ==
    \/ id = "kernel"
    \/ id = "security" /\ (frame = "text" \/ ~permitted)
    \/ id = "events" /\ frame = "text"

\* Mutant: the uid/gid check of the security log is skipped.
RejectedNoUidCheck(id, frame) ==
    \/ id = "kernel"
    \/ id = "security" /\ frame = "text"
    \/ id \in {"events", "stats"} /\ frame = "text"

\* write_to_log refuses the call without reaching LogdWrite: the kernel
\* log, a text-framed security/events/stats record, or a process whose
\* uid/gid may not write the security log.
Rejected(id, frame) ==
    \/ id = "kernel"
    \/ id = "security" /\ (frame = "text" \/ ~permitted)
    \/ id \in {"events", "stats"} /\ frame = "text"

\* write_to_log(id, vec): the gate, then LogdWrite (PmsgWrite, whose code
\* is not in this repository, is left out).  __android_log_security() is
\* a free choice.
WriteToLog(t, id, frame) ==
    \/ /\ Rejected(id, frame) \/ id = "security"
       /\ Return(t)
       /\ UNCHANGED wvars
    \/ /\ ~Rejected(id, frame)
       /\ W!Begin(t)
       /\ wlogId'[t] = [buf |-> id, frame |-> frame]
       /\ fpc' = [fpc EXCEPT ![t] = "writer"]
       /\ UNCHANGED <<msgBuf, msgTag, msgLogger>>

\* __android_log_write_log_message: only DEFAULT, MAIN, SYSTEM, RADIO and
\* CRASH pass; a missing tag becomes the default tag's c_str(); the
\* logger_function is read and called.
WriteLogMessage(t, buf, tag) ==
    \/ /\ buf \notin {"default", "main", "system", "radio", "crash"}
       /\ Return(t)
    \/ /\ buf \in {"default", "main", "system", "radio", "crash"}
       /\ msgBuf' = [msgBuf EXCEPT ![t] = buf]
       /\ msgTag' = [msgTag EXCEPT ![t] = IF tag = "given" THEN OwnTag
                                                          ELSE defaultTag]
       /\ msgLogger' = [msgLogger EXCEPT ![t] = loggerFn]
       /\ fpc' = [fpc EXCEPT ![t] = "logger"]

\* __android_log_buf_write (and write, print, vprint, buf_print): -EPERM
\* if the priority is not loggable, else write_log_message; returns 1.
BufWrite(t) ==
    /\ Ready(t) /\ apiCalls < MaxCalls
    /\ apiCalls' = apiCalls + 1
    /\ \E buf \in CallBufs, tag \in {"given", "null"} :
          \/ Return(t)
          \/ WriteLogMessage(t, buf, tag)
    /\ UNCHANGED <<asserting, loggerFn, defaultTag, permitted, fileLogger,
                   aborted, wvars>>

\* __android_log_assert: __android_log_write(FATAL, tag, buf) to MAIN,
\* then the aborter and abort().
LogAssert(t) ==
    /\ Ready(t) /\ apiCalls < MaxCalls
    /\ apiCalls' = apiCalls + 1
    /\ asserting' = [asserting EXCEPT ![t] = TRUE]
    /\ \E tag \in {"given", "null"} :
          \/ fpc' = [fpc EXCEPT ![t] = "abort"]
             /\ UNCHANGED <<msgBuf, msgTag, msgLogger>>
          \/ WriteLogMessage(t, "main", tag)
    /\ UNCHANGED <<loggerFn, defaultTag, permitted, fileLogger, aborted, wvars>>

\* The public __android_log_logd_logger called with a message of the
\* caller's own (any buffer_id, a non-null tag).
LogdLoggerCall(t) ==
    /\ Ready(t) /\ apiCalls < MaxCalls
    /\ apiCalls' = apiCalls + 1
    /\ \E buf \in CallBufs :
          /\ msgBuf' = [msgBuf EXCEPT ![t] = buf]
          /\ msgTag' = [msgTag EXCEPT ![t] = OwnTag]
          /\ msgLogger' = [msgLogger EXCEPT ![t] = "logd"]
          /\ fpc' = [fpc EXCEPT ![t] = "logger"]
    /\ UNCHANGED <<asserting, loggerFn, defaultTag, permitted, fileLogger,
                   aborted, wvars>>

\* The logger the message was handed to runs.  stderr and custom loggers
\* (and the file override of the logd logger) print it and return; the
\* logd logger maps DEFAULT to MAIN, frames vec[0] as the one-byte
\* priority and calls write_to_log.
RunLogger(t) ==
    /\ fpc[t] = "logger" /\ ~aborted
    /\ IF msgLogger[t] = "logd" /\ ~fileLogger
          THEN WriteToLog(t, IF msgBuf[t] = "default" THEN "main" ELSE msgBuf[t],
                          "text")
          ELSE Return(t) /\ UNCHANGED wvars
    /\ UNCHANGED <<asserting, loggerFn, defaultTag,
                   permitted, fileLogger, aborted, apiCalls>>

\* __android_log_bwrite and the other binary writers: vec[0] is the
\* 4-byte event tag, the log id is fixed by the function.
BinaryWrite(t) ==
    /\ Ready(t) /\ apiCalls < MaxCalls
    /\ apiCalls' = apiCalls + 1
    /\ \E id \in BinaryBufs : WriteToLog(t, id, "binary")
    /\ UNCHANGED <<asserting, loggerFn, defaultTag,
                   permitted, fileLogger, aborted>>

\* A step of the thread's LogdWrite call.
WriterStep(t) ==
    /\ fpc[t] = "writer" /\ ~aborted
    /\ \/ W!Quit(t) \/ W!Report(t) \/ W!Proceed(t) \/ W!Deliver(t)
       \/ W!Lose(t)
    /\ UNCHANGED front

\* LogdWrite has returned; so does the API call.
Finish(t) ==
    /\ fpc[t] = "writer" /\ wpc[t] = "idle" /\ ~aborted
    /\ Return(t)
    /\ UNCHANGED <<asserting, loggerFn, defaultTag, permitted, fileLogger,
                   aborted, apiCalls, wvars>>

\* __android_log_call_aborter then abort(): the process ends.
Abort(t) ==
    /\ fpc[t] = "abort" /\ ~aborted
    /\ aborted' = TRUE
    /\ UNCHANGED <<fpc, msgBuf, msgTag, msgLogger, asserting, loggerFn,
                   defaultTag, permitted, fileLogger, apiCalls, wvars>>

\* __android_log_set_default_tag: std::string::assign into the static
\* string, which rewrites its buffer or frees it for a larger one.
SetDefaultTag(t) ==
    /\ Ready(t) /\ defaultTag < MaxTagSets
    /\ defaultTag' = defaultTag + 1
    /\ UNCHANGED <<fpc, msgBuf, msgTag, msgLogger, asserting, loggerFn,
                   permitted, fileLogger, aborted, apiCalls, wvars>>

\* __android_log_set_logger: a plain store to logger_function.
SetLogger(t) ==
    /\ Ready(t)
    /\ \E l \in Loggers \ {loggerFn} : loggerFn' = l
    /\ UNCHANGED <<fpc, msgBuf, msgTag, msgLogger, asserting, defaultTag,
                   permitted, fileLogger, aborted, apiCalls, wvars>>

\* logd reads, crashes and restarts whatever the client does.
Logd == (W!LogdRead \/ W!LogdCrash \/ W!LogdRestart) /\ UNCHANGED front

Next ==
    \/ \E t \in Threads :
          \/ BufWrite(t) \/ LogAssert(t) \/ LogdLoggerCall(t) \/ RunLogger(t)
          \/ BinaryWrite(t) \/ WriterStep(t) \/ Finish(t) \/ Abort(t)
          \/ SetDefaultTag(t) \/ SetLogger(t)
    \/ Logd

Spec == Init /\ [][Next]_vars

-----------------------------------------------------------------------------
(* Refinement: the front end keeps the contract of LoggerWriteAbs.  A     *)
(* thread running its logger is busy in its API call; the messages, tags  *)
(* and settings are hidden.                                                *)

Client == INSTANCE LoggerWriteAbs
            WITH cpc <- [t \in Threads |-> IF fpc[t] = "logger" THEN "busy"
                                                              ELSE fpc[t]]

\* Every behaviour of the API is one LoggerWriteAbs allows: each API call,
\* whatever entry, logger and settings it goes through, hands LogdWrite()
\* at most one record, only with a log id a client may write, framed as
\* logd expects, and the security log only from a permitted process.
ClientContract == Client!Spec

-----------------------------------------------------------------------------
(* Properties *)

\* The type of every variable.
TypeOK ==
    /\ fpc \in [Threads -> {"idle", "logger", "writer", "abort"}]
    /\ msgBuf \in [Threads -> LogBufs]
    /\ msgTag \in [Threads -> {OwnTag} \cup Nat]
    /\ msgLogger \in [Threads -> Loggers]
    /\ asserting \in [Threads -> BOOLEAN]
    /\ loggerFn \in Loggers /\ defaultTag \in Nat
    /\ {permitted, fileLogger, aborted} \subseteq BOOLEAN
    /\ apiCalls \in Nat
    /\ wpc \in [Threads -> {"idle", "call", "record"}]
    /\ wlogId \in [Threads -> WriteIds]

\* The datagrams that have reached logd.
Elems(s) == {s[i] : i \in DOMAIN s}
Received == Elems(queue) \cup Elems(logdRead) \cup Elems(crashLost)
\* Ingest framing (spec, IngestEndpoint): every record a client of this
\* library gets to logd names a partition a client may write (never
\* LOG_ID_DEFAULT or LOG_ID_KERNEL) and is framed as that partition
\* expects: a 4-byte event tag exactly for events, stats and security, a
\* one-byte priority for the text logs.  It rests on the buffer filter of
\* write_log_message, the DEFAULT-to-MAIN mapping of the logd logger and
\* the vec[0] length checks of write_to_log, across every API entry.
WellFramed ==
    \A d \in Received :
       d.type = "record" =>
          /\ d.id.buf \notin {"default", "kernel"}
          /\ (d.id.frame = "binary" <=> d.id.buf \in BinaryBufs)

\* Security log (spec, PermissionDenied): logd receives a security record
\* from this process only if check_log_uid_permissions() accepts the
\* process, whichever API and logger the record went through.
SecurityGate ==
    (\E d \in Received : d.type = "record" /\ d.id.buf = "security")
       => permitted

\* Default tag lifetime: while a message that took the default tag is
\* being logged (by the logger, and by LogdWrite's writev, which reads
\* the tag through its iovec), the default tag's buffer is the one the
\* message holds: __android_log_set_default_tag has not rewritten or
\* freed it (GetDefaultTag().c_str() in write_log_message, assign() in
\* set_default_tag, with no lock between them).
TagLive ==
    \A t \in Threads :
       fpc[t] \in {"logger", "writer"} /\ msgTag[t] # OwnTag
          => msgTag[t] = defaultTag

=============================================================================
