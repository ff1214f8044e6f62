---------------------------- MODULE LoggerWriteAbs ----------------------------
(***************************************************************************)
(* What the liblog front end (src/liblog/logger_write.cpp) promises       *)
(* LogdWrite() and logd, without messages, tags and loggers.  A thread of  *)
(* the process is idle, busy in an API call, inside the LogdWrite() call   *)
(* of its API call, or about to abort.  An API call hands LogdWrite() at   *)
(* most one record, and only with a log id a client may write, framed as  *)
(* logd expects for it, and the security log only from a process          *)
(* check_log_uid_permissions() accepts.  Once the process aborts no       *)
(* thread runs.  LogdWrite() itself is its contract, LogdWriteAbs.         *)
(***************************************************************************)
EXTENDS Integers, Sequences

CONSTANTS
    Threads,     \* threads of the client process
    MaxCalls,    \* bound on API calls (and on LogdWrite() calls)
    QueueCap,    \* datagrams logd's socket queues
    MaxCrashes,  \* bound on logd crashes
    DropHalf     \* 2^(w-1) for the w-bit drop count of LogdWrite

\* log_id_t values, and those whose records carry a 4-byte binary tag.
LogBufs == {"default", "main", "radio", "events", "system", "crash", "stats",
            "security", "kernel"}
BinaryBufs == {"events", "stats", "security"}

\* A log id with the framing of vec[0].
WriteIds == [buf : LogBufs, frame : {"text", "binary"}]

\* The ids the front end may hand LogdWrite() when the process's uid/gid
\* check gives p: a partition clients write, framed as logd expects, and
\* the security log only if p.
ClientIds(p) ==
    {id \in WriteIds : /\ id.buf \notin {"default", "kernel"}
                       /\ (id.frame = "binary" <=> id.buf \in BinaryBufs)
                       /\ (id.buf = "security" => p)}

VARIABLES
    cpc,        \* per thread: "idle", "busy", "writer" or "abort"
    permitted,  \* check_log_uid_permissions() accepts the process
    aborted,    \* the process has aborted
    apiCalls,   \* API calls so far
    wpc, wlogId, queue, logdUp, crashes, calls, failed, logdRead, crashLost

wvars == <<wpc, wlogId, queue, logdUp, crashes, calls, failed, logdRead,
           crashLost>>
vars == <<cpc, permitted, aborted, apiCalls, wvars>>

W == INSTANCE LogdWriteAbs WITH pc <- wpc, logId <- wlogId, LogIds <- WriteIds

Init ==
    /\ W!Init /\ wlogId = [t \in Threads |-> [buf |-> "main", frame |-> "text"]]
    /\ cpc = [t \in Threads |-> "idle"]
    /\ permitted \in BOOLEAN
    /\ aborted = FALSE
    /\ apiCalls = 0

\* Thread t's API call ends: it returns, or __android_log_assert goes on to
\* abort.
Leave(t) == cpc' \in {[cpc EXCEPT ![t] = "idle"], [cpc EXCEPT ![t] = "abort"]}

\* Thread t's API call begins LogdWrite() with a client id.
Hand(t) ==
    /\ W!Begin(t)
    /\ wlogId'[t] \in ClientIds(permitted)
    /\ cpc' = [cpc EXCEPT ![t] = "writer"]

\* An API call starts: it may return or abort at once, stay busy (a
\* logger to run), or hand its record to LogdWrite() at once.
Start(t) ==
    /\ cpc[t] = "idle" /\ ~aborted /\ apiCalls < MaxCalls
    /\ apiCalls' = apiCalls + 1
    /\ \/ (Leave(t) \/ cpc' = [cpc EXCEPT ![t] = "busy"]) /\ UNCHANGED wvars
       \/ Hand(t)
    /\ UNCHANGED <<permitted, aborted>>

\* A busy call (its logger) returns, or hands its record to LogdWrite().
Serve(t) ==
    /\ cpc[t] = "busy" /\ ~aborted
    /\ \/ Leave(t) /\ UNCHANGED wvars
       \/ Hand(t)
    /\ UNCHANGED <<permitted, aborted, apiCalls>>

\* A step of the call's LogdWrite().
Write(t) ==
    /\ cpc[t] = "writer" /\ ~aborted
    /\ \/ W!Quit(t) \/ W!Report(t) \/ W!Proceed(t) \/ W!Deliver(t)
       \/ W!Lose(t)
    /\ UNCHANGED <<cpc, permitted, aborted, apiCalls>>

\* LogdWrite() has returned, and so does the API call.
Finish(t) ==
    /\ cpc[t] = "writer" /\ wpc[t] = "idle" /\ ~aborted
    /\ Leave(t)
    /\ UNCHANGED <<permitted, aborted, apiCalls, wvars>>

\* abort(): the process ends.
Abort(t) ==
    /\ cpc[t] = "abort" /\ ~aborted
    /\ aborted' = TRUE
    /\ UNCHANGED <<cpc, permitted, apiCalls, wvars>>

\* logd reads, crashes and restarts.
Logd ==
    /\ W!LogdRead \/ W!LogdCrash \/ W!LogdRestart
    /\ UNCHANGED <<cpc, permitted, aborted, apiCalls>>

Next ==
    \/ \E t \in Threads :
          Start(t) \/ Serve(t) \/ Write(t) \/ Finish(t) \/ Abort(t)
    \/ Logd

Spec == Init /\ [][Next]_vars

=============================================================================
