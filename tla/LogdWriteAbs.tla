---------------------------- MODULE LogdWriteAbs ----------------------------
(***************************************************************************)
(* What LogdWrite() (src/liblog/logd_writer.cpp) promises its callers and *)
(* logd, without sockets and without the shared drop counter.  A call of  *)
(* a thread is in one of two stages.  In "call" it may still give up      *)
(* without a trace (no socket, or the caller is logd itself), or report   *)
(* earlier losses to logd with one drop event.  In "record" it either     *)
(* delivers its own record, once, into logd's queue, or counts the record *)
(* as lost.  logd reads its queue, may crash and lose it, and is          *)
(* restarted.                                                             *)
(***************************************************************************)
EXTENDS Integers, Sequences

CONSTANTS
    Threads,     \* threads that call LogdWrite()
    LogIds,      \* the log ids (with what they carry) of the calls
    MaxCalls,    \* bound on calls
    QueueCap,    \* datagrams logd's socket queues
    MaxCrashes,  \* bound on logd crashes
    DropHalf     \* 2^(w-1) for a w-bit drop count

\* The values of a drop count (the w-bit atomic_int of the code).
DropRange == -DropHalf .. DropHalf - 1

\* A record, or the drop event that reports n lost records.
Datagrams == [type : {"record"}, id : LogIds] \cup [type : {"drops"}, n : Int]

VARIABLES
    pc,         \* per thread: "idle", or the stage of its call
    logId,      \* per thread: the log id of its call
    queue,      \* datagrams queued at logd
    logdUp,     \* logd is running
    crashes,    \* logd crashes so far
    calls,      \* calls started so far
    failed,     \* records counted as lost
    logdRead,   \* datagrams logd has read
    crashLost   \* datagrams lost in logd's queue when it crashed

vars == <<pc, logId, queue, logdUp, crashes, calls, failed, logdRead,
          crashLost>>

\* logd can take one more datagram.
Room == logdUp /\ Len(queue) < QueueCap

Init ==
    /\ pc = [t \in Threads |-> "idle"]
    /\ logId \in [Threads -> LogIds]
    /\ queue = <<>>
    /\ logdUp = TRUE
    /\ crashes = 0 /\ calls = 0 /\ failed = 0
    /\ logdRead = <<>> /\ crashLost = <<>>

Begin(t) ==
    /\ pc[t] = "idle" /\ calls < MaxCalls
    /\ \E id \in LogIds : logId' = [logId EXCEPT ![t] = id]
    /\ pc' = [pc EXCEPT ![t] = "call"]
    /\ calls' = calls + 1
    /\ UNCHANGED <<queue, logdUp, crashes, failed, logdRead, crashLost>>

\* The call returns before touching logd.
Quit(t) ==
    /\ pc[t] = "call"
    /\ pc' = [pc EXCEPT ![t] = "idle"]
    /\ UNCHANGED <<logId, queue, logdUp, crashes, calls, failed, logdRead,
                   crashLost>>

\* One drop event with a nonzero count, then the record.
Report(t) ==
    /\ pc[t] = "call" /\ Room
    /\ \E n \in DropRange \ {0} :
          queue' = Append(queue, [type |-> "drops", n |-> n])
    /\ pc' = [pc EXCEPT ![t] = "record"]
    /\ UNCHANGED <<logId, logdUp, crashes, calls, failed, logdRead, crashLost>>

\* No drop event (nothing to report, or it could not be written).
Proceed(t) ==
    /\ pc[t] = "call"
    /\ pc' = [pc EXCEPT ![t] = "record"]
    /\ UNCHANGED <<logId, queue, logdUp, crashes, calls, failed, logdRead,
                   crashLost>>

\* The record reaches logd's queue and the call returns.
Deliver(t) ==
    /\ pc[t] = "record" /\ Room
    /\ queue' = Append(queue, [type |-> "record", id |-> logId[t]])
    /\ pc' = [pc EXCEPT ![t] = "idle"]
    /\ UNCHANGED <<logId, logdUp, crashes, calls, failed, logdRead, crashLost>>

\* The record is counted as lost and the call returns.
Lose(t) ==
    /\ pc[t] = "record"
    /\ failed' = failed + 1
    /\ pc' = [pc EXCEPT ![t] = "idle"]
    /\ UNCHANGED <<logId, queue, logdUp, crashes, calls, logdRead, crashLost>>

LogdRead ==
    /\ logdUp /\ queue # <<>>
    /\ logdRead' = Append(logdRead, Head(queue))
    /\ queue' = Tail(queue)
    /\ UNCHANGED <<pc, logId, logdUp, crashes, calls, failed, crashLost>>

LogdCrash ==
    /\ logdUp /\ crashes < MaxCrashes
    /\ logdUp' = FALSE
    /\ crashes' = crashes + 1
    /\ queue' = <<>>
    /\ crashLost' = crashLost \o queue
    /\ UNCHANGED <<pc, logId, calls, failed, logdRead>>

LogdRestart ==
    /\ ~logdUp
    /\ logdUp' = TRUE
    /\ UNCHANGED <<pc, logId, queue, crashes, calls, failed, logdRead,
                   crashLost>>

Next ==
    \/ \E t \in Threads :
          Begin(t) \/ Quit(t) \/ Report(t) \/ Proceed(t) \/ Deliver(t) \/ Lose(t)
    \/ LogdRead \/ LogdCrash \/ LogdRestart

Spec == Init /\ [][Next]_vars

=============================================================================
