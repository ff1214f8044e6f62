----------------------------- MODULE LogdWriter -----------------------------
(***************************************************************************)
(* The client side of the logd write path in liblog: LogdWrite() and the   *)
(* two lazily opened LogdSocket singletons (src/liblog/logd_writer.cpp),   *)
(* shared by every thread of a client process.                             *)
(*                                                                         *)
(* Each thread of Threads runs LogdWrite() calls.  A call is split into    *)
(* the atomic steps at which it touches state other threads see: the      *)
(* socket slot sock_ (an atomic int set by compare-and-exchange), the      *)
(* process-wide atomic counter `dropped`, and the logd socket's receive   *)
(* queue (writev on a datagram socket).  The logd side of the socket       *)
(* (reading the queue, crashing, being restarted by init) is environment. *)
(***************************************************************************)
EXTENDS Integers, Sequences, FiniteSets, Functions

CONSTANTS
    Threads,     \* the client threads that call LogdWrite()
    MaxCalls,    \* bound on the number of LogdWrite() calls of a run
    QueueCap,    \* datagrams the logd socket can queue before writev would block
    MaxCrashes,  \* bound on logd crashes in a run
    DropHalf     \* 2^(w-1) for the w-bit atomic_int `dropped` (2^31 in the code)

ASSUME Assumptions ==
    /\ Threads # {} /\ IsFiniteSet(Threads)
    /\ MaxCalls \in Nat
    /\ QueueCap \in Nat \ {0}
    /\ MaxCrashes \in Nat
    /\ DropHalf \in Nat \ {0}

\* LogdSocket::kUninitialized
Uninit == -1

\* LogdSocket::BlockingSocket() and LogdSocket::NonBlockingSocket()
Kinds == {"blocking", "nonblocking"}

\* The log_id argument of LogdWrite(): only LOG_ID_SECURITY is told apart.
LogIds == {"main", "security"}

\* Program counter of a thread: "idle" between calls, else the next step.
PCs == {"idle", "getsock", "cas", "exchange", "dropsend", "send",
        "reconnect", "resend"}

\* What logd finds in its socket queue: a log record, or the liblog drop
\* event (tag LIBLOG_LOG_TAG) that reports n lost records.
Datagrams == [type : {"record"}, id : LogIds] \cup [type : {"drops"}, n : Int]

VARIABLES
    sock,       \* sock_ of each LogdSocket: Uninit or an open socket
    openFds,    \* sockets this process has created and not closed
    nextFd,     \* identity of the next socket socket() returns
    connected,  \* sockets connected to the running logd instance
    dropped,    \* static atomic_int dropped in LogdWrite()
    pc,         \* per-thread program counter
    logId,      \* per-thread log_id argument of the current call
    newSock,    \* per-thread new_socket of GetSocket(), Uninit when none
    snapshot,   \* per-thread snapshot of `dropped` while it is being sent
    queue,      \* datagrams queued on logd's /dev/socket/logdw
    logdUp,     \* logd is running
    isLogd,     \* getuid() == AID_LOGD for this process
    calls,      \* LogdWrite() calls started (bounded by MaxCalls)
    crashes,    \* logd crashes so far (bounded by MaxCrashes)
    failed,     \* history: records whose loss was counted into `dropped`
    discarded,  \* history: drop counts taken but not sent (liblog not loggable)
    logdRead,   \* history: the datagrams logd has read, in order
    crashLost   \* history: the datagrams lost in logd's queue when it crashed

sockVars == <<sock, openFds, nextFd, connected>>
threadVars == <<pc, logId, newSock, snapshot>>
logdVars == <<queue, logdUp, crashes>>
historyVars == <<failed, discarded, logdRead, crashLost>>
vars == <<sockVars, dropped, threadVars, logdVars, isLogd, calls, historyVars>>

-----------------------------------------------------------------------------
(* Helpers *)

\* Mutant: `dropped` as an unsigned counter.
WrapUnsigned(x) == x % (2 * DropHalf)

\* Arithmetic of the signed atomic_int `dropped` (two's complement).
Wrap(x) == ((x + DropHalf) % (2 * DropHalf)) - DropHalf

\* The values of the atomic_int `dropped`.
DropRange == -DropHalf .. DropHalf - 1

\* Mutant: every log uses the blocking socket.
SockKindAllBlocking(t) == "blocking"

\* The socket a call uses: the blocking one for the security log only.
SockKind(t) == IF logId[t] = "security" THEN "blocking" ELSE "nonblocking"

\* The socket sock() returns to thread t once GetSocket() has installed one.
Fd(t) == sock[SockKind(t)]

\* Outcomes of writev() of one datagram by thread t.  A socket not
\* connected to the running logd fails (ECONNREFUSED, ENOTCONN); a full
\* queue makes the non-blocking socket fail with EAGAIN and blocks the
\* blocking one, which then has no outcome until logd reads.
WriteOk(t)    == Fd(t) \in connected /\ Len(queue) < QueueCap
WriteEagain(t) == /\ Fd(t) \in connected /\ Len(queue) >= QueueCap
                  /\ SockKind(t) = "nonblocking"
WriteError(t) == Fd(t) \notin connected

\* Sum of the drop counts carried by the drop events of a queue.
DropsIn(q) == SumFunction([i \in DOMAIN q |->
                              IF q[i].type = "drops" THEN q[i].n ELSE 0])

\* End of sock() in LogdWrite(): with a socket, the AID_LOGD check, which
\* returns 0 for logd itself; without one, return -EBADF.
AfterSock(t, s) ==
    pc' = [pc EXCEPT ![t] = IF s = Uninit \/ isLogd THEN "idle" ELSE "exchange"]

-----------------------------------------------------------------------------
(* Initial state: no socket opened, nothing dropped, logd running. *)

Init ==
    /\ sock = [k \in Kinds |-> Uninit]
    /\ openFds = {}
    /\ nextFd = 1
    /\ connected = {}
    /\ dropped = 0
    /\ pc = [t \in Threads |-> "idle"]
    /\ logId = [t \in Threads |-> "main"]
    /\ newSock = [t \in Threads |-> Uninit]
    /\ snapshot = [t \in Threads |-> 0]
    /\ queue = <<>>
    /\ logdUp = TRUE
    /\ isLogd \in BOOLEAN
    /\ calls = 0
    /\ crashes = 0
    /\ failed = 0 /\ discarded = 0 /\ logdRead = <<>> /\ crashLost = <<>>

-----------------------------------------------------------------------------
(* Thread steps of LogdWrite() *)

\* A thread calls LogdWrite(logId, ...).
Call(t) ==
    /\ pc[t] = "idle"
    /\ calls < MaxCalls
    /\ \E id \in LogIds : logId' = [logId EXCEPT ![t] = id]
    /\ pc' = [pc EXCEPT ![t] = "getsock"]
    /\ calls' = calls + 1
    /\ UNCHANGED <<sockVars, dropped, newSock, snapshot, logdVars, isLogd,
                   historyVars>>

\* sock() -> GetSocket(): return if sock_ is set; else socket() and
\* LogdConnect() the new socket.  When socket() fails GetSocket() returns
\* and sock() returns sock_ as it is.
GetSocket(t) ==
    LET k == SockKind(t) IN
    /\ pc[t] = "getsock"
    /\ \/ /\ sock[k] # Uninit
          /\ AfterSock(t, sock[k])
          /\ UNCHANGED <<openFds, nextFd, connected, newSock>>
       \/ /\ sock[k] = Uninit
          /\ openFds' = openFds \cup {nextFd}
          /\ nextFd' = nextFd + 1
          /\ connected' = IF logdUp THEN connected \cup {nextFd} ELSE connected
          /\ newSock' = [newSock EXCEPT ![t] = nextFd]
          /\ pc' = [pc EXCEPT ![t] = "cas"]
       \/ /\ sock[k] = Uninit
          /\ AfterSock(t, sock[k])
          /\ UNCHANGED <<openFds, nextFd, connected, newSock>>
    /\ UNCHANGED <<sock, dropped, logId, snapshot, logdVars, isLogd, calls,
                   historyVars>>

\* Mutant: the thread that loses the race keeps its socket open.
CasSockNoClose(t) ==
    LET k == SockKind(t)
        s == newSock[t] IN
    /\ pc[t] = "cas"
    /\ sock' = IF sock[k] = Uninit THEN [sock EXCEPT ![k] = s] ELSE sock
    /\ newSock' = [newSock EXCEPT ![t] = Uninit]
    /\ AfterSock(t, s)
    /\ UNCHANGED <<openFds, connected, nextFd, dropped, logId, snapshot,
                   logdVars, isLogd, calls, historyVars>>

\* Mutant: a plain store of new_socket instead of the compare-and-exchange.
CasSockOverwrite(t) ==
    LET k == SockKind(t)
        s == newSock[t] IN
    /\ pc[t] = "cas"
    /\ sock' = [sock EXCEPT ![k] = s]
    /\ newSock' = [newSock EXCEPT ![t] = Uninit]
    /\ AfterSock(t, s)
    /\ UNCHANGED <<openFds, connected, nextFd, dropped, logId, snapshot,
                   logdVars, isLogd, calls, historyVars>>

\* compare_exchange_strong(kUninitialized, new_socket); the loser closes
\* its socket.  sock() then returns sock_.
CasSock(t) ==
    LET k == SockKind(t)
        s == newSock[t] IN
    /\ pc[t] = "cas"
    /\ IF sock[k] = Uninit
          THEN /\ sock' = [sock EXCEPT ![k] = s]
               /\ UNCHANGED <<openFds, connected>>
          ELSE /\ openFds' = openFds \ {s}
               /\ connected' = connected \ {s}
               /\ UNCHANGED sock
    /\ newSock' = [newSock EXCEPT ![t] = Uninit]
    /\ AfterSock(t, s)
    /\ UNCHANGED <<nextFd, dropped, logId, snapshot, logdVars, isLogd, calls,
                   historyVars>>

\* Mutant: the drop event is sent without the `snapshot &&` test.
ExchangeDroppedNoZeroCheck(t) ==
    /\ pc[t] = "exchange"
    /\ dropped' = 0
    /\ \E loggable \in BOOLEAN :
          IF loggable
             THEN /\ snapshot' = [snapshot EXCEPT ![t] = dropped]
                  /\ pc' = [pc EXCEPT ![t] = "dropsend"]
                  /\ UNCHANGED discarded
             ELSE /\ pc' = [pc EXCEPT ![t] = "send"]
                  /\ discarded' = discarded + dropped
                  /\ UNCHANGED snapshot
    /\ UNCHANGED <<sockVars, logId, newSock, logdVars, isLogd, calls, failed,
                   logdRead, crashLost>>

\* snapshot = atomic_exchange(&dropped, 0).  The count is sent only when
\* it is nonzero and the "liblog" tag is loggable at INFO (a property
\* lookup, any outcome); when not loggable it is gone.
ExchangeDropped(t) ==
    /\ pc[t] = "exchange"
    /\ dropped' = 0
    /\ \E loggable \in BOOLEAN :
          IF dropped # 0 /\ loggable
             THEN /\ snapshot' = [snapshot EXCEPT ![t] = dropped]
                  /\ pc' = [pc EXCEPT ![t] = "dropsend"]
                  /\ UNCHANGED discarded
             ELSE /\ pc' = [pc EXCEPT ![t] = "send"]
                  /\ discarded' = discarded + dropped
                  /\ UNCHANGED snapshot
    /\ UNCHANGED <<sockVars, logId, newSock, logdVars, isLogd, calls, failed,
                   logdRead, crashLost>>

\* Mutant: a failed drop event does not give its count back.
DropSendNoAddBack(t) ==
    /\ pc[t] = "dropsend"
    /\ \/ /\ WriteOk(t)
          /\ queue' = Append(queue, [type |-> "drops", n |-> snapshot[t]])
       \/ /\ WriteEagain(t) \/ WriteError(t)
          /\ UNCHANGED queue
    /\ snapshot' = [snapshot EXCEPT ![t] = 0]
    /\ pc' = [pc EXCEPT ![t] = "send"]
    /\ UNCHANGED <<sockVars, dropped, logId, newSock, logdUp, crashes, isLogd,
                   calls, historyVars>>

\* writev() of the drop event; if it was not written whole, the snapshot is
\* added back to `dropped`.
DropSend(t) ==
    /\ pc[t] = "dropsend"
    /\ \/ /\ WriteOk(t)
          /\ queue' = Append(queue, [type |-> "drops", n |-> snapshot[t]])
          /\ UNCHANGED dropped
       \/ /\ WriteEagain(t) \/ WriteError(t)
          /\ dropped' = Wrap(dropped + snapshot[t])
          /\ UNCHANGED queue
    /\ snapshot' = [snapshot EXCEPT ![t] = 0]
    /\ pc' = [pc EXCEPT ![t] = "send"]
    /\ UNCHANGED <<sockVars, logId, newSock, logdUp, crashes, isLogd, calls,
                   historyVars>>

\* A failed record: atomic_fetch_add(&dropped, 1) and the call returns.
CountDrop ==
    /\ dropped' = Wrap(dropped + 1)
    /\ failed' = failed + 1

\* writev() of the record.  EAGAIN (logd overloaded) counts the record as
\* dropped; another error reconnects and tries once more.
Send(t) ==
    /\ pc[t] = "send"
    /\ \/ /\ WriteOk(t)
          /\ queue' = Append(queue, [type |-> "record", id |-> logId[t]])
          /\ pc' = [pc EXCEPT ![t] = "idle"]
          /\ UNCHANGED <<dropped, failed>>
       \/ /\ WriteEagain(t)
          /\ CountDrop
          /\ pc' = [pc EXCEPT ![t] = "idle"]
          /\ UNCHANGED queue
       \/ /\ WriteError(t)
          /\ pc' = [pc EXCEPT ![t] = "reconnect"]
          /\ UNCHANGED <<queue, dropped, failed>>
    /\ UNCHANGED <<sockVars, logId, newSock, snapshot, logdUp, crashes, isLogd,
                   calls, discarded, logdRead, crashLost>>

\* logd_socket.Reconnect(): connect() the installed socket again.
Reconnect(t) ==
    /\ pc[t] = "reconnect"
    /\ connected' = IF logdUp THEN connected \cup {Fd(t)} ELSE connected
    /\ pc' = [pc EXCEPT ![t] = "resend"]
    /\ UNCHANGED <<sock, openFds, nextFd, dropped, logId, newSock, snapshot,
                   logdVars, isLogd, calls, historyVars>>

\* The second writev(); any failure counts the record as dropped.
Resend(t) ==
    /\ pc[t] = "resend"
    /\ \/ /\ WriteOk(t)
          /\ queue' = Append(queue, [type |-> "record", id |-> logId[t]])
          /\ UNCHANGED <<dropped, failed>>
       \/ /\ WriteEagain(t) \/ WriteError(t)
          /\ CountDrop
          /\ UNCHANGED queue
    /\ pc' = [pc EXCEPT ![t] = "idle"]
    /\ UNCHANGED <<sockVars, logId, newSock, snapshot, logdUp, crashes, isLogd,
                   calls, discarded, logdRead, crashLost>>

\* LogdClose(), from __android_log_close() or the Zygote after fork(): it
\* closes both sockets and resets sock_.  The code documents it as not
\* thread safe and calls it single threaded, so no call is in progress.
Close ==
    /\ \A t \in Threads : pc[t] = "idle"
    /\ LET installed == {sock[k] : k \in Kinds} \ {Uninit} IN
          /\ openFds' = openFds \ installed
          /\ connected' = connected \ installed
    /\ sock' = [k \in Kinds |-> Uninit]
    /\ UNCHANGED <<nextFd, dropped, threadVars, logdVars, isLogd, calls,
                   historyVars>>

-----------------------------------------------------------------------------
(* logd, seen from the client: it reads datagrams, may crash (losing its *)
(* queue and every connection), and init restarts it.                     *)

LogdRead ==
    /\ logdUp /\ queue # <<>>
    /\ logdRead' = Append(logdRead, Head(queue))
    /\ queue' = Tail(queue)
    /\ UNCHANGED <<sockVars, dropped, threadVars, logdUp, crashes, isLogd,
                   calls, failed, discarded, crashLost>>

LogdCrash ==
    /\ logdUp /\ crashes < MaxCrashes
    /\ logdUp' = FALSE
    /\ crashes' = crashes + 1
    /\ connected' = {}
    /\ queue' = <<>>
    /\ crashLost' = crashLost \o queue
    /\ UNCHANGED <<sock, openFds, nextFd, dropped, threadVars, isLogd, calls,
                   failed, discarded, logdRead>>

LogdRestart ==
    /\ ~logdUp
    /\ logdUp' = TRUE
    /\ UNCHANGED <<sockVars, dropped, threadVars, queue, crashes, isLogd,
                   calls, historyVars>>

-----------------------------------------------------------------------------
Next ==
    \/ \E t \in Threads :
          \/ Call(t) \/ GetSocket(t) \/ CasSock(t) \/ ExchangeDropped(t)
          \/ DropSend(t) \/ Send(t) \/ Reconnect(t) \/ Resend(t)
    \/ Close
    \/ LogdRead \/ LogdCrash \/ LogdRestart

Spec == Init /\ [][Next]_vars

\* The steps of a call of thread t, after it has started.
Step(t) ==
    \/ GetSocket(t) \/ CasSock(t) \/ ExchangeDropped(t) \/ DropSend(t)
    \/ Send(t) \/ Reconnect(t) \/ Resend(t)

\* A thread that can take its next step eventually takes it (the kernel
\* schedules every runnable thread).  Nothing is assumed of logd: it may
\* stop reading, stay down, or never be restarted.
FairSpec == Spec /\ \A t \in Threads : WF_vars(Step(t))

-----------------------------------------------------------------------------
(* Refinement: LogdWrite() implements the promise of LogdWriteAbs.  A call *)
(* is in the abstract stage "call" until it has decided about the drop    *)
(* event, and in "record" while it writes its record.                     *)

AbsStage(p) ==
    CASE p = "idle" -> "idle"
      [] p \in {"getsock", "cas", "exchange", "dropsend"} -> "call"
      [] p \in {"send", "reconnect", "resend"} -> "record"

Abs == INSTANCE LogdWriteAbs WITH pc <- [t \in Threads |-> AbsStage(pc[t])]

\* Every behaviour of the threads' LogdWrite() calls and of logd is one the
\* abstract specification allows: a call writes at most one drop event
\* (with a nonzero count) and then at most one record, its own, into a
\* running logd's queue, or counts that record as lost.
AbsSpec == Abs!Spec

-----------------------------------------------------------------------------
(* Properties *)

TypeOK ==
    /\ sock \in [Kinds -> {Uninit} \cup (Nat \ {0})]
    /\ openFds \subseteq Nat \ {0}
    /\ nextFd \in Nat \ {0}
    /\ connected \subseteq Nat \ {0}
    /\ dropped \in DropRange
    /\ pc \in [Threads -> PCs]
    /\ logId \in [Threads -> LogIds]
    /\ newSock \in [Threads -> {Uninit} \cup (Nat \ {0})]
    /\ snapshot \in [Threads -> DropRange]
    /\ queue \in Seq(Datagrams)
    /\ logdUp \in BOOLEAN
    /\ isLogd \in BOOLEAN
    /\ calls \in Nat /\ crashes \in Nat
    /\ failed \in Nat /\ discarded \in Int
    /\ logdRead \in Seq(Datagrams) /\ crashLost \in Seq(Datagrams)

\* Sockets are neither leaked nor used after close, across the race of
\* GetSocket() callers and LogdClose(): every socket the process holds open
\* is installed in a LogdSocket or is the new_socket of a thread about to
\* compare-and-exchange it, an installed socket is open, and the blocking
\* and non-blocking LogdSocket never share a socket.
SocketOwnership ==
    /\ \A fd \in openFds :
          \/ \E k \in Kinds : sock[k] = fd
          \/ \E t \in Threads : pc[t] = "cas" /\ newSock[t] = fd
    /\ \A k \in Kinds : sock[k] # Uninit => sock[k] \in openFds
    /\ sock["blocking"] = sock["nonblocking"] => sock["blocking"] = Uninit

\* Every record LogdWrite() counted as dropped is accounted for exactly
\* once (modulo 2 * DropHalf, the arithmetic of atomic_int), whatever the interleaving of the threads' exchange of `dropped`,
\* the failed drop-event writes that add it back, and logd crashing: it is
\* still in `dropped`, held in a thread's snapshot, queued or read by logd
\* in a drop event, lost with logd's queue, or discarded because the
\* "liblog" tag was not loggable.
DropAccounting ==
    (failed - (dropped + SumFunction(snapshot) + DropsIn(queue)
                 + DropsIn(logdRead) + DropsIn(crashLost) + discarded))
      % (2 * DropHalf) = 0

\* A LogdWrite() call for any log but the security log returns, whatever
\* logd does: its socket is non-blocking, so a full queue is EAGAIN and a
\* dead logd an error, and neither waits.  (The security log uses the
\* blocking socket and may wait for logd.)
MainCallsReturn ==
    \A t \in Threads :
       (pc[t] # "idle" /\ logId[t] # "security") ~> pc[t] = "idle"

\* logd is never told a record count that is not positive: every drop event
\* LogdWrite() sends carries the number of records lost.
DropReportsPositive ==
    \A i \in DOMAIN queue : queue[i].type = "drops" => queue[i].n > 0

\* LogdWrite() calls logd_socket.sock() again for every writev(), re-reading
\* sock_: the socket a call has passed sock() with is the one all its later
\* writes use, whatever the other threads do meanwhile (lose the
\* compare-and-exchange of GetSocket(), open the other LogdSocket, or
\* Reconnect()).  Only LogdClose() uninstalls a socket, between calls.
SocketStable ==
    [][\A t \in Threads : pc[t] \in {"exchange", "dropsend", "send",
                                     "reconnect", "resend"}
                        => Fd(t)' = Fd(t)]_vars

=============================================================================
