-------------------------- MODULE LogdWriter_proofs --------------------------
(***************************************************************************)
(* Proofs about LogdWriter for every value of the constants: the type     *)
(* invariant, and that LogdWrite() callers racing in GetSocket() and       *)
(* LogdClose() neither leak a socket nor keep a closed one installed.      *)
(***************************************************************************)
EXTENDS LogdWriter, SequenceTheorems, TLAPS

-----------------------------------------------------------------------------
(* Arithmetic of the atomic_int `dropped` *)

\* Two's-complement wrap-around of atomic_fetch_add stays in the range of
\* the atomic_int.
LEMMA WrapInRange ==
    ASSUME NEW x \in Int
    PROVE  Wrap(x) \in DropRange
BY Assumptions DEF Wrap, DropRange

-----------------------------------------------------------------------------
(* Type correctness *)

\* Facts about the operators every action uses.
LEMMA KindFacts ==
    ASSUME TypeOK, NEW t \in Threads
    PROVE  /\ SockKind(t) \in Kinds
           /\ Fd(t) \in {Uninit} \cup (Nat \ {0})
BY DEF TypeOK, SockKind, Fd, Kinds

\* The steps of LogdWrite() after sock() that use the socket.
SockUsers == {"exchange", "dropsend", "send", "reconnect", "resend"}

\* What TypeOK needs to be inductive: a thread about to compare-and-exchange
\* holds a socket, and a thread past sock() has an installed socket in the
\* LogdSocket it writes to (only LogdClose() uninstalls one, and only when
\* no LogdWrite() is in progress).
HoldsSocket ==
    /\ \A t \in Threads : pc[t] = "cas" => newSock[t] \in Nat \ {0}
    /\ \A t \in Threads : pc[t] \in SockUsers => Fd(t) \in Nat \ {0}

\* A step from a state with HoldsSocket keeps every variable in its type.
LEMMA TypeStep ==
    ASSUME TypeOK, HoldsSocket, [Next]_vars
    PROVE  TypeOK'
<1> USE DEF sockVars, threadVars, logdVars, historyVars
<1>1. ASSUME NEW t \in Threads, Call(t) PROVE TypeOK'
  BY <1>1 DEF Call, TypeOK, PCs
<1>2. ASSUME NEW t \in Threads, GetSocket(t) PROVE TypeOK'
  <2> DEFINE k == SockKind(t)
  <2>1. k \in Kinds /\ pc[t] = "getsock"
    BY <1>2, KindFacts DEF GetSocket
  <2>2. CASE sock[k] # Uninit /\ AfterSock(t, sock[k])
             /\ UNCHANGED <<openFds, nextFd, connected, newSock>>
    BY <1>2, <2>2 DEF GetSocket, AfterSock, TypeOK, PCs
  <2>3. CASE /\ sock[k] = Uninit
             /\ openFds' = openFds \cup {nextFd}
             /\ nextFd' = nextFd + 1
             /\ connected' = IF logdUp THEN connected \cup {nextFd}
                                         ELSE connected
             /\ newSock' = [newSock EXCEPT ![t] = nextFd]
             /\ pc' = [pc EXCEPT ![t] = "cas"]
    BY <1>2, <2>3 DEF GetSocket, TypeOK, PCs
  <2>4. CASE sock[k] = Uninit /\ AfterSock(t, sock[k])
             /\ UNCHANGED <<openFds, nextFd, connected, newSock>>
    BY <1>2, <2>4 DEF GetSocket, AfterSock, TypeOK, PCs
  <2>5. QED
    BY <1>2, <2>2, <2>3, <2>4 DEF GetSocket
<1>3. ASSUME NEW t \in Threads, CasSock(t) PROVE TypeOK'
  BY <1>3, KindFacts DEF CasSock, AfterSock, TypeOK, PCs
<1>4. ASSUME NEW t \in Threads, ExchangeDropped(t) PROVE TypeOK'
  <2>1. PICK loggable \in BOOLEAN :
           IF dropped # 0 /\ loggable
              THEN /\ snapshot' = [snapshot EXCEPT ![t] = dropped]
                   /\ pc' = [pc EXCEPT ![t] = "dropsend"]
                   /\ UNCHANGED discarded
              ELSE /\ pc' = [pc EXCEPT ![t] = "send"]
                   /\ discarded' = discarded + dropped
                   /\ UNCHANGED snapshot
    BY <1>4 DEF ExchangeDropped
  <2>2. 0 \in DropRange /\ dropped \in Int
    BY Assumptions DEF TypeOK, DropRange
  <2>3. CASE dropped # 0 /\ loggable
    BY <1>4, <2>1, <2>2, <2>3 DEF ExchangeDropped, TypeOK, PCs
  <2>4. CASE ~(dropped # 0 /\ loggable)
    <3>1. /\ pc' = [pc EXCEPT ![t] = "send"]
          /\ discarded' = discarded + dropped
          /\ snapshot' = snapshot
      BY <2>1, <2>4
    <3>2. discarded' \in Int
      BY <3>1, <2>2 DEF TypeOK
    <3>3. QED
      BY <1>4, <2>2, <3>1, <3>2 DEF ExchangeDropped, TypeOK, PCs
  <2>5. QED
    BY <2>3, <2>4
<1>5. ASSUME NEW t \in Threads, DropSend(t) PROVE TypeOK'
  <2>1. snapshot[t] \in Int /\ dropped \in Int
    BY DEF TypeOK, DropRange
  <2>2. Wrap(dropped + snapshot[t]) \in DropRange
    BY <2>1, WrapInRange
  <2>3. [type |-> "drops", n |-> snapshot[t]] \in Datagrams
    BY <2>1 DEF Datagrams
  <2>4. Append(queue, [type |-> "drops", n |-> snapshot[t]]) \in Seq(Datagrams)
    BY <2>3, AppendProperties DEF TypeOK
  <2>5. 0 \in DropRange
    BY Assumptions DEF DropRange
  <2>6. QED
    BY <1>5, <2>2, <2>4, <2>5 DEF DropSend, TypeOK, PCs
<1>6. ASSUME NEW t \in Threads, Send(t) PROVE TypeOK'
  <2>1. dropped + 1 \in Int /\ failed + 1 \in Nat
    BY DEF TypeOK, DropRange
  <2>2. Wrap(dropped + 1) \in DropRange
    BY <2>1, WrapInRange
  <2>3. Append(queue, [type |-> "record", id |-> logId[t]]) \in Seq(Datagrams)
    BY AppendProperties DEF TypeOK, Datagrams
  <2>4. pc' \in [Threads -> PCs]
    BY <1>6 DEF Send, TypeOK, PCs
  <2>5. queue' \in Seq(Datagrams) /\ dropped' \in DropRange /\ failed' \in Nat
    BY <1>6, <2>1, <2>2, <2>3 DEF Send, CountDrop, TypeOK
  <2>6. QED
    BY <1>6, <2>4, <2>5 DEF Send, TypeOK
<1>7. ASSUME NEW t \in Threads, Reconnect(t) PROVE TypeOK'
  <2>1. Fd(t) \in Nat \ {0}
    BY <1>7 DEF Reconnect, HoldsSocket, SockUsers
  <2>2. connected' \subseteq Nat \ {0}
    BY <1>7, <2>1 DEF Reconnect, TypeOK, Fd
  <2>3. QED
    BY <1>7, <2>2 DEF Reconnect, TypeOK, PCs
<1>8. ASSUME NEW t \in Threads, Resend(t) PROVE TypeOK'
  <2>1. dropped + 1 \in Int /\ failed + 1 \in Nat
    BY DEF TypeOK, DropRange
  <2>2. Wrap(dropped + 1) \in DropRange
    BY <2>1, WrapInRange
  <2>3. Append(queue, [type |-> "record", id |-> logId[t]]) \in Seq(Datagrams)
    BY AppendProperties DEF TypeOK, Datagrams
  <2>4. pc' \in [Threads -> PCs]
    BY <1>8 DEF Resend, TypeOK, PCs
  <2>5. queue' \in Seq(Datagrams) /\ dropped' \in DropRange /\ failed' \in Nat
    BY <1>8, <2>1, <2>2, <2>3 DEF Resend, CountDrop, TypeOK
  <2>6. QED
    BY <1>8, <2>4, <2>5 DEF Resend, TypeOK
<1>9. CASE Close
  BY <1>9 DEF Close, TypeOK, Kinds
<1>10. CASE LogdRead
  BY <1>10 DEF LogdRead, TypeOK
<1>11. CASE LogdCrash
  <2>1. crashLost \o queue \in Seq(Datagrams)
    BY ConcatProperties DEF TypeOK
  <2>2. <<>> \in Seq(Datagrams)
    BY EmptySeq
  <2>3. crashes + 1 \in Nat
    BY DEF TypeOK
  <2>4. QED
    BY <1>11, <2>1, <2>2, <2>3 DEF LogdCrash, TypeOK
<1>12. CASE LogdRestart
  BY <1>12 DEF LogdRestart, TypeOK
<1>13. CASE UNCHANGED vars
  BY <1>13 DEF vars, sockVars, threadVars, logdVars, historyVars, TypeOK
<1>14. QED
  BY <1>1, <1>2, <1>3, <1>4, <1>5, <1>6, <1>7, <1>8, <1>9, <1>10, <1>11,
     <1>12, <1>13 DEF Next

\* A step of a thread t that is past sock() keeps HoldsSocket when it
\* leaves the sockets, the log ids and the other threads alone.
LEMMA UserStep ==
    ASSUME TypeOK, HoldsSocket, NEW t \in Threads,
           pc[t] \in SockUsers,
           pc' = [pc EXCEPT ![t] = pc'[t]],
           pc'[t] \in SockUsers \cup {"idle"},
           UNCHANGED <<sock, logId, newSock>>
    PROVE  HoldsSocket'
<1> SUFFICES ASSUME NEW u \in Threads
             PROVE  /\ pc'[u] = "cas" => newSock'[u] \in Nat \ {0}
                    /\ pc'[u] \in SockUsers => Fd(u)' \in Nat \ {0}
  BY DEF HoldsSocket
<1>1. Fd(u)' = Fd(u)
  BY DEF Fd, SockKind
<1>2. CASE u = t
  BY <1>1, <1>2 DEF HoldsSocket, SockUsers
<1>3. CASE u # t
  <2>1. pc'[u] = pc[u]
    BY <1>3 DEF TypeOK
  <2>2. QED
    BY <1>1, <2>1 DEF HoldsSocket
<1>4. QED
  BY <1>2, <1>3

\* The strengthening is itself kept by every step.
LEMMA HoldsStep ==
    ASSUME TypeOK, HoldsSocket, [Next]_vars
    PROVE  HoldsSocket'
<1> USE DEF sockVars, threadVars, logdVars, historyVars
<1>1. ASSUME NEW t \in Threads, Call(t) PROVE HoldsSocket'
  <2> SUFFICES ASSUME NEW u \in Threads
               PROVE  /\ pc'[u] = "cas" => newSock'[u] \in Nat \ {0}
                      /\ pc'[u] \in SockUsers => Fd(u)' \in Nat \ {0}
    BY DEF HoldsSocket
  <2>1. CASE u = t
    BY <1>1, <2>1 DEF Call, SockUsers, TypeOK
  <2>2. CASE u # t
    <3>1. pc'[u] = pc[u] /\ logId'[u] = logId[u]
      BY <1>1, <2>2 DEF Call, TypeOK
    <3>2. Fd(u)' = Fd(u)
      BY <1>1, <3>1 DEF Call, Fd, SockKind
    <3>3. QED
      BY <1>1, <3>1, <3>2 DEF Call, HoldsSocket
  <2>3. QED
    BY <2>1, <2>2
<1>2. ASSUME NEW t \in Threads, GetSocket(t) PROVE HoldsSocket'
  <2> SUFFICES ASSUME NEW u \in Threads
               PROVE  /\ pc'[u] = "cas" => newSock'[u] \in Nat \ {0}
                      /\ pc'[u] \in SockUsers => Fd(u)' \in Nat \ {0}
    BY DEF HoldsSocket
  <2>1. Fd(u)' = Fd(u) /\ Fd(t) = sock[SockKind(t)]
    BY <1>2 DEF GetSocket, Fd, SockKind
  <2>2. CASE u = t
    <3> DEFINE k == SockKind(t)
    <3>1. Fd(t)' = sock[k] /\ k \in Kinds
      BY <1>2, KindFacts DEF GetSocket, Fd, SockKind
    <3>2. CASE sock[k] # Uninit /\ AfterSock(t, sock[k])
      BY <2>2, <3>1, <3>2 DEF AfterSock, SockUsers, TypeOK
    <3>3. CASE newSock' = [newSock EXCEPT ![t] = nextFd]
               /\ pc' = [pc EXCEPT ![t] = "cas"]
      BY <2>2, <3>3 DEF SockUsers, TypeOK
    <3>4. CASE sock[k] = Uninit /\ AfterSock(t, sock[k])
      BY <2>2, <3>4 DEF AfterSock, SockUsers, TypeOK
    <3>5. QED
      BY <1>2, <3>2, <3>3, <3>4 DEF GetSocket
  <2>3. CASE u # t
    <3>1. pc'[u] = pc[u] /\ newSock'[u] = newSock[u]
      BY <1>2, <2>3 DEF GetSocket, AfterSock, TypeOK
    <3>2. QED
      BY <2>1, <3>1 DEF HoldsSocket
  <2>4. QED
    BY <2>2, <2>3
<1>3. ASSUME NEW t \in Threads, CasSock(t) PROVE HoldsSocket'
  <2> DEFINE k == SockKind(t)
  <2> SUFFICES ASSUME NEW u \in Threads
               PROVE  /\ pc'[u] = "cas" => newSock'[u] \in Nat \ {0}
                      /\ pc'[u] \in SockUsers => Fd(u)' \in Nat \ {0}
    BY DEF HoldsSocket
  <2>1. newSock[t] \in Nat \ {0} /\ k \in Kinds
    BY <1>3, KindFacts DEF CasSock, HoldsSocket
  <2>2. sock'[k] \in Nat \ {0}
    BY <1>3, <2>1 DEF CasSock, TypeOK
  <2>3. \A j \in Kinds : sock[j] # Uninit => sock'[j] = sock[j]
    BY <1>3 DEF CasSock, TypeOK
  <2>4. CASE u = t
    BY <1>3, <2>2, <2>4 DEF CasSock, AfterSock, SockUsers, Fd, SockKind, TypeOK
  <2>5. CASE u # t
    <3>1. pc'[u] = pc[u] /\ newSock'[u] = newSock[u]
      BY <1>3, <2>5 DEF CasSock, AfterSock, TypeOK
    <3>2. pc[u] \in SockUsers => Fd(u)' = Fd(u)
      BY <1>3, <2>3, KindFacts DEF CasSock, Fd, SockKind, HoldsSocket, Uninit
    <3>3. QED
      BY <3>1, <3>2 DEF HoldsSocket
  <2>6. QED
    BY <2>4, <2>5
<1>4. ASSUME NEW t \in Threads, ExchangeDropped(t) PROVE HoldsSocket'
  <2>1. pc'[t] \in {"dropsend", "send"}
    <3>1. PICK b \in BOOLEAN :
             pc' = [pc EXCEPT ![t] = IF dropped # 0 /\ b THEN "dropsend" ELSE "send"]
      BY <1>4 DEF ExchangeDropped
    <3>2. QED
      BY <3>1 DEF TypeOK
  <2>2. pc' = [pc EXCEPT ![t] = pc'[t]]
    BY <1>4 DEF ExchangeDropped, TypeOK
  <2>3. QED
    BY <1>4, <2>1, <2>2, UserStep DEF ExchangeDropped, SockUsers
<1>5. ASSUME NEW t \in Threads, DropSend(t) PROVE HoldsSocket'
  BY <1>5, UserStep DEF DropSend, SockUsers, TypeOK
<1>6. ASSUME NEW t \in Threads, Send(t) PROVE HoldsSocket'
  <2>1. pc' = [pc EXCEPT ![t] = pc'[t]] /\ pc'[t] \in {"idle", "reconnect"}
    BY <1>6 DEF Send, TypeOK
  <2>2. QED
    BY <1>6, <2>1, UserStep DEF Send, SockUsers
<1>7. ASSUME NEW t \in Threads, Reconnect(t) PROVE HoldsSocket'
  BY <1>7, UserStep DEF Reconnect, SockUsers, TypeOK
<1>8. ASSUME NEW t \in Threads, Resend(t) PROVE HoldsSocket'
  BY <1>8, UserStep DEF Resend, SockUsers, TypeOK
<1>9. CASE Close
  BY <1>9 DEF Close, HoldsSocket, SockUsers
<1>10. CASE LogdRead \/ LogdCrash \/ LogdRestart
  BY <1>10 DEF LogdRead, LogdCrash, LogdRestart, HoldsSocket, Fd, SockKind
<1>11. CASE UNCHANGED vars
  BY <1>11 DEF vars, HoldsSocket, Fd, SockKind
<1>12. QED
  BY <1>1, <1>2, <1>3, <1>4, <1>5, <1>6, <1>7, <1>8, <1>9, <1>10, <1>11
     DEF Next

\* Every LogdWrite() step, logd step and LogdClose() keeps every variable
\* in its type: in particular `dropped` stays in the range of atomic_int
\* and the socket a failing writev() reconnects is a real socket.
THEOREM TypeCorrect == Spec => []TypeOK
<1>1. Init => TypeOK /\ HoldsSocket
  BY Assumptions DEF Init, TypeOK, DropRange, PCs, LogIds, Kinds, HoldsSocket,
                     SockUsers
<1>2. TypeOK /\ HoldsSocket /\ [Next]_vars => TypeOK' /\ HoldsSocket'
  BY TypeStep, HoldsStep
<1>3. QED
  BY <1>1, <1>2, PTL DEF Spec


-----------------------------------------------------------------------------
(* Socket ownership *)

\* What SocketOwnership needs to be inductive: the socket a thread is about
\* to compare-and-exchange is open, installed nowhere and held by no other
\* thread, because socket() never returns a descriptor the process still
\* holds open.
FreshSockets ==
    /\ \A t \in Threads : pc[t] = "cas" =>
          /\ newSock[t] \in openFds
          /\ \A k \in Kinds : sock[k] # newSock[t]
    /\ \A t, u \in Threads :
          t # u /\ pc[t] = "cas" /\ pc[u] = "cas" => newSock[t] # newSock[u]
    /\ \A fd \in openFds : fd < nextFd

\* A step that moves no thread into or out of the compare-and-exchange and
\* leaves the sockets alone keeps both.
LEMMA QuietStep ==
    ASSUME SocketOwnership, FreshSockets,
           UNCHANGED <<sock, openFds, nextFd, newSock>>,
           \A u \in Threads : pc'[u] = "cas" <=> pc[u] = "cas"
    PROVE  SocketOwnership' /\ FreshSockets'
BY DEF SocketOwnership, FreshSockets

\* A step of one thread t that is not at the compare-and-exchange before
\* or after it moves no thread into or out of it.
LEMMA PcStep ==
    ASSUME TypeOK, NEW t \in Threads, pc[t] # "cas", pc'[t] # "cas",
           pc' = [pc EXCEPT ![t] = pc'[t]]
    PROVE  \A u \in Threads : pc'[u] = "cas" <=> pc[u] = "cas"
BY DEF TypeOK

\* The step that opens a new socket for thread t (socket() and connect()).
LEMMA OpenStep ==
    ASSUME TypeOK, SocketOwnership, FreshSockets,
           NEW t \in Threads, pc[t] # "cas",
           openFds' = openFds \cup {nextFd},
           nextFd' = nextFd + 1,
           newSock' = [newSock EXCEPT ![t] = nextFd],
           pc' = [pc EXCEPT ![t] = "cas"],
           UNCHANGED sock
    PROVE  SocketOwnership' /\ FreshSockets'
<1>1. \A k \in Kinds : sock[k] # nextFd
  BY DEF TypeOK, SocketOwnership, FreshSockets, Uninit
<1>2. \A u \in Threads : pc[u] = "cas" => newSock[u] # nextFd
  BY DEF TypeOK, FreshSockets
<1>3. SocketOwnership'
  BY <1>1 DEF TypeOK, SocketOwnership
<1>4. FreshSockets'
  BY <1>1, <1>2 DEF TypeOK, FreshSockets
<1>5. QED
  BY <1>3, <1>4

\* compare_exchange_strong() of thread t's new socket s into sock_[k].
LEMMA CasStep ==
    ASSUME TypeOK, HoldsSocket, SocketOwnership, FreshSockets,
           NEW t \in Threads, CasSock(t)
    PROVE  SocketOwnership' /\ FreshSockets'
<1> DEFINE k == SockKind(t)
           s == newSock[t]
<1>1. /\ k \in Kinds /\ pc[t] = "cas" /\ pc'[t] # "cas"
      /\ s \in openFds /\ s \in Nat \ {0}
      /\ \A j \in Kinds : sock[j] # s
      /\ \A u \in Threads \ {t} : pc[u] = "cas" => newSock[u] # s
      /\ \A u \in Threads \ {t} : pc'[u] = pc[u] /\ newSock'[u] = newSock[u]
  BY KindFacts DEF CasSock, AfterSock, TypeOK, HoldsSocket, FreshSockets
<1>2. CASE sock[k] = Uninit
  <2>1. /\ sock' = [sock EXCEPT ![k] = s]
        /\ UNCHANGED <<openFds, nextFd>>
    BY <1>2 DEF CasSock
  <2>2. \A fd \in openFds : fd # Uninit
    BY DEF TypeOK, Uninit
  <2>3. sock'[k] = s /\ \A j \in Kinds \ {k} : sock'[j] = sock[j]
    BY <1>1, <2>1 DEF TypeOK
  \* Every open socket is still installed, or s, now installed in k.
  <2>4. ASSUME NEW fd \in openFds'
        PROVE  \/ \E j \in Kinds : sock'[j] = fd
               \/ \E u \in Threads : pc'[u] = "cas" /\ newSock'[u] = fd
    <3>1. CASE fd = s
      BY <1>1, <2>3, <3>1
    <3>2. CASE fd # s /\ \E j \in Kinds : sock[j] = fd
      <4>1. PICK j \in Kinds : sock[j] = fd
        BY <3>2
      <4>2. j # k
        BY <1>2, <2>1, <2>2, <4>1
      <4> QED BY <2>3, <4>1, <4>2
    <3>3. CASE fd # s /\ \E u \in Threads : pc[u] = "cas" /\ newSock[u] = fd
      <4>1. PICK u \in Threads : pc[u] = "cas" /\ newSock[u] = fd
        BY <3>3
      <4>2. u # t
        BY <3>3, <4>1
      <4> QED BY <1>1, <4>1, <4>2
    <3> QED BY <2>1, <2>4, <3>1, <3>2, <3>3 DEF SocketOwnership
  <2>5. \A j \in Kinds : sock'[j] # Uninit => sock'[j] \in openFds'
    BY <1>1, <2>1, <2>3 DEF SocketOwnership
  <2>6. sock'["blocking"] = sock'["nonblocking"] => sock'["blocking"] = Uninit
    <3>1. k = "blocking" \/ k = "nonblocking"
      BY <1>1 DEF Kinds
    <3> QED BY <1>1, <2>2, <2>3, <3>1 DEF Kinds
  <2>7. SocketOwnership'
    BY <2>4, <2>5, <2>6 DEF SocketOwnership
  <2>8. FreshSockets'
    BY <1>1, <2>1 DEF TypeOK, FreshSockets
  <2>9. QED
    BY <2>7, <2>8
<1>3. CASE sock[k] # Uninit
  <2>1. /\ openFds' = openFds \ {s}
        /\ UNCHANGED <<sock, nextFd>>
    BY <1>3 DEF CasSock
  \* Only the loser's own socket s is closed, and only t held it.
  <2>2. ASSUME NEW fd \in openFds'
        PROVE  \/ \E j \in Kinds : sock'[j] = fd
               \/ \E u \in Threads : pc'[u] = "cas" /\ newSock'[u] = fd
    <3>1. CASE \E j \in Kinds : sock[j] = fd
      BY <2>1, <3>1
    <3>2. CASE \E u \in Threads : pc[u] = "cas" /\ newSock[u] = fd
      <4>1. PICK u \in Threads : pc[u] = "cas" /\ newSock[u] = fd
        BY <3>2
      <4>2. u # t
        BY <2>1, <4>1
      <4> QED BY <1>1, <4>1, <4>2
    <3> QED BY <2>1, <3>1, <3>2 DEF SocketOwnership
  <2>3. \A j \in Kinds : sock'[j] # Uninit => sock'[j] \in openFds'
    BY <1>1, <2>1 DEF SocketOwnership
  <2>4. SocketOwnership'
    BY <2>1, <2>2, <2>3 DEF SocketOwnership
  <2>5. FreshSockets'
    BY <1>1, <2>1 DEF TypeOK, FreshSockets
  <2>6. QED
    BY <2>4, <2>5
<1>4. QED
  BY <1>2, <1>3

\* Every step keeps socket ownership and its strengthening.
LEMMA OwnStep ==
    ASSUME TypeOK, HoldsSocket, SocketOwnership, FreshSockets, [Next]_vars
    PROVE  SocketOwnership' /\ FreshSockets'
<1> USE DEF sockVars, threadVars, logdVars, historyVars
<1>1. ASSUME NEW t \in Threads, Call(t) PROVE SocketOwnership' /\ FreshSockets'
  BY <1>1, PcStep, QuietStep DEF Call, TypeOK
<1>2. ASSUME NEW t \in Threads, GetSocket(t)
      PROVE  SocketOwnership' /\ FreshSockets'
  <2> DEFINE k == SockKind(t)
  <2>1. pc[t] = "getsock"
    BY <1>2 DEF GetSocket
  <2>2. CASE AfterSock(t, sock[k])
             /\ UNCHANGED <<openFds, nextFd, connected, newSock>>
    <3>1. pc'[t] # "cas" /\ pc' = [pc EXCEPT ![t] = pc'[t]]
      BY <2>2 DEF AfterSock, TypeOK
    <3>2. QED
      BY <1>2, <2>1, <2>2, <3>1, PcStep, QuietStep DEF GetSocket
  <2>3. CASE /\ openFds' = openFds \cup {nextFd}
             /\ nextFd' = nextFd + 1
             /\ newSock' = [newSock EXCEPT ![t] = nextFd]
             /\ pc' = [pc EXCEPT ![t] = "cas"]
    BY <1>2, <2>1, <2>3, OpenStep DEF GetSocket
  <2>4. QED
    BY <1>2, <2>2, <2>3 DEF GetSocket
<1>3. ASSUME NEW t \in Threads, CasSock(t) PROVE SocketOwnership' /\ FreshSockets'
  BY <1>3, CasStep
<1>4. ASSUME NEW t \in Threads, ExchangeDropped(t)
      PROVE  SocketOwnership' /\ FreshSockets'
  <2>1. PICK b \in BOOLEAN :
           pc' = [pc EXCEPT ![t] = IF dropped # 0 /\ b THEN "dropsend" ELSE "send"]
    BY <1>4 DEF ExchangeDropped
  <2>2. pc'[t] # "cas" /\ pc' = [pc EXCEPT ![t] = pc'[t]]
    BY <2>1 DEF TypeOK
  <2>3. QED
    BY <1>4, <2>2, PcStep, QuietStep DEF ExchangeDropped
<1>5. ASSUME NEW t \in Threads, DropSend(t) PROVE SocketOwnership' /\ FreshSockets'
  BY <1>5, PcStep, QuietStep DEF DropSend, TypeOK
<1>6. ASSUME NEW t \in Threads, Send(t) PROVE SocketOwnership' /\ FreshSockets'
  <2>1. pc'[t] # "cas" /\ pc' = [pc EXCEPT ![t] = pc'[t]]
    BY <1>6 DEF Send, TypeOK
  <2>2. QED
    BY <1>6, <2>1, PcStep, QuietStep DEF Send
<1>7. ASSUME NEW t \in Threads, Reconnect(t) PROVE SocketOwnership' /\ FreshSockets'
  BY <1>7, PcStep, QuietStep DEF Reconnect, TypeOK
<1>8. ASSUME NEW t \in Threads, Resend(t) PROVE SocketOwnership' /\ FreshSockets'
  BY <1>8, PcStep, QuietStep DEF Resend, TypeOK
<1>9. CASE Close
  <2>1. openFds \subseteq {sock[k] : k \in Kinds} \ {Uninit}
    BY <1>9 DEF Close, SocketOwnership, TypeOK, Uninit
  <2>2. openFds' = {} /\ sock' = [k \in Kinds |-> Uninit] /\ UNCHANGED pc
    BY <1>9, <2>1 DEF Close
  <2>3. \A u \in Threads : pc[u] # "cas"
    BY <1>9 DEF Close
  <2>4. QED
    BY <2>2, <2>3 DEF SocketOwnership, FreshSockets, Kinds
<1>10. CASE LogdRead \/ LogdCrash \/ LogdRestart \/ UNCHANGED vars
  BY <1>10, QuietStep DEF LogdRead, LogdCrash, LogdRestart, vars
<1>11. QED
  BY <1>1, <1>2, <1>3, <1>4, <1>5, <1>6, <1>7, <1>8, <1>9, <1>10 DEF Next

\* Across any interleaving of LogdWrite() callers racing to create a
\* LogdSocket in GetSocket(), and LogdClose() between calls, no socket is
\* leaked, none is installed after it was closed, and the blocking and
\* non-blocking LogdSocket never share one.
THEOREM SocketsOwned == Spec => []SocketOwnership
<1> DEFINE Inv == TypeOK /\ HoldsSocket /\ SocketOwnership /\ FreshSockets
<1>1. Init => Inv
  BY Assumptions DEF Init, TypeOK, DropRange, PCs, LogIds, Kinds, HoldsSocket,
                     SockUsers, SocketOwnership, FreshSockets
<1>2. Inv /\ [Next]_vars => Inv'
  BY TypeStep, HoldsStep, OwnStep
<1>3. QED
  BY <1>1, <1>2, PTL DEF Spec

-----------------------------------------------------------------------------
(* The socket of a call in progress *)

\* No step changes the socket a thread past sock() writes to: its log id is
\* fixed until the call returns, a compare-and-exchange only fills an empty
\* slot (and the thread's slot is filled, by HoldsSocket), and LogdClose()
\* runs only between calls.
LEMMA StableStep ==
    ASSUME TypeOK, HoldsSocket, [Next]_vars,
           NEW t \in Threads, pc[t] \in SockUsers
    PROVE  Fd(t)' = Fd(t)
<1> USE DEF sockVars, threadVars, logdVars, historyVars
<1> DEFINE k == SockKind(t)
<1>1. k \in Kinds /\ sock[k] # Uninit
  BY KindFacts DEF HoldsSocket, Fd, Uninit
<1>2. logId'[t] = logId[t]
  <2>1. ASSUME NEW u \in Threads, Call(u) PROVE logId'[t] = logId[t]
    <3>1. u # t
      BY <2>1 DEF Call, SockUsers
    <3>2. QED
      BY <2>1, <3>1 DEF Call, TypeOK
  <2>2. QED
    BY <2>1 DEF Next, vars, GetSocket, CasSock, ExchangeDropped, DropSend,
                Send, Reconnect, Resend, Close, LogdRead, LogdCrash,
                LogdRestart
<1>3. sock'[k] = sock[k]
  <2>1. ASSUME NEW u \in Threads, CasSock(u) PROVE sock'[k] = sock[k]
    <3> DEFINE j == SockKind(u)
    <3>1. j \in Kinds
      BY KindFacts
    <3>2. CASE sock[j] = Uninit
      <4>1. j # k
        BY <1>1, <3>2
      <4>2. QED
        BY <1>1, <2>1, <3>1, <3>2, <4>1 DEF CasSock, TypeOK
    <3>3. CASE sock[j] # Uninit
      BY <2>1, <3>3 DEF CasSock
    <3>4. QED
      BY <3>2, <3>3
  <2>2. ~Close
    BY DEF Close, SockUsers
  <2>3. QED
    BY <2>1, <2>2 DEF Next, vars, Call, GetSocket, ExchangeDropped, DropSend,
                      Send, Reconnect, Resend, LogdRead, LogdCrash,
                      LogdRestart
<1>4. QED
  BY <1>2, <1>3 DEF Fd, SockKind

\* The socket each writev() of a LogdWrite() call uses, re-read from sock_
\* by logd_socket.sock(), is the socket the call passed sock() with: no
\* other thread's GetSocket() race replaces it while the call runs.
THEOREM SocketStableSound == Spec => SocketStable
<1>1. Init => TypeOK /\ HoldsSocket
  BY Assumptions DEF Init, TypeOK, DropRange, PCs, LogIds, Kinds, HoldsSocket,
                     SockUsers
<1>2. TypeOK /\ HoldsSocket /\ [Next]_vars => TypeOK' /\ HoldsSocket'
  BY TypeStep, HoldsStep
<1>3. TypeOK /\ HoldsSocket /\ [Next]_vars
        => [\A t \in Threads : pc[t] \in {"exchange", "dropsend", "send",
                                          "reconnect", "resend"}
                               => Fd(t)' = Fd(t)]_vars
  BY StableStep DEF SockUsers
<1>4. QED
  BY <1>1, <1>2, <1>3, PTL DEF Spec, SocketStable

=============================================================================
