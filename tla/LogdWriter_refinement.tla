------------------------ MODULE LogdWriter_refinement ------------------------
(***************************************************************************)
(* Proof that LogdWrite() (LogdWriter) implements what LogdWriteAbs says  *)
(* it promises, under the refinement mapping AbsStage of LogdWriter: the   *)
(* sockets, the shared counter `dropped`, the snapshots and the history    *)
(* of discarded counts are hidden, and each step of a thread is a step of  *)
(* its abstract call or leaves the abstract state alone.                   *)
(***************************************************************************)
EXTENDS LogdWriter_proofs

-----------------------------------------------------------------------------
(* What the mapping needs besides the type invariant *)

\* A socket is connected only to a running logd: logd's crash breaks every
\* connection, and GetSocket() and Reconnect() connect only while it runs.
\* A write that succeeds therefore writes into a running logd's queue.
LogdConnections == ~logdUp => connected = {}

\* A thread about to write the drop event holds a nonzero count: the
\* `snapshot &&` test of LogdWrite() skips the event for a zero count.
DropPending == \A t \in Threads : pc[t] = "dropsend" => snapshot[t] # 0

RefInv == LogdConnections /\ DropPending

\* Every step keeps RefInv.
LEMMA RefInvStep ==
    ASSUME TypeOK, RefInv, [Next]_vars
    PROVE  RefInv'
<1> USE DEF sockVars, threadVars, logdVars, historyVars
<1>1. ASSUME NEW t \in Threads, Call(t) PROVE RefInv'
  BY <1>1 DEF Call, RefInv, LogdConnections, DropPending, TypeOK
<1>2. ASSUME NEW t \in Threads, GetSocket(t) PROVE RefInv'
  <2>1. LogdConnections'
    BY <1>2 DEF GetSocket, RefInv, LogdConnections
  <2>2. DropPending'
    BY <1>2 DEF GetSocket, AfterSock, RefInv, DropPending, TypeOK
  <2>3. QED
    BY <2>1, <2>2 DEF RefInv
<1>3. ASSUME NEW t \in Threads, CasSock(t) PROVE RefInv'
  <2>1. LogdConnections'
    BY <1>3 DEF CasSock, RefInv, LogdConnections
  <2>2. DropPending'
    BY <1>3 DEF CasSock, AfterSock, RefInv, DropPending, TypeOK
  <2>3. QED
    BY <2>1, <2>2 DEF RefInv
<1>4. ASSUME NEW t \in Threads, ExchangeDropped(t) PROVE RefInv'
  <2>1. PICK loggable \in BOOLEAN :
           IF dropped # 0 /\ loggable
              THEN /\ snapshot' = [snapshot EXCEPT ![t] = dropped]
                   /\ pc' = [pc EXCEPT ![t] = "dropsend"]
                   /\ UNCHANGED discarded
              ELSE /\ pc' = [pc EXCEPT ![t] = "send"]
                   /\ discarded' = discarded + dropped
                   /\ UNCHANGED snapshot
    BY <1>4 DEF ExchangeDropped
  <2>2. LogdConnections'
    BY <1>4 DEF ExchangeDropped, RefInv, LogdConnections
  <2>3. ASSUME dropped # 0 /\ loggable PROVE DropPending'
    <3>1. snapshot'[t] # 0 /\ pc' = [pc EXCEPT ![t] = "dropsend"]
          /\ snapshot' = [snapshot EXCEPT ![t] = dropped]
      BY <2>1, <2>3 DEF TypeOK
    <3>2. QED
      BY <1>4, <3>1 DEF ExchangeDropped, RefInv, DropPending, TypeOK
  <2>4. ASSUME ~(dropped # 0 /\ loggable) PROVE DropPending'
    BY <1>4, <2>1, <2>4 DEF ExchangeDropped, RefInv, DropPending, TypeOK
  <2>5. QED
    BY <2>2, <2>3, <2>4, Zenon DEF RefInv
<1>5. ASSUME NEW t \in Threads, DropSend(t) PROVE RefInv'
  BY <1>5 DEF DropSend, RefInv, LogdConnections, DropPending, TypeOK
<1>6. ASSUME NEW t \in Threads, Send(t) PROVE RefInv'
  BY <1>6 DEF Send, RefInv, LogdConnections, DropPending, TypeOK
<1>7. ASSUME NEW t \in Threads, Reconnect(t) PROVE RefInv'
  BY <1>7 DEF Reconnect, RefInv, LogdConnections, DropPending, TypeOK
<1>8. ASSUME NEW t \in Threads, Resend(t) PROVE RefInv'
  BY <1>8 DEF Resend, RefInv, LogdConnections, DropPending, TypeOK
<1>9. CASE Close
  BY <1>9 DEF Close, RefInv, LogdConnections, DropPending
<1>10. CASE LogdRead \/ LogdCrash \/ LogdRestart \/ UNCHANGED vars
  BY <1>10 DEF LogdRead, LogdCrash, LogdRestart, vars, RefInv,
               LogdConnections, DropPending
<1>11. QED
  BY <1>1, <1>2, <1>3, <1>4, <1>5, <1>6, <1>7, <1>8, <1>9, <1>10 DEF Next

-----------------------------------------------------------------------------
(* The abstract steps a thread's step maps to *)

\* The abstract program counters, the image of pc under the mapping.
AbsPc == [u \in Threads |-> AbsStage(pc[u])]

\* The abstract variables other than the program counters, which the
\* mapping takes unchanged from LogdWriter.
absRest == <<logId, queue, logdUp, crashes, calls, failed, logdRead, crashLost>>

\* A step of thread t alone moves only t's abstract stage.
LEMMA ThreadMove ==
    ASSUME TypeOK, NEW t \in Threads, pc' = [pc EXCEPT ![t] = pc'[t]]
    PROVE  AbsPc' = [AbsPc EXCEPT ![t] = AbsStage(pc'[t])]
BY DEF AbsPc, TypeOK

\* A step of thread t within its stage, touching none of the other abstract
\* variables, is an abstract stutter.
LEMMA ToStutter ==
    ASSUME TypeOK, NEW t \in Threads, pc' = [pc EXCEPT ![t] = pc'[t]],
           AbsStage(pc'[t]) = AbsStage(pc[t]), UNCHANGED absRest
    PROVE  UNCHANGED Abs!vars
<1>1. AbsPc' = AbsPc
  BY ThreadMove DEF AbsPc, TypeOK
<1>2. QED
  BY <1>1 DEF Abs!vars, AbsPc, absRest

\* sock() returns without a socket, or in logd itself: the call quits.
LEMMA ToQuit ==
    ASSUME TypeOK, NEW t \in Threads, AbsStage(pc[t]) = "call",
           pc' = [pc EXCEPT ![t] = "idle"], UNCHANGED absRest
    PROVE  Abs!Quit(t)
<1>1. AbsPc' = [AbsPc EXCEPT ![t] = "idle"] /\ AbsPc[t] = "call"
  BY ThreadMove DEF AbsStage, AbsPc, TypeOK
<1>2. QED
  BY <1>1 DEF Abs!Quit, AbsPc, absRest

\* The call moves on to its record without a drop event reaching logd.
LEMMA ToProceed ==
    ASSUME TypeOK, NEW t \in Threads, AbsStage(pc[t]) = "call",
           pc' = [pc EXCEPT ![t] = "send"], UNCHANGED absRest
    PROVE  Abs!Proceed(t)
<1>1. AbsPc' = [AbsPc EXCEPT ![t] = "record"] /\ AbsPc[t] = "call"
  BY ThreadMove DEF AbsStage, AbsPc, TypeOK
<1>2. QED
  BY <1>1 DEF Abs!Proceed, AbsPc, absRest

\* The call's record is counted into `dropped` and the call returns.
LEMMA ToLose ==
    ASSUME TypeOK, NEW t \in Threads, AbsStage(pc[t]) = "record",
           pc' = [pc EXCEPT ![t] = "idle"], failed' = failed + 1,
           UNCHANGED <<logId, queue, logdUp, crashes, calls, logdRead,
                       crashLost>>
    PROVE  Abs!Lose(t)
<1>1. AbsPc' = [AbsPc EXCEPT ![t] = "idle"] /\ AbsPc[t] = "record"
  BY ThreadMove DEF AbsStage, AbsPc, TypeOK
<1>2. QED
  BY <1>1 DEF Abs!Lose, AbsPc

\* A writev() that succeeds reaches a running logd with room in its queue.
LEMMA WriteRoom ==
    ASSUME RefInv, NEW t \in Threads, WriteOk(t)
    PROVE  Abs!Room
BY DEF RefInv, LogdConnections, WriteOk, Abs!Room

\* The record is written into logd's queue and the call returns.
LEMMA ToDeliver ==
    ASSUME TypeOK, RefInv, NEW t \in Threads, AbsStage(pc[t]) = "record",
           WriteOk(t),
           queue' = Append(queue, [type |-> "record", id |-> logId[t]]),
           pc' = [pc EXCEPT ![t] = "idle"],
           UNCHANGED <<logId, logdUp, crashes, calls, failed, logdRead,
                       crashLost>>
    PROVE  Abs!Deliver(t)
<1>1. AbsPc' = [AbsPc EXCEPT ![t] = "idle"] /\ AbsPc[t] = "record"
  BY ThreadMove DEF AbsStage, AbsPc, TypeOK
<1>2. Abs!Room
  BY WriteRoom
<1>3. QED
  BY <1>1, <1>2 DEF Abs!Deliver, AbsPc

\* The drop event, with its nonzero count, is written into logd's queue.
LEMMA ToReport ==
    ASSUME TypeOK, RefInv, NEW t \in Threads, pc[t] = "dropsend",
           WriteOk(t),
           queue' = Append(queue, [type |-> "drops", n |-> snapshot[t]]),
           pc' = [pc EXCEPT ![t] = "send"],
           UNCHANGED <<logId, logdUp, crashes, calls, failed, logdRead,
                       crashLost>>
    PROVE  Abs!Report(t)
<1>1. AbsPc' = [AbsPc EXCEPT ![t] = "record"] /\ AbsPc[t] = "call"
  BY ThreadMove DEF AbsStage, AbsPc, TypeOK
<1>2. Abs!Room
  BY WriteRoom
<1>3. snapshot[t] \in DropRange \ {0}
  BY DEF RefInv, DropPending, TypeOK
<1>4. QED
  BY <1>1, <1>2, <1>3 DEF Abs!Report, AbsPc, Abs!DropRange, DropRange

-----------------------------------------------------------------------------
(* The refinement *)

\* Every step of LogdWriter is a step of LogdWriteAbs or leaves its state
\* alone: one case per action of the code.
LEMMA RefineStep ==
    ASSUME TypeOK, RefInv, [Next]_vars
    PROVE  [Abs!Next]_Abs!vars
<1> USE DEF sockVars, threadVars, logdVars, historyVars, absRest
<1>1. ASSUME NEW t \in Threads, Call(t) PROVE Abs!Begin(t)
  <2>1. AbsPc' = [AbsPc EXCEPT ![t] = "call"] /\ AbsPc[t] = "idle"
    BY <1>1, ThreadMove DEF Call, AbsStage, AbsPc, TypeOK
  <2>2. QED
    BY <1>1, <2>1 DEF Call, Abs!Begin, AbsPc, LogIds
<1>2. ASSUME NEW t \in Threads, GetSocket(t)
      PROVE  Abs!Quit(t) \/ UNCHANGED Abs!vars
  <2>1. AbsStage(pc[t]) = "call" /\ UNCHANGED absRest
    BY <1>2 DEF GetSocket, AbsStage
  <2>2. CASE pc'[t] = "idle"
    BY <1>2, <2>1, <2>2, ToQuit DEF GetSocket, AfterSock, TypeOK
  <2>3. CASE pc'[t] # "idle"
    <3>1. pc'[t] \in {"cas", "exchange"} /\ pc' = [pc EXCEPT ![t] = pc'[t]]
      BY <1>2, <2>3 DEF GetSocket, AfterSock, TypeOK
    <3>2. QED
      BY <2>1, <3>1, ToStutter DEF AbsStage
  <2>4. QED
    BY <2>2, <2>3
<1>3. ASSUME NEW t \in Threads, CasSock(t)
      PROVE  Abs!Quit(t) \/ UNCHANGED Abs!vars
  <2>1. AbsStage(pc[t]) = "call" /\ UNCHANGED absRest
    BY <1>3 DEF CasSock, AbsStage
  <2>2. CASE pc'[t] = "idle"
    BY <1>3, <2>1, <2>2, ToQuit DEF CasSock, AfterSock, TypeOK
  <2>3. CASE pc'[t] # "idle"
    <3>1. pc'[t] = "exchange" /\ pc' = [pc EXCEPT ![t] = pc'[t]]
      BY <1>3, <2>3 DEF CasSock, AfterSock, TypeOK
    <3>2. QED
      BY <2>1, <3>1, ToStutter DEF AbsStage
  <2>4. QED
    BY <2>2, <2>3
<1>4. ASSUME NEW t \in Threads, ExchangeDropped(t)
      PROVE  Abs!Proceed(t) \/ UNCHANGED Abs!vars
  <2>1. AbsStage(pc[t]) = "call" /\ UNCHANGED absRest
    BY <1>4 DEF ExchangeDropped, AbsStage
  <2>2. pc' = [pc EXCEPT ![t] = "send"] \/ pc' = [pc EXCEPT ![t] = "dropsend"]
    BY <1>4 DEF ExchangeDropped
  <2>3. CASE pc' = [pc EXCEPT ![t] = "send"]
    BY <2>1, <2>3, ToProceed
  <2>4. CASE pc' = [pc EXCEPT ![t] = "dropsend"]
    <3>1. pc'[t] = "dropsend" /\ pc' = [pc EXCEPT ![t] = pc'[t]]
      BY <2>4 DEF TypeOK
    <3>2. QED
      BY <2>1, <3>1, ToStutter DEF AbsStage
  <2>5. QED
    BY <2>2, <2>3, <2>4
<1>5. ASSUME NEW t \in Threads, DropSend(t)
      PROVE  Abs!Report(t) \/ Abs!Proceed(t)
  <2>1. pc[t] = "dropsend" /\ AbsStage(pc[t]) = "call"
        /\ pc' = [pc EXCEPT ![t] = "send"]
        /\ UNCHANGED <<logId, logdUp, crashes, calls, failed, logdRead,
                       crashLost>>
    BY <1>5 DEF DropSend, AbsStage
  <2>2. CASE WriteOk(t)
             /\ queue' = Append(queue, [type |-> "drops", n |-> snapshot[t]])
    BY <2>1, <2>2, ToReport
  <2>3. CASE UNCHANGED queue
    BY <2>1, <2>3, ToProceed
  <2>4. QED
    BY <1>5, <2>2, <2>3 DEF DropSend
<1>6. ASSUME NEW t \in Threads, Send(t)
      PROVE  Abs!Deliver(t) \/ Abs!Lose(t) \/ UNCHANGED Abs!vars
  <2>1. pc[t] = "send" /\ AbsStage(pc[t]) = "record"
        /\ UNCHANGED <<logId, logdUp, crashes, calls, logdRead, crashLost>>
    BY <1>6 DEF Send, AbsStage
  <2>2. CASE /\ WriteOk(t)
             /\ queue' = Append(queue, [type |-> "record", id |-> logId[t]])
             /\ pc' = [pc EXCEPT ![t] = "idle"]
             /\ UNCHANGED <<dropped, failed>>
    BY <2>1, <2>2, ToDeliver
  <2>3. CASE /\ WriteEagain(t) /\ CountDrop
             /\ pc' = [pc EXCEPT ![t] = "idle"] /\ UNCHANGED queue
    BY <2>1, <2>3, ToLose DEF CountDrop
  <2>4. CASE /\ WriteError(t)
             /\ pc' = [pc EXCEPT ![t] = "reconnect"]
             /\ UNCHANGED <<queue, dropped, failed>>
    <3>1. pc'[t] = "reconnect" /\ pc' = [pc EXCEPT ![t] = pc'[t]]
      BY <2>4 DEF TypeOK
    <3>2. QED
      BY <2>1, <2>4, <3>1, ToStutter DEF AbsStage
  <2>5. QED
    BY <1>6, <2>2, <2>3, <2>4 DEF Send
<1>7. ASSUME NEW t \in Threads, Reconnect(t) PROVE UNCHANGED Abs!vars
  <2>1. pc'[t] = "resend" /\ pc' = [pc EXCEPT ![t] = pc'[t]]
        /\ AbsStage(pc[t]) = "record" /\ UNCHANGED absRest
    BY <1>7 DEF Reconnect, AbsStage, TypeOK
  <2>2. QED
    BY <2>1, ToStutter DEF AbsStage
<1>8. ASSUME NEW t \in Threads, Resend(t)
      PROVE  Abs!Deliver(t) \/ Abs!Lose(t)
  <2>1. pc[t] = "resend" /\ AbsStage(pc[t]) = "record"
        /\ pc' = [pc EXCEPT ![t] = "idle"]
        /\ UNCHANGED <<logId, logdUp, crashes, calls, logdRead, crashLost>>
    BY <1>8 DEF Resend, AbsStage
  <2>2. CASE /\ WriteOk(t)
             /\ queue' = Append(queue, [type |-> "record", id |-> logId[t]])
             /\ UNCHANGED <<dropped, failed>>
    BY <2>1, <2>2, ToDeliver
  <2>3. CASE CountDrop /\ UNCHANGED queue
    BY <2>1, <2>3, ToLose DEF CountDrop
  <2>4. QED
    BY <1>8, <2>2, <2>3 DEF Resend
<1>9. CASE Close
  BY <1>9 DEF Close, Abs!vars
<1>10. ASSUME LogdRead PROVE Abs!LogdRead
  <2>1. AbsPc' = AbsPc
    BY <1>10 DEF LogdRead, AbsPc
  <2>2. QED
    BY <1>10, <2>1 DEF LogdRead, Abs!LogdRead, AbsPc
<1>11. ASSUME LogdCrash PROVE Abs!LogdCrash
  <2>1. AbsPc' = AbsPc
    BY <1>11 DEF LogdCrash, AbsPc
  <2>2. QED
    BY <1>11, <2>1 DEF LogdCrash, Abs!LogdCrash, AbsPc
<1>12. ASSUME LogdRestart PROVE Abs!LogdRestart
  <2>1. AbsPc' = AbsPc
    BY <1>12 DEF LogdRestart, AbsPc
  <2>2. QED
    BY <1>12, <2>1 DEF LogdRestart, Abs!LogdRestart, AbsPc
<1>13. CASE UNCHANGED vars
  BY <1>13 DEF vars, Abs!vars
<1>14. QED
  BY <1>1, <1>2, <1>3, <1>4, <1>5, <1>6, <1>7, <1>8, <1>9, <1>10, <1>11,
     <1>12, <1>13 DEF Next, Abs!Next

\* LogdWrite() implements its abstract specification: across every
\* interleaving of the threads' calls through sock(), the exchange of
\* `dropped`, the writev() calls and their retry, LogdClose() and logd's
\* crashes, each call either gives up without a trace or writes at most one
\* drop event with a nonzero count and then either its own record, once,
\* into a running logd's queue, or counts the record as lost.
THEOREM Refinement == Spec => AbsSpec
<1>1. Init => TypeOK /\ HoldsSocket /\ RefInv
  BY Assumptions DEF Init, TypeOK, DropRange, PCs, LogIds, Kinds, HoldsSocket,
                     SockUsers, RefInv, LogdConnections, DropPending
<1>2. TypeOK /\ HoldsSocket /\ RefInv /\ [Next]_vars
        => TypeOK' /\ HoldsSocket' /\ RefInv'
  BY TypeStep, HoldsStep, RefInvStep
<1>3. Init => Abs!Init
  BY DEF Init, Abs!Init, LogIds, AbsStage
<1>4. TypeOK /\ RefInv /\ [Next]_vars => [Abs!Next]_Abs!vars
  BY RefineStep
<1>5. QED
  BY <1>1, <1>2, <1>3, <1>4, PTL DEF Spec, AbsSpec, Abs!Spec

=============================================================================
