--------------------------- MODULE LogAudit_proofs ---------------------------
(***************************************************************************)
(* Proofs about LogAudit: type correctness, and that logPrint()'s result  *)
(* always tells readDmesg() whether the denial was stored.                *)
(***************************************************************************)
EXTENDS LogAudit, SequenceTheorems, TLAPS

\* The inductive invariant: LogPrintResult only constrains the last
\* logPrint() call, which every step either repeats or leaves alone.
IInv == TypeOK /\ LogPrintResult

\* What hasMetadata() and a fresh netlink message make of a denial is a
\* denial the model's logPrint() takes.
LEMMA DenialsOf ==
    /\ \A l \in Lines : Reload(l) \in Denials
    /\ \A p \in Metas : [parse |-> p, hasMeta |-> FALSE] \in Denials
BY DEF Reload, Lines, Denials

\* The lines the constructor and the kernel print are ring-buffer lines.
LEMMA LinesOf == StartLine \in Lines /\ KernelLines \subseteq Lines
<1>1. StartLine \in Lines
  BY DEF StartLine, Lines, Metas
<1>2. \A p \in Metas : [audit |-> TRUE, parse |-> p, meta |-> NoMeta] \in Lines
  BY DEF Lines, Metas
<1> QED BY <1>1, <1>2 DEF KernelLines

\* One logPrint() call keeps the types of what it changes and leaves a
\* result whose sign says whether a buffer took the denial.
LEMMA PrintStep ==
    ASSUME TypeOK, NEW d \in Denials, NEW init \in BOOLEAN, NEW ok,
           LogPrint(d, init, ok)
    PROVE  /\ ring' \in Seq(Lines)
           /\ denialMetadata' \in Metas
           /\ logged' \subseteq Entries
           /\ lastPrint' \in [called : BOOLEAN, ok : BOOLEAN, accepted : 0 .. 2]
           /\ lastPrint'.called
           /\ (mainOn \/ eventsOn) => (lastPrint'.ok <=> lastPrint'.accepted > 0)
<1> DEFINE toDmesg == dmesgOn /\ init
           dm1 == IF toDmesg THEN d.parse ELSE denialMetadata
           dm2 == IF ~toDmesg /\ ~d.hasMeta THEN d.parse ELSE dm1
<1>1. dm1 \in Metas /\ dm2 \in Metas
  BY DEF TypeOK, Denials
<1>2. CASE /\ ok = FALSE
           /\ lastPrint' = [called |-> TRUE, ok |-> FALSE, accepted |-> 0]
           /\ UNCHANGED <<ring, denialMetadata, logged>>
  BY <1>2 DEF TypeOK
<1>3. CASE /\ ring' = IF toDmesg
                        THEN Append(ring, [audit |-> TRUE, parse |-> d.parse,
                                           meta |-> d.parse])
                        ELSE ring
           /\ IF ~mainOn /\ ~eventsOn
                 THEN /\ denialMetadata' = dm1 /\ ok = TRUE
                      /\ lastPrint' = [called |-> TRUE, ok |-> TRUE, accepted |-> 0]
                      /\ UNCHANGED logged
                 ELSE \E evOk, mainOk \in BOOLEAN :
                        LET ev == eventsOn /\ evOk
                            mn == mainOn /\ mainOk
                            new == (IF ev THEN {[buf |-> "events", parse |-> d.parse,
                                                 hasMeta |-> d.hasMeta, meta |-> dm2]}
                                          ELSE {})
                                   \cup (IF mn THEN {[buf |-> "main", parse |-> d.parse,
                                                      hasMeta |-> d.hasMeta, meta |-> dm2]}
                                                ELSE {})
                        IN /\ denialMetadata' = dm2
                           /\ logged' = logged \cup new
                           /\ ok = PrintResult(evOk, mainOk)
                           /\ lastPrint' = [called |-> TRUE, ok |-> ok,
                                            accepted |-> (IF ev THEN 1 ELSE 0)
                                                         + (IF mn THEN 1 ELSE 0)]
  <2>1. ring' \in Seq(Lines)
    <3>1. [audit |-> TRUE, parse |-> d.parse, meta |-> d.parse] \in Lines
      BY DEF Denials, Lines
    <3> QED BY <1>3, <3>1, AppendProperties DEF TypeOK
  <2>2. CASE ~mainOn /\ ~eventsOn
    <3>1. /\ denialMetadata' = dm1
          /\ lastPrint' = [called |-> TRUE, ok |-> TRUE, accepted |-> 0]
          /\ logged' = logged
      BY <1>3, <2>2
    <3> QED BY <1>1, <2>1, <2>2, <3>1 DEF TypeOK
  <2>3. CASE ~(~mainOn /\ ~eventsOn)
    <3>1. PICK evOk, mainOk \in BOOLEAN :
            LET ev == eventsOn /\ evOk
                mn == mainOn /\ mainOk
                new == (IF ev THEN {[buf |-> "events", parse |-> d.parse,
                                     hasMeta |-> d.hasMeta, meta |-> dm2]}
                              ELSE {})
                       \cup (IF mn THEN {[buf |-> "main", parse |-> d.parse,
                                          hasMeta |-> d.hasMeta, meta |-> dm2]}
                                    ELSE {})
            IN /\ denialMetadata' = dm2
               /\ logged' = logged \cup new
               /\ ok = PrintResult(evOk, mainOk)
               /\ lastPrint' = [called |-> TRUE, ok |-> ok,
                                accepted |-> (IF ev THEN 1 ELSE 0)
                                             + (IF mn THEN 1 ELSE 0)]
      BY <1>3, <2>3
    <3>2. logged' \subseteq Entries
      BY <1>1, <3>1 DEF TypeOK, Denials, Entries
    <3> QED BY <1>1, <2>1, <3>1, <3>2 DEF TypeOK, PrintResult
  <2> QED BY <2>2, <2>3
<1> QED BY <1>2, <1>3 DEF LogPrint
\* Every step keeps IInv.
LEMMA IInvStep == IInv /\ [Next]_vars => IInv'
<1> SUFFICES ASSUME TypeOK, LogPrintResult, [Next]_vars PROVE IInv'
  BY DEF IInv
<1> USE DEF IInv
<1>0. UNCHANGED config => /\ dmesgOn' = dmesgOn /\ mainOn' = mainOn
                          /\ eventsOn' = eventsOn /\ auditdOn' = auditdOn
                          /\ klogdOn' = klogdOn
  BY DEF config
<1>1. CASE Boot
  <2>1. StartLine \in Lines
    BY LinesOf
  <2>2. (IF auditdOn /\ dmesgOn THEN Append(ring, StartLine) ELSE ring)
          \in Seq(Lines)
    BY <2>1, AppendProperties DEF TypeOK
  <2>3. /\ toRead' \in Seq(Lines) /\ ring' \in Seq(Lines)
        /\ denialMetadata' \in Metas /\ phase' = "dmesg"
        /\ rcOk' = TRUE /\ initialized' = FALSE /\ listening' = FALSE
        /\ UNCHANGED config
        /\ UNCHANGED <<logged, lastPrint, netlinkCount, kernelCount, crashes>>
    BY <1>1, <2>2, EmptySeq DEF Boot, Metas, counts
  <2>4. TypeOK'
    BY <1>0, <2>3 DEF TypeOK
  <2>5. LogPrintResult'
    BY <1>0, <2>3 DEF LogPrintResult
  <2> QED BY <2>4, <2>5
<1>2. CASE ReadDmesgLine
  <2>1. PICK alOk, klOk \in BOOLEAN :
          /\ IF auditdOn THEN AuditLog(Head(toRead), alOk)
                         ELSE UNCHANGED printVars
          /\ rcOk' = IF klogdOn THEN klOk ELSE alOk
    BY <1>2 DEF ReadDmesgLine
  <2>2. /\ toRead # <<>> /\ toRead' = Tail(toRead)
        /\ UNCHANGED config
        /\ UNCHANGED <<phase, initialized, listening, netlinkCount, kernelCount,
                       crashes>>
    BY <1>2 DEF ReadDmesgLine, counts
  <2>3. Head(toRead) \in Lines /\ Tail(toRead) \in Seq(Lines)
    BY <2>2, HeadTailProperties DEF TypeOK
  <2>4. CASE auditdOn /\ Head(toRead).audit
    <3>1. LogPrint(Reload(Head(toRead)), initialized, alOk)
      BY <2>1, <2>4 DEF AuditLog
    <3>2. Reload(Head(toRead)) \in Denials
      BY <2>3, DenialsOf
    <3>3. /\ ring' \in Seq(Lines) /\ denialMetadata' \in Metas
          /\ logged' \subseteq Entries
          /\ lastPrint' \in [called : BOOLEAN, ok : BOOLEAN, accepted : 0 .. 2]
          /\ (mainOn \/ eventsOn) => (lastPrint'.ok <=> lastPrint'.accepted > 0)
      BY <3>1, <3>2, PrintStep DEF TypeOK
    <3>4. TypeOK'
      BY <1>0, <2>1, <2>2, <2>3, <3>3 DEF TypeOK
    <3>5. LogPrintResult'
      BY <1>0, <2>2, <3>3 DEF LogPrintResult
    <3> QED BY <3>4, <3>5
  <2>5. CASE ~(auditdOn /\ Head(toRead).audit)
    <3>1. UNCHANGED <<ring, denialMetadata, logged, lastPrint>>
      BY <2>1, <2>5 DEF AuditLog, printVars
    <3>2. TypeOK'
      BY <1>0, <3>1, <2>1, <2>2, <2>3 DEF TypeOK
    <3>3. LogPrintResult'
      BY <1>0, <3>1, <2>2 DEF LogPrintResult
    <3> QED BY <3>2, <3>3
  <2> QED BY <2>4, <2>5
<1>3. CASE ReadDmesgEnd
  <2>1. /\ toRead' = <<>> /\ phase' = "listen" /\ listening' \in BOOLEAN
        /\ UNCHANGED config
        /\ UNCHANGED <<rcOk, initialized, ring, denialMetadata, logged,
                       lastPrint, netlinkCount, kernelCount, crashes>>
    BY <1>3 DEF ReadDmesgEnd, printVars, counts
  <2>2. TypeOK'
    BY <1>0, <2>1, EmptySeq DEF TypeOK
  <2>3. LogPrintResult'
    BY <1>0, <2>1 DEF LogPrintResult
  <2> QED BY <2>2, <2>3
<1>4. CASE AuditReceive
  <2>1. /\ netlinkCount' = netlinkCount + 1
        /\ initialized' = TRUE
        /\ UNCHANGED config
        /\ UNCHANGED <<phase, toRead, rcOk, kernelCount, crashes>>
    BY <1>4 DEF AuditReceive
  <2>2. CASE listening' = FALSE /\ UNCHANGED printVars
    <3>1. UNCHANGED <<ring, denialMetadata, logged, lastPrint>>
      BY <2>2 DEF printVars
    <3>a. {dmesgOn, mainOn, eventsOn, auditdOn, klogdOn}' \subseteq BOOLEAN
      BY <1>0, <2>1 DEF TypeOK
    <3>b. phase' \in {"boot", "dmesg", "listen"} /\ toRead' \in Seq(Lines) /\ ring' \in Seq(Lines)
      BY <2>1, <3>1 DEF TypeOK
    <3>c. rcOk' \in BOOLEAN /\ initialized' \in BOOLEAN /\ listening' \in BOOLEAN
      BY <2>1, <2>2 DEF TypeOK
    <3>d. denialMetadata' \in Metas /\ logged' \subseteq Entries
      BY <3>1 DEF TypeOK
    <3>e. lastPrint' \in [called : BOOLEAN, ok : BOOLEAN, accepted : 0 .. 2]
      BY <3>1 DEF TypeOK
    <3>f. netlinkCount' \in Nat /\ kernelCount' \in Nat /\ crashes' \in Nat
      BY <2>1 DEF TypeOK
    <3>2. TypeOK'
      BY <3>a, <3>b, <3>c, <3>d, <3>e, <3>f DEF TypeOK
    <3>3. LogPrintResult'
      BY <1>0, <2>1, <3>1 DEF LogPrintResult
    <3> QED BY <3>2, <3>3
  <2>3. CASE \E p \in Metas, ok \in BOOLEAN :
                 /\ LogPrint([parse |-> p, hasMeta |-> FALSE], TRUE, ok)
                 /\ UNCHANGED listening
    <3>1. PICK p \in Metas, ok \in BOOLEAN :
                 /\ LogPrint([parse |-> p, hasMeta |-> FALSE], TRUE, ok)
                 /\ UNCHANGED listening
      BY <2>3
    <3>2. [parse |-> p, hasMeta |-> FALSE] \in Denials
      BY DenialsOf
    <3>3. /\ ring' \in Seq(Lines) /\ denialMetadata' \in Metas
          /\ logged' \subseteq Entries
          /\ lastPrint' \in [called : BOOLEAN, ok : BOOLEAN, accepted : 0 .. 2]
          /\ (mainOn \/ eventsOn) => (lastPrint'.ok <=> lastPrint'.accepted > 0)
      BY <3>1, <3>2, PrintStep
    <3>4. TypeOK'
      BY <1>0, <3>1, <3>3, <2>1 DEF TypeOK
    <3>5. LogPrintResult'
      BY <1>0, <3>3, <2>1 DEF LogPrintResult
    <3> QED BY <3>4, <3>5
  <2> QED BY <1>4, <2>2, <2>3 DEF AuditReceive
<1>5. CASE KernelPrint
  <2>1. PICK l \in KernelLines : ring' = Append(ring, l)
    BY <1>5 DEF KernelPrint
  <2>2. l \in Lines
    BY <2>1, LinesOf
  <2>3. /\ UNCHANGED config
        /\ UNCHANGED <<phase, toRead, rcOk, initialized, denialMetadata,
                       listening, logged, lastPrint, netlinkCount, crashes>>
        /\ kernelCount' = kernelCount + 1
    BY <1>5 DEF KernelPrint
  <2>4. TypeOK'
    BY <1>0, <2>1, <2>2, <2>3, AppendProperties DEF TypeOK
  <2>5. LogPrintResult'
    BY <1>0, <2>3 DEF LogPrintResult
  <2> QED BY <2>4, <2>5
<1>6. CASE Crash
  <2>1. /\ phase' = "boot" /\ toRead' = <<>> /\ listening' = FALSE
        /\ crashes' = crashes + 1
        /\ UNCHANGED config
        /\ UNCHANGED <<rcOk, initialized, ring, denialMetadata, logged,
                       lastPrint, netlinkCount, kernelCount>>
    BY <1>6 DEF Crash, printVars
  <2>2. TypeOK'
    <3>1. toRead' \in Seq(Lines)
      BY <2>1, EmptySeq
    <3>2. {dmesgOn, mainOn, eventsOn, auditdOn, klogdOn}' \subseteq BOOLEAN
      BY <1>0, <2>1 DEF TypeOK
    <3>3. phase' \in {"boot", "dmesg", "listen"} /\ ring' \in Seq(Lines)
      BY <2>1 DEF TypeOK
    <3>4. rcOk' \in BOOLEAN /\ initialized' \in BOOLEAN /\ listening' \in BOOLEAN
      BY <2>1 DEF TypeOK
    <3>5. /\ denialMetadata' \in Metas /\ logged' \subseteq Entries
          /\ lastPrint' \in [called : BOOLEAN, ok : BOOLEAN, accepted : 0 .. 2]
      BY <2>1 DEF TypeOK
    <3>6. netlinkCount' \in Nat /\ kernelCount' \in Nat /\ crashes' \in Nat
      BY <2>1 DEF TypeOK
    <3> QED BY <3>1, <3>2, <3>3, <3>4, <3>5, <3>6 DEF TypeOK
  <2>3. LogPrintResult'
    BY <1>0, <2>1 DEF LogPrintResult
  <2> QED BY <2>2, <2>3
<1>7. CASE UNCHANGED vars
  <2>1. /\ UNCHANGED config
        /\ UNCHANGED <<phase, toRead, rcOk, initialized, listening,
                       ring, denialMetadata, logged, lastPrint, netlinkCount,
                       kernelCount, crashes>>
    BY <1>7 DEF vars, printVars, counts
  <2>2. TypeOK'
    BY <1>0, <2>1 DEF TypeOK
  <2>3. LogPrintResult'
    BY <1>0, <2>1 DEF LogPrintResult
  <2> QED BY <2>2, <2>3
<1> QED BY <1>1, <1>2, <1>3, <1>4, <1>5, <1>6, <1>7 DEF Next

\* The initial states satisfy IInv.
LEMMA IInvInit == Init => IInv
<1> SUFFICES ASSUME Init PROVE IInv
  OBVIOUS
<1>1. ring \in Seq(Lines)
  <2>1. \A l \in KernelLines : <<l>> \in Seq(Lines)
    BY LinesOf
  <2> QED BY <2>1, EmptySeq DEF Init
<1>2. {dmesgOn, mainOn, eventsOn, auditdOn, klogdOn} \subseteq BOOLEAN
  BY DEF Init
<1>3. toRead \in Seq(Lines)
  BY EmptySeq DEF Init
<1>4. TypeOK
  <2>1. /\ phase \in {"boot", "dmesg", "listen"}
        /\ rcOk \in BOOLEAN /\ initialized \in BOOLEAN /\ listening \in BOOLEAN
    BY DEF Init
  <2>2. denialMetadata \in Metas /\ logged \subseteq Entries
    BY DEF Init, Metas
  <2>3. lastPrint \in [called : BOOLEAN, ok : BOOLEAN, accepted : 0 .. 2]
    BY DEF Init
  <2>4. netlinkCount \in Nat /\ kernelCount \in Nat /\ crashes \in Nat
    BY DEF Init
  <2> QED BY <1>1, <1>2, <1>3, <2>1, <2>2, <2>3, <2>4 DEF TypeOK
<1>5. LogPrintResult
  BY DEF Init, LogPrintResult
<1> QED BY <1>4, <1>5 DEF IInv

\* Type correctness of the model of LogAudit and readDmesg().
THEOREM TypeCorrect == Spec => []TypeOK
<1>1. Init => IInv BY IInvInit
<1>2. IInv /\ [Next]_vars => IInv' BY IInvStep
<1>3. IInv => TypeOK BY DEF IInv
<1> QED BY <1>1, <1>2, <1>3, PTL DEF Spec

\* For every setting of the ro.logd switches and across any number of
\* restarts and replays, logPrint() returns a negative rc exactly when
\* neither the events nor the main buffer took the denial, so a replay
\* that stops on LogAudit's result (klogd off) stops only after a lost
\* denial.
THEOREM PrintResultSound == Spec => []LogPrintResult
<1>1. IInv => LogPrintResult BY DEF IInv
<1> QED BY IInvInit, IInvStep, <1>1, PTL DEF Spec
=============================================================================
