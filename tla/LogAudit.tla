------------------------------ MODULE LogAudit ------------------------------
(***************************************************************************)
(* logd's SELinux audit reader (src/logd/LogAudit.cpp) together with the  *)
(* start-up replay of the kernel ring buffer, readDmesg() of              *)
(* src/logd/main.cpp.                                                      *)
(*                                                                         *)
(* A denial is abstracted to what logPrint() tells apart: the bug          *)
(* metadata auditParse() finds for it, and whether hasMetadata() says the *)
(* text already ends in metadata.  The kernel ring buffer (/dev/kmsg)     *)
(* outlives logd: LogAudit writes every denial there with its metadata,    *)
(* and when init restarts logd, readDmesg() hands the whole ring buffer    *)
(* to LogAudit::log() and LogKlog::log() again before the listeners start. *)
(* logPrint() runs on the main thread during readDmesg() and on the        *)
(* listener thread afterwards, never on both at once, so each call is one *)
(* step.                                                                   *)
(***************************************************************************)
EXTENDS Integers, Sequences

CONSTANTS
    Bugs,        \* bug numbers of the bug_map files (auditParse results)
    MaxNetlink,  \* bound on messages read from the audit netlink socket
    MaxKernel,   \* bound on lines the kernel prints to its ring buffer itself
    MaxCrashes   \* bound on logd restarts

ASSUME Assumptions ==
    /\ Bugs # {}
    /\ MaxNetlink \in Nat /\ MaxKernel \in Nat /\ MaxCrashes \in Nat

\* The empty denial_metadata string: auditParse() found nothing.
NoMeta == "none"

\* What auditParse() can return for a denial.
Metas == Bugs \cup {NoMeta}

\* A line of the kernel ring buffer: whether it holds " audit(", the
\* metadata auditParse() finds in it, and the metadata appended after it.
Lines == [audit : BOOLEAN, parse : Metas, meta : Metas]

\* The string logPrint() formats for a denial.
Denials == [parse : Metas, hasMeta : BOOLEAN]

\* An entry logPrint() stored in logd's events or main buffer, with the
\* denial it came from and the metadata appended to it.
Entries == [buf : {"events", "main"}, parse : Metas, hasMeta : BOOLEAN,
            meta : Metas]

VARIABLES
    dmesgOn,        \* fdDmesg >= 0 (ro.logd.auditd.dmesg and /dev/kmsg open)
    mainOn,         \* LogAudit::main (ro.logd.auditd.main)
    eventsOn,       \* LogAudit::events (ro.logd.auditd.events)
    auditdOn,       \* ro.logd.auditd: a LogAudit exists
    klogdOn,        \* ro.logd.kernel: a LogKlog exists
    phase,          \* "boot", "dmesg" (main thread in readDmesg) or "listen"
    ring,           \* the kernel ring buffer
    toRead,         \* lines readDmesg() has still to hand on
    rcOk,           \* rc >= 0 in readDmesg()'s loop
    initialized,    \* LogAudit::initialized
    denialMetadata, \* static std::string denial_metadata of logPrint()
    listening,      \* the audit netlink socket is served by the listener
    logged,         \* history: the entries logPrint() stored in logd
    lastPrint,      \* history: result of the last logPrint() call
    netlinkCount, kernelCount, crashes

config == <<dmesgOn, mainOn, eventsOn, auditdOn, klogdOn>>
printVars == <<ring, denialMetadata, logged, lastPrint>>
counts == <<netlinkCount, kernelCount, crashes>>
vars == <<config, phase, toRead, rcOk, initialized, listening, printVars,
          counts>>

-----------------------------------------------------------------------------
(* Helpers *)

\* hasMetadata() of a ring line read back: the text ends in the bug
\* metadata LogAudit appended when it wrote the line.
Reload(l) == [parse |-> l.parse, hasMeta |-> l.meta # NoMeta]

\* The "logd.auditd: start" line the LogAudit constructor writes to dmesg.
StartLine == [audit |-> FALSE, parse |-> NoMeta, meta |-> NoMeta]

\* Lines the kernel prints itself: a denial while no audit daemon listens,
\* or any other kernel message.
KernelLines == {[audit |-> TRUE, parse |-> p, meta |-> NoMeta] : p \in Metas}
                  \cup {StartLine}

\* Mutant: logPrint() returns the last Log() call's rc, without the
\* correction for a denial that one buffer did take.
PrintResultNoNotify(evOk, mainOk) == IF mainOn THEN mainOk ELSE evOk

\* rc >= 0 at the end of logPrint(): rc is the last Log() call's result,
\* replaced by the message length when a buffer took the denial (notify).
PrintResult(evOk, mainOk) ==
    \/ IF mainOn THEN mainOk ELSE evOk
    \/ eventsOn /\ evOk
    \/ mainOn /\ mainOk

\* logPrint() of denial d, with `init` the value of LogAudit::initialized;
\* ok is whether it returns rc >= 0.  vasprintf() may fail.  With dmesg
\* on and initialized, denial_metadata is recomputed and the denial is
\* written to the ring buffer with it; otherwise denial_metadata is
\* recomputed only if the text has no metadata yet.  Then the denial goes
\* to the events and the main buffer, each Log() may refuse it, and a
\* negative rc is replaced by a length when one buffer took it.
LogPrint(d, init, ok) ==
    LET toDmesg == dmesgOn /\ init
        dm1 == IF toDmesg THEN d.parse ELSE denialMetadata
        dm2 == IF ~toDmesg /\ ~d.hasMeta THEN d.parse ELSE dm1
        Entry(b) == [buf |-> b, parse |-> d.parse, hasMeta |-> d.hasMeta,
                     meta |-> dm2]
    IN
    \/ /\ ok = FALSE
       /\ lastPrint' = [called |-> TRUE, ok |-> FALSE, accepted |-> 0]
       /\ UNCHANGED <<ring, denialMetadata, logged>>
    \/ /\ ring' = IF toDmesg
                     THEN Append(ring, [audit |-> TRUE, parse |-> d.parse,
                                        meta |-> d.parse])
                     ELSE ring
       /\ IF ~mainOn /\ ~eventsOn
             THEN /\ denialMetadata' = dm1 /\ ok = TRUE
                  /\ lastPrint' = [called |-> TRUE, ok |-> TRUE, accepted |-> 0]
                  /\ UNCHANGED logged
             ELSE \E evOk, mainOk \in BOOLEAN :
                    LET ev == eventsOn /\ evOk
                        mn == mainOn /\ mainOk
                        new == (IF ev THEN {Entry("events")} ELSE {})
                                 \cup (IF mn THEN {Entry("main")} ELSE {})
                    IN /\ denialMetadata' = dm2
                       /\ logged' = logged \cup new
                       /\ ok = PrintResult(evOk, mainOk)
                       /\ lastPrint' = [called |-> TRUE, ok |-> ok,
                                        accepted |-> (IF ev THEN 1 ELSE 0)
                                                     + (IF mn THEN 1 ELSE 0)]

\* LogAudit::log() of a ring line: only a line with " audit(" is printed,
\* any other returns 0.
AuditLog(l, ok) ==
    IF l.audit THEN LogPrint(Reload(l), initialized, ok)
               ELSE ok = TRUE /\ UNCHANGED printVars

-----------------------------------------------------------------------------
(* The boot of the device: logd not started yet; the ring buffer may hold *)
(* a line the kernel printed before.                                      *)

Init ==
    /\ dmesgOn \in BOOLEAN /\ mainOn \in BOOLEAN /\ eventsOn \in BOOLEAN
    /\ auditdOn \in BOOLEAN /\ klogdOn \in BOOLEAN
    /\ phase = "boot"
    /\ ring \in {<<>>} \cup {<<l>> : l \in KernelLines}
    /\ toRead = <<>>
    /\ rcOk = TRUE
    /\ initialized = FALSE
    /\ denialMetadata = NoMeta
    /\ listening = FALSE
    /\ logged = {}
    /\ lastPrint = [called |-> FALSE, ok |-> TRUE, accepted |-> 0]
    /\ netlinkCount = 0 /\ kernelCount = 0 /\ crashes = 0

-----------------------------------------------------------------------------
(* logd's main thread *)

\* main() up to readDmesg(): a fresh process (statics and LogAudit members
\* at their initial values); the LogAudit constructor writes its start line
\* to dmesg; readDmesg() returns at once without LogAudit and LogKlog, else
\* reads the whole ring buffer (klogctl may fail or find it empty).
Boot ==
    LET ring1 == IF auditdOn /\ dmesgOn THEN Append(ring, StartLine) ELSE ring
    IN
    /\ phase = "boot"
    /\ ring' = ring1
    /\ toRead' \in IF auditdOn \/ klogdOn THEN {ring1, <<>>} ELSE {<<>>}
    /\ phase' = "dmesg"
    /\ rcOk' = TRUE
    /\ initialized' = FALSE
    /\ denialMetadata' = NoMeta
    /\ listening' = FALSE
    /\ UNCHANGED <<config, logged, lastPrint, counts>>

\* One turn of readDmesg()'s loop: the line goes to LogAudit::log(), then
\* to LogKlog::log(), and rc is the result of the last of them.
ReadDmesgLine ==
    LET l == Head(toRead) IN
    /\ phase = "dmesg" /\ rcOk /\ toRead # <<>>
    /\ toRead' = Tail(toRead)
    /\ \E alOk, klOk \in BOOLEAN :
          /\ IF auditdOn THEN AuditLog(l, alOk) ELSE UNCHANGED printVars
          /\ rcOk' = IF klogdOn THEN klOk ELSE alOk
    /\ UNCHANGED <<config, phase, initialized, listening, counts>>

\* readDmesg() ends when the ring buffer is done or rc < 0, and the lines
\* it did not reach are never logged; then the listeners start (LogAudit's
\* startListener() may fail, and the LogAudit is deleted).
ReadDmesgEnd ==
    /\ phase = "dmesg" /\ (toRead = <<>> \/ ~rcOk)
    /\ toRead' = <<>>
    /\ phase' = "listen"
    /\ \E started \in BOOLEAN : listening' = (auditdOn /\ started)
    /\ UNCHANGED <<config, rcOk, initialized, printVars, counts>>

-----------------------------------------------------------------------------
(* LogAudit's listener thread *)

\* onDataAvailable(): set initialized, read one audit message; when
\* audit_get_reply() fails it returns false and the listener drops the
\* netlink socket.  A message fresh from the kernel has no metadata yet.
AuditReceive ==
    /\ phase = "listen" /\ listening /\ netlinkCount < MaxNetlink
    /\ initialized' = TRUE
    /\ netlinkCount' = netlinkCount + 1
    /\ \/ /\ listening' = FALSE
          /\ UNCHANGED printVars
       \/ /\ \E p \in Metas, ok \in BOOLEAN :
                LogPrint([parse |-> p, hasMeta |-> FALSE], TRUE, ok)
          /\ UNCHANGED listening
    /\ UNCHANGED <<config, phase, toRead, rcOk, kernelCount, crashes>>

-----------------------------------------------------------------------------
(* Environment: the kernel and init *)

\* The kernel prints a line itself; an audit denial only while no audit
\* daemon reads the netlink socket.
KernelPrint ==
    /\ kernelCount < MaxKernel
    /\ \E l \in KernelLines :
          /\ l.audit => ~(phase = "listen" /\ listening)
          /\ ring' = Append(ring, l)
    /\ kernelCount' = kernelCount + 1
    /\ UNCHANGED <<config, phase, toRead, rcOk, initialized, denialMetadata,
                   listening, logged, lastPrint, netlinkCount, crashes>>

\* logd dies and init starts it again; the ring buffer survives.
Crash ==
    /\ phase # "boot" /\ crashes < MaxCrashes
    /\ phase' = "boot"
    /\ toRead' = <<>>
    /\ listening' = FALSE
    /\ crashes' = crashes + 1
    /\ UNCHANGED <<config, rcOk, initialized, printVars, netlinkCount,
                   kernelCount>>

Next ==
    \/ Boot \/ ReadDmesgLine \/ ReadDmesgEnd \/ AuditReceive
    \/ KernelPrint \/ Crash

Spec == Init /\ [][Next]_vars

-----------------------------------------------------------------------------
(* Properties *)

TypeOK ==
    /\ {dmesgOn, mainOn, eventsOn, auditdOn, klogdOn} \subseteq BOOLEAN
    /\ phase \in {"boot", "dmesg", "listen"}
    /\ ring \in Seq(Lines) /\ toRead \in Seq(Lines)
    /\ rcOk \in BOOLEAN /\ initialized \in BOOLEAN /\ listening \in BOOLEAN
    /\ denialMetadata \in Metas
    /\ logged \subseteq Entries
    /\ lastPrint \in [called : BOOLEAN, ok : BOOLEAN, accepted : 0 .. 2]
    /\ netlinkCount \in Nat /\ kernelCount \in Nat /\ crashes \in Nat

\* logPrint()'s result tells its caller whether the denial was stored:
\* with the events or main buffer enabled it is negative exactly when no
\* buffer took the denial.  With klogd off, readDmesg() stops replaying
\* the ring buffer on a negative result of LogAudit, so a wrong sign either
\* stops it after a denial that was logged or lets it go on past one that
\* was lost.
LogPrintResult ==
    lastPrint.called /\ (mainOn \/ eventsOn)
      => (lastPrint.ok <=> lastPrint.accepted > 0)

\* Every audit entry logd stores carries the bug metadata of its own
\* denial, and a denial whose text already ends in metadata (a line that
\* LogAudit wrote to dmesg before logd restarted, replayed by readDmesg())
\* gets none appended again, as the comment of hasMetadata() intends.
MetadataOwn ==
    \A e \in logged : e.meta = IF e.hasMeta THEN NoMeta ELSE e.parse

=============================================================================
