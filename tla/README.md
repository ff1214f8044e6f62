# TLA+ models of system_logging

This directory holds TLA+ models of the parts of this repository whose behaviour
depends on concurrency, failures and ordering. It also holds the TLC
configurations that check them and the TLAPS proofs about them.

## The system and its parts

The repository is an excerpt of Android's logging stack:

| Part | Source | What it does |
|---|---|---|
| liblog logd writer | `src/liblog/logd_writer.cpp` (lines 1-205) | `LogdWrite()` sends one record to logd as a datagram on `/dev/socket/logdw`. Two lazily created `LogdSocket` singletons hold the socket: a blocking one for the security log and a non-blocking one for the others. A process-wide `atomic_int dropped` counts the records that could not be sent, and the next call reports that count to logd as a drop event. |
| liblog front end | `src/liblog/logger_write.cpp` | This is the public API (`__android_log_write`, `__android_log_bwrite`, ...). `__android_log_write_log_message` filters buffers, fills in the default tag and calls the installed logger. `write_to_log()` rejects the kernel log, checks permissions for the security log and checks the event payload length before it calls `LogdWrite()`. `__android_log_close()` calls `LogdClose()`. |
| liblog symbol map | `src/liblog/logd_writer.cpp` (lines 206-303) | The linker version script. |
| logd audit reader | `src/logd/LogAudit.cpp`, `src/unnamed/part_001` (`LogAudit.h`) | It reads SELinux denials from the audit netlink socket. It appends bug metadata taken from the bug maps and writes each denial to `/dev/kmsg` and to logd's events and main buffers. |
| logd start-up | `src/logd/main.cpp` | `main()` starts the listeners. `readDmesg()` first replays the kernel ring buffer through `LogAudit::log()` and `LogKlog::log()`. `issueReinit()` sends `reinit` to a running logd. |
| logpersist | `src/unnamed/part_000` | A shell tool that starts and stops the persistent logcat service through system properties. |
| Rust liblogger | `src/rust/Android.bp` | Build rules only. |

The parts interact in three ways:
- Client processes' threads call the front end, which calls `LogdWrite()`.
- `LogdWrite()` writes datagrams to logd's socket, and logd reads them, can crash, and is restarted by init.
- After a restart, logd's `readDmesg()` replays what `LogAudit` wrote to `/dev/kmsg` before the crash.

The log store, its readers, statistics, prune list and tag registry (`spec.md` sections 4.1-4.8) are not in this repository.

## Modules

### `LogdWriter.tla`: the client write path

This module models the whole of `LogdWrite()`, `LogdSocket` and `LogdClose()` for a set `Threads` of client threads.

- **State.** Each state variable corresponds to code:
  - `sock` is the two `sock_` atomics.
  - `openFds` is the descriptors the process holds open, and `nextFd` is the next descriptor `socket()` returns.
  - `connected` is the set of sockets connected to the current logd instance.
  - `dropped` is the static `atomic_int`, kept in two's complement with `DropHalf = 2^(w-1)`.
  - Each thread has a program counter `pc`, its `logId` argument, the `new_socket` of `GetSocket()` (`newSock`) and its `snapshot` of `dropped`.
  - `queue` is logd's socket receive queue, bounded by `QueueCap`.
  - `logdUp` says whether logd is running.
- **Actions.** A call is cut at the points where it touches state that other threads see:
  - `Call` starts a call.
  - `GetSocket` is `sock()` and `GetSocket()` up to the compare-and-exchange, including the `socket()` failure path that returns `-EBADF`.
  - `CasSock` is `compare_exchange_strong`, where the loser closes its socket.
  - `ExchangeDropped` is `atomic_exchange(&dropped, 0)` together with the "liblog" loggability check.
  - `DropSend` is the drop event's `writev` and the add-back when it fails.
  - `Send` is the record's `writev`: EAGAIN counts the record as dropped, and any other error moves to `Reconnect`.
  - `Resend` is the second `writev`.
  - `Close` is `LogdClose()`. The code says it runs single threaded, so its guard is that no call is in progress.
  - The logd side is environment, modelled from the spec: `LogdRead` takes a datagram, `LogdCrash` loses the queue and every connection, and `LogdRestart` brings logd back.
- **History variables.** Four history variables record the fate of every lost record: `failed`, `discarded`, `logdRead` and `crashLost`.
- **Abstraction.** Payloads are abstracted to the datagram's kind (record with its log id, or drop event with its count). Payload truncation at 170-183 and the header are formatting.

### `LogdWriteAbs.tla`: what `LogdWrite()` promises

This is the abstract specification of the write path, with no sockets and no shared counter. A thread's call is `idle`, in `call` or in `record`:
- in `call`, it may give up without a trace (`Quit`: no socket, or the caller is logd itself), report earlier losses with one drop event of non-zero count (`Report`), or go on (`Proceed`);
- in `record`, it delivers its own record once into logd's queue (`Deliver`), or counts it as lost (`Lose`).

logd reads, crashes and restarts as in `LogdWriter`. The log ids are a constant `LogIds`, so the front end can use the module with its own ids.

**Refinement.** `LogdWriter` defines `AbsStage`, which maps its program counter to the stages:
- `getsock`, `cas`, `exchange` and `dropsend` map to `call`;
- `send`, `reconnect` and `resend` map to `record`.

With `Abs == INSTANCE LogdWriteAbs WITH pc <- [t \in Threads |-> AbsStage(pc[t])]`, every other variable maps to itself. The `logdwriter_safety` run checks `AbsSpec == Abs!Spec` as a property. `LogdWriter_refinement.tla` proves it for every value of the constants.

### `LoggerWrite.tla`: the front end

This module models `logger_write.cpp` for a set `Threads` of threads of one process. It is composed with `LogdWriteAbs` (`W == INSTANCE LogdWriteAbs WITH pc <- wpc, logId <- wlogId, LogIds <- WriteIds`), so `LogdWrite()` is its contract, not its implementation.

- **State.** Each thread has:
  - `fpc`: `idle`, `logger` (the message is built and the logger was read), `writer` (inside `LogdWrite()`) or `abort`;
  - its message: `msgBuf` (its `buffer_id`), `msgTag` (`OwnTag`, or the generation of the default tag's buffer it points at) and `msgLogger` (the `logger_function` it read);
  - `asserting`, for a call of `__android_log_assert`.

  The process has:
  - `loggerFn`, the static `logger_function`;
  - `defaultTag`, the generation of `GetDefaultTag()`'s buffer;
  - `permitted`, the result of `check_log_uid_permissions()`, fixed per process because the ids it reads do not change while the process logs;
  - `fileLogger`, whether `ro.log.file_logger.path` is set;
  - `aborted`.

  A `WriteIds` value is the log id `LogdWrite()` is called with, together with how `vec[0]` frames it: `text` is the one-byte priority, `binary` is the 4-byte event tag.
- **Actions.**
  - `BufWrite` covers `__android_log_buf_write` and its `write`/`print`/`vprint`/`buf_print` variants. `__android_log_is_loggable`, which is not in this repository, is a free choice; the call then goes to `WriteLogMessage`.
  - `WriteLogMessage` is `__android_log_write_log_message`. It applies the buffer filter, substitutes the default tag for a missing one, and reads `logger_function`.
  - `LogdLoggerCall` is a direct call of the public `__android_log_logd_logger` with any buffer id.
  - `RunLogger` runs the logger the message got. The stderr, custom and file loggers print and return. The logd logger maps DEFAULT to MAIN and calls `WriteToLog` with a text frame.
  - `BinaryWrite` covers the six binary writers, with a binary frame and their fixed log ids.
  - `WriteToLog` is `write_to_log`. Its `Rejected` part is the kernel, security and event-length gates. `__android_log_security()` is a free choice. `PmsgWrite` is not in this repository and is left out.
  - `WriterStep` is a step of `W` (`Quit`, `Report`, `Proceed`, `Deliver`, `Lose`). `Finish` returns from the call once `LogdWrite()` has returned.
  - `LogAssert` logs a FATAL message to MAIN. `Return` then sends the thread to `abort`, and `Abort` ends the process.
  - `SetDefaultTag` is `__android_log_set_default_tag`: an `assign` that rewrites the buffer or frees it.
  - `SetLogger` is `__android_log_set_logger`: a plain store.
  - `Logd` is logd reading, crashing and restarting.

### `LoggerWriteAbs.tla`: what the front end promises

This is the contract of `logger_write.cpp` towards `LogdWrite()` and logd, with no messages, tags or loggers. A thread is `idle`, `busy` in an API call, inside that call's `LogdWrite()` (`writer`), or about to `abort`. The process has `permitted` (the result of `check_log_uid_permissions()`), `aborted` and a count of API calls. `LogdWrite()` is `LogdWriteAbs` with the log ids `WriteIds`.
- `Start`: an API call begins. It may return or abort at once, stay busy (a logger is to run), or hand its record to `LogdWrite()` at once (`Hand`).
- `Serve`: a busy call returns, or hands its record on.
- `Hand` begins `LogdWrite()` only with an id of `ClientIds(permitted)`: a partition clients write (never DEFAULT or KERNEL), framed with a 4-byte tag exactly for events, stats and security, and security only if `permitted`.
- `Write` is a step of that `LogdWrite()`; `Finish` returns once it has returned.
- `Abort` ends the process; after it no thread moves.
- `Logd`: logd reads, crashes and restarts.

So an API call hands `LogdWrite()` at most one record, and only one that logd accepts from this process.

**Refinement.** `LoggerWrite` defines `Client == INSTANCE LoggerWriteAbs`, with a thread running its logger (`fpc = "logger"`) mapped to `busy` and every other variable mapped to itself. `ClientContract == Client!Spec` is a property of the `loggerwrite_safety` run, and `LoggerWrite_refinement.tla` proves it for every value of the constants.

### `MC_LogdWriter.tla`, `MC_LogAudit.tla`, `MC_LoggerWrite.tla`

`MC_LogdWriter` instantiates `LogdWriter` with two model-value threads and symmetry over them. `MC_LogAudit` instantiates `LogAudit` with two model-value bugs and symmetry over them. `MC_LoggerWrite` instantiates `LoggerWrite` with two threads under symmetry. Its callers pass one log id of each kind the code tells apart: DEFAULT (which stands for MAIN, SYSTEM, RADIO and CRASH, since all take the same path), EVENTS, STATS, SECURITY and KERNEL.

### `LogAudit.tla`: the audit reader and the ring-buffer replay

This module models `LogAudit` (`src/logd/LogAudit.cpp`) together with the parts of `main()` and `readDmesg()` (`src/logd/main.cpp`) that drive it across a logd restart.

- **State.**
  - The five ro.logd switches are chosen in `Init`: dmesg writing (`dmesgOn`), the main and events buffers, auditd and klogd.
  - `ring` is `/dev/kmsg`. It outlives logd.
  - `phase` is where logd's main thread is: `boot`, in `readDmesg()` (`dmesg`) or after it (`listen`).
  - `toRead` and `rcOk` are `readDmesg()`'s buffer and its `rc >= 0`.
  - `initialized` and `denialMetadata` are `LogAudit::initialized` and the static `denial_metadata` of `logPrint()`.
  - `listening` says the netlink listener is running.
  - History variables: `logged` holds the entries stored in the events and main buffers, and `lastPrint` holds the last `logPrint()` result.
- **Abstraction.** A denial is abstracted to its `auditParse()` result (a bug from `Bugs`, or none) and to whether `hasMetadata()` holds. A dmesg line records whether it contains " audit(", the denial's parse and the metadata appended to it. Text formatting, pid and uid extraction, and the time rewrite are left out.
- **Actions.**
  - `Boot` is a fresh process: the statics are reset, the constructor writes its start line to dmesg, and `readDmesg()` takes the ring buffer, or nothing when `klogctl` fails.
  - `ReadDmesgLine` is one turn of `readDmesg()`'s loop, through `LogAudit::log()` (`AuditLog`) and `LogKlog::log()`. `LogKlog::log()` is not in this repository, so its result is free.
  - `ReadDmesgEnd` ends the loop on an empty buffer or `rc < 0`, and starts the listener, which may fail.
  - `AuditReceive` is `onDataAvailable()`. It sets `initialized`, then either `audit_get_reply()` fails and the listener stops, or the denial goes to `LogPrint`.
  - `LogPrint` is all of `logPrint()`: the dmesg write and the recomputation of `denial_metadata`, the events and main `Log()` calls, each of which may fail, and `rc` with its `notify` correction.
  - Environment, modelled from the spec: `KernelPrint` (the kernel prints a denial while no auditd reads netlink) and `Crash` (logd dies and init restarts it).
- **Concurrency.** `logPrint()` runs on the main thread during `readDmesg()` and on the listener thread afterwards, never at once. So each call is a single step.

### `LogdWriter_proofs.tla`, `LogdWriter_refinement.tla`, `LogAudit_proofs.tla`, `LoggerWrite_proofs.tla`, `LoggerWrite_refinement.tla`

These modules hold the TLAPS proofs. Each extends the module it is about, or an earlier proof module, and `TLAPS`. They are described below.

## Runs

| Run | Config | Expect | Properties |
|---|---|---|---|
| `logdwriter_safety` | `MC_LogdWriter.cfg` | pass | `TypeOK`, `SocketOwnership`, `DropAccounting`, `AbsSpec`, `SocketStable` |
| `logdwriter_liveness` | `MC_LogdWriter_live.cfg` | pass | `MainCallsReturn` |
| `loggerwrite_safety` | `MC_LoggerWrite.cfg` | pass | `WellFramed`, `SecurityGate`, `ClientContract` |
| `loggerwrite_default_tag` | `MC_LoggerWrite_tag.cfg` | violation | `TagLive` |
| `logdwriter_drop_overflow` | `MC_LogdWriter_overflow.cfg` | violation | `DropReportsPositive` |
| `logaudit_safety` | `MC_LogAudit.cfg` | pass | `LogPrintResult` |
| `logaudit_replay_metadata` | `MC_LogAudit_replay.cfg` | violation | `MetadataOwn` |

- **`SocketOwnership`.** The threads race to create the `LogdSocket`s, and `LogdClose()` runs between calls. Across those races:
  - every open descriptor is installed, or is the new socket of a thread about to compare-and-exchange it;
  - an installed socket is open;
  - the blocking and non-blocking `LogdSocket` never share a descriptor.

  The mutant `CasSockNoClose` drops the loser's `close()`, and TLC then finds a leaked socket.
- **`DropAccounting`.** Every record counted as dropped is accounted for exactly once, modulo `2 * DropHalf`. It is in `dropped`, in a thread's snapshot, or in a drop event that is queued, read by logd or lost in a crash, or it was discarded because "liblog" was not loggable. This has to hold however the threads interleave their exchange, their failed drop events and their add-backs with logd crashes. The mutant `DropSendNoAddBack` forgets the add-back and breaks it.
- **`AbsSpec` (refinement).** Every behaviour of `LogdWriter` is one of `LogdWriteAbs`. A call reports earlier losses only with a non-zero count, in at most one drop event, and then delivers or loses its record exactly once. The mutant `ExchangeDroppedNoZeroCheck` sends a drop event even when the exchanged count is 0, and this breaks the refinement.
- **`SocketStable` (action property).** `LogdWrite()` calls `logd_socket.sock()` again for each of its `writev()` calls (logd_writer.cpp:164, 187, 191), so it re-reads `sock_` each time. No step may change the socket of a call that is past `sock()`, whatever the other threads do in the meantime: losing the compare-and-exchange, opening the other `LogdSocket`, or reconnecting. The mutant `CasSockOverwrite` replaces the compare-and-exchange with a plain store. TLC then finds a second thread that replaces the first thread's socket while the first is between its writes.
- **`MainCallsReturn` (liveness).** Every call on the non-blocking (non-security) socket returns. This holds under weak fairness of each thread's steps (`FairSpec`) and with no fairness for logd, which may stop reading, crash or stay down. The fairness is what the kernel gives a runnable thread. Nothing in the code makes logd read, so nothing is assumed of it. Symmetry is off in this run. Security calls are excluded: with the property stated for them too, TLC finds a security writer blocked for ever in `writev` on a full queue. The blocking socket at logd_writer.cpp:44-50 does exactly that. The mutant `SockKindAllBlocking` gives every log the blocking socket and breaks the property.
- **`TypeOK`.** Besides the types, it says that `dropped` stays in the atomic_int range. The mutant `WrapUnsigned` makes it unsigned and breaks it.
- **Violation run.** `DropReportsPositive` is the intent of the drop event: it reports how many records were lost. With `DropHalf = 2`, two failed records and two failed drop events make the counter wrap to a negative value, which is then sent. In the code this takes 2^31 losses without one successful drop event. Possible causes are a logd that stays overloaded, or a "liblog" tag that is loggable only some of the time.

**Bounds.** The runs use:
- 2 threads, which is enough for every race on the shared `sock_` and `dropped`;
- 3 calls, so that one thread can do two calls around the other's;
- a queue of 1 datagram, so EAGAIN happens on the second write;
- 1 crash, which exercises reconnect and loss of the queue;
- `DropHalf = 2`, so the wrap is reachable in the depth the calls allow.

Together the runs fire every action and every disjunct. Deadlock is checked.
It never occurs, because `LogdClose()` may be called whenever no call is in
progress, as in the code.

**Front-end runs.**
- **`WellFramed`.** This is the ingest framing from the spec: every record the library gets to logd names a partition a client may write (never DEFAULT or KERNEL), with a 4-byte event tag exactly for events, stats and security. It must hold over every API entry. This includes the public logd logger handed a text message for EVENTS or SECURITY, a logger swapped by another thread, and logd crashing. Three guards keep it:
  - the buffer filter of `write_log_message`;
  - the DEFAULT-to-MAIN mapping of the logd logger;
  - the `vec[0]` length checks of `write_to_log`.

  The mutant `RejectedNoStatsCheck` checks only EVENTS in the events/stats branch, and TLC then finds a text record on the stats partition.
- **`SecurityGate`.** logd receives a security record from the process only if `check_log_uid_permissions()` accepts it. The mutant `RejectedNoUidCheck` skips the check and breaks it.
- **`ClientContract` (refinement).** Every behaviour of the front end is one of `LoggerWriteAbs`: each API call hands `LogdWrite()` at most one record, only with a client id framed as logd expects, and nothing moves after `abort()`. Unlike `WellFramed`, it is about the call to `LogdWrite()` itself, not only what reaches logd. The mutant `RejectedNoKernelCheck` drops the `LOG_ID_KERNEL` check of `write_to_log`. TLC then finds a `LogdWrite()` call on the kernel log at depth 3, before any datagram is sent.
- **`TagLive` (violation).** While a message that took the default tag is being logged, the default tag's buffer must stay the one it points at. TLC finds a 3-step counterexample:
  1. Thread 1 calls `__android_log_buf_write` with a null tag, and `write_log_message` stores `GetDefaultTag().c_str()`.
  2. Thread 2 calls `__android_log_set_default_tag`, whose `assign` rewrites the buffer or frees it (logger_write.cpp:157, with no lock).
  3. Thread 1's logger then runs `strlen`, and `LogdWrite()` runs `writev`, on that memory.

**Bounds for `LoggerWrite`.** The runs use 2 threads and 2 API calls, 1 `set_default_tag`, a queue of 1 datagram, 1 logd crash and `DropHalf = 1`. Each property needs only one call and a racing step of the other thread. The second call lets two writers interleave with each other. `set_logger` is unbounded because it only cycles through three values. These runs set `CHECK_DEADLOCK FALSE`: after `__android_log_assert`, `abort()` ends the process, and no client step remains.

- **`LogPrintResult`.** `readDmesg()` stops at the first negative result of the last handler. With klogd off that handler is `LogAudit`, so `logPrint()`'s sign must say whether any buffer took the denial. With klogd on, `LogKlog::log()` decides, and its result is free in the model. `rc` is the last `Log()` call's result, corrected by `notify`. The mutant `PrintResultNoNotify` drops the correction, and TLC finds a denial stored in events whose main write failed reported as lost.
- **`MetadataOwn` (violation).** Every stored entry should carry its own denial's metadata, and none should be appended to text that already has some. The `hasMetadata()` comment says this is why the check exists. TLC finds a 9-step counterexample:
  1. A denial is logged and written to dmesg with its bug.
  2. logd crashes.
  3. The replay first meets an earlier kernel-printed line of the same denial, which sets `denial_metadata`.
  4. The replay then reaches the line with metadata. `hasMetadata()` holds, so `auditParse()` is skipped, but the stale `denial_metadata` is appended anyway (LogAudit.cpp:282-302).

**Bounds for `LogAudit`.** The runs use:
- two bug values under symmetry, so that stale and own metadata can differ;
- one netlink message, one kernel-printed line and one initial ring line, so the ring holds a mix of lines with and without metadata;
- one crash, which is what makes a replay see lines LogAudit wrote.

Every switch combination is an initial state. These runs set `CHECK_DEADLOCK FALSE`, because logd really does stop. After the listeners start, `main()` blocks in `pause()`, and once the bounded environment (messages, kernel lines, crashes) is used up, no step remains.

No fairness is assumed for `LogAudit`, and only safety is checked. The only fairness in the project is that of `MainCallsReturn`.

## Proofs (`LogdWriter_proofs.tla`)

The three theorems are checked by `tlapm`. They hold for every finite non-empty `Threads` and every value of the bounds that satisfies `Assumptions`.

- **`TypeCorrect`: `Spec => []TypeOK`.** `TypeOK` alone is not inductive. `Reconnect` adds `Fd(t)` to `connected`, so typing needs the fact that a thread past `sock()` has an installed socket. That fact is `HoldsSocket`, which also says that a thread at the compare-and-exchange holds a real descriptor. The proof has several parts:
  - `TypeStep` shows that `TypeOK /\ HoldsSocket` and one step give `TypeOK'`, with one step per action.
  - `HoldsStep` shows that the same step keeps `HoldsSocket`, using the lemma `UserStep` for the five actions after `sock()`.
  - `WrapInRange` shows that the two's-complement wrap stays in range.
- **`SocketsOwned`: `Spec => []SocketOwnership`.** The inductive invariant is `TypeOK /\ HoldsSocket /\ SocketOwnership /\ FreshSockets`. `FreshSockets` says:
  - the socket of a thread at the compare-and-exchange is open and installed nowhere;
  - no two such threads hold the same socket;
  - every open descriptor is below `nextFd`, because `socket()` returns a fresh descriptor.

  The lemmas are:
  - `QuietStep` covers steps that change no socket;
  - `OpenStep` covers `socket()`;
  - `CasStep` covers both outcomes of the compare-and-exchange, proving each conjunct of `SocketOwnership` separately: the winner's socket becomes installed, and the loser closes only the socket that no other thread holds;
  - `OwnStep` combines them per action.
- **`SocketStableSound`: `Spec => SocketStable`.** It rests on `TypeOK /\ HoldsSocket`. The lemma `StableStep` shows that neither the log id nor the `sock_` slot of a thread past `sock()` changes in one step:
  - `Call` needs an idle thread;
  - the compare-and-exchange of another thread fills only an empty slot, and `HoldsSocket` says this thread's slot is filled;
  - `Close` needs every thread idle.

## Proofs (`LogdWriter_refinement.tla`)

**`Refinement`: `Spec => AbsSpec`**, where `AbsSpec` is `LogdWriteAbs`'s `Spec` under the mapping `AbsStage`. It holds for the same constants as above. The proof follows the usual layout: an invariant, `Init => Abs!Init`, and a step lemma `RefineStep` (each step of `Next` is a step of `Abs!Next` or leaves the abstract variables unchanged), combined by PTL.

The invariant is `TypeOK /\ HoldsSocket /\ RefInv`. `RefInv` holds two facts that the mapping needs, and TLC checked it on the `logdwriter_safety` instance before it was proved:
- `LogdConnections`: no socket is connected while logd is down. `LogdCrash` disconnects everything, and `GetSocket` and `Reconnect` connect only to a running logd. So a `writev()` that succeeds (`WriteOk`) meets the abstract `Room`, which asks that logd is up (lemma `WriteRoom`).
- `DropPending`: a thread about to write the drop event holds a non-zero snapshot, because of the `snapshot &&` test. So the event is an abstract `Report` with a count in `DropRange \ {0}`.

The lemmas `ToStutter`, `ToQuit`, `ToProceed`, `ToReport`, `ToDeliver` and `ToLose` build each kind of abstract step from one thread's step, using `ThreadMove` (only that thread's abstract stage moves). `RefineStep` then has one case per action:
- `Call` maps to `Begin`.
- `GetSocket` and `CasSock` map to `Quit` when `sock()` fails or the caller is logd, and otherwise to a stutter.
- `ExchangeDropped` maps to `Proceed`, or to a stutter when it goes on to the drop event.
- `DropSend` maps to `Report` or `Proceed`.
- `Send` and `Resend` map to `Deliver` or `Lose`; the failed first `writev()` and `Reconnect` map to stutters.
- `Close` maps to a stutter.
- The logd actions map to themselves.
## Proofs (`LogAudit_proofs.tla`)

Both theorems hold for every non-empty `Bugs` and every value of the bounds.

- **`TypeCorrect`: `Spec => []TypeOK`.**
- **`PrintResultSound`: `Spec => []LogPrintResult`.**

The inductive invariant for both is `IInv == TypeOK /\ LogPrintResult`. `LogPrintResult` speaks only about the last `logPrint()` call. Every step either makes a new call, which re-establishes it, or leaves `lastPrint` and the switches alone. The proof has these parts:
- `PrintStep` does the work: one `logPrint()` keeps the types and leaves a result whose sign matches whether a buffer took the denial. The argument is by cases: `vasprintf()` fails, both buffers are off, or some choice of `Log()` outcomes.
- `DenialsOf` and `LinesOf` say that the denials and lines the actions build are well typed.
- `IInvStep` has one step per action. Each step proves `TypeOK'` and `LogPrintResult'` separately.

`TypeOK` is not in the `logaudit_safety` run: no plausible bug of the code breaks it, and it is proved here.

**TLC only.**
- Liveness (`MainCallsReturn`) is checked with TLC only, because the provers do not handle fairness or `ENABLED`.
- `DropAccounting` is checked with TLC only. It sums the snapshots and the drop events with `SumFunction` of the `Functions` module, a fold over a `CHOOSE`-ordered recursion on subsets. Its step lemmas (the sum after `EXCEPT`, `Append`, `Tail` and `\o`) need induction over finite sets and sequences. The library states that induction only with an operator parameter, which the installed provers cannot instantiate.

## Proofs (`LoggerWrite_proofs.tla`)

The three theorems hold for every set of threads, every set of log ids the callers pass (a subset of `LogBufs`), and every value of the bounds.

- **`FramingSound`: `Spec => []WellFramed`.**
- **`SecurityGateSound`: `Spec => []SecurityGate`.**

Neither property is inductive, because a record reaches logd with the log id its writer thread holds. The inductive invariant `IInv` says that:
- every id in `wlogId` is good (`GoodId`: a client partition, framed to match, and security only if `permitted`);
- every record in logd's queue, in what logd read and in what it lost in a crash is good (`RecOK`);
- `msgBuf` and the sequences are typed, so that the logd logger is handed `log_id_t` values.

TLC checks `IInv` on the `loggerwrite_safety` instance. The proof has these parts:
- lemmas on `Append`, `Tail` and `\o` of good sequences (`RecAppend`, `RecTail`, `RecConcat`, `RecEmpty`, `RecElems`);
- `WriteToLogStep`: a refused call, or a `LogdWrite()` begun with a good id;
- `WriterIInv` and `LogdIInv`: the steps of `W`;
- `IInvStep`: one case per action.

- **`TypeCorrect`: `Spec => []TypeOK`.** `TypeOK` is inductive by itself. The proof splits it into three parts: the message fields of a call (`MsgTypeOK`), the `LogdWrite()` state (`WriterTypeOK`) and the process-wide settings (`GlobalTypeOK`). The lemmas `ReturnMsgType`, `WriteLogMessageMsgType` and `WriteToLogType` cover the three helpers that the API actions share, and `TypeStep` has one case per action. `TypeOK` is not in a run: it is proved here, and no plausible bug of the code breaks it without breaking `WellFramed` first.

## Proofs (`LoggerWrite_refinement.tla`)

**`ClientRefinement`: `Spec => ClientContract`.** It holds for the same constants as the `LoggerWrite` theorems. The invariant it needs is `TypeOK` alone, proved by `TypeCorrect`. The contract's id check is about the step that begins `LogdWrite()`, not about stored state. The other parts are:
- `ClientInit`: the initial states map to initial states of `LoggerWriteAbs`.
- `ClientStep`: each step is a step of `Client!Next` or leaves the contract's variables alone. It combines one lemma per action:
  - `BufWrite`, `LogAssert`, `LogdLoggerCall` and `BinaryWrite` map to `Start`;
  - `RunLogger` maps to `Serve`;
  - `WriterStep` maps to `Write`;
  - `Finish`, `Abort` and `Logd` map to themselves;
  - `SetDefaultTag` and `SetLogger` map to stutters.

These lemmas rest on a few smaller ones:
- `PcMove` and `MoveTo`: a step of one thread moves only its abstract stage.
- `ReturnLeave`: a returning call `Leave`s, either to `idle` or to `abort`.
- `WriteLogMessageClient`: `write_log_message` returns, or leaves the call busy.
- `HandStep` and `WriteToLogClient`: `write_to_log` refuses the call, or it is a `Hand`.
- `TextId` and `BinaryId`: the id `write_to_log` lets through is in `ClientIds(permitted)`. These lemmas carry the code's argument: DEFAULT is mapped to MAIN, and KERNEL, text-framed binary logs and an unpermitted security log are refused.

## Not modelled yet, and the plan

1. **liblog front end, the rest.** `set_minimum_priority`/`get_minimum_priority` and `set_aborter` are not modelled. Their only reader (`__android_log_is_loggable`) is not in this repository, and with either aborter the process aborts. The race between `__android_log_close()` and a running call is excluded by `Close`'s guard, as the code's comment requires.
2. **Out of reach.**
   - `issueReinit()` and logpersist talk to components that are not in this repository.
   - The stderr and file loggers are formatting.
