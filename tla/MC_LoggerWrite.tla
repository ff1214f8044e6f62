---------------------------- MODULE MC_LoggerWrite ----------------------------
(* Model-checking instance of LoggerWrite: client threads as model values. *)
EXTENDS LoggerWrite, TLC

CONSTANTS t1, t2

\* Two client threads.
MCThreads == {t1, t2}

\* One log id of each kind write_to_log and write_log_message tell apart:
\* DEFAULT (passed by write_log_message, mapped to MAIN by the logd logger,
\* so it stands for MAIN, SYSTEM, RADIO and CRASH as well), EVENTS, STATS,
\* SECURITY and KERNEL.
MCCallBufs == {"default", "events", "stats", "security", "kernel"}

\* Threads are interchangeable.
MCSymmetry == Permutations(MCThreads)
=============================================================================
