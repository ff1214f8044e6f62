---------------------------- MODULE MC_LogdWriter ----------------------------
(* Model-checking instance of LogdWriter: client threads as model values.  *)
EXTENDS LogdWriter, TLC

CONSTANTS t1, t2

\* Two client threads.
MCThreads == {t1, t2}

\* Threads are interchangeable.
MCSymmetry == Permutations(MCThreads)
=============================================================================
