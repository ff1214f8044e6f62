----------------------------- MODULE MC_LogAudit -----------------------------
(* LogAudit with two bug numbers as model values. *)
EXTENDS LogAudit, TLC

CONSTANTS b1, b2

MCBugs == {b1, b2}

\* The two bug numbers are interchangeable.
MCSymmetry == Permutations(MCBugs)

=============================================================================
