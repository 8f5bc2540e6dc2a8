---------------------------- MODULE MCCrashStash ----------------------------
(* Model-checking instance of CrashStash: small pages, so that a write of  *)
(* three bytes crosses a page boundary and MAXSIZE falls inside a page.    *)
EXTENDS CrashStash, TLC

CONSTANTS t1, t2

MCTask == {t1, t2}

Symmetry == Permutations(MCTask)

=============================================================================
