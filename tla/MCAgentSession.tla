-------------------------- MODULE MCAgentSession ---------------------------
(* Two sessions, two apply-rollback requests, which may name the same session *)
(* and the same message, and a fork.  Sessions are alike, and so are the      *)
(* apply requests; only safety is checked, so that symmetry is sound.         *)
EXTENDS AgentSession, TLC

CONSTANTS main, copy, a1, a2

MCSession == {main, copy}
MCApply == {a1, a2}
MCFork == {"f1"}
MCSymmetry == Permutations(MCSession) \cup Permutations(MCApply)
=============================================================================
