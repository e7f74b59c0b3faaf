---------------------------- MODULE MCSupervisor ----------------------------
(* Small instances of the supervisor for TLC.                              *)
EXTENDS Supervisor, TLC

CONSTANTS s1, s2, j1, j2

SessionSymmetry == Permutations(Sessions)
=============================================================================
