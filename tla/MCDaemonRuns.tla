---------------------------- MODULE MCDaemonRuns ----------------------------
(* Small instances of DaemonRuns for TLC.  Jobs, runs and clients are alike. *)
EXTENDS DaemonRuns, TLC

CONSTANTS j1, j2, r1, r2, c1, c2

DaemonSymmetry == Permutations(Job) \cup Permutations(Run) \cup Permutations(Client)
=============================================================================
