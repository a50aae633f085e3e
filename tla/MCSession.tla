------------------------------ MODULE MCSession ------------------------------
(* Small instances of Session for TLC. *)
EXTENDS Session, TLC

CONSTANTS c1, c2, p1, p2

\* Connections are alike, and so are passphrases.
SessionSymmetry == Permutations({c1, c2}) \cup Permutations({p1, p2})
=============================================================================
