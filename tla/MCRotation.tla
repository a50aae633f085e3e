----------------------------- MODULE MCRotation -----------------------------
EXTENDS Rotation, TLC

\* The destinations are alike.
RotationSymmetry == Permutations(Derived)
=============================================================================
