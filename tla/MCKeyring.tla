----------------------------- MODULE MCKeyring -----------------------------
EXTENDS Keyring, TLC

\* The repositories are alike.
KeyringSymmetry == Permutations(Generated)
=============================================================================
