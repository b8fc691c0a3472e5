--------------------------- MODULE MCReleaseTrain ---------------------------
EXTENDS ReleaseTrain, TLC

RunSymmetry == Permutations(Runs)
=============================================================================
