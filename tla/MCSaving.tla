------------------------------ MODULE MCSaving ------------------------------
EXTENDS Saving, TLC
MCSymmetry == Permutations(Row)
=============================================================================
