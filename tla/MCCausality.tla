---------------------------- MODULE MCCausality ----------------------------
EXTENDS Causality, TLC

DriveSymmetry == Permutations(Drives)
=============================================================================
