------------------------------ MODULE MCVault ------------------------------
(* Instances of Vault for TLC.  Every bound is in the budget.              *)
EXTENDS Vault

Spendable(deeds, faults) == [deed |-> deeds, fault |-> faults]

NoBudget == Spendable(0, 0)
OneDeed == Spendable(1, 0)
TwoDeeds == Spendable(2, 0)
DeedAndFault == Spendable(1, 1)
OneFault == Spendable(0, 1)
DeedsAndFault == Spendable(2, 1)

\* Names are numbers: 1 is a, 2 is a directory d, 3 and 4 are names below it.
OneFile == {<<1>>}
TwoFiles == {<<1>>, <<2>>}
FileAndTmp == {<<1>>, <<2>>}   \* with TmpOfFile: a and its temporary file
Tree == {<<1>>, <<2, 3>>, <<2, 4, 3>>}
FileOrDir == {<<1>>, <<1, 3>>}

NoTmp == <<>>
TmpOfFile == <<1>> :> <<2>>

ContentSymmetry == Permutations(Contents)
=============================================================================
