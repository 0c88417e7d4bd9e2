----------------------------- MODULE MCExecutor -----------------------------
(* Instances of Executor for TLC.  Every bound is in the budget.           *)
EXTENDS ExecutorRefinement, TLC

Spendable(ops, edits, crashes, unplugs, faults, stuck, leftovers) ==
  [op |-> ops, edit |-> edits, crash |-> crashes, unplug |-> unplugs,
   fault |-> faults, stuck |-> stuck, leftover |-> leftovers]

CrashBudget == Spendable(2, 1, 1, 1, 0, 0, 1)
FaultBudget == Spendable(2, 1, 0, 0, 2, 0, 1)
RecoveryBudget == Spendable(2, 0, 2, 1, 1, 0, 1)
RemountBudget == Spendable(1, 0, 1, 1, 0, 0, 0)
StuckBudget == Spendable(1, 0, 0, 0, 0, 1, 0)
EditBudget == Spendable(1, 2, 0, 0, 0, 0, 0)

Symmetry == Permutations(Drives) \cup Permutations(Paths) \cup Permutations(Contents)
=============================================================================
