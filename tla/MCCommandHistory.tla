--------------------------- MODULE MCCommandHistory ---------------------------
(* Instances of CommandHistory for TLC: the cfgs choose the faults. *)
EXTENDS CommandHistory

\* Two entry sizes that the budgets tell apart.
MCSizes == {1, 2}

MCBudgets == {2, 3}
===============================================================================
