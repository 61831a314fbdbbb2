SPECIFICATION Spec
CONSTANTS
  Docs = {d0, d1}
  InitialDoc = d0
  Corrupt = Corrupt
  Keys = {k}
  NoMerge = NoMerge
  Sizes <- MCSizes
  Budgets <- MCBudgets
  InitialCapacity = 1
  TransactionBytes = 1
  Faults = {"append", "undo", "redo"}
  MaxLog = 3
  MaxTransaction = 2
INVARIANTS
  LinearHistory
  NeverCorrupt
  BytesAccounted
PROPERTIES
  BudgetKept
  FailureKeepsDocument
  IsUndoStack
