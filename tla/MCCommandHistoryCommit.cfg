SPECIFICATION Spec
CONSTANTS
  Docs = {d0, d1}
  InitialDoc = d0
  Corrupt = Corrupt
  Keys = {k}
  NoMerge = NoMerge
  Sizes = {1}
  Budgets = {4}
  InitialCapacity = 1
  TransactionBytes = 1
  Faults = {"commit"}
  MaxLog = 2
  MaxTransaction = 2
INVARIANTS
  DocumentAtCursor
