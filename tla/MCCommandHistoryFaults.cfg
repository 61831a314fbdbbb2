SPECIFICATION Spec
CONSTANTS
  Docs = {d0, d1}
  InitialDoc = d0
  Corrupt = Corrupt
  Keys = {k}
  NoMerge = NoMerge
  Sizes = {1}
  Budgets = {1, 2}
  InitialCapacity = 1
  TransactionBytes = 1
  Faults = {"append", "undo", "redo", "commit", "undo_part", "take_back"}
  MaxLog = 2
  MaxTransaction = 3
INVARIANTS
  TypeOK
