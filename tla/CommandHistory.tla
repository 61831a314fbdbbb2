--------------------------- MODULE CommandHistory ---------------------------
(***************************************************************************)
(* The command executor over opaque commands: execute, undo, redo, the     *)
(* begin / commit / rollback of a transaction, the memory budget, and the  *)
(* ways each of them fails (src/src/commands/command_executor.c and        *)
(* command_transaction.c).                                                 *)
(*                                                                         *)
(* A document is an element of Docs.  A command is the nonempty sequence   *)
(* of the edits it makes: one edit for a lone command, two or more for a   *)
(* TransactionCommand.  An edit carries the document it was executed on    *)
(* and the one it produced, so that running it anywhere else is visible:   *)
(* the document becomes Corrupt.  An edit's key stands for the vtable and  *)
(* the target the merge functions compare; NoMerge is the key of the       *)
(* commands that never merge.                                              *)
(*                                                                         *)
(* One function runs at a time and to completion (the program is single    *)
(* threaded), so each action is one call.  Between two calls a transaction *)
(* may be open; the only code that opens one, the cut of                   *)
(* src/src/app/workspace_clipboard.c, executes commands in it and closes   *)
(* it before it returns, which is why undo, redo and the budget setter are *)
(* called outside transactions.                                            *)
(***************************************************************************)
EXTENDS CommandLog

CONSTANTS
  Docs,             \* documents
  InitialDoc,       \* the document a workspace starts with
  Corrupt,          \* a document no call should produce
  Keys,             \* vtable and target of an edit, as merge compares them
  NoMerge,          \* the key of an edit that nothing merges with
  Sizes,            \* bytes a lone command may be charged
  Budgets,          \* memory budgets; 0 in the C call selects a default
  TransactionBytes, \* sizeof(TransactionCommand)
  Faults,           \* the failures that may happen, a subset of AllFaults
  MaxLog,           \* bound: entries in the log
  MaxTransaction    \* bound: commands in a transaction

\* A call that fails for one of these reasons leaves the document as it was.
CleanFaults == {"append", "undo", "redo"}

\* These leave it changed: the memory for a commit runs out after the edits
\* were made; the undo of one command of a transaction fails after the undo of
\* the ones behind it; the undo that should take back an unrecorded edit fails.
DirtyFaults == {"commit", "undo_part", "take_back"}

AllFaults == CleanFaults \union DirtyFaults

ASSUME DocsAssumption == InitialDoc \in Docs /\ Corrupt \notin Docs
ASSUME SizesAssumption == Sizes \subseteq Nat /\ TransactionBytes \in Nat
ASSUME BudgetsAssumption == Budgets \subseteq Nat \ {0} /\ Budgets # {}
ASSUME FaultsAssumption == Faults \subseteq AllFaults

VARIABLES
  document,
  log,                  \* entries, cursor and accounting (module CommandLog)
  transaction_active,
  transaction_commands, \* the edits executed since begin, oldest first
  transaction_capacity,
  returned              \* what the last call returned: TRUE on success

transaction == <<transaction_active, transaction_commands, transaction_capacity>>

vars == <<document, log, transaction, returned>>
-----------------------------------------------------------------------------
(* Commands *)

Edit == [before : Docs \union {Corrupt}, after : Docs,
         key : Keys \union {NoMerge}, size : Sizes]

Before(command) == command[1].before

After(command) == command[Len(command)].after

\* Each edit was executed on the document the one before it produced.
Chained(command) ==
  \A i \in 2 .. Len(command) : command[i - 1].after = command[i].before

\* vtable->undo runs the edits backwards, vtable->redo forwards.
Undone(command, doc) ==
  IF doc = After(command) /\ Chained(command) THEN Before(command) ELSE Corrupt

Redone(command, doc) ==
  IF doc = Before(command) /\ Chained(command) THEN After(command) ELSE Corrupt

\* A TransactionCommand's merge refuses, and no lone command's merge accepts it.
Merges(previous, command) ==
  /\ Len(previous) = 1
  /\ Len(command) = 1
  /\ previous[1].key = command[1].key
  /\ command[1].key # NoMerge

\* Mutant: the new command takes the place of the previous one.
MergedByReplacing(previous, command) == command

Merged(previous, command) == <<[previous[1] EXCEPT !.after = command[1].after]>>

\* command_measure: a transaction is charged its slots and its commands.
Measure(command) ==
  IF Len(command) = 1
  THEN command[1].size
  ELSE TransactionBytes + Len(command)
         + SumBytes([i \in DOMAIN command |-> command[i].size])

\* The log after command_executor_append_internal.
Recorded(command) ==
  IF log.cursor > 0 /\ Merges(log.entries[log.cursor], command)
  THEN LET absorbed == Merged(log.entries[log.cursor], command)
       IN  Absorb(log, absorbed, Measure(absorbed))
  ELSE Push(log, command, Measure(command))
-----------------------------------------------------------------------------
(* Initial state: an executor without an array, on the initial document *)

Init ==
  /\ document = InitialDoc
  /\ \E budget \in Budgets : log = InitLog(budget)
  /\ transaction_active = FALSE
  /\ transaction_commands = << >>
  /\ transaction_capacity = 0
  /\ returned = TRUE
-----------------------------------------------------------------------------
(* command_executor_execute *)

\* The commands a caller can build on the current document.
NewCommands == {<<edit>> : edit \in [before : {document}, after : Docs,
                                     key : Keys \union {NoMerge}, size : Sizes]}

\* command_check_execute or vtable->execute refuses: the command is destroyed.
ExecuteRefused ==
  /\ returned' = FALSE
  /\ UNCHANGED <<document, log, transaction>>

\* Mutant: nothing is undone.
TakenBackNot(command) == document' = After(command)

\* The command ran but could not be recorded, so it is undone again.
TakenBack(command) ==
  \/ document' = Undone(command, After(command))
  \/ "take_back" \in Faults /\ document' = After(command)

ExecuteLogged(command) ==
  /\ ~transaction_active
  /\ log.cursor < MaxLog
  /\ document' = After(command)
  /\ log' = Recorded(command)
  /\ returned' = TRUE
  /\ UNCHANGED transaction

ExecuteUnlogged(command) ==
  /\ ~transaction_active
  /\ "append" \in Faults
  /\ MustGrow(log)
  /\ TakenBack(command)
  /\ returned' = FALSE
  /\ UNCHANGED <<log, transaction>>

\* The same merge rule as the log's, against the transaction's last command.
Joined(command) ==
  LET last == Len(transaction_commands)
  IN  IF last > 0 /\ Merges(<<transaction_commands[last]>>, command)
      THEN [transaction_commands EXCEPT ![last].after = After(command)]
      ELSE transaction_commands \o command

TransactionMustGrow == Len(transaction_commands) + 1 > transaction_capacity

ExecuteInTransaction(command) ==
  /\ transaction_active
  /\ Len(transaction_commands) < MaxTransaction
  /\ document' = After(command)
  /\ transaction_commands' = Joined(command)
  /\ transaction_capacity' = IF TransactionMustGrow
                             THEN Grown(transaction_capacity)
                             ELSE transaction_capacity
  /\ returned' = TRUE
  /\ UNCHANGED <<log, transaction_active>>

ExecuteNotJoined(command) ==
  /\ transaction_active
  /\ "append" \in Faults
  /\ TransactionMustGrow
  /\ TakenBack(command)
  /\ returned' = FALSE
  /\ UNCHANGED <<log, transaction>>
-----------------------------------------------------------------------------
(* command_executor_undo and command_executor_redo *)

Undo ==
  /\ ~transaction_active
  /\ CanUndo(log)
  /\ document' = Undone(log.entries[log.cursor], document)
  /\ log' = StepBack(log)
  /\ returned' = TRUE
  /\ UNCHANGED transaction

\* vtable->undo returns 0, and the cursor stays.  A transaction may have undone
\* some of its commands, last ones first, by then.
UndoFails ==
  /\ ~transaction_active
  /\ CanUndo(log)
  /\ \/ "undo" \in Faults /\ UNCHANGED document
     \/ /\ "undo_part" \in Faults
        /\ LET command == log.entries[log.cursor]
           IN  \E i \in 2 .. Len(command) : document' = command[i].before
  /\ returned' = FALSE
  /\ UNCHANGED <<log, transaction>>

Redo ==
  /\ ~transaction_active
  /\ CanRedo(log)
  /\ document' = Redone(log.entries[log.cursor + 1], document)
  /\ log' = StepForward(log)
  /\ returned' = TRUE
  /\ UNCHANGED transaction

\* transaction_execute undoes what it had redone before it returns 0.
RedoFails ==
  /\ ~transaction_active
  /\ CanRedo(log)
  /\ "redo" \in Faults
  /\ returned' = FALSE
  /\ UNCHANGED <<document, log, transaction>>

\* Nothing to undo, or nothing to redo.
StepRefused ==
  /\ ~transaction_active
  /\ ~CanUndo(log) \/ ~CanRedo(log)
  /\ returned' = FALSE
  /\ UNCHANGED <<document, log, transaction>>
-----------------------------------------------------------------------------
(* Transactions *)

BeginTransaction ==
  /\ ~transaction_active
  /\ transaction_active' = TRUE
  /\ transaction_commands' = << >>
  /\ returned' = TRUE
  /\ UNCHANGED <<document, log, transaction_capacity>>

CloseTransaction ==
  /\ transaction_active' = FALSE
  /\ transaction_commands' = << >>
  /\ UNCHANGED transaction_capacity

\* No command leaves no trace, one is recorded as itself, and several become
\* one TransactionCommand; the transaction is closed before the append, which
\* therefore goes to the log.
CommitTransaction ==
  /\ transaction_active
  /\ log.cursor < MaxLog
  /\ log' = IF transaction_commands = << >>
            THEN log
            ELSE Recorded(transaction_commands)
  /\ returned' = TRUE
  /\ CloseTransaction
  /\ UNCHANGED document

\* No memory for the log slot, or for the TransactionCommand: the commands are
\* destroyed, although the document keeps what they did.
CommitFails ==
  /\ transaction_active
  /\ "commit" \in Faults
  /\ \/ Len(transaction_commands) > 1
     \/ Len(transaction_commands) = 1 /\ MustGrow(log)
  /\ returned' = FALSE
  /\ CloseTransaction
  /\ UNCHANGED <<document, log>>

\* The commands are undone, last to first.  The call returns nothing, which is
\* recorded as a success.
RollbackTransaction ==
  /\ transaction_active
  /\ document' = IF transaction_commands = << >>
                 THEN document
                 ELSE Undone(transaction_commands, document)
  /\ returned' = TRUE
  /\ CloseTransaction
  /\ UNCHANGED log

\* The undo of command i fails and is logged; the ones before it are undone.
RollbackFails ==
  /\ transaction_active
  /\ "take_back" \in Faults
  /\ \E i \in DOMAIN transaction_commands :
       document' = IF i = 1
                   THEN transaction_commands[1].after
                   ELSE Undone(SubSeq(transaction_commands, 1, i - 1),
                               transaction_commands[i].after)
  /\ returned' = TRUE
  /\ CloseTransaction
  /\ UNCHANGED log
-----------------------------------------------------------------------------
SetMemoryBudget(budget) ==
  /\ ~transaction_active
  /\ log' = WithBudget(log, budget)
  /\ returned' = TRUE
  /\ UNCHANGED <<document, transaction>>

Execute(command) ==
  \/ ExecuteLogged(command)
  \/ ExecuteUnlogged(command)
  \/ ExecuteInTransaction(command)
  \/ ExecuteNotJoined(command)

Next ==
  \/ \E command \in NewCommands : Execute(command)
  \/ ExecuteRefused
  \/ Undo
  \/ UndoFails
  \/ Redo
  \/ RedoFails
  \/ StepRefused
  \/ BeginTransaction
  \/ CommitTransaction
  \/ CommitFails
  \/ RollbackTransaction
  \/ RollbackFails
  \/ \E budget \in Budgets : SetMemoryBudget(budget)

Spec == Init /\ [][Next]_vars
-----------------------------------------------------------------------------
(* Properties *)

Command == {command \in Seq(Edit) : command # << >>}

(***************************************************************************)
(* Types.  The cursor is a position of the log, and the two counters are   *)
(* what command_executor_refresh_counts derives from it.                   *)
(***************************************************************************)
LogTyped(l) ==
  /\ DOMAIN l = {"entries", "bytes", "cursor", "used", "undoCount",
                 "redoCount", "capacity", "budget"}
  /\ l.entries \in Seq(Command)
  /\ l.cursor \in 0 .. Len(l.entries)
  /\ l.undoCount = l.cursor
  /\ l.redoCount = Len(l.entries) - l.cursor

TypeOK ==
  /\ document \in Docs \union {Corrupt}
  /\ LogTyped(log)
  /\ transaction_active \in BOOLEAN
  /\ transaction_commands \in Seq(Edit)
  /\ transaction_capacity \in Nat
  /\ returned \in BOOLEAN

\* The document that the log speaks of: an open transaction is not in it yet.
Settled ==
  IF transaction_commands = << >> THEN document ELSE Before(transaction_commands)

EntriesChained == \A i \in DOMAIN log.entries : Chained(log.entries[i])

NeighboursChained ==
  \A i \in 2 .. Len(log.entries) :
    After(log.entries[i - 1]) = Before(log.entries[i])

DocumentAtCursor ==
  /\ log.cursor > 0 => Settled = After(log.entries[log.cursor])
  /\ log.cursor < Len(log.entries) => Settled = Before(log.entries[log.cursor + 1])

TransactionAtDocument ==
  /\ transaction_commands # << >> => /\ transaction_active
                                     /\ document = After(transaction_commands)
  /\ Chained(transaction_commands)

(***************************************************************************)
(* The history is one line of documents and the document is on it, between *)
(* the last executed command and the first undone one: every command in    *)
(* the log, merged or pruned as it may be, and every one in the open       *)
(* transaction, meets the document it was recorded against when it runs.   *)
(***************************************************************************)
LinearHistory ==
  /\ EntriesChained
  /\ NeighboursChained
  /\ DocumentAtCursor
  /\ TransactionAtDocument

(***************************************************************************)
(* No undo, redo, rollback or clean-up after a failure ever runs a command *)
(* on a document it was not made for, and so no command in the log or in   *)
(* the transaction was made on the result of that.                         *)
(***************************************************************************)
NeverCorrupt ==
  /\ document # Corrupt
  /\ \A i \in DOMAIN log.entries : Before(log.entries[i]) # Corrupt
  /\ transaction_commands # << >> => Before(transaction_commands) # Corrupt

(***************************************************************************)
(* used_bytes is the sum of the recorded sizes, and a recorded size is the *)
(* size of the command, after merges, clear_tail and pruning alike: the    *)
(* subtractions of clear_tail and of the merge never underflow.            *)
(***************************************************************************)
BytesAccounted ==
  /\ Len(log.bytes) = Len(log.entries)
  /\ log.used = SumBytes(log.bytes)
  /\ \A i \in DOMAIN log.entries : log.bytes[i] = Measure(log.entries[i])

(***************************************************************************)
(* A call that changes the log leaves it within the budget, unless all     *)
(* that is left to drop is the last executed command.                      *)
(***************************************************************************)
BudgetKept ==
  [][log'.entries # log.entries => \/ log'.used <= log'.budget
                                   \/ log'.cursor <= 1]_vars

(***************************************************************************)
(* With the clean faults only, a call that reports failure leaves the      *)
(* document as it was: an edit that could not be recorded is undone before *)
(* execute returns.                                                        *)
(***************************************************************************)
FailureKeepsDocument == [][~returned' => document' = document]_vars

(***************************************************************************)
(* The executor is an undo stack: the line of documents is what precedes   *)
(* the oldest entry followed by what each entry produces.  A transaction   *)
(* is one edit, made when it commits.                                      *)
(***************************************************************************)
States ==
  IF log.entries = << >>
  THEN <<Settled>>
  ELSE [i \in 1 .. (Len(log.entries) + 1) |->
          IF i = 1 THEN Before(log.entries[1]) ELSE After(log.entries[i - 1])]

Stack == INSTANCE UndoStack WITH states <- States, position <- log.cursor + 1

IsUndoStack == Stack!Spec
=============================================================================
