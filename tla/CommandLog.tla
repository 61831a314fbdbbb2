----------------------------- MODULE CommandLog -----------------------------
(***************************************************************************)
(* The undo log of a CommandExecutor as a value: the entries, the cursor   *)
(* that separates executed commands from undone ones, the byte accounting  *)
(* and the memory budget.  Every operator is one function of               *)
(* src/src/commands/command_executor.c and yields the log after the call;  *)
(* the executors of CommandHistory (opaque commands) and Editor (the real  *)
(* commands) are built from the same operators, and say which commands     *)
(* merge and what a command is charged.                                    *)
(*                                                                         *)
(* The two fields of a CommandLogEntry are kept in two sequences of equal  *)
(* length, entries (the commands) and bytes (their recorded sizes).        *)
(* Position i of a sequence is index i - 1 of the C array, so the cursor   *)
(* is the number of executed commands and entries[cursor] the last one.    *)
(***************************************************************************)
EXTENDS Integers, FiniteSets, SequencesExt

CONSTANT InitialCapacity  \* COMMAND_INITIAL_CAPACITY

ASSUME CapacityAssumption == InitialCapacity \in Nat \ {0}

InitLog(budget) ==
  [entries |-> << >>, bytes |-> << >>, cursor |-> 0, used |-> 0,
   undoCount |-> 0, redoCount |-> 0, capacity |-> 0, budget |-> budget]

SumBytes(sizes) ==
  LET sum[i \in 0 .. Len(sizes)] == IF i = 0 THEN 0 ELSE sum[i - 1] + sizes[i]
  IN  sum[Len(sizes)]

RefreshCounts(log) ==
  [log EXCEPT !.undoCount = log.cursor,
              !.redoCount = Len(log.entries) - log.cursor]

(***************************************************************************)
(* command_reserve_log: one slot is always asked for past the cursor, and  *)
(* the array never shrinks, so growing it means doubling it once.          *)
(***************************************************************************)
MustGrow(log) == log.cursor + 1 > log.capacity

Grown(capacity) == IF capacity = 0 THEN InitialCapacity ELSE 2 * capacity

Reserved(log) ==
  IF MustGrow(log) THEN [log EXCEPT !.capacity = Grown(@)] ELSE log

ClearTail(log) ==
  RefreshCounts(
    [log EXCEPT !.entries = SubSeq(@, 1, log.cursor),
                !.bytes   = SubSeq(@, 1, log.cursor),
                !.used    = @ - SumBytes(SubSeq(log.bytes, log.cursor + 1, Len(log.bytes)))])

(***************************************************************************)
(* The pruning loop drops the oldest executed entries while the log is     *)
(* over budget, and stops short of the last executed one.  Pass k (from 0) *)
(* runs when every pass before it ran, k + 1 < cursor and the bytes left   *)
(* are still over budget; the subtraction saturates at 0.                  *)
(***************************************************************************)
UsedAfterDropping(log, k) ==
  LET used[i \in 0 .. k] ==
        IF i = 0 THEN log.used
        ELSE IF used[i - 1] >= log.bytes[i] THEN used[i - 1] - log.bytes[i] ELSE 0
  IN  used[k]

\* Mutants: one pass only; the last executed entry goes as well.
PruneCountOnce(log) == IF log.cursor > 1 /\ log.used > log.budget THEN 1 ELSE 0

PruneCountAll(log) ==
  Cardinality({k \in 0 .. (log.cursor - 1) :
                 \A j \in 0 .. k : UsedAfterDropping(log, j) > log.budget})

PruneCount(log) ==
  Cardinality({k \in 0 .. (log.cursor - 2) :
                 \A j \in 0 .. k : UsedAfterDropping(log, j) > log.budget})

PruneBudget(log) ==
  LET k == PruneCount(log)
  IN  RefreshCounts(
        [log EXCEPT !.entries = SubSeq(@, k + 1, Len(@)),
                    !.bytes   = SubSeq(@, k + 1, Len(@)),
                    !.cursor  = @ - k,
                    !.used    = UsedAfterDropping(log, k)])

(***************************************************************************)
(* command_executor_append_internal outside a transaction.  The slot is    *)
(* reserved before anything is discarded; then the undone tail goes, and   *)
(* the command is either absorbed by the last executed one, whose vtable   *)
(* decides, or pushed after it.                                            *)
(***************************************************************************)
\* Mutant: the undone tail stays.
ReadyToAppendBeforeTail(log) == Reserved(log)

ReadyToAppend(log) == ClearTail(Reserved(log))

\* Mutant: the bytes of the entry as it was before stay on the account.
AbsorbTwice(log, absorbed, size) ==
  LET ready == ReadyToAppend(log)
  IN  PruneBudget([ready EXCEPT !.entries[log.cursor] = absorbed,
                                !.bytes[log.cursor]   = size,
                                !.used = @ + size])

Absorb(log, absorbed, size) ==
  LET ready == ReadyToAppend(log)
  IN  PruneBudget([ready EXCEPT !.entries[log.cursor] = absorbed,
                                !.bytes[log.cursor]   = size,
                                !.used = @ + size - ready.bytes[log.cursor]])

Push(log, command, size) ==
  LET ready == ReadyToAppend(log)
  IN  PruneBudget(
        RefreshCounts([ready EXCEPT !.entries = Append(@, command),
                                    !.bytes   = Append(@, size),
                                    !.cursor  = @ + 1,
                                    !.used    = @ + size]))

CanUndo(log) == log.cursor > 0

CanRedo(log) == log.cursor < Len(log.entries)

\* Mutant: the counters are not brought up to date.
StepBackUncounted(log) == [log EXCEPT !.cursor = @ - 1]

StepBack(log) == RefreshCounts([log EXCEPT !.cursor = @ - 1])

StepForward(log) == RefreshCounts([log EXCEPT !.cursor = @ + 1])

WithBudget(log, budget) == PruneBudget([log EXCEPT !.budget = budget])
=============================================================================
