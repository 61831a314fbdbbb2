# Formal models of GLDraw

GLDraw is a single-threaded, event-driven drawing editor in C11. These modules
model its editing core in TLA+: the undo log, the commands, the document and
the session that drives them; the pointer gestures; the dialogs that stand
between a user's work and its loss; the files the work is saved in; and the two
caches between the document and the screen. TLC checks them on small instances;
TLAPS proves the main facts about the undo log, the commands and the session, the
dialogs, the gestures, the caches and the saving for every instance.

Paths below are relative to the repository (`src/app/workspace.c` is the file
of that name in the repository; the sources of the program are in its `src/`
directory and the headers in `include/`).

## 1. The system

GLDraw runs one event loop. GLFW callbacks (`src/app/application_callbacks.c`)
and Nuklear panels produce events; each is handled to completion before the
next one. There are no threads, so an interleaving is an order of whole calls,
and what makes the program hard is not a race but a long sequence of legal
calls in an order nobody tried: a keyboard undo in the middle of a drag, a
merge after a pruned log, a redo of an object whose layer came back first. What
can come between two steps of one call is a failure to allocate or to write, and
the end of the process.

| Component | State it keeps | Operations | Talks to |
| --- | --- | --- | --- |
| Command executor, `src/commands/command_executor.c`, `command_transaction.c` | entries with their recorded size, cursor, counters, used bytes and budget, an open transaction | execute, undo, redo, begin / commit / rollback, set budget | calls a command's vtable, which changes the document |
| Commands, `src/commands/command_*.c` | what an edit needs to be undone and redone | execute, undo, redo, merge, check, measure of 9 commands | document |
| Document, `src/document/document*.c` | objects in drawing order, layers, active layer, next ids, revision | add, remove, insert, find; create, delete, move, lock, rename layers | spatial index (revision), persistence |
| Selection, `src/model/selection.c` | ordered ids, revision | clear, add, remove, toggle | tools, clipboard, panels, renderer |
| Workspace editing, `src/app/workspace*.c`, `editor_action_handler.c` | clipboard, dirty flag, saved revision, status | undo, redo, delete, select all, copy, cut, paste, panel actions | everything above |
| Workspace service, `src/app/workspace_service.c` | path of the document | new, save, load | document, persistence, tools, executor |
| Tools, `src/tools/*.c` | active tool, captured pointer, drag ids and delta, draft and its overlay | pointer down / move / up, key, switch | executor through ports, selection, canvas |
| Scripting, `src/script/script_runtime_lua.c` (optional build) | a Lua state | add object, undo, redo, selection ids | executor through ports |
| Dialogs and deferred actions, `src/app/workspace_actions.c`, `workspace_dialogs.c`, `application_file_actions.c` | active dialog with its payload, deferred export | request, confirm, discard, cancel, save as | service callbacks |
| Persistence, `src/document/persistence*.c` | none (a staged document while loading) | save, load | document, files |
| Spatial index and picking, `src/document/document_spatial_index.c`, `src/canvas/canvas_view.c` | grid of object indices and the revision it was built at; viewport, centre and zoom | rebuild, query, pick; pan, zoom | document |
| Input routing and keymap, `src/input/*.c` | bindings, fixed at the start | route key, look up command | workspace, tools |
| Rendering, `src/render/*.c` | draw list, the snapshot whose key it was built under, buffers | capture, compare, build, submit | document, selection, canvas, preview, overlay |
| User interface, themes, shell, platform | layout, colours, window | draw, parse | emits editor actions |

What makes each of them correct:

- *Executor*: undo and redo only ever run a command on the document it was made
  for; the byte account is exact and the budget is kept; a clean failure keeps
  the document.
- *Commands*: undo is the inverse of redo, drawing order and active layer
  included, in every order the log can ask for; a command's vtable refuses
  nothing the log asks of it.
- *Document*: ids are unique and new, as long as there are any; every object is
  on a layer that exists; there is an active layer.
- *Session*: what is selected exists and is editable; locked layers are only
  changed by undo, redo and replacing the document, but for documents without
  layer 1 (section 5); the dirty flag is set
  whenever the content changes.
- *Dialogs*: no unsaved work is discarded without an answer; a failed save
  discards nothing.
- *Persistence*: a load yields the saved content or leaves the document alone;
  an interrupted save leaves one of the two versions. What the reader refuses to
  take back from the writer is named (section 5).
- *Tools*: a gesture that ends leaves no preview, drag or capture behind; a drag
  moves what was pressed, all of it, or nothing.
- *Spatial index, render snapshot*: what is cached is what a rebuild would give;
  nothing that is in view is lost on the way.

The behaviours that are hard to test are listed in `PROJECT.json`, "hazards",
each at its line, with the properties that cover it or the reason why none does.

## 2. Modules

| Module | Models | Reads as |
| --- | --- | --- |
| `UndoStack` | nothing in the code: the promise | an abstract undo history: a line of document states and a position on it |
| `CommandLog` | `command_executor.c`, the log as a value | one operator per function: `Reserved`, `ClearTail`, `PruneBudget`, `Absorb`, `Push`, `StepBack`, `StepForward` |
| `CommandHistory` | `command_executor.c`, `command_transaction.c`, `command.c` | a state machine over opaque commands, one action per call and per way it fails |
| `CommandHistoryProofs` | | the theorems about `CommandHistory` |
| `Induction` | | induction over numbers in a form the provers can use: least elements, primitive recursion, running sums |
| `Document` | `document.c`, `document_objects.c`, `document_layers.c` | the document as a value, one operator per function; its type and what makes it `Whole` |
| `Commands` | the vtables, factories and checks of the commands | a command as a record, `Redone`, `Undone`, `Merges`, `Allowed` by its kind |
| `Editor` | `workspace_edit_commands.c`, `workspace_clipboard.c`, `editor_action_handler.c`, `workspace_service.c`, `tool_select.c`, `tool_shape.c`, the script ports | the session: a state machine over `CommandLog` and `Commands` |
| `CommandsProofs` | | what each operator of `Document` and each command makes of a document, and that undo is the inverse of redo |
| `EditorProofs` | | the theorems about `Editor` |
| `DialogFlow` | `workspace_actions.c`, `workspace_dialogs.c`, `workspace_dialog_commands.c`, `workspace_file_commands.c`, `application_file_actions.c`, the loop of `application.c`, what the panels and the input router let through | a frame: events, then panels built from a view taken before them |
| `DialogFlowProofs` | | the theorems about `DialogFlow` |
| `Gestures` | `application_callbacks.c`, `tool_input_dispatch.c`, `tool_runtime.c`, `tool_select.c`, `tool_shape.c`, `tool_pan.c` | a state machine over `Commands`: three buttons, the capture, the state of every tool, the preview |
| `GesturesProofs` | | the theorems about `Gestures` |
| `SpatialIndex` | `document_spatial_index.c`, the picking of `canvas_view.c`, the object loop of `canvas_drawlist.c` | the grid as a value over `Document`: `Built`, `EnsureCurrent`, `Query`, `Pick`, `DrawOrder` |
| `Scene` | `render_system.c`, `render_scene_snapshot.c`, `canvas_drawlist.c`, `workspace_view_commands.c`, the reset of `workspace_service.c` | a state machine over `SpatialIndex`: the document with its grid, the renderer with its list, and all that the list is drawn from |
| `SceneProofs` | | the theorems about `Scene` |
| `Persistence` | `persistence.c`, `persistence_layers.c`, `persistence_objects.c`, `persistence_write.c`, `file_utils.c`, start-up and load of the service | a state machine over `Document` and a directory: a save in steps that fail or are killed, a load as a fold over the members of a file |
| `PersistenceProofs` | | the theorems about `Persistence` |
| `MCCommandHistory`, `MCEditor`, `MCScene`, `MCPersistence` | | instances for TLC |

`CommandLog` is shared. `CommandHistory` runs it with commands about which
nothing is known but the document they were made on and the one they produce,
so that what is proved there holds for any command whose redo and undo are
functions of the document. `Editor` runs the same operators with the real
commands, and discharges the assumption under which `CommandHistory` is right:
that undo and redo of the real commands are inverses along the log
(`UndoReturns`) and are never refused (`StepsNeverStuck`). Both are proved.

`Document` is shared by `Commands` (and so `Editor` and `Gestures`),
`SpatialIndex` (and so `Scene`) and `Persistence`. `Editor` takes a gesture for
one state and a load for one step; `Gestures` and `Persistence` take these apart
and check what `Editor` assumes of them: that a gesture that has lost the pointer
has no effect on the document (`DragMovesWhole`), and that an opened document is
whole (`OpenedIsWhole`, but for the objects of misplaced files).

### Correspondence

- `log.entries[i]` and `log.bytes[i]` are `executor->entries[i - 1]`;
  `log.cursor` is `executor->cursor`, the number of executed commands. The
  counters `undoCount` and `redoCount` are state, as in C, and not derived, so
  that a missing `command_executor_refresh_counts` would show.
- `transaction_commands` and `transaction_capacity` are the fields of the same
  name. `transaction_bytes` is left out: it is written and never read.
- In `CommandHistory` an edit carries `before` and `after`. Running it on any
  other document gives `Corrupt`, which no call should reach. The `key` of an
  edit stands for what the merge functions compare.
- In `Editor`, `document.revised` is `revision != saved_revision`: the revision
  only grows between two saves, so the difference is all the code looks at,
  short of 2^32 edits.
- `gesture` is the state of the tool between the press that it accepts, which
  captures the pointer, and the release. When the pointer is lost (another
  button, Escape in the shape tool, another tool) the gesture has no effect on
  the document any more.
- `timeline` is a ghost: the content before the oldest entry and after each
  one, maintained with the log, against which undo and redo are compared.
- In `DialogFlow`, `dialog` is `session.active_dialog` with its payload,
  `shown` is the dialog of the view model that the panels are built from (the
  next frame's events still see it, through `modal_active`), `kindSnapshot` and
  `field` are `dialog_kind_snapshot` and `dialog_input_buffer` of the user
  interface, and `shouldClose` is the close flag of the window.
- `answer`, `opened`, `givenUp` and `closedAt` are ghosts of `DialogFlow`: what
  the last step answered, whether the dialog is newer than the last frame, the
  content last given up, and the number of edits when Exit was carried out.

- In `Gestures`, `captured` is `pointer_captured`, `drag`, `drafts` and `panning`
  are the states of the tools, `preview` is `selection_preview_active` and
  `_delta` of the workspace. `buttons` is a ghost, as the program does not keep
  it: it says which presses and releases can come. `doubled`, `orphaned` and
  `start` are ghosts that name the exceptions and what a drag was begun with.
- In `Scene`, `index` is the `spatial_*` fields of the document, `renderer` the
  `scene_snapshot`, its validity and the draw list of the render system, and
  `Key` is the snapshot's key, field by field. `unseen` and `lag` are ghosts:
  the events that do not change the key, and the number of changes since the
  list was built.
- In `Persistence`, a file is the sequence of the members of its root object and
  whether it is whole; `saver` is how far `document_save_json` has come, and
  `promised`, `crashed`, `misplaced` and `exhausted` are ghosts: what the last save
  has put into each path, and the three things that make an exception.

### Choices in the abstraction

- An object is its id, layer and two scalars: `x`, which moves translate, and
  `width`, which they do not. Coordinates are integers: that a float moved
  there and back may differ in the last bit is not modelled.
- Ids and their counters are unsigned ints, and the one after the largest is 0
  (`Following`). `IdLimit` stands for 2^32, so that a file with the largest id is
  within reach of TLC. `Persistence` goes past it; in `Editor` and `Scene` an
  assumption says that nobody does (`BoundsAssumption`, `FilesAssumption`), as
  there even a redo would no longer be the inverse of an undo.
- A new object is on layer 1 (`NewObject`, from `object_alloc`) and the command
  asks for that layer. It comes to the active layer only in a document that has
  no layer 1.
- In `Editor` a click hits any object on a layer that is not locked, and in
  `Gestures` any of those that span the point; which of them is the subject of
  `SpatialIndex`.
- In `Editor` a command is charged one byte, so the budget is a number of
  entries; sizes and failures to allocate are the subject of `CommandHistory`.
- The panels act only when no gesture is going on: a click on a panel needs the
  left button, which the gesture holds. Keyboard commands and Escape are not
  restricted, and do come in the middle of a gesture.
- In `DialogFlow` a content is the number of the edit that made it, so two
  contents are equal only when one is the other: undoing to the saved content
  counts as another edit, which is what the dirty flag does as well. That edits
  set the flag is `Editor`'s property `DirtyTracksContent`; scripts, which break
  it, are left to `Editor`.
- A frame of `DialogFlow` has one press of the mouse button for the panels, and
  any number of edits that a field of the inspector commits. Keys are the
  default bindings: nothing in the program fills `user_overrides`. The queued
  export is left out.
- In `SpatialIndex` and `Scene` one axis stands for both, and an object is hit
  anywhere in its bounds. The edits of `Scene` are those of the document, without
  commands and their log.
- In `Gestures` every event may be at any point: scrolling and panning move the
  world under the pointer, and events over panels are not passed on. Failures to
  allocate inside a tool are left out there; in `Scene` the grid and the list may
  each run out of memory.
- In `Persistence` the edits are the three that give or free ids: an object is
  drawn or deleted, a layer is created. `width` stands for the stroke width and for
  the sizes of a rectangle or an ellipse, all of which the reader wants positive.
  Locks are not asked there: undo and redo do not ask either, and the file is the
  same whichever call has changed the document.
  Anything a write, a close or a rename can do wrong is one failure; a member is
  written whole, since a part of the temporary file is not looked at before it is
  complete. Nothing in the code calls `fsync`, and what a loss of power leaves is
  not modelled.
- File names are the ones that can be written and one that cannot be; a native
  file picker blocks the program, so a call that uses one is one step.
- A call that refuses and changes nothing is a stuttering step. In
  `CommandHistory`, where a failing call is of interest, it is an action that
  sets `returned`.
- Operators whose comment says *Mutant* are not part of the model. Each is a
  plausible bug in the operator after it, and `PROJECT.json` names the property
  that finds it.

## 3. Runs

| Run | Bounds | Shows |
| --- | --- | --- |
| `history` | 2 documents, sizes 1 and 2, budgets 2 and 3, log 3, transaction 2; failures that leave the document alone | `LinearHistory`, `NeverCorrupt`, `BytesAccounted`, `BudgetKept`, `FailureKeepsDocument`, and that it implements `UndoStack` |
| `history_faults` | 2 documents, log 2, transaction 3; every failure | `TypeOK` |
| `history_commit` | a commit may run out of memory | finds `DocumentAtCursor` violated (see 5) |
| `canvas` | 1 object, 1 layer, 3 positions, 2 widths, log 2 | drawing, drags, inspector, cut, a layer hidden and locked: `UndoReturns`, `SelectionLive`, `LockedUntouched`, `DirtyTracksContent` |
| `layers` | 1 object, 2 layers, log 2, a new document and a file that has no layer 1 and whose active layer is locked | layers under undo and redo: `WellFormed`, `UndoReturns`, `StepsNeverStuck`, `SelectionLive`, `LockedUntouched` |
| `files` | up to 3 objects, 2 layers of which one is locked, with and without a layer 1, log 2, with the script ports | opening a file, pasting, and editing by hand and by script: `WellFormed`, `UndoReturns`, `StepsNeverStuck`, `LockedUntouched` |
| `script_dirty` | 1 object | finds `DirtyTracksContent` violated by scripts (see 5) |
| `dialogs` | 2 file names and one that is not good, 2 edits | New, Open, Exit, Save and Save As under all orders of keys, the close button, menus and answers: `WorkKept`, `ClosedOnPurpose`, `CleanMatchesFile`, `QuestionStands`, `AnswerActs`, `FieldFresh`, and that Exit takes effect (`ExitTakesEffect`) |
| `scene` | a grid of 3 columns of width 3, a file of 3 objects on 2 layers, 2 changes between two lists, 2 revisions | the caches and the queries: `GridIsCurrent`, `ListIsCurrent`, `DrawsWhatIsInView`, `ClickFinds` |
| `scene_pick` | the same | finds `PicksTopmost` violated (see 5) |
| `gestures` | 2 objects, 3 points, 2 shape tools, select and pan | gestures and what comes in the middle of them: `OnlyActiveIsBusy`, `QuietWhenReleased`, `PreviewIsOfDrag`, `DragMovesWhole` |
| `persistence` | 1 path, ids from 0 to 3, 2 objects, 2 layers, 3 shapes, 8 files of other programs | saving and opening: `SavedSurvives`, `NoLitter`, `ReplacedWhole`, `OpenedIsWhole` |

Why these bounds are enough to be interesting. A log of three entries has a
pruned, an executed and an undone part at the same time; budgets of two and
three against sizes of one and two make one, two or no entries fit, an entry
fill the budget alone, and a lower budget arrive while commands are undone.
Two documents tell apart a command run where it belongs from one run elsewhere.
A transaction of two is the smallest that is not recorded as itself. In
`Editor`, two entries are the smallest log in which one command depends on
another (an object on a created layer, a merge after an edit), objects deleted
from between others need three, and positions 0 to 2 give two moves in the same
direction, which merge, and one back, which does not. One byte for each command
and a budget of two prune in every run.
In `files` there is one position, so that a paste lands where its original is: what
counts there are ids, layers and the drawing order. A new object asks for layer 1,
so one file has no such layer, and there the active one is locked: that is where an
object reaches a locked layer. The object on the second layer, which nothing but a
file can put there while there is a layer 1, comes with the other file.

Two edits are what it takes to have a content in one file, another in the
document and neither in the second file; the third name makes Save As refuse.

In `scene` the file has an object that spans two columns, one on the layer below
it that shares the second of them, and one beyond the last column, so that an
object is found twice unless it is marked, from a column that is not its first,
and not at all. Two changes between two lists are what a stale list takes: one
that is not seen and one that makes the old key come up again; two revisions are
enough for a document that is replaced to reach the number the list was built
under. In `gestures`, two objects make a drag that moves one and not the other,
three points a way back, and two shape tools one that is left in the middle of a
draft. In `persistence`, the files of other programs have, one each, no counters,
a counter that is behind, a name that cannot be written, objects before layers,
layers in version 1, an id twice, no layers, an end too early, and the largest ids.
With `IdLimit` 4 the largest id is 3: a file that has it brings the counters to 0,
the next object drawn gets 0 and those after it ids in use. The largest id is also
drawn itself. Of the shapes one can be read again; one, a rectangle without a side,
and one, a number out of range, cannot. One path is
enough, as nothing relates two of them but the process, which has one save.

Deadlock is checked in every run but `dialogs`: the undo log and the session
never stop, the main loop does when the close flag is set.

Only `dialogs` assumes fairness, and only of the main loop (`WF_vars(Loop)`):
one poll delivers the events that are queued, the panels are built once, and the
loop comes to its condition. Nothing is assumed of the user. The other runs have
nothing that must eventually happen: the editing core has no work that goes on
by itself, and that a step is never stuck is a safety property there
(`StepsNeverStuck`).

## 4. What is proved

`CommandHistoryProofs` proves, for all documents, keys, sizes, budgets and
bounds that satisfy the assumptions of `CommandLog` and `CommandHistory`:

| Theorem | Statement |
| --- | --- |
| `TypeCorrect` | `Spec => []TypeOK`, with any set of failures |
| `HistoryIsLinear` | `Spec => []LinearHistory`, when failures are clean |
| `NothingCorrupted` | `Spec => []NeverCorrupt`, when failures are clean |
| `FailuresKeepTheDocument` | `Spec => FailureKeepsDocument`, when failures are clean |
| `BytesAreAccounted` | `Spec => []BytesAccounted`, with any set of failures |
| `TheBudgetIsKept` | `Spec => BudgetKept`, with any set of failures |
| `ExecutorIsAnUndoStack` | `Spec => IsUndoStack`, when failures are clean: it implements `UndoStack` |

*Clean* means `Faults \subseteq CleanFaults`: the log cannot grow, an undo or a
redo returns 0 before it has changed anything. The failures that are not clean
are those in which the code gives up: it logs an error ("document may be in
inconsistent state") or loses a transaction.

The argument. `LogTyped` says that the cursor is a position of the log; every
operator of `CommandLog` keeps it, and pruning keeps the last executed entry
(`PruneCountBound`). The heart is that the log is a *line*: each command starts
where the one before it ended. A line loses nothing of that when a prefix is
pruned (`LineSuffix`), when the tail is cleared (`LinePrefix`), when a command
made on the current document is appended (`LineAppend`), or when the last
command is replaced by one with the same start (`LineReplaceLast`, which is
what a merge does). `LinearHistory` alone is not inductive: a merge inside a
transaction needs to know that the transaction's last edit ended at the
document, a commit that its first one started where the log ends, and both that
the documents they start from are not `Corrupt`. The inductive invariant
`History` is therefore `TypeOK`, `LinearHistory` and `NeverCorrupt` together, and the proof goes through one
lemma for each action. The refinement rests on the same invariant: `States` lists
the documents along the line, `cursor + 1` is the position on it, and each operator
of the log is a step of `UndoStack` on that list. The account of bytes is a running
sum over the entries (`Induction!RunningSum`), of which the lemmas say what
appending, cutting and replacing do to it.

`EditorProofs` proves, for all files, layer names, keys, budgets and bounds that
satisfy the assumptions of `Editor`:

| Theorem | Statement |
| --- | --- |
| `UndoReturnsAlways` | `Spec => []UndoReturns` |
| `StepsAreNeverStuck` | `Spec => []StepsNeverStuck` |
| `DocumentIsWellFormed` | `Spec => []WellFormed` |
| `LocksHold` | `Spec => LockedUntouched` |
| `DirtyTracksEveryEdit` | `Spec => DirtyTracksContent`, without the script tool |
| `SelectionStaysLive` | `Spec => []SelectionLive`, without the script tool |

The assumptions. `IdAssumption` says that there are ids after the default layer's.
`BoundsAssumption` says that coordinates, widths and distances are integers, that
the inspector edits `x` and `width`, and that the bounds on ids are below
`IdLimit`: nobody draws 2^32 objects. `FilesAssumption` says that a file to open
holds a document that is `Whole` and in which the largest id is not in use: the
reader makes one of every other file it accepts (`OpenedIsWhole`), but for the
misplaced files of section 5. The two theorems that exclude scripts do so because
the properties fail with them, as section 5 shows.

The argument. Neither `UndoReturns`, nor `StepsNeverStuck`, nor `WellFormed` is
inductive, and none of them can be made so without the others: that an undo shows
the old content follows from what the entry remembers, that it is not refused from
ids that are still free or still there, and that ids are free from the counters,
which undo does not take back. The inductive invariant `OnChain` says all of it at
once of the document, the log and the timeline: every entry of the log is a
*link*, that is, on every whole document that shows what the user saw before it,
it can be redone and then shows what the user saw after it, and back (`Links` in
`CommandsProofs`); every content on the timeline is that of a whole document
below the counters; and the content at the cursor is the document's. A link
speaks of the content only and not of the counters or the flag, as undo and redo
find a document whose counters have moved on; that every command depends on the
content alone is what most lemmas of `CommandsProofs` are about (`Same...`). A new
command is a link when it is made on the document itself (`Fresh`), one lemma for
each of the nine kinds: a deletion gives every object back to its index, because
they are restored in the order of the indices, a paste takes back the objects it
added, because no other has their ids. Two links that merge give a link
(`MergeLinks`), and a chain loses nothing when it is cut at either end, extended
at the cursor, or has its last entry replaced. `IInv` adds the types of the
selection, the clipboard and the gesture, from which commands are made.

`LocksHold` is proved for each command: what `Allowed` checks is enough for the
objects on a locked layer to be the same sequence after it. A create is the one
command for which it is not: the check looks at layer 1, and where there is none,
at nothing, so the proof ends in the property's exception there, one object more
at the end of the active layer (`FellThrough`). For the same reason the half of
`SelectionLive` about locks is for documents with layer 1. No edit brings a layer 1
into a document that has none, as the ids of created layers are beyond it, and undo
and redo, which may, prune the selection. `SelectionStaysLive`
goes over all steps and asks of each that an object that can be edited still can
(`StaysOpen`), or that the selection is pruned. `DirtyTracksEveryEdit` needs that
the flag of the session and that of the document are equal between two calls
(`Flagged`), and that no command changes the content and leaves the revision.

`DialogFlowProofs` proves, for any set of file names and any number of edits:

| Theorem | Statement |
| --- | --- |
| `WorkIsKept` | `Spec => WorkKept` |
| `ClosesOnPurpose` | `Spec => []ClosedOnPurpose` |
| `CleanIsOnFile` | `Spec => []CleanMatchesFile` |
| `QuestionIsAnswered` | `Spec => QuestionStands` |
| `AnswerIsCarriedOut` | `Spec => AnswerActs` |
| `FieldIsFresh` | `Spec => FieldFresh` |
| `DialogTypeCorrect` | `Spec => []TypeOK` |

The argument. What decides about the work (the document, the directory, the
close flag) changes in seven ways only, and every step is one of them
(`EveryEffect`), so the invariants about the work are proved by effect and not
by action (`EffectGuards`). `CleanMatchesFile` is the reason why a clean
document may be replaced without a question. `ClosedOnPurpose` speaks of the
end of the loop and is not inductive; `CloseJustified` says the same of every
state in which the close flag is set, with the fact that no later edit can have
a number at or below `closedAt`. `QuestionStands` needs `ViewIsFresh`: About
does not look whether a dialog is up, and only because the panels were built
from a view that still agrees with the session, until the frame's press is used
up, can it not take the place of the question.

`GesturesProofs` proves, for any set of shape tools (that has neither `select`
nor `pan` in it), any points (that are integers) and any bounds:

| Theorem | Statement |
| --- | --- |
| `OnlyTheActiveToolIsBusy` | `Spec => []OnlyActiveIsBusy` |
| `NothingGoesOnWithoutAButton` | `Spec => []QuietWhenReleased` |
| `ThePreviewIsTheDrag` | `Spec => []PreviewIsOfDrag` |
| `DragsMoveWhole` | `Spec => DragMovesWhole` |

The argument. `QuietWhenReleased` speaks of the states in which no button is
held and says nothing of how they come about. The inductive invariant says it of
the capture: the pointer is captured only while the left button is held
(`Held`), and when it is not captured nothing is under way, unless a second
button has been pressed (`Follows`). A release of the left button then ends what
the capture was for, and only because the active tool is the only one that can
be busy (`OnlyActiveIsBusy`) is the tool that hears of the release the one that
has something to end.

`DragsMoveWhole` needs two things more, which `MInv` adds. One is about the
tools (`Tracked`): a drag that has the pointer carries the ids of the press that
the capture is of, and the way from there to the last point. It holds because a
press that captures the pointer for another tool finds no drag under way
(`OnlyActive` again), and because a drag that lost the capture to a second button
cannot get it back. The other is about the document (`Proper`): ids are not
shared, so that it makes sense to ask where an object was. Every step then leaves
all objects where they are (`Still`: `CreateAdds`, `DeleteLeaves`, `LockKeeps`) or
is the release of a drag, of which `Allowed` has asked that all its objects are
there (`MoveMoves`).

`SceneProofs` proves, for any files that can be opened, views, decors, points,
tolerances and sizes of the grid:

| Theorem | Statement |
| --- | --- |
| `TheGridIsCurrent` | `Spec => []GridIsCurrent` |
| `TheListIsCurrent` | `Spec => []ListIsCurrent` |
| `TheCanvasShowsTheView` | `Spec => []DrawsWhatIsInView` |
| `AClickFinds` | `Spec => []ClickFinds` |

The assumptions. `GridAssumption` says that cells and columns are positive numbers,
`CanvasAssumption` that points, moves and views are of integers and that no view is
turned round. `FilesAssumption` says that a file to open holds a document that is
whole, with its counters past its ids and within the unsigned ints (`Openable`), as
the reader makes it, but for the misplaced files of section 5 and those with the
largest id; and no negative widths, as here a width is that
of the bounds `object_get_bounds` yields.

The argument, first of the two caches. Every step of the scene touches the document (its revision grows
and the grid goes), only looks at it (the grid stays, goes or is built), or
replaces it (`EveryStep`), so the grid is there only if it is that of the
document (`GridBuilt`). That a new document starts at revision 1 does no harm
there, as the grid is dropped with the document. The list is not: `StrokesInv`
says that, unless a document was replaced since, the revisions in its key are not
ahead of the scene's, and that the list is a function of what the key stands for
whenever they are equal. Revisions only grow, so equal revisions mean that
nothing has changed in between. `OverlayInv` and `DecorInv` say the same of the
overlay and the decor, each up to the event that the key does not show.

Then of the two queries. They are about the grid of the document as it is
(`TheGridIsCurrent`), so what is left is what its lists contain, for any number of
objects, layers and columns. A column lists exactly the objects that span it, each
once (`ColumnListIs`). A query of a rectangle takes from every spanned column what
no earlier one has marked, so it lists an object of the view once, and lists it if
it is in any of these columns (`QueryIs`; of the columns it is in, the first
delivers it, `LeastElement`). For an object in view there is such a column: the
one of its left edge or of the view's, whichever is further to the right, which
the grid has unless the object starts beyond its last column (`CandidatesAre`).
The draw order keeps of these what is on each visible layer, which are disjoint as
no two layers share an id (`DrawOrderIs`). `CanvasInv` says that the document
stays `Openable` and the view is not turned round, and every action keeps it.

`PersistenceProofs` proves, for any paths, names of layers, shapes, bounds and
foreign files, and any largest id:

| Theorem | Statement |
| --- | --- |
| `NothingStaysBehind` | `Spec => []NoLitter` |
| `TargetsAreReplacedWhole` | `Spec => ReplacedWhole` |
| `WhatWasSavedSurvives` | `Spec => []SavedSurvives` |
| `TheOpenDocumentIsWhole` | `Spec => []OpenedIsWhole` |

The assumptions. `NamesAssumption` says that the default name can be read back;
`ShapesAssumption` that coordinates and widths are integers, of any sign and on
both sides of `Infinity`;
`ForeignAssumption` says that the files of other programs are sequences of any
length of members that have the types the reader's parsers ask for, ids up to the
largest among them, in any order and any number of times, of which nothing else is
assumed.

The argument. Only the path that is being saved has a temporary file
(`OnlyOwnTemp`), and by the time of the rename it holds all members of the
document that is open (`TempComplete`), which no edit can have changed in
between (`MoreToWrite` says that a save that still writes has a member left). The
rename is the only step that writes to a document's file.

For `OpenedIsWhole` the invariant goes through the reader's three loops, of
members, layers and objects: whatever has been read so far, no two layers and no
two objects share an id and none is `NoId`, and ids are behind the counters unless the
largest is among them (`Sound`); the end of the reader then makes the counters and
the active layer fit, and places the objects, but for those that `misplaced` names.
Edits keep what they find (`Solid`) until they hand out the largest id, and the
ghost `exhausted` is then set, for good as far as that document goes. For
`SavedSurvives` it is shown that the reader is the inverse of the writer: on a
document that is whole, whose names and numbers can be written and whose widths are
positive, each of the five members leaves the reader with that part of the document
and accepted. What a
path was promised is such a document, as only these are promised, and only the
rename of another save and other programs take it away.

How loops are proved about. The induction theorems of the library take an operator
as a parameter, which the provers here cannot instantiate. `Induction` states the
same with a set of numbers in the place of the operator (`IntervalInduction`) and
proves that the recursive functions of the model exist and have their defining
equations (`PrimitiveRecursion`). What takes an operator as an argument
(`SelectSeq`, `FoldLeft`) cannot be expanded either; where a proof needs it, the
model has a function of its own (`Ascending` and `Elements` of
`Document`, the loops of `Commands`). `RECURSIVE` operators, which are beyond the
prover, are not used. For the same reason the grid's lists are filtered and joined
by `Kept` and `Joined` of `SpatialIndex`, and the loops of the reader are functions
of how many entries have been read.

Only model-checked: `ExitTakesEffect`, as liveness is beyond the prover. Every
other property that a passing run checks is a theorem. The bounds of a run do not
limit its theorem, but what a model leaves out is left out of both.

## 5. Where the code and its promises differ

- **A commit that runs out of memory** (`history_commit`). When the
  `TransactionCommand` or its slot in the log cannot be allocated,
  `command_executor_commit_transaction` destroys the commands and keeps what
  they did to the document. The next undo then starts from a document that its
  entry was not made for.
- **Scripts and the dirty flag** (`script_dirty`). The edits of the script tool
  go through `execute_command`, `undo` and `redo` of the tool ports; the
  script runtime never calls `sync_document_dirty`, as the built-in tools do.
  New, Open and Exit then discard the work without asking.
- **Picking and layers** (`scene_pick`). `canvas_view_pick_object` promises the
  topmost object and takes the last candidate. The candidates come from the
  grid, which returns the newest object of a cell first and knows nothing of
  layers; the draw list goes through the layers from the bottom. A click can
  pick the lower of two objects.

ADR 0002 promises "consistent history, dirty-state, selection, and persistence
behavior" for durable changes. The script tool is an optional build
(`GLDRAW_ENABLE_SCRIPTING`).

What follows was met while modelling and contradicts no document of the
repository, so that no run refutes a property by it. Where a property has an
exception for it, the exception is named.

- *Dialogs.* An edit that arrives in the frame in which Exit is carried out is
  lost, because the loop looks at the close flag only and not at the dirty flag
  again (the exception in `ClosedOnPurpose`). A document made with New has no
  path, so Save writes to `document.json` and replaces what that file held.
- *Scripts.* `command.undo()` of a script does not prune the selection, which
  keeps the id of an object that is gone (`SelectionLive` is checked without
  scripts). What is done with the selection skips or refuses such an id.
- *Gestures.* A second button pressed in the middle of a gesture takes the
  capture: the release is ignored, and the tool follows the pointer with no
  button held until the next press (`doubled` in `QuietWhenReleased`). The
  release of any button ends a gesture, so that a right click, which opens the
  context menu and is meant not to reach the tools
  (`src/ui/ui_context_menu.c:107`), drops a left drag where it is. New and Open
  in the middle of a drag leave the preview on (`orphaned`). Select All and
  Escape in the middle of a drag change what the preview shows and not what the
  release moves. When the overlay of a shape cannot be allocated, the press is
  refused with the draft already begun, which ends at the next motion (not
  modelled, like the other allocations of a tool).
- *Drawing.* Of two objects in one cell of the grid, the newer is drawn first
  and the older on top. An object that starts beyond the 64th column or row of
  the grid is not found by a rectangle, and is missing from the canvas whenever
  something else is in view (the exception in `DrawsWhatIsInView` and
  `ClickFinds`). When the grid finds nothing under a click, every object is
  tried, hidden ones too.
- *Layers.* A new object is put on layer 1 whatever layer is active, as
  `object_alloc` names that layer and nobody sets another
  (`src/document/object_runtime.c:32`). On an active layer that is open a draw is
  refused with "Active layer is locked." when it is layer 1 that is locked
  (`src/commands/command_object_checks.c:152`). In a document without layer 1, as a
  file can hold it, the object comes to the active layer, whose lock nobody has
  looked at: a draw or a script adds to a locked layer, and what was drawn there is
  selected (`FellThrough` in `LockedUntouched`, the premise in `SelectionLive`).
- *The draw list.* Its key does not hold the grid lines and the background, nor
  which document and which overlay the revisions are of: after New, Open, Toggle
  Grid, another theme or a second press of a shape tool a frame may show the old
  ones until something else changes, and after a build that failed, a part of
  the list (`unseen` in `ListIsCurrent`).
- *Files.* A layer name with a control character other than the usual ones is
  read from a file of another program, and saved as `\u00XX`, which the reader
  refuses: the file cannot be opened again (`NoPromise`). So it is with an object
  whose stroke width, or as a rectangle or an ellipse whose width or height, is not
  positive: a script gives the one (`src/script/script_runtime_lua.c:79`), a drag
  exactly along an axis the other (`src/tools/tool_shape.c:25`; only a click on one
  point makes no object), the writer writes both and the reader refuses the file
  (`src/document/persistence_objects.c:240`, `object_rect.c:158`). A number such as
  1e999 is read as infinity and written as `inf`, which is refused as well. All of
  these are exceptions in `Promise`. A file with the id 4294967295 is accepted, and
  the counter after it is 0: the next object has the id of no object, which an undo
  does not find, and those after it ids that are in use; the next layer is put in
  and reported as a failure (`exhausted` in `OpenedIsWhole` and `SavedSurvives`). Objects that come
  before their layers, or with layers in a file of version 1, may keep a layer
  that does not exist, and are then never drawn (`misplaced`).

## 6. Plan

Done: all modules of section 2, with the theorems of section 4.

Left, in this order:

1. The two axes of the grid, and objects whose shape does not fill its bounds:
   a query that is exact on each axis, and a hit test that is finer than a query.
2. `Editor` as an implementation of an abstract session, in which the log is a
   path through contents, by way of `UndoStack` and the links of `OnChain`.
3. That the documents of `Editor` are those that `Persistence` writes and reads
   back (`Whole` and `Counted` imply `Openable`), as one theorem on both modules.

## 7. Not modelled

Vendored and generated code: `include/nuklear` (Nuklear and its GLFW back end)
and the OpenGL loader `glad` are some 37,000 of the 61,500 lines of C in the
repository. They are libraries, seen here only by the events and the panel
results they give to the code of the editor.

Output: the draw list turned into OpenGL calls, shaders, buffers, PNG encoding,
the layout and the drawing of the panels, the strings of the view model. They
compute what is shown from a state and keep none that the editor reads back. The
export to PNG is one flag that is set by the menu and cleared at the end of the
frame.

Input from outside: the window, native file pickers, paths, the lexing of JSON
and of theme files, the Lua interpreter. The models take what they can deliver
as a choice.

Tables: the registries of commands, tools, object types and themes, the bindings
of the keymap, and the start-up that fills them. None changes while the program
runs: nothing in the program fills the keymap's user overrides.

Geometry and floating point: hit tests of outlines, the projection to the
screen, and the rounding of coordinates that are moved there and back.

Failures to allocate inside a command, the clipboard or a tool, other than those
of `CommandHistory` and `Scene`: they end in a refusal, which `CommandHistory`
has for every command.

`PROJECT.json`, "components", gives the reason for each part.
