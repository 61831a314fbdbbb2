------------------------------- MODULE Editor -------------------------------
(***************************************************************************)
(* The editing session: one document, its undo log, the selection, the     *)
(* clipboard, the flag that says the document has unsaved changes, and the *)
(* gesture of the pointer tool.  It composes CommandLog and Commands with  *)
(* the code that calls them: src/src/app/workspace_edit_commands.c,        *)
(* workspace_clipboard.c, editor_action_handler.c, workspace_service.c,    *)
(* and the tools of src/src/tools.                                         *)
(*                                                                         *)
(* Each action is one call made by the event loop.  A call that refuses    *)
(* and changes nothing is a stuttering step and has no action.  Keyboard   *)
(* commands may come in the middle of a gesture; panel actions need a left *)
(* click outside the canvas, which the release of a captured pointer has   *)
(* to precede.  Memory does not run out here (CommandHistory says what     *)
(* happens when it does), every command is charged one byte, so the budget *)
(* is the number of entries that are kept, and the geometry of picking is  *)
(* left out: a click may hit any object on a layer that is not locked.     *)
(*                                                                         *)
(* Scripting says whether the build has the script tool, which edits the   *)
(* document through the ports of src/src/app/workspace.c.                  *)
(***************************************************************************)
EXTENDS CommandLog, Commands

CONSTANTS
  Scripting,      \* GLDRAW_ENABLE_SCRIPTING
  Keys,           \* properties the inspector edits, among "x" and "width"
  Positions,      \* bound: values of x
  Origins,        \* bound: values of x an object is drawn at
  Widths,         \* bound: values of width
  Deltas,         \* bound: distances a drag or a paste moves by
  Attributes,     \* bound: what the panel toggles, among "visible" and "locked"
  LayerNames,     \* bound: names a layer may be given
  Files,          \* bound: documents that a file to open may hold
  Budget,         \* bound: entries in the log (the memory budget)
  MaxId,          \* bound: object ids handed out
  MaxLayers       \* bound: layer ids handed out

ASSUME ScriptingAssumption == Scripting \in BOOLEAN

ASSUME BoundsAssumption ==
  /\ Keys \subseteq {"x", "width"}
  /\ Positions \union Origins \union Widths \union Deltas \subseteq Int
  /\ {MaxId, MaxLayers} \subseteq Nat
  /\ MaxId + 1 < IdLimit /\ MaxLayers + 1 < IdLimit  \* nobody uses up the ids

\* Layer names: the initial one, those given here and those in files.
Names ==
  {DefaultName} \union LayerNames
    \union UNION {{layer.name : layer \in ToSet(file.layers)} : file \in Files}

\* What is loaded is whole but for the counters (Persistence: OpenedIsWhole).  Two kinds
\* of file are not among the Files: those whose objects come before their layers, and
\* those that hold the largest id, behind which the counter starts again from 0.
ASSUME FilesAssumption ==
  \A file \in Files :
    /\ file \in DocumentType(Names)
    /\ Whole(file)
    /\ file.nextId < IdLimit
    /\ \A id \in ObjectIds(file) \union LayerIds(file) : id < UIntMax

VARIABLES
  document,
  log,
  selection,  \* ids, in the order they were selected
  clipboard,  \* snapshots of the copied objects
  dirty,      \* session.document_dirty
  tool,       \* the active tool: "select", "shape" or "script"
  gesture,    \* what the tool keeps between two pointer events
  timeline    \* ghost: the contents before the oldest entry and after each one

session == <<selection, clipboard, dirty>>

pointer == <<tool, gesture>>

vars == <<document, log, timeline, session, pointer>>

Tools == {"select", "shape"} \union (IF Scripting THEN {"script"} ELSE {})

NoGesture == [kind |-> "none", ids |-> << >>, delta |-> 0]

Init ==
  /\ document = NewDocument
  /\ log = InitLog(Budget)
  /\ timeline = <<Content(NewDocument)>>
  /\ selection = << >>
  /\ clipboard = << >>
  /\ dirty = FALSE
  /\ tool = "select"
  /\ gesture = NoGesture
-----------------------------------------------------------------------------
(* Calls that the operations below are made of *)

\* The executor accepts the command: its checks pass and it can run.
Accepts(command) ==
  /\ Allowed(command, document)
  /\ Redoable(Filled(command, document), document)

(***************************************************************************)
(* command_executor_execute, outside a transaction or as the only command  *)
(* of one.  The timeline grows with the log, loses what a new edit or the  *)
(* budget discards, and has its last content replaced by a merge.          *)
(***************************************************************************)
Execute(command) ==
  LET filled == Filled(command, document)
      last   == log.entries[log.cursor]
      merges == log.cursor > 0 /\ Merges(last, filled)
  IN  /\ Accepts(command)
      /\ document' = Redone(filled, document)
      /\ log' = IF merges THEN Absorb(log, Merged(last, filled), 1) ELSE Push(log, filled, 1)
      /\ LET line == Append(SubSeq(timeline, 1, IF merges THEN log.cursor ELSE log.cursor + 1),
                            Content(document'))
         IN  timeline' = SubSeq(line, Len(line) - Len(log'.entries), Len(line))

\* Mutant: the selection loses what is gone.
PrunedOfMissing(ids, doc) == Elements(ids, {i \in DOMAIN ids : ids[i] \in ObjectIds(doc)})

\* An object that exists and is on a layer that is not locked.
IsEditable(id, doc) == id \in ObjectIds(doc) /\ ~ObjectIsLocked(doc, id)

\* The selection loses what is gone or locked.
Pruned(ids, doc) == Elements(ids, {i \in DOMAIN ids : IsEditable(ids[i], doc)})

SyncDirty == dirty' = document'.revised

\* Clones for the clipboard; paste gives them their ids and their layer.
Snapshots(ids) ==
  [i \in DOMAIN ids |-> [Object(document, ids[i]) EXCEPT !.id = NoId, !.layer = NoId]]

\* Bound on the coordinates.
Within(doc) == \A object \in ToSet(doc.objects) : object.x \in Positions
-----------------------------------------------------------------------------
(* editor_action_handler_dispatch: the inspector and the layer panel *)

Panel == gesture = NoGesture /\ UNCHANGED <<clipboard, pointer>>

EditProperty(id, key, value) ==
  /\ id \in ObjectIds(document)
  /\ Execute(SetProperty(document, id, key, value))
  /\ SyncDirty
  /\ UNCHANGED selection

ActivateLayerAction(layer) ==
  /\ layer \in LayerIds(document) \ {document.active}
  /\ Execute(ActivateLayer(document, layer))
  /\ SyncDirty
  /\ selection' = Pruned(selection, document')

\* Hiding a layer leaves its objects selected, renaming it does, too.
ShowLayer(layer, visible) ==
  /\ Layer(document, layer).visible # visible
  /\ Execute(ChangeLayer(document, layer, "visible", visible))
  /\ SyncDirty
  /\ UNCHANGED selection

\* Mutant: the selection stays.
LockLayerUnderSelection(layer, locked) ==
  /\ Layer(document, layer).locked # locked
  /\ Execute(ChangeLayer(document, layer, "locked", locked))
  /\ SyncDirty
  /\ UNCHANGED selection

LockLayer(layer, locked) ==
  /\ Layer(document, layer).locked # locked
  /\ Execute(ChangeLayer(document, layer, "locked", locked))
  /\ SyncDirty
  /\ selection' = Pruned(selection, document')

RenameLayer(layer, name) ==
  /\ Layer(document, layer).name # name
  /\ Execute(ChangeLayer(document, layer, "name", name))
  /\ SyncDirty
  /\ UNCHANGED selection

MoveLayerAction(layer, index) ==
  /\ LayerIndex(document, layer) # index
  /\ Execute(ReorderLayer(document, layer, index))
  /\ SyncDirty
  /\ UNCHANGED selection

CreateLayer(name) ==
  /\ document.nextLayer <= MaxLayers
  /\ Execute(AddLayer(name))
  /\ SyncDirty
  /\ UNCHANGED selection

PanelAction ==
  /\ Panel
  /\ \/ \E id \in ObjectIds(document), key \in Keys :
          \E value \in (IF key = "x" THEN Positions ELSE Widths) : EditProperty(id, key, value)
     \/ \E name \in LayerNames : CreateLayer(name)
     \/ \E layer \in LayerIds(document) :
          \/ ActivateLayerAction(layer)
          \/ "visible" \in Attributes /\ \E visible \in BOOLEAN : ShowLayer(layer, visible)
          \/ "locked" \in Attributes /\ \E locked \in BOOLEAN : LockLayer(layer, locked)
          \/ \E name \in LayerNames : RenameLayer(layer, name)
          \/ \E index \in DOMAIN document.layers : MoveLayerAction(layer, index)
-----------------------------------------------------------------------------
(* Editing commands: the menus and the keyboard *)

Undo ==
  /\ CanUndo(log)
  /\ Undoable(log.entries[log.cursor], document)
  /\ document' = Undone(log.entries[log.cursor], document)
  /\ log' = StepBack(log)
  /\ selection' = Pruned(selection, document')
  /\ SyncDirty
  /\ UNCHANGED <<timeline, clipboard, pointer>>

Redo ==
  /\ CanRedo(log)
  /\ Redoable(log.entries[log.cursor + 1], document)
  /\ document' = Redone(log.entries[log.cursor + 1], document)
  /\ log' = StepForward(log)
  /\ selection' = Pruned(selection, document')
  /\ SyncDirty
  /\ UNCHANGED <<timeline, clipboard, pointer>>

\* Available when something that is selected can be edited.
Delete ==
  /\ Pruned(selection, document) # << >>
  /\ Execute(DeleteSelection(document, Pruned(selection, document)))
  /\ selection' = << >>
  /\ SyncDirty
  /\ UNCHANGED <<clipboard, pointer>>

SelectAll ==
  /\ selection' = Pruned([i \in DOMAIN document.objects |-> document.objects[i].id], document)
  /\ UNCHANGED <<document, log, timeline, clipboard, dirty, pointer>>

\* Refused when one of the selected objects is missing.
Copy ==
  /\ selection # << >>
  /\ ToSet(selection) \subseteq ObjectIds(document)
  /\ clipboard' = Snapshots(selection)
  /\ UNCHANGED <<document, log, timeline, selection, dirty, pointer>>

\* How far the copies are moved depends on the zoom and on the pastes so far.
Paste(delta) ==
  /\ clipboard # << >>
  /\ document.nextId + Len(clipboard) - 1 <= MaxId
  /\ LET command == PasteObjects(document, clipboard, delta, document.active)
     IN  /\ Execute(command)
         /\ selection' = [i \in DOMAIN command.objects |-> command.objects[i].id]
  /\ Within(document')
  /\ SyncDirty
  /\ UNCHANGED <<clipboard, pointer>>

\* Copy and Delete, in a transaction that records its one command as itself.
Cut ==
  LET cut == Pruned(selection, document)
  IN  /\ cut # << >>
      /\ clipboard' = Snapshots(cut)
      /\ Execute(DeleteSelection(document, cut))
      /\ selection' = << >>
      /\ SyncDirty
      /\ UNCHANGED pointer
-----------------------------------------------------------------------------
(* The pointer.  A gesture lasts from the press that the tool accepts, and *)
(* that captures the pointer, to the release; a release without a capture  *)
(* is ignored, so a gesture that has lost the pointer has no effect on the *)
(* document any more, and is no gesture here.                              *)

Gesture(kind, ids) == [kind |-> kind, ids |-> ids, delta |-> 0]

\* selection_set_remove
Without(ids, id) == Elements(ids, {i \in DOMAIN ids : ids[i] # id})

\* The drag holds the ids that are selected when it starts.
PressOnObject(id, shift) ==
  /\ tool = "select"
  /\ gesture = NoGesture
  /\ ~ObjectIsLocked(document, id)
  /\ selection' = IF ~shift THEN <<id>>
                  ELSE IF id \in ToSet(selection) THEN Without(selection, id)
                  ELSE Append(selection, id)
  /\ gesture' = IF id \in ToSet(selection') THEN Gesture("drag", selection') ELSE NoGesture
  /\ UNCHANGED <<document, log, timeline, clipboard, dirty, tool>>

PressOnNothing ==
  /\ tool = "select"
  /\ gesture = NoGesture
  /\ selection' = << >>
  /\ UNCHANGED <<document, log, timeline, clipboard, dirty, pointer>>

PressToDraw ==
  /\ tool = "shape"
  /\ gesture = NoGesture
  /\ ~LayerIsLocked(document, document.active)
  /\ gesture' = Gesture("draw", << >>)
  /\ UNCHANGED <<document, log, timeline, session, tool>>

\* The tools refuse the other buttons, and the controller lets go of the pointer.
PressOtherButton ==
  /\ gesture # NoGesture
  /\ gesture' = NoGesture
  /\ UNCHANGED <<document, log, timeline, session, tool>>

PointerMove(delta) ==
  /\ gesture # NoGesture
  /\ gesture' = [gesture EXCEPT !.delta = delta]
  /\ UNCHANGED <<document, log, timeline, session, tool>>

ReleaseDrag ==
  LET command == MoveObjects(gesture.ids, gesture.delta)
  IN  /\ gesture.kind = "drag"
      /\ IF gesture.delta # 0 /\ Accepts(command)
         THEN Execute(command) /\ Within(document')
         ELSE UNCHANGED <<document, log, timeline>>
      /\ IF gesture.delta # 0 THEN SyncDirty ELSE UNCHANGED dirty
      /\ gesture' = NoGesture
      /\ UNCHANGED <<selection, clipboard, tool>>

\* The new object is where the pointer was pressed.  object_alloc gives it layer 1, and
\* neither the tool nor a script gives it another one, whatever layer is active.
NewObject(x, width) == [id |-> NoId, layer |-> DefaultLayer, x |-> x, width |-> width]

ReleaseDraw(x, width) ==
  LET command == CreateObject(NewObject(x, width))
  IN  /\ gesture.kind = "draw"
      /\ gesture.delta # 0 => document.nextId <= MaxId
      /\ IF gesture.delta # 0 /\ Accepts(command)
         THEN /\ Execute(command)
              /\ selection' = <<document.nextId>>
              /\ SyncDirty
         ELSE UNCHANGED <<document, log, timeline, selection, dirty>>
      /\ gesture' = NoGesture
      /\ UNCHANGED <<clipboard, tool>>

\* A drag goes on with the ids it holds; a drawing is dropped.
Escape ==
  /\ selection' = IF tool = "select" THEN << >> ELSE selection
  /\ gesture' = IF tool = "shape" THEN NoGesture ELSE gesture
  /\ UNCHANGED <<document, log, timeline, clipboard, dirty, tool>>

\* The tool that is left forgets its gesture.
SwitchTool(next) ==
  /\ tool # next
  /\ tool' = next
  /\ gesture' = NoGesture
  /\ UNCHANGED <<document, log, timeline, session>>
-----------------------------------------------------------------------------
(* Files *)

Save ==
  /\ document' = [document EXCEPT !.revised = FALSE]
  /\ dirty' = FALSE
  /\ UNCHANGED <<log, timeline, selection, clipboard, pointer>>

\* workspace_service_reset_runtime_state around a document that was replaced.
StartOver(doc) ==
  /\ document' = doc
  /\ log' = InitLog(Budget)
  /\ timeline' = <<Content(doc)>>
  /\ selection' = << >>
  /\ clipboard' = << >>
  /\ tool' = "select"
  /\ gesture' = NoGesture
  /\ dirty' = FALSE

New == StartOver(NewDocument)

\* Mutant: the file's counter is taken on trust.
LoadedOnTrust(file) ==
  [file EXCEPT !.nextLayer = Following(Max(LayerIds(file))), !.revised = FALSE]

\* The counters are not taken on trust: ids in use stay behind them.
Loaded(file) ==
  [file EXCEPT !.nextId    = Past(@, Max({NoId} \union ObjectIds(file))),
               !.nextLayer = Following(Max(LayerIds(file))),
               !.revised   = FALSE]

Load(file) == StartOver(Loaded(file))
-----------------------------------------------------------------------------
(* The script tool.  Its ports reach the executor and nothing else: the    *)
(* selection is not pruned and the dirty flag is not brought up to date.   *)

ScriptAdd(x, width) ==
  /\ tool = "script"
  /\ document.nextId <= MaxId
  /\ Execute(CreateObject(NewObject(x, width)))
  /\ UNCHANGED <<session, pointer>>

ScriptUndo ==
  /\ tool = "script"
  /\ CanUndo(log)
  /\ Undoable(log.entries[log.cursor], document)
  /\ document' = Undone(log.entries[log.cursor], document)
  /\ log' = StepBack(log)
  /\ UNCHANGED <<timeline, session, pointer>>

ScriptRedo ==
  /\ tool = "script"
  /\ CanRedo(log)
  /\ Redoable(log.entries[log.cursor + 1], document)
  /\ document' = Redone(log.entries[log.cursor + 1], document)
  /\ log' = StepForward(log)
  /\ UNCHANGED <<timeline, session, pointer>>
-----------------------------------------------------------------------------
Travel == Undo \/ Redo \/ ScriptUndo \/ ScriptRedo

StartFresh == New \/ \E file \in Files : Load(file)

CommandAction ==
  \/ Delete
  \/ SelectAll
  \/ Copy
  \/ \E delta \in Deltas : Paste(delta)
  \/ Cut
  \/ Save

PointerAction ==
  \/ \E id \in ObjectIds(document), shift \in BOOLEAN : PressOnObject(id, shift)
  \/ PressOnNothing
  \/ PressToDraw
  \/ PressOtherButton
  \/ \E delta \in Deltas \union {0} : PointerMove(delta)
  \/ ReleaseDrag
  \/ \E x \in Origins, width \in Widths : ReleaseDraw(x, width)
  \/ Escape
  \/ \E next \in Tools : SwitchTool(next)

ScriptAction == \E x \in Origins, width \in Widths : ScriptAdd(x, width)

Next ==
  \/ PanelAction
  \/ CommandAction
  \/ PointerAction
  \/ ScriptAction
  \/ Travel
  \/ StartFresh

Spec == Init /\ [][Next]_vars
-----------------------------------------------------------------------------
(* Properties *)

LoggedIds ==
  UNION {LET entry == log.entries[i]
         IN  CASE entry.kind = "create" -> {entry.id}
               [] entry.kind \in {"delete", "paste"} -> SnapshotIds(entry)
               [] OTHER -> {} : i \in DOMAIN log.entries}

LoggedLayerIds ==
  {log.entries[i].layer.id : i \in {j \in DOMAIN log.entries : log.entries[j].kind = "addLayer"}}

(***************************************************************************)
(* The document stays in one piece: no two objects and no two layers share *)
(* an id, every object is on a layer that exists, there is an active layer *)
(* to draw on, and no id is handed out twice while the log remembers it.   *)
(***************************************************************************)
WellFormed ==
  /\ Cardinality(ObjectIds(document)) = Len(document.objects)
  /\ Cardinality(LayerIds(document)) = Len(document.layers)
  /\ \A object \in ToSet(document.objects) : object.layer \in LayerIds(document)
  /\ document.active \in LayerIds(document)
  /\ \A id \in ObjectIds(document) \union LoggedIds : id \in 1 .. (document.nextId - 1)
  /\ \A id \in LayerIds(document) \union LoggedLayerIds : id \in 1 .. (document.nextLayer - 1)

(***************************************************************************)
(* Undo and redo return to exactly the content the document had at that    *)
(* point: every object on its layer, at its place in the drawing order,    *)
(* every layer and the active one, whatever merges and pruning did to the  *)
(* log, and whatever the tools, the panels or a script did in between.     *)
(***************************************************************************)
UndoReturns ==
  /\ Len(timeline) = Len(log.entries) + 1
  /\ timeline[log.cursor + 1] = Content(document)

(***************************************************************************)
(* No entry of the log is stuck: the command the next undo asks for can be *)
(* undone on the document as it is, and the next redo can be redone.  An   *)
(* undo that returns 0 would block everything behind it for good.          *)
(***************************************************************************)
StepsNeverStuck ==
  /\ CanUndo(log) => Undoable(log.entries[log.cursor], document)
  /\ CanRedo(log) => Redoable(log.entries[log.cursor + 1], document)

(***************************************************************************)
(* Whatever is selected exists and may be edited, so that the commands on  *)
(* the selection mean what the canvas shows.  A document without layer 1   *)
(* is excepted from the second half: an object that is drawn there may     *)
(* fall on a locked layer (below), and is selected.                        *)
(***************************************************************************)
SelectionLive ==
  /\ Cardinality(ToSet(selection)) = Len(selection)
  /\ ToSet(selection) \subseteq ObjectIds(document)
  /\ DefaultLayer \in LayerIds(document) =>
       \A id \in ToSet(selection) : ~ObjectIsLocked(document, id)

(***************************************************************************)
(* The objects on a locked layer are not edited, moved, deleted, reordered *)
(* or added to, not even by a drag that started before the layer was       *)
(* locked.  Undo, redo and replacing the document are not edits.  In a     *)
(* document without layer 1, an object that is drawn or added by a script  *)
(* finds its way to the active layer, and the lock of that layer has not   *)
(* been looked at: there one object more may come to lie on top.           *)
(***************************************************************************)
ObjectsOn(doc, layer) ==
  Elements(doc.objects, {i \in DOMAIN doc.objects : doc.objects[i].layer = layer})

FellThrough(layer) ==
  /\ DefaultLayer \notin LayerIds(document)
  /\ layer = document.active
  /\ \E object \in ToSet(document'.objects) :
       ObjectsOn(document', layer) = Append(ObjectsOn(document, layer), object)

LockedUntouched ==
  [][\/ \A layer \in LayerIds(document) :
          Layer(document, layer).locked =>
            \/ ObjectsOn(document', layer) = ObjectsOn(document, layer)
            \/ FellThrough(layer)
     \/ Travel
     \/ StartFresh]_vars

(***************************************************************************)
(* A call that changes what the user sees marks the document as changed,   *)
(* and the mark stays until the document is saved or replaced.  New, Open  *)
(* and Exit ask before they discard a marked document, and only then.      *)
(***************************************************************************)
DirtyTracksContent ==
  [][\/ Save
     \/ StartFresh
     \/ /\ dirty => dirty'
        /\ Content(document') # Content(document) => dirty']_vars
=============================================================================
