------------------------------ MODULE Commands ------------------------------
(***************************************************************************)
(* The concrete commands of src/src/commands: what each vtable's execute,  *)
(* undo, redo and merge do to a document, when they return 0, and the      *)
(* checks command_executor_execute makes first.  The layer's visibility,   *)
(* lock and name commands differ only in the attribute they set.           *)
(*                                                                         *)
(* A command is a record whose kind says what its other fields are:        *)
(*   create     object (its snapshot), id (NoId until it is executed)      *)
(*   delete     objects (snapshots), indices (where they were)             *)
(*   move       ids, delta                                                 *)
(*   paste      objects (snapshots, with their new ids), layer             *)
(*   property   id, key, before, after                                     *)
(*   active     before, after                                              *)
(*   attribute  layer, attribute, before, after                            *)
(*   moveLayer  layer, before, after                                       *)
(*   addLayer   layer, index (0 until it is executed), previous            *)
(***************************************************************************)
EXTENDS Document

(* Factories.  They return NULL, and the edit is refused, when the target  *)
(* does not exist; those of moves and of layers, also when nothing would   *)
(* change.  The actions of Editor carry these conditions.                  *)

CreateObject(object) == [kind |-> "create", object |-> object, id |-> object.id]

DeleteSelection(doc, selection) ==
  LET selected == {i \in DOMAIN doc.objects : doc.objects[i].id \in ToSet(selection)}
  IN  [kind |-> "delete", indices |-> Ascending(selected, Len(doc.objects)),
       objects |-> Elements(doc.objects, selected)]

MoveObjects(ids, delta) == [kind |-> "move", ids |-> ids, delta |-> delta]

PasteObjects(doc, objects, delta, layer) ==
  [kind |-> "paste", layer |-> layer,
   objects |-> [i \in DOMAIN objects |->
                  [objects[i] EXCEPT !.id    = doc.nextId + i - 1,
                                     !.layer = layer,
                                     !.x     = @ + delta]]]

SetProperty(doc, id, key, value) ==
  [kind |-> "property", id |-> id, key |-> key,
   before |-> Object(doc, id)[key], after |-> value]

ActivateLayer(doc, layer) ==
  [kind |-> "active", before |-> doc.active, after |-> layer]

ChangeLayer(doc, layer, attribute, value) ==
  [kind |-> "attribute", layer |-> layer, attribute |-> attribute,
   before |-> Layer(doc, layer)[attribute], after |-> value]

ReorderLayer(doc, layer, index) ==
  [kind |-> "moveLayer", layer |-> layer,
   before |-> LayerIndex(doc, layer), after |-> index]

AddLayer(name) ==
  [kind |-> "addLayer", layer |-> NewLayer(NoId, name), index |-> 0, previous |-> NoId]
-----------------------------------------------------------------------------
SnapshotIds(command) == {object.id : object \in ToSet(command.objects)}

(***************************************************************************)
(* command_check_execute: objects on locked layers are not to be changed,  *)
(* and nothing is to be added to one.  It is asked before the first        *)
(* execution only, never before an undo or a redo.                         *)
(***************************************************************************)
Editable(ids, doc) == \A id \in ids : id \in ObjectIds(doc) /\ ~ObjectIsLocked(doc, id)

\* Mutant: the lock is looked at where the tool looked when the drawing started.
CreateAllowedAsStarted(command, doc) == ~LayerIsLocked(doc, doc.active)

\* The layer the object asks for, which is layer 1 for every object that is drawn or
\* added by a script; nothing is looked at when the document has no such layer.
CreateAllowed(command, doc) ==
  LET layer == command.object.layer
  IN  ~LayerIsLocked(doc, IF layer = NoId THEN doc.active ELSE layer)

DeleteAllowed(command, doc) == Editable(SnapshotIds(command), doc)

\* Mutant: the tool has looked at the locks when the drag started.
MoveAllowedAsStarted(command, doc) == ToSet(command.ids) \subseteq ObjectIds(doc)

MoveAllowed(command, doc) == Editable(ToSet(command.ids), doc)

\* Mutant: the lock of the active layer is not looked at.
PasteAllowedAnywhere(command, doc) == SnapshotIds(command) \cap ObjectIds(doc) = {}

PasteAllowed(command, doc) ==
  /\ ~LayerIsLocked(doc, command.layer)
  /\ SnapshotIds(command) \cap ObjectIds(doc) = {}

PropertyAllowed(command, doc) == Editable({command.id}, doc)

Allowed(command, doc) ==
  CASE command.kind = "create" -> CreateAllowed(command, doc)
    [] command.kind = "delete" -> DeleteAllowed(command, doc)
    [] command.kind = "move" -> MoveAllowed(command, doc)
    [] command.kind = "paste" -> PasteAllowed(command, doc)
    [] command.kind = "property" -> PropertyAllowed(command, doc)
    [] OTHER -> TRUE

(***************************************************************************)
(* The first execution of a create and of an addLayer takes an id from the *)
(* document and keeps it, so that a redo makes the same object or layer.   *)
(* A snapshot of a created object keeps the layer it was built with: every *)
(* execution asks for that layer, and falls back to the one that is active *)
(* then (ResolvedLayer) in a document that does not have it.               *)
(***************************************************************************)
Filled(command, doc) ==
  CASE command.kind = "create" /\ command.id = NoId ->
         [command EXCEPT !.id = doc.nextId, !.object.id = doc.nextId]
    [] command.kind = "addLayer" /\ command.index = 0 ->
         [command EXCEPT !.layer.id = doc.nextLayer,
                         !.index    = Len(doc.layers) + 1,
                         !.previous = doc.active]
    [] OTHER -> command
-----------------------------------------------------------------------------
(* vtable->execute of a filled command, which is vtable->redo as well, and *)
(* vtable->undo.  Five of the kinds set something to a value, their redo   *)
(* to the one after the edit and their undo to the one before it.          *)

\* Mutant: every execution takes a new id.
CreateExecutedAnew(command, doc) ==
  AppendObject(doc, command.object, doc.nextId, command.object.layer)

CreateExecuted(command, doc) ==
  AppendObject(doc, command.object, command.id, command.object.layer)

CreateUndone(command, doc) == RemoveObject(doc, command.id)

DeleteExecuted(command, doc) ==
  LET made[i \in 0 .. Len(command.objects)] ==
        IF i = 0 THEN doc ELSE RemoveObject(made[i - 1], command.objects[i].id)
  IN  made[Len(command.objects)]

\* Mutant: the indices are not used.
DeleteUndoneAtEnd(command, doc) ==
  LET made[i \in 0 .. Len(command.objects)] ==
        IF i = 0 THEN doc
        ELSE InsertObjectClone(made[i - 1], command.objects[i], Len(made[i - 1].objects) + 1)
  IN  made[Len(command.objects)]

\* First to last: an index counts the deleted objects before it.
DeleteUndone(command, doc) ==
  LET made[i \in 0 .. Len(command.objects)] ==
        IF i = 0 THEN doc
        ELSE InsertObjectClone(made[i - 1], command.objects[i], command.indices[i])
  IN  made[Len(command.objects)]

PasteExecuted(command, doc) ==
  LET made[i \in 0 .. Len(command.objects)] ==
        IF i = 0 THEN doc
        ELSE AppendObject(made[i - 1], command.objects[i], command.objects[i].id, command.layer)
  IN  made[Len(command.objects)]

\* Last to first.
PasteUndone(command, doc) ==
  LET n == Len(command.objects)
      made[i \in 0 .. n] ==
        IF i = 0 THEN doc ELSE RemoveObject(made[i - 1], command.objects[n - i + 1].id)
  IN  made[n]

ObjectsMoved(command, doc, delta) == TranslateObjects(doc, ToSet(command.ids), delta)

PropertySet(command, doc, value) == SetScalar(doc, command.id, command.key, value)

ActiveSet(command, doc, value) == SetActiveLayer(doc, value)

AttributeSet(command, doc, value) ==
  SetLayerAttribute(doc, command.layer, command.attribute, value)

LayerMoved(command, doc, value) == MoveLayer(doc, command.layer, value)

\* Mutant: every execution takes a new id.
AddLayerExecutedAnew(command, doc) ==
  SetActiveLayer(InsertLayer(doc, [command.layer EXCEPT !.id = doc.nextLayer], command.index),
                 doc.nextLayer)

AddLayerExecuted(command, doc) ==
  SetActiveLayer(InsertLayer(doc, command.layer, command.index), command.layer.id)

AddLayerUndone(command, doc) ==
  SetActiveLayer(DeleteLayer(doc, command.layer.id), command.previous)

Redone(command, doc) ==
  CASE command.kind = "create" -> CreateExecuted(command, doc)
    [] command.kind = "delete" -> DeleteExecuted(command, doc)
    [] command.kind = "paste" -> PasteExecuted(command, doc)
    [] command.kind = "move" -> ObjectsMoved(command, doc, command.delta)
    [] command.kind = "property" -> PropertySet(command, doc, command.after)
    [] command.kind = "active" -> ActiveSet(command, doc, command.after)
    [] command.kind = "attribute" -> AttributeSet(command, doc, command.after)
    [] command.kind = "moveLayer" -> LayerMoved(command, doc, command.after)
    [] command.kind = "addLayer" -> AddLayerExecuted(command, doc)

Undone(command, doc) ==
  CASE command.kind = "create" -> CreateUndone(command, doc)
    [] command.kind = "delete" -> DeleteUndone(command, doc)
    [] command.kind = "paste" -> PasteUndone(command, doc)
    [] command.kind = "move" -> ObjectsMoved(command, doc, -command.delta)
    [] command.kind = "property" -> PropertySet(command, doc, command.before)
    [] command.kind = "active" -> ActiveSet(command, doc, command.before)
    [] command.kind = "attribute" -> AttributeSet(command, doc, command.before)
    [] command.kind = "moveLayer" -> LayerMoved(command, doc, command.before)
    [] command.kind = "addLayer" -> AddLayerUndone(command, doc)

\* Setting something to a value returns 1.
Settable(command, doc, value) ==
  CASE command.kind = "move" -> ToSet(command.ids) \cap ObjectIds(doc) # {}
    [] command.kind = "property" -> command.id \in ObjectIds(doc)
    [] command.kind = "active" -> value \in LayerIds(doc)
    [] command.kind = "attribute" -> command.layer \in LayerIds(doc)
    [] command.kind = "moveLayer" -> command.layer \in LayerIds(doc) /\ Len(doc.layers) > 1

\* vtable->redo, and vtable->execute of a filled command, return 1.
Redoable(command, doc) ==
  CASE command.kind = "create" -> CanAppendObject(doc, command.id, command.object.layer)
    [] command.kind = "delete" -> TRUE
    [] command.kind = "paste" ->
         \A id \in SnapshotIds(command) : CanAppendObject(doc, id, command.layer)
    [] command.kind = "move" -> Settable(command, doc, command.delta)
    [] command.kind = "addLayer" -> command.layer.id \notin LayerIds(doc)
    [] OTHER -> Settable(command, doc, command.after)

\* vtable->undo returns 1.
Undoable(command, doc) ==
  CASE command.kind = "create" -> command.id \in ObjectIds(doc)
    [] command.kind = "delete" -> SnapshotIds(command) \cap ObjectIds(doc) = {}
    [] command.kind = "paste" -> SnapshotIds(command) \subseteq ObjectIds(doc)
    [] command.kind = "move" -> Settable(command, doc, -command.delta)
    [] command.kind = "addLayer" -> /\ CanDeleteLayer(doc, command.layer.id)
                                    /\ command.previous \in LayerIds(doc)
    [] OTHER -> Settable(command, doc, command.before)
-----------------------------------------------------------------------------
(* vtable->merge: whether the last command of the log absorbs a new one,   *)
(* and what becomes of it.                                                 *)

\* The same objects moved further the same way.
MovesMerge(last, command) == last.ids = command.ids /\ last.delta * command.delta > 0

PropertiesMerge(last, command) == last.id = command.id /\ last.key = command.key

\* Mutant: a lock or a name merges whatever layer it is of.
AttributesMergeAnywhere(last, command) == last.attribute = command.attribute

AttributesMerge(last, command) ==
  last.layer = command.layer /\ last.attribute = command.attribute

LayerMovesMerge(last, command) == last.layer = command.layer

Merges(last, command) ==
  /\ last.kind = command.kind
  /\ CASE command.kind = "move" -> MovesMerge(last, command)
       [] command.kind = "property" -> PropertiesMerge(last, command)
       [] command.kind = "active" -> TRUE
       [] command.kind = "attribute" -> AttributesMerge(last, command)
       [] command.kind = "moveLayer" -> LayerMovesMerge(last, command)
       [] OTHER -> FALSE

\* Mutant: the new command takes the place of the last.
MergedByReplacing(last, command) == command

Merged(last, command) ==
  IF command.kind = "move"
  THEN [last EXCEPT !.delta = @ + command.delta]
  ELSE [last EXCEPT !.after = command.after]
=============================================================================
