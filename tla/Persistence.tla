----------------------------- MODULE Persistence -----------------------------
(***************************************************************************)
(* Documents in files: how they are written, how a file is read, and how a *)
(* file is replaced.  From src/src/document/persistence_write.c,           *)
(* persistence.c, persistence_layers.c, persistence_objects.c,             *)
(* persistence_json.c, src/src/base/file_utils.c and the open and save of  *)
(* src/src/app/workspace_service.c.                                        *)
(*                                                                         *)
(* A file is the sequence of the members of its root object, and whole     *)
(* says whether it ends where that object does.  Members that the reader   *)
(* does not know are skipped and left out; version stands for itself and   *)
(* for the format that is required with it.  A layer entry and an object   *)
(* entry are their fields, a missing layer_id being NoId, which finds the  *)
(* same layer.                                                             *)
(*                                                                         *)
(* A save runs to its end before the event loop goes on, but the process   *)
(* may be killed at every step, every step may fail, and other programs    *)
(* may write the file.  Nothing is synchronised to the disk: what a loss   *)
(* of power leaves of a file is not modelled.                              *)
(***************************************************************************)
EXTENDS Document

CONSTANTS
  Paths,         \* where documents are saved and opened
  Startup,       \* GLDRAW_DEFAULT_DOCUMENT_PATH, which is opened at the start
  Names,         \* the names of layers
  ForeignFiles,  \* bound: files that other programs write
  ControlNames,  \* names with a control character that has no short escape
  Infinity,      \* coordinates and widths from here on are beyond FLT_MAX
  Shapes,        \* bound: the x and width of objects that are drawn
  HandedOut,     \* bound: object ids handed out
  MaxObjects,    \* bound: objects of a document that is drawn in
  MaxLayers      \* bound: layers of a document that layers are created in

ASSUME PathAssumption == Startup \in Paths

\* A name that the reader refuses: \u is an escape it does not know.
Unreadable == "unreadable"

ASSUME NamesAssumption ==
  /\ {DefaultName, Unreadable} \subseteq Names
  /\ DefaultName # Unreadable

ASSUME ShapesAssumption == Infinity \in Int /\ Shapes \subseteq [x : Int, width : Int]

MemberType ==
  [version : Nat] \union [nextId : Nat] \union [active : Nat]
    \union [layers : Seq(LayerType(Names))] \union [objects : Seq(ObjectType)]

FileType == [members : Seq(MemberType), whole : BOOLEAN]

\* json_parse_u32 takes the numbers up to UIntMax: a file with another one is like a
\* file that breaks off there.
UnsignedInt == 0 .. UIntMax

IsUnsigned(member) ==
  CASE "version" \in DOMAIN member -> member.version \in UnsignedInt
    [] "nextId" \in DOMAIN member -> member.nextId \in UnsignedInt
    [] "active" \in DOMAIN member -> member.active \in UnsignedInt
    [] "layers" \in DOMAIN member ->
         \A i \in DOMAIN member.layers : member.layers[i].id \in UnsignedInt
    [] "objects" \in DOMAIN member ->
         \A i \in DOMAIN member.objects :
           {member.objects[i].id, member.objects[i].layer} \subseteq UnsignedInt

ASSUME ForeignAssumption ==
  /\ ForeignFiles \subseteq FileType
  /\ \A file \in ForeignFiles : \A i \in DOMAIN file.members : IsUnsigned(file.members[i])

VARIABLES
  document,
  files,      \* by name, the files that exist
  saver,      \* the save that runs: its path, its stage and the members written
  promised,   \* ghost: what the last save that succeeded has put into each path
  crashed,    \* ghost: the process was killed in a save
  misplaced,  \* ghost: the document is from a file with objects before their layers
  exhausted   \* ghost: the largest id has been in use in the document

vars == <<document, files, saver, promised, crashed, misplaced, exhausted>>
-----------------------------------------------------------------------------
(* write_document_json *)

\* %.9g prints inf, which the reader takes for no number.
Infinite(object) == object.x >= Infinity \/ object.width >= Infinity

LayerEntry(layer) == [layer EXCEPT !.name = IF @ \in ControlNames THEN Unreadable ELSE @]

\* NoId stands for an entry that the reader refuses.
ObjectEntry(object) == [object EXCEPT !.id = IF Infinite(object) THEN NoId ELSE @]

Written(doc) ==
  <<[version |-> 2],
    [nextId |-> doc.nextId],
    [active |-> doc.active],
    [layers |-> [i \in DOMAIN doc.layers |-> LayerEntry(doc.layers[i])]],
    [objects |-> [i \in DOMAIN doc.objects |-> ObjectEntry(doc.objects[i])]]>>
-----------------------------------------------------------------------------
(* document_load_json up to the replacement of the document *)

\* document_init, and what parse_document_root has found so far.
Reading ==
  [doc |-> NewDocument, accepted |-> TRUE, version |-> 0, nextId |-> 0, active |-> NoId,
   layersSeen |-> FALSE, objectsSeen |-> FALSE]

Refused(reading) == [reading EXCEPT !.accepted = FALSE]

\* parse_layer_entry
ReadLayer(reading, layer) ==
  IF /\ layer.id \notin LayerIds(reading.doc) \union {NoId}
     /\ layer.name # Unreadable
  THEN [reading EXCEPT !.doc = InsertLayer(@, layer, Len(@.layers) + 1)]
  ELSE Refused(reading)

\* parse_object_entry.  width stands for the stroke width and the sizes, of which
\* build_loaded_object and deserialize take none that is not positive.
ReadObject(reading, object) ==
  IF /\ object.id # NoId
     /\ object.width > 0
     /\ CanAppendObject(reading.doc, object.id, object.layer)
  THEN [reading EXCEPT !.doc = AppendObject(@, object, object.id, object.layer)]
  ELSE Refused(reading)

\* The loop of parse_layers_array.
LayersRead(reading, layers) ==
  LET read[i \in 0 .. Len(layers)] ==
        IF i = 0 THEN reading ELSE ReadLayer(read[i - 1], layers[i])
  IN  read[Len(layers)]

\* The loop of parse_objects_array.
ObjectsRead(reading, objects) ==
  LET read[i \in 0 .. Len(objects)] ==
        IF i = 0 THEN reading ELSE ReadObject(read[i - 1], objects[i])
  IN  read[Len(objects)]

ReadMember(reading, member) ==
  CASE "version" \in DOMAIN member -> [reading EXCEPT !.version = member.version]
    [] "nextId" \in DOMAIN member -> [reading EXCEPT !.nextId = member.nextId]
    [] "active" \in DOMAIN member -> [reading EXCEPT !.active = member.active]
    [] "layers" \in DOMAIN member ->
         LayersRead([reading EXCEPT !.doc.layers = << >>, !.layersSeen = TRUE], member.layers)
    [] "objects" \in DOMAIN member ->
         ObjectsRead([reading EXCEPT !.objectsSeen = TRUE], member.objects)

\* The loop of parse_document_root: members in any order, and any number of times.
ReadMembers(file) ==
  LET read[i \in 0 .. Len(file.members)] ==
        IF i = 0 THEN Reading ELSE ReadMember(read[i - 1], file.members[i])
  IN  read[Len(file.members)]

\* The end of parse_document_root.
CanRead(file) ==
  LET reading == ReadMembers(file)
  IN  /\ file.whole
      /\ reading.accepted
      /\ reading.version \in {1, 2}
      /\ reading.objectsSeen

Layered(reading) ==
  IF reading.version = 1 \/ ~reading.layersSeen \/ reading.doc.layers = << >>
  THEN [reading.doc EXCEPT !.layers    = <<NewLayer(DefaultLayer, DefaultName)>>,
                           !.nextLayer = DefaultLayer + 1]
  ELSE reading.doc

\* Mutant: the counter of the file is not looked at.
FinishedUncounted(reading) ==
  LET doc  == Layered(reading)
      last == Max(ObjectIds(doc) \union {NoId})
  IN  [doc EXCEPT
        !.active  = IF reading.active \in LayerIds(doc) THEN reading.active ELSE doc.layers[1].id,
        !.nextId  = Following(last),
        !.revised = FALSE]

Finished(reading) ==
  LET doc  == Layered(reading)
      last == Max(ObjectIds(doc) \union {NoId})
  IN  [doc EXCEPT
        !.active  = IF reading.active \in LayerIds(doc) THEN reading.active ELSE doc.layers[1].id,
        !.nextId  = IF reading.nextId > last THEN reading.nextId ELSE Following(last),
        !.revised = FALSE]

Read(file) == Finished(ReadMembers(file))

\* Mutant: the file is read into the document that is open.
OpenedInPlace(doc, file) ==
  IF CanRead(file) THEN Read(file) ELSE ReadMembers(file).doc

\* document_load_json: a file that is refused leaves the document as it is.
Opened(doc, file) == IF CanRead(file) THEN Read(file) ELSE doc
-----------------------------------------------------------------------------
TargetName(path) == <<path, "">>

TempName(path) == <<path, ".tmp">>

FileNames == {TargetName(path) : path \in Paths} \union {TempName(path) : path \in Paths}

Missing == [members |-> << >>, whole |-> FALSE]

Idle == [stage |-> "idle", path |-> Startup, written |-> 0]

NoPromise == [objects |-> << >>, layers |-> << >>, active |-> NoId, nextId |-> 0]

\* What a file holds of a document, if it can be read again as it was.
Promise(doc) ==
  IF \/ \E layer \in ToSet(doc.layers) : layer.name \in ControlNames
     \/ \E object \in ToSet(doc.objects) : \/ object.layer \notin LayerIds(doc)
                                          \/ object.width <= 0
                                          \/ Infinite(object)
  THEN NoPromise
  ELSE [objects |-> doc.objects, layers |-> doc.layers, active |-> doc.active,
        nextId |-> doc.nextId]

Misplaced(file) ==
  \E i, j \in DOMAIN file.members :
    /\ "objects" \in DOMAIN file.members[i]
    /\ "layers" \in DOMAIN file.members[j]
    /\ i < j \/ ReadMembers(file).version = 1

HoldsLargest(doc) == UIntMax \in ObjectIds(doc) \union LayerIds(doc)

Init ==
  /\ document = NewDocument
  /\ files = [name \in FileNames |-> Missing]
  /\ saver = Idle
  /\ promised = [path \in Paths |-> NoPromise]
  /\ crashed = FALSE
  /\ misplaced = FALSE
  /\ exhausted = FALSE
-----------------------------------------------------------------------------
(* document_save_json *)

\* fopen truncates a file that a save before has left.
OpenTemp(path) ==
  /\ saver.stage = "idle"
  /\ saver' = [stage |-> "write", path |-> path, written |-> 0]
  /\ files' = [files EXCEPT ![TempName(path)] = Missing]
  /\ UNCHANGED <<document, promised, crashed, misplaced, exhausted>>

\* The file is whole when the last member is written and the buffer flushed.
WriteMember ==
  LET members == Written(document)
      written == saver.written + 1
  IN  /\ saver.stage = "write"
      /\ saver' = [saver EXCEPT !.written = written,
                                !.stage = IF written = Len(members) THEN "replace" ELSE @]
      /\ files' = [files EXCEPT ![TempName(saver.path)] =
                     [members |-> SubSeq(members, 1, written), whole |-> written = Len(members)]]
      /\ UNCHANGED <<document, promised, crashed, misplaced, exhausted>>

\* Mutant: what was written stays.
WriteFailsLittering ==
  /\ saver.stage \in {"write", "replace"}
  /\ saver' = Idle
  /\ UNCHANGED <<document, files, promised, crashed, misplaced, exhausted>>

\* Mutant: the target was removed to make way for the rename that then failed.
WriteFailsRemoving ==
  /\ saver.stage \in {"write", "replace"}
  /\ saver' = Idle
  /\ files' = [files EXCEPT ![TempName(saver.path)] = Missing,
                            ![TargetName(saver.path)] = Missing]
  /\ UNCHANGED <<document, promised, crashed, misplaced, exhausted>>

\* A write, the fclose or the rename fails: the temporary file is removed.
WriteFails ==
  /\ saver.stage \in {"write", "replace"}
  /\ saver' = Idle
  /\ files' = [files EXCEPT ![TempName(saver.path)] = Missing]
  /\ UNCHANGED <<document, promised, crashed, misplaced, exhausted>>

\* rename
ReplaceTarget ==
  /\ saver.stage = "replace"
  /\ files' = [files EXCEPT ![TargetName(saver.path)] = files[TempName(saver.path)],
                            ![TempName(saver.path)] = Missing]
  /\ promised' = [promised EXCEPT ![saver.path] =
                    IF exhausted THEN NoPromise ELSE Promise(document)]
  /\ document' = [document EXCEPT !.revised = FALSE]
  /\ saver' = Idle
  /\ UNCHANGED <<crashed, misplaced, exhausted>>
-----------------------------------------------------------------------------
(* The session *)

\* workspace_service_load_from_path
Open(path) ==
  LET file == files[TargetName(path)]
  IN  /\ saver.stage = "idle"
      /\ document' = Opened(document, file)
      /\ misplaced' = IF CanRead(file) THEN Misplaced(file) ELSE misplaced
      /\ exhausted' = IF CanRead(file) THEN HoldsLargest(Read(file)) ELSE exhausted
      /\ UNCHANGED <<files, saver, promised, crashed>>

\* The process is killed, and started again: application_open_startup_document.
Restart ==
  LET file == files[TargetName(Startup)]
  IN  /\ document' = Opened(NewDocument, file)
      /\ misplaced' = (CanRead(file) /\ Misplaced(file))
      /\ exhausted' = (CanRead(file) /\ HoldsLargest(Read(file)))
      /\ saver' = Idle
      /\ crashed' = (crashed \/ saver.stage # "idle")
      /\ UNCHANGED <<files, promised>>

Foreign(path, file) ==
  /\ files' = [files EXCEPT ![TargetName(path)] = file]
  /\ promised' = [promised EXCEPT ![path] = NoPromise]
  /\ UNCHANGED <<document, saver, crashed, misplaced, exhausted>>

Edited(doc) ==
  /\ saver.stage = "idle"
  /\ document' = doc
  /\ UNCHANGED <<files, saver, promised, crashed, misplaced>>

\* The id is next_id++, whether it is in use or not.
DrawObject(shape) ==
  /\ document.nextId \in HandedOut
  /\ Len(document.objects) < MaxObjects
  /\ Edited(AppendObject(document,
                         [id |-> NoId, layer |-> DefaultLayer,
                          x |-> shape.x, width |-> shape.width],
                         document.nextId, DefaultLayer))
  /\ exhausted' = (exhausted \/ document.nextId = UIntMax)

DeleteObject(id) == Edited(RemoveObject(document, id)) /\ UNCHANGED exhausted

\* document_create_layer returns the id, and the command takes 0 for a failure: a layer
\* with that id stays, and is not made active.
CreateLayer ==
  LET id  == document.nextLayer
      doc == InsertLayer(document, NewLayer(id, DefaultName), Len(document.layers) + 1)
  IN  /\ Len(document.layers) < MaxLayers
      /\ Edited(IF id = NoId THEN doc ELSE SetActiveLayer(doc, id))
      /\ exhausted' = (exhausted \/ id = UIntMax)
-----------------------------------------------------------------------------
Save ==
  \/ \E path \in Paths : OpenTemp(path)
  \/ WriteMember
  \/ WriteFails
  \/ ReplaceTarget

Edit ==
  \/ \E shape \in Shapes : DrawObject(shape)
  \/ \E id \in ObjectIds(document) : DeleteObject(id)
  \/ CreateLayer

Next ==
  \/ Save
  \/ \E path \in Paths : Open(path)
  \/ Restart
  \/ \E path \in Paths, file \in ForeignFiles : Foreign(path, file)
  \/ Edit

Spec == Init /\ [][Next]_vars
-----------------------------------------------------------------------------
(* Properties *)

(***************************************************************************)
(* What a save has put into a file is there, in every detail of the        *)
(* document and with the counter that keeps its ids from being given out   *)
(* again, until another save or another program replaces it: through saves *)
(* that fail and saves that are killed at any step.  Excepted is what the  *)
(* program writes and then refuses to read, the whole file with it: layer  *)
(* names that another program has put a control character into, sizes and  *)
(* stroke widths that are not positive, as a rectangle drawn along an axis *)
(* or a script's style has them, numbers beyond the range of float, and    *)
(* ids that have come back to 0.  Excepted are objects on a layer that     *)
(* does not exist (below), too: they are put on another one when they are  *)
(* read again.                                                             *)
(***************************************************************************)
SavedSurvives ==
  \A path \in Paths :
    LET file == files[TargetName(path)]
    IN  promised[path] # NoPromise =>
          CanRead(file) /\ Promise(Read(file)) = promised[path]

(***************************************************************************)
(* A file that other programs leave alone changes in one step, from what   *)
(* it was to the whole of the document that was open when the save began,  *)
(* wherever a save fails or is killed.                                     *)
(***************************************************************************)
ReplacedWhole ==
  [][\A path \in Paths :
       files'[TargetName(path)] # files[TargetName(path)] =>
         \/ files'[TargetName(path)] = [members |-> Written(document), whole |-> TRUE]
         \/ \E file \in ForeignFiles : Foreign(path, file)]_vars

(***************************************************************************)
(* No file stays behind beside the document's, unless the process was      *)
(* killed in a save.                                                       *)
(***************************************************************************)
NoLitter ==
  saver.stage = "idle" /\ ~crashed =>
    \A path \in Paths : files[TempName(path)] = Missing

(***************************************************************************)
(* The open document is whole whatever was opened, broken files and files  *)
(* of other programs included: ids are not used twice and are behind the   *)
(* counters, and the active layer and the layer of every object exist.     *)
(* Once the largest id has been in use, which a file may bring about, the  *)
(* counter behind it starts again from 0 and hands ids out twice: then the *)
(* layers are all that is left of this.  In a file with objects before its *)
(* layers, or with layers in version 1, the objects were put on layers     *)
(* that are then replaced, and may keep a layer that does not exist.       *)
(***************************************************************************)
OpenedIsWhole ==
  /\ ~exhausted =>
       /\ IsInjective([i \in DOMAIN document.objects |-> document.objects[i].id])
       /\ IsInjective([i \in DOMAIN document.layers |-> document.layers[i].id])
       /\ \A id \in ObjectIds(document) : id < document.nextId
       /\ \A id \in LayerIds(document) : id < document.nextLayer
  /\ document.active \in LayerIds(document)
  /\ ~misplaced =>
       \A object \in ToSet(document.objects) : object.layer \in LayerIds(document)
=============================================================================
