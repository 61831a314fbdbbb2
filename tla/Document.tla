------------------------------ MODULE Document ------------------------------
(***************************************************************************)
(* The document as a value: the objects in drawing order, the layers in    *)
(* panel order, the active layer and the two id counters.  Every operator  *)
(* is one function of src/src/document/document.c, document_objects.c or   *)
(* document_layers.c and yields the document after the call; the           *)
(* conditions under which the C function returns 0 are operators of their  *)
(* own where a caller depends on them.                                     *)
(*                                                                         *)
(* An object is its id, its layer and its scalar properties: "x" stands    *)
(* for the coordinates a move translates, "width" for those it leaves      *)
(* alone.  Coordinates are integers: rounding is not modelled.  Position i *)
(* of a sequence is index i - 1 of the C array.                            *)
(*                                                                         *)
(* Ids and the counters that hand them out are unsigned ints: the one that *)
(* follows the largest is 0, which is the id of nothing.                   *)
(*                                                                         *)
(* The revision counter only grows between two resets, and its one use     *)
(* here is the comparison with the revision that was saved, so the field   *)
(* revised says whether it has grown since then.  The counter would have   *)
(* to be increased 2^32 times for the two to differ.                       *)
(***************************************************************************)
EXTENDS Integers, FiniteSets, SequencesExt

CONSTANTS
  DefaultName,  \* DOCUMENT_DEFAULT_LAYER_NAME
  IdLimit       \* UINT_MAX + 1

ASSUME IdAssumption == IdLimit \in Nat /\ IdLimit > 2

DefaultLayer == 1  \* DOCUMENT_DEFAULT_LAYER_ID

NoId == 0          \* the id of no object and of no layer

UIntMax == IdLimit - 1  \* UINT_MAX

\* The positions from 1 to n that are in a set, in their order.
Ascending(positions, n) ==
  LET listed[i \in 0 .. n] ==
        IF i = 0 THEN << >>
        ELSE IF i \in positions THEN Append(listed[i - 1], i) ELSE listed[i - 1]
  IN  listed[n]

\* The elements at these positions, in their order.
Elements(seq, positions) ==
  LET kept == Ascending(positions, Len(seq))
  IN  [i \in DOMAIN kept |-> seq[kept[i]]]
-----------------------------------------------------------------------------
(* Queries *)

ObjectIds(doc) == {object.id : object \in ToSet(doc.objects)}

LayerIds(doc) == {layer.id : layer \in ToSet(doc.layers)}

ObjectIndex(doc, id) == SelectInSeq(doc.objects, LAMBDA object : object.id = id)

LayerIndex(doc, id) == SelectInSeq(doc.layers, LAMBDA layer : layer.id = id)

Object(doc, id) == doc.objects[ObjectIndex(doc, id)]

Layer(doc, id) == doc.layers[LayerIndex(doc, id)]

\* A layer that does not exist is not locked.
LayerIsLocked(doc, id) == id \in LayerIds(doc) /\ Layer(doc, id).locked

ObjectIsLocked(doc, id) ==
  id \in ObjectIds(doc) /\ LayerIsLocked(doc, Object(doc, id).layer)

HasObjects(doc, layer) == \E object \in ToSet(doc.objects) : object.layer = layer

ResolvedLayer(doc, id) ==
  CASE id \in LayerIds(doc) -> id
    [] id \notin LayerIds(doc) /\ doc.active \in LayerIds(doc) -> doc.active
    [] OTHER -> DefaultLayer

\* What the user sees: the document without its counters.
Content(doc) == [objects |-> doc.objects, layers |-> doc.layers, active |-> doc.active]
-----------------------------------------------------------------------------
(* Types *)

ObjectType == [id : Nat, layer : Nat, x : Int, width : Int]

LayerType(names) == [id : Nat, name : names, visible : BOOLEAN, locked : BOOLEAN]

DocumentType(names) ==
  [objects : Seq(ObjectType), layers : Seq(LayerType(names)), active : Nat,
   nextId : Nat, nextLayer : Nat, revised : BOOLEAN]

\* What every operation may rely on: no two objects and no two layers share an
\* id, every object is on a layer that exists, and so is the active layer.
Whole(doc) ==
  /\ \A i, j \in DOMAIN doc.objects : doc.objects[i].id = doc.objects[j].id => i = j
  /\ \A i, j \in DOMAIN doc.layers : doc.layers[i].id = doc.layers[j].id => i = j
  /\ NoId \notin ObjectIds(doc) \union LayerIds(doc)
  /\ \A i \in DOMAIN doc.objects : doc.objects[i].layer \in LayerIds(doc)
  /\ doc.active \in LayerIds(doc)
-----------------------------------------------------------------------------
(* document_init and document_reset *)

NewLayer(id, name) == [id |-> id, name |-> name, visible |-> TRUE, locked |-> FALSE]

NewDocument ==
  [objects |-> << >>, layers |-> <<NewLayer(DefaultLayer, DefaultName)>>,
   active |-> DefaultLayer, nextId |-> 1, nextLayer |-> DefaultLayer + 1,
   revised |-> FALSE]

\* revision++
Touched(doc) == [doc EXCEPT !.revised = TRUE]

\* id + 1u
Following(id) == IF id + 1 = IdLimit THEN NoId ELSE id + 1

\* An id that was not handed out by the counter moves the counter past it; for
\* the id that it hands out this is next_id++.
Past(counter, id) == IF counter <= id THEN Following(id) ELSE counter
-----------------------------------------------------------------------------
(* Objects *)

\* Both ways in find a layer for the object: the one asked for, or the active one.
CanAppendObject(doc, id, layer) ==
  /\ id \notin ObjectIds(doc)
  /\ ResolvedLayer(doc, layer) \in LayerIds(doc)

AppendObject(doc, object, id, layer) ==
  Touched([doc EXCEPT
    !.objects = Append(@, [object EXCEPT !.id = id, !.layer = ResolvedLayer(doc, layer)]),
    !.nextId  = Past(@, id)])

InsertObjectClone(doc, snapshot, index) ==
  Touched([doc EXCEPT
    !.objects = InsertAt(@, IF index > Len(@) THEN Len(@) + 1 ELSE index,
                         [snapshot EXCEPT !.layer = ResolvedLayer(doc, @)]),
    !.nextId  = Past(@, snapshot.id)])

RemoveObject(doc, id) ==
  IF id \in ObjectIds(doc)
  THEN Touched([doc EXCEPT !.objects = RemoveAt(@, ObjectIndex(doc, id))])
  ELSE doc

\* object_translate
Translated(object, delta) == [object EXCEPT !.x = @ + delta]

\* Mutant: the revision stays, as it would without document_touch.
TranslateObjectsUntouched(doc, ids, delta) ==
  [doc EXCEPT
    !.objects = [i \in DOMAIN @ |-> IF @[i].id \in ids
                                    THEN Translated(@[i], delta)
                                    ELSE @[i]]]

\* Each object that exists is moved, then document_touch.
TranslateObjects(doc, ids, delta) ==
  Touched([doc EXCEPT
    !.objects = [i \in DOMAIN @ |-> IF @[i].id \in ids
                                    THEN Translated(@[i], delta)
                                    ELSE @[i]]])

SetScalar(doc, id, key, value) ==
  Touched([doc EXCEPT !.objects[ObjectIndex(doc, id)][key] = value])
-----------------------------------------------------------------------------
(* Layers.  A setter that would change nothing returns 1 and leaves the    *)
(* revision alone.                                                         *)

SetActiveLayer(doc, id) ==
  IF doc.active = id THEN doc ELSE Touched([doc EXCEPT !.active = id])

\* Mutant: the counter stays behind.
InsertLayerUncounted(doc, layer, index) ==
  Touched([doc EXCEPT
    !.layers = InsertAt(@, IF index > Len(@) THEN Len(@) + 1 ELSE index, layer)])

\* document_create_layer, which puts a new id at the end, is this as well.
InsertLayer(doc, layer, index) ==
  Touched([doc EXCEPT
    !.layers    = InsertAt(@, IF index > Len(@) THEN Len(@) + 1 ELSE index, layer),
    !.nextLayer = Past(@, layer.id)])

CanDeleteLayer(doc, id) ==
  /\ Len(doc.layers) > 1
  /\ id \in LayerIds(doc)
  /\ ~HasObjects(doc, id)

DeleteLayer(doc, id) ==
  LET layers == RemoveAt(doc.layers, LayerIndex(doc, id))
  IN  Touched([doc EXCEPT !.layers = layers,
                          !.active = IF @ = id THEN layers[1].id ELSE @])

\* document_set_layer_visibility, document_set_layer_locked, document_rename_layer.
SetLayerAttribute(doc, id, attribute, value) ==
  IF Layer(doc, id)[attribute] = value
  THEN doc
  ELSE Touched([doc EXCEPT !.layers[LayerIndex(doc, id)][attribute] = value])

MoveLayer(doc, id, index) ==
  IF LayerIndex(doc, id) = index
  THEN doc
  ELSE Touched([doc EXCEPT
         !.layers = InsertAt(RemoveAt(@, LayerIndex(doc, id)), index, Layer(doc, id))])
=============================================================================
