------------------------------- MODULE MCEditor -------------------------------
(* Instances of Editor for TLC: the cfgs choose what varies. *)
EXTENDS Editor

CONSTANT OtherName  \* a layer name

MCDeltas == {1, -1}

SavedObject(id, layer) == [id |-> id, layer |-> layer, x |-> 0, width |-> 1]

Locked(layer) == [layer EXCEPT !.locked = TRUE]

\* What is saved of a document with an object on each of its two layers: the
\* second layer is locked, and the file leaves next_id out.

TwoLayers ==
  [objects   |-> <<SavedObject(2, 2), SavedObject(1, 1)>>,
   layers    |-> <<NewLayer(1, DefaultName), Locked(NewLayer(2, OtherName))>>,
   active    |-> 1,
   nextId    |-> NoId,
   nextLayer |-> NoId,
   revised   |-> FALSE]

\* A document without layer 1, whose active layer is locked.
WithoutLayer1(objects) ==
  [objects   |-> objects,
   layers    |-> <<NewLayer(2, DefaultName), Locked(NewLayer(3, OtherName))>>,
   active    |-> 3,
   nextId    |-> NoId,
   nextLayer |-> NoId,
   revised   |-> FALSE]

MCFiles == {TwoLayers, WithoutLayer1(<<SavedObject(2, 3)>>)}

MCFilesWithoutLayer1 == {WithoutLayer1(<< >>)}
===============================================================================
