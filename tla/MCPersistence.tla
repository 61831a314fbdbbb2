---------------------------- MODULE MCPersistence ----------------------------
(* An instance of Persistence for TLC: files that other programs may write. *)
EXTENDS Persistence

SavedObject(id, layer) == [id |-> id, layer |-> layer, x |-> 0, width |-> 1]

Locked(layer) == [layer EXCEPT !.locked = TRUE]

Version(number) == [version |-> number]

Layers(layers) == [layers |-> layers]

Objects(objects) == [objects |-> objects]

File(members) == [members |-> members, whole |-> TRUE]

\* In order: no counters and an object without a layer; a counter that is behind, and a
\* name that cannot be written; objects before their layers; the layers of version 1; an
\* object twice; no layers at all; a file that breaks off; and the largest ids.
MCForeignFiles ==
  {File(<<Version(2), Objects(<<SavedObject(2, NoId)>>)>>),
   File(<<Version(2), [nextId |-> 1],
          Layers(<<NewLayer(2, "bell"), Locked(NewLayer(1, DefaultName))>>),
          Objects(<<SavedObject(2, 2)>>)>>),
   File(<<Version(2), Objects(<<SavedObject(1, 1)>>), Layers(<<NewLayer(2, DefaultName)>>)>>),
   File(<<Version(1), Layers(<<NewLayer(2, DefaultName)>>), Objects(<<SavedObject(1, 2)>>)>>),
   File(<<Version(2), Objects(<<SavedObject(1, 1), SavedObject(1, 1)>>)>>),
   File(<<Version(2), Layers(<< >>), Objects(<<SavedObject(1, 1)>>)>>),
   [members |-> <<Version(2), Layers(<<NewLayer(2, DefaultName)>>)>>, whole |-> FALSE],
   File(<<Version(2), Layers(<<Locked(NewLayer(UIntMax, DefaultName))>>),
          Objects(<<SavedObject(1, NoId), SavedObject(UIntMax, NoId)>>)>>)}

\* In order: a line; a rectangle drawn along an axis; and a script's object far out.
MCShapes == {[x |-> 0, width |-> 1], [x |-> 0, width |-> 0], [x |-> Infinity, width |-> 1]}
===============================================================================
