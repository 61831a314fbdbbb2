------------------------------- MODULE MCScene -------------------------------
(* Instances of Scene for TLC: the cfgs choose what varies. *)
EXTENDS Scene

\* The home view starts in the middle of the file's grid; zooming to fit gives the others.
MCHome == [lo |-> 2, hi |-> 5]

SavedObject(id, layer, x, width) == [id |-> id, layer |-> layer, x |-> x, width |-> width]

Saved(objects, layers) ==
  [objects   |-> objects,
   layers    |-> layers,
   active    |-> 1,
   nextId    |-> Len(objects) + 1,
   nextLayer |-> Len(layers) + 1,
   revised   |-> FALSE]

\* The first object spans two columns, and the second lies in the second of them on
\* another layer; the third is beyond a grid of three columns.
MCFiles ==
  {Saved(<<SavedObject(1, 1, 1, 3), SavedObject(2, 2, 3, 1), SavedObject(3, 1, 11, 1)>>,
         <<NewLayer(2, DefaultName), NewLayer(1, DefaultName)>>)}

Symmetry == Permutations(Decors)
===============================================================================
