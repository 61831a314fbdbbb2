---------------------------- MODULE SpatialIndex ----------------------------
(***************************************************************************)
(* The grid over the objects of a document, and the three things that are  *)
(* read from it: which objects a rectangle meets, which object is under a  *)
(* point, and in which order objects are drawn.  From                      *)
(* src/src/document/document_spatial_index.c, the picking of               *)
(* src/src/canvas/canvas_view.c and the object loop of                     *)
(* src/src/render/canvas_drawlist.c.                                       *)
(*                                                                         *)
(* One axis stands for both, so a rectangle is an interval, the grid a row *)
(* of columns, and an object spans x .. x + width.  An object is hit where *)
(* it is: outlines that leave part of their bounds uncovered are not       *)
(* modelled.  Column c is column c - 1 of the C array, and an index is a   *)
(* position in document.objects.                                           *)
(***************************************************************************)
EXTENDS Document

CONSTANTS
  CellSize,      \* DOCUMENT_SPATIAL_CELL_SIZE
  MaxAxisCells,  \* DOCUMENT_SPATIAL_MAX_AXIS_CELLS
  Tolerance      \* how far from an object a click may be

ASSUME GridAssumption ==
  /\ CellSize \in Nat \ {0}
  /\ MaxAxisCells \in Nat \ {0}
  /\ Tolerance \in Nat

Lowest(S) == CHOOSE x \in S : \A y \in S : x <= y

Highest(S) == CHOOSE x \in S : \A y \in S : x >= y

Lo(object) == object.x

Hi(object) == object.x + object.width

\* rect_intersects: edges that touch do intersect.
Meets(object, lo, hi) == ~(hi < Lo(object) \/ Hi(object) < lo)

Shown(doc, object) == Layer(doc, object.layer).visible

Indices(doc) == [i \in DOMAIN doc.objects |-> i]

\* The elements of a sequence that are in a set, in their order.
Kept(seq, set) == Elements(seq, {j \in DOMAIN seq : seq[j] \in set})

\* Sequences one behind the other: FlattenSeq as a function, which can be reasoned about.
Joined(seqs) ==
  LET joined[k \in 0 .. Len(seqs)] == IF k = 0 THEN << >> ELSE joined[k - 1] \o seqs[k]
  IN  joined[Len(seqs)]
-----------------------------------------------------------------------------
(* document_spatial_rebuild *)

\* A revision of 0 is that of no document: nothing is built.
NoIndex == [revision |-> 0, lo |-> 0, columns |-> << >>]

\* The column of a coordinate, which need not be one of the grid.
Column(lo, x) == ((x - lo) \div CellSize) + 1

\* The bounds of all objects and one more on either side, cut off after MaxAxisCells columns.
GridLo(doc) == Lowest({Lo(object) : object \in ToSet(doc.objects)}) - 1

GridSpan(doc) ==
  Highest({CellSize, Highest({Hi(object) : object \in ToSet(doc.objects)}) + 1 - GridLo(doc)})

GridColumns(doc) ==
  Lowest({MaxAxisCells, (GridSpan(doc) + CellSize - 1) \div CellSize})

\* Mutant: an object is entered in its first column only.
ColumnListFirst(doc, lo, column) ==
  Reverse(Kept(Indices(doc), {i \in DOMAIN doc.objects : Column(lo, Lo(doc.objects[i])) = column}))

\* The objects that span a column; each was put before those entered earlier.
ColumnList(doc, lo, column) ==
  Reverse(Kept(Indices(doc), {i \in DOMAIN doc.objects :
    /\ Column(lo, Lo(doc.objects[i])) <= column
    /\ column <= Column(lo, Hi(doc.objects[i]))}))

Built(doc, revision) ==
  IF doc.objects = << >>
  THEN [NoIndex EXCEPT !.revision = revision]
  ELSE [revision |-> revision,
        lo       |-> GridLo(doc),
        columns  |-> [column \in 1 .. GridColumns(doc) |-> ColumnList(doc, GridLo(doc), column)]]

\* document_spatial_ensure_current
EnsureCurrent(index, doc, revision) ==
  IF index.revision = revision THEN index ELSE Built(doc, revision)
-----------------------------------------------------------------------------
(* Queries *)

\* The columns that a rectangle spans.
Spanned(index, lo, hi) ==
  SubSeq(index.columns,
         Highest({1, Column(index.lo, lo)}),
         Lowest({Len(index.columns), Column(index.lo, hi)}))

\* The objects that may be taken.
InView(doc, lo, hi) ==
  {i \in DOMAIN doc.objects : Shown(doc, doc.objects[i]) /\ Meets(doc.objects[i], lo, hi)}

\* Mutant: nothing is marked.
QueryUnmarked(index, doc, lo, hi) ==
  LET columns == Spanned(index, lo, hi)
  IN  Joined([k \in DOMAIN columns |-> Kept(columns[k], InView(doc, lo, hi))])

(***************************************************************************)
(* document_query_visible_indices.  The columns are gone through from the  *)
(* left, each from its newest entry on; a mark sees to it that an object   *)
(* is taken in the first column it is met in.                              *)
(***************************************************************************)
Query(index, doc, lo, hi) ==
  LET columns == Spanned(index, lo, hi)
      Marked(k) == UNION {ToSet(columns[earlier]) : earlier \in 1 .. (k - 1)}
  IN  Joined([k \in DOMAIN columns |-> Kept(columns[k], InView(doc, lo, hi) \ Marked(k))])

\* Both readers take every object, hidden or not, when the query comes back empty.
Candidates(index, doc, lo, hi) ==
  LET found == Query(index, doc, lo, hi)
  IN  IF found = << >> THEN Indices(doc) ELSE found

\* What canvas_view_pick_object may pick at a point: hit, and not on a locked layer.
Pickable(doc, i, at) ==
  /\ Meets(doc.objects[i], at - Tolerance, at + Tolerance)
  /\ ~LayerIsLocked(doc, doc.objects[i].layer)

\* canvas_view_pick_object: the candidates are tried from the last one.
Pick(index, doc, at) ==
  LET hits == Kept(Candidates(index, doc, at - Tolerance, at + Tolerance),
                   {i \in DOMAIN doc.objects : Pickable(doc, i, at)})
  IN  IF hits = << >> THEN NoId ELSE doc.objects[Last(hits)].id

\* The objects canvas_drawlist_build appends: layer by layer, in the order of the candidates.
DrawOrder(index, doc, lo, hi) ==
  LET candidates == Candidates(index, doc, lo, hi)
      OnLayer(layer) == {i \in DOMAIN doc.objects : doc.objects[i].layer = layer.id}
  IN  Joined([k \in DOMAIN doc.layers |->
        IF doc.layers[k].visible THEN Kept(candidates, OnLayer(doc.layers[k])) ELSE << >>])
=============================================================================
