-------------------------------- MODULE Scene --------------------------------
(***************************************************************************)
(* What the canvas shows: the document, the grid over its objects, and the *)
(* draw list that a frame keeps for as long as the key of the scene stays  *)
(* the same.  From src/src/render/render_system.c,                         *)
(* render_scene_snapshot.c, canvas_drawlist.c, src/src/canvas/             *)
(* canvas_view.c, src/src/app/workspace_view_commands.c,                   *)
(* workspace_service.c and the frame of application.c, over SpatialIndex   *)
(* and Document.                                                           *)
(*                                                                         *)
(* Two caches hang on the revision of the document.  The grid belongs to   *)
(* the document and goes with it; the draw list belongs to the renderer    *)
(* and outlives a document that is replaced, whose revision starts again   *)
(* from 1.  The field revised of Document says that a call has touched the *)
(* document; here that increments the revision and the field is FALSE      *)
(* between calls.                                                          *)
(*                                                                         *)
(* The view is the interval of the world that the viewport shows.  decor   *)
(* stands for what a draw list takes from the canvas besides: the grid     *)
(* lines and the background of the theme.  The edits are those of the      *)
(* document and not of the commands (Editor has those), and what the tools *)
(* leave in the scene is any preview and any overlay (Gestures says which).*)
(***************************************************************************)
EXTENDS SpatialIndex

CONSTANTS
  Names,         \* the names of layers
  Files,         \* bound: documents that a file to open may hold
  Positions,     \* bound: values of x
  Deltas,        \* bound: distances an object or a preview moves by
  Views,         \* bound: intervals the view may show besides
  Home,          \* the view of a new document
  Decors,        \* grid lines and background
  Points,        \* bound: points that are clicked
  MaxId,         \* bound: object ids handed out
  MaxRevision,   \* bound: revisions of the document
  MaxTouches,    \* bound: revisions of the selection and of the overlay
  MaxLag         \* bound: changes between two lists that were built in full

\* What document_load_json makes of a file that has its layers in front of its objects
\* (Persistence: OpenedIsWhole), and that does not hold the largest id;
\* object_get_bounds yields no negative widths.
Openable(doc) ==
  /\ doc \in DocumentType(Names)
  /\ doc.revised = FALSE
  /\ Whole(doc)
  /\ \A id \in ObjectIds(doc) \union {NoId} : id < doc.nextId
  /\ \A id \in LayerIds(doc) : id < doc.nextLayer
  /\ \A i \in DOMAIN doc.objects : doc.objects[i].width >= 0

IsView(view) == view \in [lo : Int, hi : Int] /\ view.lo <= view.hi

ASSUME FilesAssumption ==
  /\ DefaultName \in Names
  /\ \A file \in Files : Openable(file) /\ {file.nextId, file.nextLayer} \subseteq 0 .. UIntMax

ASSUME MaxIdAssumption == MaxId \in Nat /\ MaxId + 1 < IdLimit

ASSUME CanvasAssumption ==
  /\ Positions \subseteq Int /\ Deltas \subseteq Int /\ Points \subseteq Int
  /\ \A view \in Views \union {Home} : IsView(view)

VARIABLES
  document,
  revision,   \* document->revision
  index,      \* the grid, as it was last built
  selection,  \* the selected ids and their revision
  canvas,     \* the view and the decor
  preview,    \* selection_preview_active and _delta
  overlay,    \* tool->overlay_object
  renderer,   \* the draw list, its key and whether it is valid
  unseen,     \* ghost: what the key cannot tell has happened since the list was built
  lag         \* changes since then

scene == <<document, revision, selection, canvas, preview, overlay>>

vars == <<scene, index, renderer, unseen, lag>>

NoPreview == [active |-> FALSE, delta |-> 0]

NoOverlay == [revision |-> 0, x |-> 0]

NoPicture == [decor |-> 0, strokes |-> << >>, overlay |-> NoOverlay]

NoKey == [document |-> 0, overlay |-> 0, count |-> 0, selection |-> 0,
          preview |-> NoPreview, view |-> Home]

Init ==
  /\ document = NewDocument
  /\ revision = 1
  /\ index = NoIndex
  /\ selection = [ids |-> {}, revision |-> 0]
  /\ canvas \in [view : {Home}, decor : Decors]
  /\ preview = NoPreview
  /\ overlay = NoOverlay
  /\ renderer = [valid |-> FALSE, key |-> NoKey, list |-> NoPicture]
  /\ unseen = {}
  /\ lag = 0
-----------------------------------------------------------------------------
(* canvas_drawlist_build and render_scene_cache_key *)

Stroke(object) ==
  LET selected == object.id \in selection.ids
  IN  [id       |-> object.id,
       at       |-> object.x - canvas.view.lo
                      + (IF preview.active /\ selected THEN preview.delta ELSE 0),
       width    |-> object.width,
       selected |-> selected]

Picture(grid) ==
  LET order == DrawOrder(grid, document, canvas.view.lo, canvas.view.hi)
  IN  [decor   |-> canvas.decor,
       strokes |-> [i \in DOMAIN order |-> Stroke(document.objects[order[i]])],
       overlay |-> overlay]

\* Mutant: the count alone stands for the selection.
KeyOfCount ==
  [document |-> revision, overlay |-> overlay.revision, count |-> Cardinality(selection.ids),
   selection |-> 0, preview |-> preview, view |-> canvas.view]

Key ==
  [document |-> revision, overlay |-> overlay.revision, count |-> Cardinality(selection.ids),
   selection |-> selection.revision, preview |-> preview, view |-> canvas.view]

Grid == EnsureCurrent(index, document, revision)

FreshPicture == Picture(Built(document, revision))

ListIsReused == renderer.valid /\ renderer.key = Key
-----------------------------------------------------------------------------
(* A frame *)

\* render_system_draw; a list whose key is that of the scene is submitted as it is.
Frame ==
  /\ IF ListIsReused
     THEN UNCHANGED <<index, renderer, unseen, lag>>
     ELSE /\ index' = Grid
          /\ renderer' = [valid |-> TRUE, key |-> Key, list |-> Picture(Grid)]
          /\ unseen' = {}
          /\ lag' = 0
  /\ UNCHANGED scene

\* Memory runs out: nothing is submitted.  The grid is freed or built; the list was
\* reset, and the empty one stands for the part of the new one that was appended.
FrameWithoutMemory ==
  /\ ~ListIsReused
  /\ index' \in {NoIndex, Grid}
  /\ renderer' = [renderer EXCEPT !.list = NoPicture]
  /\ unseen' = {"failed"}
  /\ UNCHANGED <<scene, lag>>

\* There is memory for the list but not for the grid: the list is built of every object.
FrameWithoutGrid ==
  /\ ~ListIsReused
  /\ index.revision # revision
  /\ index' = NoIndex
  /\ renderer' = [valid |-> TRUE, key |-> Key, list |-> Picture(NoIndex)]
  /\ unseen' = {"failed"}
  /\ UNCHANGED <<scene, lag>>

\* framebuffer_size_callback: the viewport is updated and the list dropped.
Resize ==
  /\ \E view \in Views \union {Home} : canvas' = [canvas EXCEPT !.view = view]
  /\ renderer' = [renderer EXCEPT !.valid = FALSE]
  /\ UNCHANGED <<document, revision, index, selection, preview, overlay, unseen>>
-----------------------------------------------------------------------------
(* Edits of the document *)

\* A call that revised the document increments the revision and drops the grid.
Touch(doc) ==
  /\ document' = [doc EXCEPT !.revised = FALSE]
  /\ revision' = IF doc.revised THEN revision + 1 ELSE revision
  /\ revision' <= MaxRevision
  /\ index' = IF doc.revised THEN NoIndex ELSE index
  /\ UNCHANGED <<selection, canvas, preview, overlay, renderer, unseen>>

DrawObject(x) ==
  /\ document.nextId <= MaxId
  /\ Touch(AppendObject(document, [id |-> NoId, layer |-> DefaultLayer, x |-> x, width |-> 1],
                         document.nextId, DefaultLayer))

\* Without pruning: what is gone is not drawn, selected or not.
DeleteObject(id) == Touch(RemoveObject(document, id))

MoveObject(id, delta) ==
  /\ Object(document, id).x + delta \in Positions
  /\ Touch(TranslateObjects(document, {id}, delta))

\* Showing and locking; a lock leaves the grid alone, which its revision outdates anyway.
SwitchLayer(id, attribute) ==
  Touch(SetLayerAttribute(document, id, attribute, ~Layer(document, id)[attribute]))

RaiseLayer(id) ==
  /\ LayerIndex(document, id) < Len(document.layers)
  /\ Touch(MoveLayer(document, id, LayerIndex(document, id) + 1))

Edit ==
  \/ \E x \in Positions : DrawObject(x)
  \/ \E id \in ObjectIds(document) : DeleteObject(id)
  \/ \E id \in ObjectIds(document), delta \in Deltas : MoveObject(id, delta)
  \/ \E id \in LayerIds(document), attribute \in {"visible", "locked"} :
       SwitchLayer(id, attribute)
  \/ \E id \in LayerIds(document) : RaiseLayer(id)
-----------------------------------------------------------------------------
(* Selection, canvas and what the tools leave in the scene *)

\* The calls of selection.c touch the revision when they change the ids.
Selected(ids) ==
  [ids |-> ids,
   revision |-> IF ids = selection.ids THEN selection.revision ELSE selection.revision + 1]

\* A click with the select tool, which brings the grid up to date if there is memory.
Click(at, grid) ==
  LET hit == Pick(grid, document, at)
  IN  /\ grid = Grid \/ (grid = NoIndex /\ index.revision # revision)
      /\ index' = grid
      /\ selection' = Selected({hit} \ {NoId})
      /\ selection'.revision <= MaxTouches
      /\ preview' = NoPreview
      /\ UNCHANGED <<document, revision, canvas, overlay, renderer, unseen>>

Preview(delta) ==
  /\ preview' = [active |-> TRUE, delta |-> delta]
  /\ UNCHANGED <<document, revision, index, selection, canvas, overlay, renderer, unseen>>

\* Pan, scroll and the zoom commands.
Look(view) ==
  /\ canvas' = [canvas EXCEPT !.view = view]
  /\ UNCHANGED <<document, revision, index, selection, preview, overlay, renderer, unseen>>

\* View > Zoom to Fit, up to the margin it leaves.
ZoomToFit ==
  /\ canvas' = [canvas EXCEPT !.view =
       IF document.objects = << >>
       THEN Home
       ELSE [lo |-> GridLo(document),
             hi |-> Highest({Hi(object) : object \in ToSet(document.objects)}) + 1]]
  /\ UNCHANGED <<document, revision, index, selection, preview, overlay, renderer, unseen>>

\* View > Toggle Grid, or another theme.
ChangeDecor(decor) ==
  /\ decor # canvas.decor
  /\ canvas' = [canvas EXCEPT !.decor = decor]
  /\ unseen' = unseen \union {"decor"}
  /\ UNCHANGED <<document, revision, index, selection, preview, overlay, renderer>>

\* A shape tool makes its overlay anew at every press, with revision 1 ...
BeginOverlay(x) ==
  /\ overlay' = [revision |-> 1, x |-> x]
  /\ unseen' = unseen \union {"overlay"}
  /\ UNCHANGED <<document, revision, index, selection, canvas, preview, renderer>>

\* ... and increments it as the pointer moves.
StretchOverlay(x) ==
  /\ overlay.revision \in 1 .. (MaxTouches - 1)
  /\ overlay' = [revision |-> overlay.revision + 1, x |-> x]
  /\ UNCHANGED <<document, revision, index, selection, canvas, preview, renderer, unseen>>

DropOverlay ==
  /\ overlay' = NoOverlay
  /\ UNCHANGED <<document, revision, index, selection, canvas, preview, renderer, unseen>>
-----------------------------------------------------------------------------
(* Replacing the document *)

\* Mutant: document_spatial_free is forgotten.
ReplaceGridKept(doc, view) ==
  /\ document' = doc
  /\ revision' = 1
  /\ UNCHANGED index
  /\ selection' = Selected({})
  /\ selection'.revision <= MaxTouches
  /\ overlay' = NoOverlay
  /\ canvas' = [canvas EXCEPT !.view = view]
  /\ unseen' = unseen \union {"document"}
  /\ UNCHANGED <<preview, renderer>>

(***************************************************************************)
(* The new document has no grid and the revision 1.  The selection is      *)
(* emptied and the tools start again; the preview is left as it is, and    *)
(* the renderer does not hear of it.                                       *)
(***************************************************************************)
Replace(doc, view) ==
  /\ document' = doc
  /\ revision' = 1
  /\ index' = NoIndex
  /\ selection' = Selected({})
  /\ selection'.revision <= MaxTouches
  /\ overlay' = NoOverlay
  /\ canvas' = [canvas EXCEPT !.view = view]
  /\ unseen' = unseen \union {"document"}
  /\ UNCHANGED <<preview, renderer>>

New == Replace(NewDocument, Home)

Load == \E file \in Files : Replace(file, canvas.view)
-----------------------------------------------------------------------------
Tools ==
  \/ \E at \in Points, grid \in {Grid, NoIndex} : Click(at, grid)
  \/ \E delta \in Deltas : Preview(delta)
  \/ \E x \in Positions : BeginOverlay(x) \/ StretchOverlay(x)
  \/ DropOverlay

Viewing ==
  \/ \E view \in Views \union {Home} : Look(view)
  \/ ZoomToFit
  \/ \E decor \in Decors : ChangeDecor(decor)
  \/ Resize

Change ==
  /\ lag < MaxLag
  /\ lag' = lag + 1
  /\ Edit \/ Tools \/ Viewing \/ New \/ Load

Next == Frame \/ FrameWithoutMemory \/ FrameWithoutGrid \/ Change

Spec == Init /\ [][Next]_vars
-----------------------------------------------------------------------------
(* Properties *)

(***************************************************************************)
(* A grid that counts as up to date is the one that would be built now,    *)
(* although a document that is replaced uses the same revisions again.     *)
(***************************************************************************)
GridIsCurrent ==
  index.revision = revision => index = Built(document, revision)

(***************************************************************************)
(* A frame that reuses the draw list shows what a new list would show:     *)
(* edits, selection, previews, views and growing overlays all change the   *)
(* key.  Four things do not.  After another document, the objects may be   *)
(* those of the one before; after other decor, the decor may be; after an  *)
(* overlay that was started again, the overlay may be; and a list that was *)
(* built without memory is not what it should be.                          *)
(***************************************************************************)
ListIsCurrent ==
  ListIsReused /\ "failed" \notin unseen =>
    /\ "decor" \notin unseen => renderer.list.decor = FreshPicture.decor
    /\ "overlay" \notin unseen => renderer.list.overlay = FreshPicture.overlay
    /\ "document" \notin unseen => renderer.list.strokes = FreshPicture.strokes

(***************************************************************************)
(* The canvas shows every object of a shown layer that the view meets, no  *)
(* object twice and none of a hidden layer, and no layer above one that is *)
(* higher.  Objects that start beyond the last column of a grid cut off at *)
(* MaxAxisCells columns are not found by a rectangle and may be missing.   *)
(***************************************************************************)
DrawsWhatIsInView ==
  LET lo     == canvas.view.lo
      hi     == canvas.view.hi
      order  == DrawOrder(Grid, document, lo, hi)
      Height(i) == LayerIndex(document, document.objects[i].layer)
  IN  /\ \A i \in DOMAIN document.objects :
           /\ Shown(document, document.objects[i])
           /\ Meets(document.objects[i], lo, hi)
           /\ Column(GridLo(document), Lo(document.objects[i])) <= MaxAxisCells
           => i \in ToSet(order)
      /\ Cardinality(ToSet(order)) = Len(order)
      /\ \A i \in ToSet(order) : Shown(document, document.objects[i])
      /\ \A j, k \in DOMAIN order : j < k => Height(order[j]) <= Height(order[k])

(***************************************************************************)
(* A click on an object that is shown and not locked picks one that is hit *)
(* and not locked: the grid does not lose what is there, unless it lies    *)
(* beyond the last column.                                                 *)
(***************************************************************************)
ClickFinds ==
  \A at \in Points :
    (\E i \in DOMAIN document.objects :
       /\ Shown(document, document.objects[i])
       /\ Pickable(document, i, at)
       /\ Column(GridLo(document), Lo(document.objects[i])) <= MaxAxisCells)
    => \E i \in DOMAIN document.objects :
         Pickable(document, i, at) /\ document.objects[i].id = Pick(Grid, document, at)

(***************************************************************************)
(* "Pick top-most object under a screen point": of the objects that a      *)
(* click could pick, the one it picks is drawn last                        *)
(* (src/src/canvas/canvas_view.c:369).                                     *)
(***************************************************************************)
PicksTopmost ==
  \A at \in Points :
    LET order == DrawOrder(Grid, document, canvas.view.lo, canvas.view.hi)
        hits  == Kept(order, {i \in DOMAIN document.objects : Pickable(document, i, at)})
    IN  /\ canvas.view.lo <= at - Tolerance /\ at + Tolerance <= canvas.view.hi
        /\ hits # << >>
        => document.objects[Last(hits)].id = Pick(Grid, document, at)
=============================================================================
