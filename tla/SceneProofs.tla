---------------------------- MODULE SceneProofs ----------------------------
(***************************************************************************)
(* What TLAPS proves of the scene, for all documents, files, views, sizes  *)
(* of the grid and bounds.  Of its two caches: the grid is never used      *)
(* after the document has changed, and the key of the draw list tells      *)
(* everything it is built from but what ListIsCurrent excepts.  Of what    *)
(* is read from the grid: nothing in view is missing or drawn twice, and   *)
(* a click finds what it can pick.                                         *)
(***************************************************************************)
EXTENDS Scene, CommandsProofs

IsDocument(doc) ==
  /\ doc = [field \in DOMAIN doc |-> doc[field]]
  /\ DOMAIN doc = {"objects", "layers", "active", "nextId", "nextLayer", "revised"}

DocumentTyped == IsDocument(document) /\ document.revised = FALSE /\ revision \in Nat \ {0}

\* The document drops its grid with every change, so one it has is that of its objects.
GridBuilt == index = NoIndex \/ index = Built(document, revision)

GridInv == DocumentTyped /\ GridBuilt
-----------------------------------------------------------------------------
(* The grid *)

\* A grid has the revision it was built at; none has revision 0.
LEMMA NumberedGrid ==
  /\ NoIndex.revision = 0
  /\ \A doc, number : Built(doc, number).revision = number
<1>1. NoIndex.revision = 0
  BY DEF NoIndex
<1>2. ASSUME NEW doc, NEW number PROVE Built(doc, number).revision = number
  <2>1. CASE doc.objects = << >>
    <3>1. Built(doc, number) = [NoIndex EXCEPT !.revision = number]
      BY <2>1 DEF Built
    <3> QED
      BY <3>1 DEF NoIndex
  <2>2. CASE doc.objects # << >>
    <3> DEFINE lo == GridLo(doc)
               columns == [column \in 1 .. GridColumns(doc) |->
                             ColumnList(doc, GridLo(doc), column)]
    <3>1. Built(doc, number) = [revision |-> number, lo |-> lo, columns |-> columns]
      BY <2>2 DEF Built
    <3> HIDE DEF lo, columns
    <3> QED
      BY <3>1
  <2> QED
    BY <2>1, <2>2
<1> QED
  BY <1>1, <1>2

\* document_spatial_ensure_current leaves the grid of the document behind.
LEMMA GridOfDocument ==
  ASSUME GridInv
  PROVE  Grid = Built(document, revision)
<1>1. index = NoIndex => index.revision # revision
  BY NumberedGrid DEF GridInv, DocumentTyped
<1> QED
  BY <1>1 DEF Grid, EnsureCurrent, GridInv, GridBuilt

\* What the calls of Edit return.
Revises(doc) == doc = document \/ (IsDocument(doc) /\ doc.revised = TRUE)

\* An edit keeps the document, or raises the revision and drops the grid.
Touches ==
  /\ IsDocument(document)' /\ document'.revised = FALSE
  /\ UNCHANGED <<document, revision, index>> \/ (revision' = revision + 1 /\ index' = NoIndex)
  /\ UNCHANGED <<selection, canvas, preview, overlay, renderer, unseen>>

\* A document that is revised gets a new revision and loses its grid.
LEMMA Touching ==
  ASSUME GridInv, NEW doc, Revises(doc), Touch(doc)
  PROVE  Touches
<1>1. /\ document' = [doc EXCEPT !.revised = FALSE]
      /\ revision' = IF doc.revised THEN revision + 1 ELSE revision
      /\ index' = IF doc.revised THEN NoIndex ELSE index
      /\ UNCHANGED <<selection, canvas, preview, overlay, renderer, unseen>>
  BY DEF Touch
<1>2. CASE doc = document
  <2>1. IsDocument(doc) /\ doc.revised = FALSE
    BY <1>2 DEF GridInv, DocumentTyped
  <2>2. [doc EXCEPT !.revised = FALSE] = doc
    BY <2>1 DEF IsDocument
  <2> QED
    BY <1>1, <1>2, <2>1, <2>2 DEF Touches
<1>3. CASE IsDocument(doc) /\ doc.revised = TRUE
  <2>1. /\ IsDocument([doc EXCEPT !.revised = FALSE])
        /\ [doc EXCEPT !.revised = FALSE].revised = FALSE
    BY <1>3 DEF IsDocument
  <2> QED
    BY <1>1, <1>3, <2>1 DEF Touches
<1> QED
  BY <1>2, <1>3 DEF Revises

\* So every edit of the scene leaves the document as it is, or does that.
LEMMA EditTouches ==
  ASSUME GridInv, Edit
  PROVE  Touches
<1> IsDocument(document)
  BY DEF GridInv, DocumentTyped
<1>1. CASE \E x \in Positions : DrawObject(x)
  <2>1. PICK object : Touch(AppendObject(document, object, document.nextId, DefaultLayer))
    BY <1>1 DEF DrawObject
  <2>2. Revises(AppendObject(document, object, document.nextId, DefaultLayer))
    BY DEF Revises, IsDocument, AppendObject, Touched
  <2> QED
    BY <2>1, <2>2, Touching
<1>2. CASE \E id \in ObjectIds(document) : DeleteObject(id)
  <2>1. PICK id : Touch(RemoveObject(document, id))
    BY <1>2 DEF DeleteObject
  <2>2. Revises(RemoveObject(document, id))
    BY DEF Revises, IsDocument, RemoveObject, Touched
  <2> QED
    BY <2>1, <2>2, Touching
<1>3. CASE \E id \in ObjectIds(document), delta \in Deltas : MoveObject(id, delta)
  <2>1. PICK id, delta : Touch(TranslateObjects(document, {id}, delta))
    BY <1>3 DEF MoveObject
  <2>2. Revises(TranslateObjects(document, {id}, delta))
    BY DEF Revises, IsDocument, TranslateObjects, Touched
  <2> QED
    BY <2>1, <2>2, Touching
<1>4. CASE \E id \in LayerIds(document), attribute \in {"visible", "locked"} :
             SwitchLayer(id, attribute)
  <2>1. PICK id, attribute, value : Touch(SetLayerAttribute(document, id, attribute, value))
    BY <1>4 DEF SwitchLayer
  <2>2. Revises(SetLayerAttribute(document, id, attribute, value))
    BY DEF Revises, IsDocument, SetLayerAttribute, Touched
  <2> QED
    BY <2>1, <2>2, Touching
<1>5. CASE \E id \in LayerIds(document) : RaiseLayer(id)
  <2>1. PICK id, place : Touch(MoveLayer(document, id, place))
    BY <1>5 DEF RaiseLayer
  <2>2. Revises(MoveLayer(document, id, place))
    BY DEF Revises, IsDocument, MoveLayer, Touched
  <2> QED
    BY <2>1, <2>2, Touching
<1> QED
  BY <1>1, <1>2, <1>3, <1>4, <1>5 DEF Edit

\* New, or the document of a file.
LEMMA Replacing ==
  ASSUME New \/ Load
  PROVE  \E doc, view : /\ Replace(doc, view)
                        /\ IsDocument(doc) /\ doc.revised = FALSE
<1>1. IsDocument(NewDocument) /\ NewDocument.revised = FALSE
  BY DEF IsDocument, NewDocument
<1>2. \A file \in Files : IsDocument(file) /\ file.revised = FALSE
  BY FilesAssumption DEF IsDocument, Openable, DocumentType
<1> QED
  BY <1>1, <1>2 DEF New, Load

\* Whatever else happens leaves the document alone, and the grid as it was, dropped or built.
Looks == UNCHANGED <<document, revision>> /\ index' \in {index, NoIndex, Grid}

\* The three kinds of steps keep the grid current.
LEMMA GridStep ==
  ASSUME GridInv, Touches \/ Looks \/ \E doc, view : /\ Replace(doc, view)
                                                     /\ IsDocument(doc) /\ doc.revised = FALSE
  PROVE  GridInv'
<1>1. CASE Touches
  <2>1. DocumentTyped'
    BY <1>1 DEF Touches, GridInv, DocumentTyped
  <2>2. GridBuilt'
    BY <1>1 DEF Touches, GridInv, GridBuilt
  <2> QED
    BY <2>1, <2>2 DEF GridInv
<1>2. CASE Looks
  <2>1. document' = document /\ revision' = revision
    BY <1>2 DEF Looks
  <2>2. DocumentTyped'
    BY <2>1 DEF GridInv, DocumentTyped
  <2>3. GridBuilt'
    BY <1>2, <2>1, GridOfDocument DEF Looks, GridInv, GridBuilt
  <2> QED
    BY <2>2, <2>3 DEF GridInv
<1>3. CASE \E doc, view : Replace(doc, view) /\ IsDocument(doc) /\ doc.revised = FALSE
  BY <1>3 DEF Replace, GridInv, DocumentTyped, GridBuilt
<1> QED
  BY <1>1, <1>2, <1>3

\* Every step touches the document, only looks at it, or replaces it.
LEMMA EveryStep ==
  ASSUME GridInv, [Next]_vars
  PROVE  Touches \/ Looks \/ \E doc, view : /\ Replace(doc, view)
                                            /\ IsDocument(doc) /\ doc.revised = FALSE
<1>1. Frame \/ FrameWithoutMemory \/ FrameWithoutGrid \/ UNCHANGED vars => Looks
  BY DEF Frame, FrameWithoutMemory, FrameWithoutGrid, vars, scene, Looks
<1>2. Tools => Looks
  BY DEF Tools, Click, Preview, BeginOverlay, StretchOverlay, DropOverlay, Looks
<1>3. Viewing => Looks
  BY DEF Viewing, Look, ZoomToFit, ChangeDecor, Resize, Looks
<1> QED
  BY <1>1, <1>2, <1>3, EditTouches, Replacing DEF Next, Change

\* At first there is no grid.
LEMMA GridInit == Init => GridInv
<1>1. IsDocument(NewDocument) /\ NewDocument.revised = FALSE
  BY DEF IsDocument, NewDocument
<1> QED
  BY <1>1 DEF Init, GridInv, DocumentTyped, GridBuilt

\* document_spatial_ensure_current rebuilds the grid whenever the document is not the one
\* it was built for, after New and Open too, which start the revisions again.
THEOREM TheGridIsCurrent == Spec => []GridIsCurrent
<1>1. GridInv /\ [Next]_vars => GridInv'
  BY EveryStep, GridStep
<1>2. GridInv => GridIsCurrent
  BY NumberedGrid DEF GridInv, GridBuilt, GridIsCurrent, DocumentTyped
<1> QED
  BY <1>1, <1>2, GridInit, PTL DEF Spec
-----------------------------------------------------------------------------
(* The draw list *)

\* The strokes of a list as a function of what the key stands for.
StrokesOf(doc, number, ids, shown, view) ==
  LET order == DrawOrder(Built(doc, number), doc, view.lo, view.hi)
  IN  [i \in DOMAIN order |->
        LET object == doc.objects[order[i]]
        IN  [id       |-> object.id,
             at       |-> object.x - view.lo
                            + (IF shown.active /\ object.id \in ids THEN shown.delta ELSE 0),
             width    |-> object.width,
             selected |-> object.id \in ids]]

StrokesNow == StrokesOf(document, revision, selection.ids, preview, canvas.view)

SceneTyped ==
  /\ DOMAIN selection = {"ids", "revision"} /\ selection.revision \in Nat
  /\ DOMAIN canvas = {"view", "decor"}
  /\ DOMAIN renderer = {"valid", "key", "list"} /\ renderer.valid \in BOOLEAN
  /\ overlay.revision \in Nat
  /\ overlay.revision = 0 => overlay = NoOverlay

\* There is a list to go by, unless it is of what the key cannot tell.
Told(event) == renderer.valid /\ "failed" \notin unseen /\ event \notin unseen

\* The list is that of the revisions in its key, which are not ahead of the scene's.
StrokesInv ==
  Told("document") =>
    /\ renderer.key.document \in Nat /\ renderer.key.document <= revision
    /\ renderer.key.selection \in Nat /\ renderer.key.selection <= selection.revision
    /\ renderer.key.document = revision /\ renderer.key.selection = selection.revision =>
         renderer.list.strokes = StrokesOf(document, revision, selection.ids,
                                           renderer.key.preview, renderer.key.view)

\* The overlay is that of the list, or has grown since, or is gone.
OverlayInv ==
  Told("overlay") =>
    /\ renderer.key.overlay \in Nat
    /\ renderer.key.overlay = 0 => renderer.list.overlay = NoOverlay
    /\ \/ renderer.key.overlay = overlay.revision /\ renderer.list.overlay = overlay
       \/ renderer.key.overlay < overlay.revision
       \/ renderer.key.overlay # 0 /\ overlay = NoOverlay

DecorInv == Told("decor") => renderer.list.decor = canvas.decor

ListInv == SceneTyped /\ StrokesInv /\ OverlayInv /\ DecorInv

\* The parts of the list that a rebuild would give now.
LEMMA PictureNow ==
  ASSUME GridInv
  PROVE  /\ Picture(Grid) = FreshPicture
         /\ FreshPicture.decor = canvas.decor
         /\ FreshPicture.overlay = overlay
         /\ FreshPicture.strokes = StrokesNow
<1> DEFINE grid  == Built(document, revision)
           order == DrawOrder(grid, document, canvas.view.lo, canvas.view.hi)
           strokes == [i \in DOMAIN order |-> Stroke(document.objects[order[i]])]
<1>1. Picture(Grid) = FreshPicture
  BY GridOfDocument DEF FreshPicture
<1>2. FreshPicture = [decor |-> canvas.decor, strokes |-> strokes, overlay |-> overlay]
  BY DEF FreshPicture, Picture
<1>3. strokes = StrokesNow
  BY DEF StrokesNow, StrokesOf, Stroke
<1> HIDE DEF strokes
<1> QED
  BY <1>1, <1>2, <1>3

\* The fields of the key as it is now.
LEMMA KeyNow ==
  /\ Key.document = revision /\ Key.selection = selection.revision
  /\ Key.overlay = overlay.revision
  /\ Key.preview = preview /\ Key.view = canvas.view
BY DEF Key

\* A frame that builds the list.
LEMMA RebuildStep ==
  ASSUME GridInv, ListInv, Frame, ~ListIsReused
  PROVE  ListInv'
<1>1. /\ renderer' = [valid |-> TRUE, key |-> Key, list |-> Picture(Grid)]
      /\ UNCHANGED <<document, revision, selection, canvas, preview, overlay>>
  BY DEF Frame, scene
<1>2. /\ renderer'.valid = TRUE /\ renderer'.key = Key /\ renderer'.list = FreshPicture
      /\ DOMAIN renderer' = {"valid", "key", "list"}
  BY <1>1, PictureNow
<1>3. SceneTyped'
  BY <1>1, <1>2 DEF ListInv, SceneTyped
<1>4. StrokesInv'
  <2>1. renderer'.list.strokes = StrokesOf(document, revision, selection.ids,
                                           renderer'.key.preview, renderer'.key.view)
    BY <1>2, PictureNow, KeyNow DEF StrokesNow
  <2>2. renderer'.key.document = revision /\ renderer'.key.selection = selection.revision
    BY <1>2, KeyNow
  <2> QED
    BY <1>1, <2>1, <2>2 DEF StrokesInv, ListInv, SceneTyped, GridInv, DocumentTyped
<1>5. OverlayInv'
  BY <1>1, <1>2, PictureNow, KeyNow DEF OverlayInv, ListInv, SceneTyped
<1>6. DecorInv'
  BY <1>1, <1>2, PictureNow DEF DecorInv
<1> QED
  BY <1>3, <1>4, <1>5, <1>6 DEF ListInv

\* A frame that reuses the list, and stuttering.
LEMMA StillStep ==
  ASSUME ListInv, UNCHANGED <<scene, renderer, unseen>>
  PROVE  ListInv'
BY DEF ListInv, SceneTyped, StrokesInv, OverlayInv, DecorInv, Told, scene

\* Memory runs out, or the framebuffer is resized: there is nothing to go by.
LEMMA DroppedStep ==
  ASSUME ListInv, FrameWithoutMemory \/ FrameWithoutGrid \/ Resize
  PROVE  ListInv'
<1>1. /\ DOMAIN renderer' = {"valid", "key", "list"} /\ renderer'.valid \in BOOLEAN
      /\ ~renderer'.valid \/ "failed" \in unseen'
  <2>1. CASE FrameWithoutMemory \/ Resize
    BY <2>1 DEF FrameWithoutMemory, Resize, ListInv, SceneTyped
  <2>2. CASE FrameWithoutGrid
    <3>1. /\ renderer' = [valid |-> TRUE, key |-> Key, list |-> Picture(NoIndex)]
          /\ unseen' = {"failed"}
      BY <2>2 DEF FrameWithoutGrid
    <3>2. renderer'.valid = TRUE /\ DOMAIN renderer' = {"valid", "key", "list"}
      BY <3>1
    <3>3. "failed" \in unseen'
      BY <3>1
    <3> QED
      BY <3>2, <3>3, Zenon
  <2> QED
    BY <2>1, <2>2
<1>2. /\ UNCHANGED <<selection, overlay>> /\ DOMAIN canvas' = {"view", "decor"}
  BY DEF FrameWithoutMemory, FrameWithoutGrid, Resize, scene, ListInv, SceneTyped
<1> QED
  BY <1>1, <1>2 DEF ListInv, SceneTyped, StrokesInv, OverlayInv, DecorInv, Told

\* An edit: the key of the list is behind, or nothing has changed.
LEMMA EditStep ==
  ASSUME GridInv, ListInv, Touches
  PROVE  ListInv'
<1>1. UNCHANGED <<selection, canvas, preview, overlay, renderer, unseen>>
  BY DEF Touches
<1>2. SceneTyped' /\ OverlayInv' /\ DecorInv'
  BY <1>1 DEF ListInv, SceneTyped, OverlayInv, DecorInv, Told
<1>3. CASE UNCHANGED <<document, revision>>
  BY <1>1, <1>2, <1>3 DEF ListInv, StrokesInv, Told
<1>4. CASE revision' = revision + 1
  <2>1. Told("document")' =>
          /\ renderer'.key.document \in Nat /\ renderer'.key.document < revision'
          /\ renderer'.key.selection \in Nat /\ renderer'.key.selection <= selection'.revision
    BY <1>1, <1>4 DEF ListInv, StrokesInv, Told, GridInv, DocumentTyped
  <2>2. revision' \in Nat
    BY <1>4 DEF GridInv, DocumentTyped
  <2> QED
    BY <1>2, <2>1, <2>2 DEF ListInv, StrokesInv
<1> QED
  BY <1>3, <1>4 DEF Touches

\* A click, which touches the revision of the selection when it changes the ids.
LEMMA ClickStep ==
  ASSUME GridInv, ListInv, NEW at, NEW grid, Click(at, grid)
  PROVE  ListInv'
<1>1. /\ UNCHANGED <<document, revision, canvas, overlay, renderer, unseen>>
      /\ \E ids : selection' = Selected(ids)
  BY DEF Click
<1>2. PICK ids : selection' = [ids |-> ids,
                               revision |-> IF ids = selection.ids THEN selection.revision
                                            ELSE selection.revision + 1]
  BY <1>1 DEF Selected
<1>3. /\ DOMAIN selection' = {"ids", "revision"}
      /\ \/ selection'.ids = selection.ids /\ selection'.revision = selection.revision
         \/ selection'.revision = selection.revision + 1
  BY <1>2
<1>4. SceneTyped' /\ OverlayInv' /\ DecorInv'
  BY <1>1, <1>3 DEF ListInv, SceneTyped, OverlayInv, DecorInv, Told
<1>5. StrokesInv'
  <2>1. selection.revision \in Nat
    BY DEF ListInv, SceneTyped
  <2>2. CASE selection'.ids = selection.ids /\ selection'.revision = selection.revision
    BY <1>1, <2>2 DEF ListInv, StrokesInv, Told
  <2>3. CASE selection'.revision = selection.revision + 1
    BY <1>1, <2>1, <2>3 DEF ListInv, StrokesInv, Told
  <2> QED
    BY <1>3, <2>2, <2>3
<1> QED
  BY <1>4, <1>5 DEF ListInv

\* The view and the preview are in the key as they are.
LEMMA ViewStep ==
  ASSUME ListInv, UNCHANGED <<document, revision, selection, overlay, renderer, unseen>>,
         DOMAIN canvas' = {"view", "decor"}, canvas'.decor = canvas.decor
  PROVE  ListInv'
BY DEF ListInv, SceneTyped, StrokesInv, OverlayInv, DecorInv, Told

\* Another theme or grid setting, which the key does not show.
LEMMA DecorStep ==
  ASSUME ListInv, NEW decor, ChangeDecor(decor)
  PROVE  ListInv'
<1>1. /\ UNCHANGED <<document, revision, selection, overlay, renderer>>
      /\ DOMAIN canvas' = {"view", "decor"} /\ unseen' = unseen \union {"decor"}
  BY DEF ChangeDecor, ListInv, SceneTyped
<1> QED
  BY <1>1 DEF ListInv, SceneTyped, StrokesInv, OverlayInv, DecorInv, Told

\* An overlay begins, grows or goes.
LEMMA OverlayStep ==
  ASSUME ListInv, NEW x, BeginOverlay(x) \/ StretchOverlay(x) \/ DropOverlay
  PROVE  ListInv'
<1>1. UNCHANGED <<document, revision, selection, canvas, preview, renderer>>
  BY DEF BeginOverlay, StretchOverlay, DropOverlay
<1>2. unseen' = unseen \/ unseen' = unseen \union {"overlay"}
  BY DEF BeginOverlay, StretchOverlay, DropOverlay
<1>3. StrokesInv' /\ DecorInv'
  BY <1>1, <1>2 DEF ListInv, StrokesInv, DecorInv, Told
<1>4. CASE BeginOverlay(x)
  <2>1. overlay'.revision = 1 /\ "overlay" \in unseen'
    BY <1>4 DEF BeginOverlay
  <2> QED
    BY <1>1, <1>3, <2>1 DEF ListInv, SceneTyped, OverlayInv, Told
<1>5. CASE StretchOverlay(x)
  <2>1. /\ overlay.revision \in Nat /\ overlay.revision # 0
        /\ overlay'.revision = overlay.revision + 1 /\ unseen' = unseen
    BY <1>5 DEF StretchOverlay, ListInv, SceneTyped
  <2>2. overlay # NoOverlay
    BY <2>1 DEF NoOverlay
  <2>3. SceneTyped'
    BY <1>1, <2>1 DEF ListInv, SceneTyped
  <2>4. OverlayInv'
    BY <1>1, <2>1, <2>2 DEF ListInv, OverlayInv, Told
  <2> QED
    BY <1>3, <2>3, <2>4 DEF ListInv
<1>6. CASE DropOverlay
  <2>1. overlay' = NoOverlay /\ NoOverlay.revision = 0 /\ unseen' = unseen
    BY <1>6 DEF DropOverlay, NoOverlay
  <2>2. SceneTyped'
    BY <1>1, <2>1 DEF ListInv, SceneTyped
  <2>3. OverlayInv'
    BY <1>1, <2>1 DEF ListInv, OverlayInv, Told
  <2> QED
    BY <1>3, <2>2, <2>3 DEF ListInv
<1> QED
  BY <1>4, <1>5, <1>6

\* New and Open, after which the key may stand for another document.
LEMMA ReplaceStep ==
  ASSUME ListInv, NEW doc, NEW view, Replace(doc, view)
  PROVE  ListInv'
<1>1. /\ overlay' = NoOverlay /\ NoOverlay.revision = 0
      /\ unseen' = unseen \union {"document"} /\ UNCHANGED renderer
      /\ canvas' = [canvas EXCEPT !.view = view]
  BY DEF Replace, NoOverlay
<1>2. DOMAIN selection' = {"ids", "revision"} /\ selection'.revision \in Nat
  BY DEF Replace, Selected, ListInv, SceneTyped
<1>3. DOMAIN canvas' = {"view", "decor"} /\ canvas'.decor = canvas.decor
  BY <1>1 DEF ListInv, SceneTyped
<1>4. SceneTyped'
  BY <1>1, <1>2, <1>3 DEF ListInv, SceneTyped
<1>5. StrokesInv' /\ DecorInv'
  BY <1>1, <1>3 DEF ListInv, StrokesInv, DecorInv, Told
<1>6. OverlayInv'
  BY <1>1 DEF ListInv, OverlayInv, Told
<1> QED
  BY <1>4, <1>5, <1>6 DEF ListInv
-----------------------------------------------------------------------------
\* Every step keeps what is said of the list.
LEMMA ListStep ==
  ASSUME GridInv, ListInv, [Next]_vars
  PROVE  ListInv'
<1>1. CASE Frame
  <2>1. CASE ListIsReused
    BY <1>1, <2>1, StillStep DEF Frame
  <2>2. CASE ~ListIsReused
    BY <1>1, <2>2, RebuildStep
  <2> QED
    BY <2>1, <2>2
<1>2. CASE FrameWithoutMemory \/ FrameWithoutGrid \/ Resize
  BY <1>2, DroppedStep
<1>3. CASE Edit
  BY <1>3, EditTouches, EditStep
<1>4. CASE \E at \in Points, grid \in {Grid, NoIndex} : Click(at, grid)
  BY <1>4, ClickStep
<1>5. CASE \E delta \in Deltas : Preview(delta)
  <2>1. /\ UNCHANGED <<document, revision, selection, overlay, renderer, unseen>>
        /\ DOMAIN canvas' = {"view", "decor"} /\ canvas'.decor = canvas.decor
    BY <1>5 DEF Preview, ListInv, SceneTyped
  <2> QED
    BY <2>1, ViewStep
<1>6. CASE ZoomToFit \/ \E view \in Views \union {Home} : Look(view)
  <2>1. UNCHANGED <<document, revision, selection, overlay, renderer, unseen>>
    BY <1>6 DEF Look, ZoomToFit
  <2>2. \E view : canvas' = [canvas EXCEPT !.view = view]
    BY <1>6 DEF Look, ZoomToFit
  <2>3. DOMAIN canvas' = {"view", "decor"} /\ canvas'.decor = canvas.decor
    BY <2>2 DEF ListInv, SceneTyped
  <2> QED
    BY <2>1, <2>3, ViewStep
<1>7. CASE \E decor \in Decors : ChangeDecor(decor)
  BY <1>7, DecorStep
<1>8. CASE \/ \E x \in Positions : BeginOverlay(x) \/ StretchOverlay(x)
           \/ DropOverlay
  BY <1>8, OverlayStep
<1>9. CASE New \/ Load
  BY <1>9, ReplaceStep DEF New, Load
<1>10. CASE UNCHANGED vars
  BY <1>10, StillStep DEF vars
<1> QED
  BY <1>1, <1>2, <1>3, <1>4, <1>5, <1>6, <1>7, <1>8, <1>9, <1>10
     DEF Next, Change, Tools, Viewing

\* At first there is no list.
LEMMA ListInit == Init => ListInv
<1> SUFFICES ASSUME Init PROVE ListInv
  OBVIOUS
<1>1. /\ DOMAIN selection = {"ids", "revision"} /\ selection.revision = 0
      /\ DOMAIN canvas = {"view", "decor"}
      /\ DOMAIN renderer = {"valid", "key", "list"} /\ renderer.valid = FALSE
      /\ overlay = NoOverlay /\ NoOverlay.revision = 0
  BY DEF Init, NoOverlay
<1>2. SceneTyped
  <2>1. renderer.valid \in BOOLEAN
    BY <1>1, Zenon
  <2>2. overlay.revision \in Nat /\ (overlay.revision = 0 => overlay = NoOverlay)
    BY <1>1
  <2> QED
    BY <1>1, <2>1, <2>2 DEF SceneTyped
<1>3. StrokesInv /\ OverlayInv /\ DecorInv
  BY <1>1 DEF StrokesInv, OverlayInv, DecorInv, Told
<1> QED
  BY <1>2, <1>3 DEF ListInv

\* A frame that finds the key of its list unchanged shows what it would build: the key of
\* render_scene_cache_key tells edits, selections, previews, views and growing overlays.
THEOREM TheListIsCurrent == Spec => []ListIsCurrent
<1>1. GridInv /\ [Next]_vars => GridInv'
  BY EveryStep, GridStep
<1>2. GridInv /\ ListInv /\ [Next]_vars => ListInv'
  BY ListStep
<1>3. GridInv /\ ListInv => ListIsCurrent
  <2> SUFFICES ASSUME GridInv, ListInv, ListIsReused, "failed" \notin unseen
               PROVE  /\ "decor" \notin unseen =>
                           renderer.list.decor = FreshPicture.decor
                      /\ "overlay" \notin unseen =>
                           renderer.list.overlay = FreshPicture.overlay
                      /\ "document" \notin unseen =>
                           renderer.list.strokes = FreshPicture.strokes
    BY DEF ListIsCurrent
  <2>1. /\ renderer.valid
        /\ renderer.key.document = revision
        /\ renderer.key.selection = selection.revision
        /\ renderer.key.overlay = overlay.revision
        /\ renderer.key.preview = preview /\ renderer.key.view = canvas.view
    BY KeyNow DEF ListIsReused
  <2>2. "decor" \notin unseen => renderer.list.decor = FreshPicture.decor
    BY <2>1, PictureNow DEF ListInv, DecorInv, Told
  <2>3. "overlay" \notin unseen => renderer.list.overlay = FreshPicture.overlay
    <3>1. NoOverlay.revision = 0
      BY DEF NoOverlay
    <3> QED
      BY <2>1, <3>1, PictureNow DEF ListInv, OverlayInv, Told, SceneTyped
  <2>4. "document" \notin unseen => renderer.list.strokes = FreshPicture.strokes
    BY <2>1, PictureNow DEF ListInv, StrokesInv, Told, StrokesNow
  <2> QED
    BY <2>2, <2>3, <2>4
<1> QED
  BY <1>1, <1>2, <1>3, GridInit, ListInit, PTL DEF Spec
-----------------------------------------------------------------------------
(* Lists that are kept in part, turned round and joined *)

\* The sequences of Joined, one for each number of parts.
JoinLoop(seqs) ==
  LET joined[k \in 0 .. Len(seqs)] ==
        IF k = 0 THEN << >> ELSE joined[k - 1] \o seqs[k]
  IN  joined

\* The equations of JoinLoop.
LEMMA JoinLoopDef ==
  ASSUME NEW S, NEW seqs \in Seq(Seq(S))
  PROVE  /\ Joined(seqs) = JoinLoop(seqs)[Len(seqs)]
         /\ JoinLoop(seqs) \in [0 .. Len(seqs) -> Seq(S)]
         /\ JoinLoop(seqs)[0] = << >>
         /\ \A i \in 1 .. Len(seqs) :
              JoinLoop(seqs)[i] = JoinLoop(seqs)[i - 1] \o seqs[i]
<1> DEFINE n == Len(seqs)
           A == Seq(S)
           Step(q, i) == q \o seqs[i]
           step == [p \in A \X (1 .. n) |-> Step(p[1], p[2])]
<1>1. n \in Nat
  BY LenProperties
<1>2. ASSUME NEW q \in A, NEW i \in 1 .. n
      PROVE  Step(q, i) \in A
  <2>1. seqs[i] \in Seq(S)
    BY ElementOfSeq
  <2> QED
    BY <2>1, ConcatProperties
<1>3. << >> \in A
  OBVIOUS
<1> HIDE DEF A, Step
<1>4. IsStep(step, A, n)
  BY <1>2 DEF IsStep
<1>5. ASSUME NEW q \in A, NEW i \in 1 .. n
      PROVE  step[<<q, i>>] = Step(q, i)
  OBVIOUS
<1> HIDE DEF step, n
<1>6. PICK g : Iterates(g, A, << >>, n, step)
  BY <1>1, <1>3, <1>4, IteratesExist
<1> DEFINE Defines(joined) ==
             joined = [i \in 0 .. n |-> IF i = 0 THEN << >> ELSE Step(joined[i - 1], i)]
           f == CHOOSE joined : Defines(joined)
<1>7. Defines(g)
  <2>1. ASSUME NEW i \in 0 .. n
        PROVE  g[i] = IF i = 0 THEN << >> ELSE Step(g[i - 1], i)
    <3>1. CASE i = 0
      BY <3>1, <1>6 DEF Iterates
    <3>2. CASE i # 0
      <4>1. i \in 1 .. n /\ i - 1 \in 0 .. n
        BY <3>2, <1>1
      <4>2. g[i - 1] \in A
        BY <4>1, <1>6 DEF Iterates
      <4>3. g[i] = Step(g[i - 1], i)
        BY <4>1, <4>2, <1>5, <1>6 DEF Iterates
      <4> QED
        BY <3>2, <4>3
    <3> QED
      BY <3>1, <3>2
  <2> QED
    BY <2>1, <1>6 DEF Iterates
<1> HIDE DEF Defines
<1>8. Defines(f)
  BY <1>7
<1>9. JoinLoop(seqs) = f /\ Joined(seqs) = f[n]
  BY Zenon DEF JoinLoop, Joined, Defines, Step, n
<1>10. f = [i \in 0 .. n |-> IF i = 0 THEN << >> ELSE Step(f[i - 1], i)]
  BY <1>8 DEF Defines
<1> HIDE DEF f
<1>11. f[0] = << >>
  BY <1>1, <1>10
<1>12. ASSUME NEW i \in 1 .. n
       PROVE  f[i] = Step(f[i - 1], i)
  <2>1. i \in 0 .. n /\ i # 0
    BY <1>1
  <2> QED
    BY <2>1, <1>10
<1> DEFINE Reached == {i \in 0 .. n : f[i] \in A}
<1>13. 0 \in Reached
  BY <1>1, <1>3, <1>11
<1>14. ASSUME NEW i \in 1 .. n, i - 1 \in Reached
       PROVE  i \in Reached
  BY <1>1, <1>2, <1>12, <1>14
<1> HIDE DEF Reached
<1>15. \A i \in 0 .. n : i \in Reached
  BY <1>1, <1>13, <1>14, IntervalInduction
<1>16. f \in [0 .. n -> A]
  BY <1>10, <1>15 DEF Reached
<1>17. \A i \in 1 .. n : f[i] = f[i - 1] \o seqs[i]
  BY <1>12 DEF Step, n
<1> QED
  BY <1>9, <1>11, <1>16, <1>17 DEF A, n

\* The elements of a sequence that are in a set, and each as often as before.
LEMMA KeptIs ==
  ASSUME NEW S, NEW s \in Seq(S), NEW T
  PROVE  /\ Kept(s, T) \in Seq(S)
         /\ ToSet(Kept(s, T)) = ToSet(s) \cap T
         /\ IsInjective(s) => IsInjective(Kept(s, T))
<1> DEFINE positions == {j \in DOMAIN s : s[j] \in T}
           g == Ascending(positions, Len(s))
           kept == Kept(s, T)
<1>1. DOMAIN s = 1 .. Len(s) /\ Len(s) \in Nat
  BY LenProperties
<1>2. positions \in SUBSET (1 .. Len(s)) /\ positions \cap (1 .. Len(s)) = positions
  BY <1>1
<1>3. \A j \in 1 .. Len(s) : j \in positions <=> s[j] \in T
  BY <1>1
<1>4. kept = Elements(s, positions)
  BY DEF Kept
<1> HIDE DEF positions, kept
<1>5. Lists(g, positions) /\ kept = Picked(s, g)
  BY <1>2, <1>4, ElementsIs
<1> HIDE DEF g
<1>6. /\ kept \in Seq(S) /\ Len(kept) = Len(g)
      /\ \A i \in 1 .. Len(g) : g[i] \in 1 .. Len(s) /\ kept[i] = s[g[i]]
  BY <1>2, <1>5, PickedIs
<1>7. /\ Len(g) \in Nat
      /\ \A i \in 1 .. Len(g) : g[i] \in positions /\ g[i] \in Nat
      /\ \A p \in positions : \E i \in 1 .. Len(g) : g[i] = p
      /\ \A i, j \in 1 .. Len(g) : i < j => g[i] < g[j]
  BY <1>5, ListsMembers
<1>8. DOMAIN kept = 1 .. Len(g)
  BY <1>6, LenProperties
<1>9. ToSet(kept) = ToSet(s) \cap T
  <2>1. ASSUME NEW i \in 1 .. Len(g) PROVE kept[i] \in ToSet(s) \cap T
    BY <1>1, <1>3, <1>6, <1>7 DEF ToSet
  <2>2. ASSUME NEW j \in 1 .. Len(s), s[j] \in T PROVE s[j] \in ToSet(kept)
    <3>1. PICK i \in 1 .. Len(g) : g[i] = j
      BY <1>3, <1>7, <2>2
    <3> QED
      BY <1>6, <1>8, <3>1 DEF ToSet
  <2> QED
    BY <1>1, <1>8, <2>1, <2>2 DEF ToSet
<1>10. ASSUME IsInjective(s) PROVE IsInjective(kept)
  <2> SUFFICES ASSUME NEW i \in 1 .. Len(g), NEW j \in 1 .. Len(g), kept[i] = kept[j]
               PROVE  i = j
    BY <1>8 DEF IsInjective
  <2>1. g[i] = g[j]
    BY <1>1, <1>6, <1>10 DEF IsInjective
  <2> QED
    BY <1>7, <2>1
<1> QED
  BY <1>6, <1>9, <1>10 DEF kept

\* The same elements the other way round.
LEMMA ReverseIs ==
  ASSUME NEW S, NEW s \in Seq(S)
  PROVE  /\ Reverse(s) \in Seq(S)
         /\ ToSet(Reverse(s)) = ToSet(s)
         /\ IsInjective(s) => IsInjective(Reverse(s))
<1> DEFINE n == Len(s)
           r == Reverse(s)
<1>1. n \in Nat /\ DOMAIN s = 1 .. n /\ \A i \in 1 .. n : s[i] \in S
  BY LenProperties, ElementOfSeq
<1>2. DOMAIN r = 1 .. n /\ \A i \in 1 .. n : r[i] = s[n - i + 1]
  BY DEF Reverse
<1>3. r = [i \in 1 .. n |-> s[n - i + 1]]
  BY DEF Reverse
<1> HIDE DEF n
<1>4. \A i \in 1 .. n : n - i + 1 \in 1 .. n /\ n - (n - i + 1) + 1 = i
  BY <1>1
<1>5. r \in Seq(S)
  BY <1>1, <1>3, <1>4
<1> HIDE DEF r
<1>6. ToSet(r) = ToSet(s)
  <2>1. \A i \in 1 .. n : r[i] \in ToSet(s) /\ s[i] = r[n - i + 1]
    BY <1>1, <1>2, <1>4 DEF ToSet
  <2> QED
    BY <1>1, <1>2, <1>4, <2>1 DEF ToSet
<1>7. ASSUME IsInjective(s) PROVE IsInjective(r)
  <2> SUFFICES ASSUME NEW i \in 1 .. n, NEW j \in 1 .. n, r[i] = r[j] PROVE i = j
    BY <1>2 DEF IsInjective
  <2>1. n - i + 1 = n - j + 1
    BY <1>1, <1>2, <1>4, <1>7 DEF IsInjective
  <2> QED
    BY <1>1, <2>1
<1> QED
  BY <1>5, <1>6, <1>7 DEF r

\* No element twice, neither in a part nor in two of them.
Apart(seqs) ==
  /\ \A k \in 1 .. Len(seqs) : IsInjective(seqs[k])
  /\ \A k, l \in 1 .. Len(seqs) : k < l => ToSet(seqs[k]) \cap ToSet(seqs[l]) = {}

\* The first parts, in their order.
InParts(m, seqs, k) ==
  /\ \A p \in 1 .. Len(m) : \E i \in 1 .. k : m[p] \in ToSet(seqs[i])
  /\ \A i \in 1 .. k : ToSet(seqs[i]) \subseteq ToSet(m)
  /\ \A p, q \in 1 .. Len(m) :
       p < q => \E i, j \in 1 .. k :
                  i <= j /\ m[p] \in ToSet(seqs[i]) /\ m[q] \in ToSet(seqs[j])
  /\ Apart(seqs) => IsInjective(m)

\* One more part.
LEMMA OneMorePart ==
  ASSUME NEW S, NEW seqs \in Seq(Seq(S)), NEW k \in 1 .. Len(seqs),
         NEW m \in Seq(S), InParts(m, seqs, k - 1)
  PROVE  InParts(m \o seqs[k], seqs, k)
<1> DEFINE t == seqs[k]
           j == m \o t
<1>1. t \in Seq(S) /\ k \in Nat /\ k - 1 \in Nat
  BY ElementOfSeq, LenProperties
<1> HIDE DEF t
<1>2. /\ Len(m) \in Nat /\ Len(t) \in Nat
      /\ DOMAIN m = 1 .. Len(m) /\ DOMAIN t = 1 .. Len(t)
  BY <1>1, LenProperties
<1>3. /\ j \in Seq(S) /\ Len(j) = Len(m) + Len(t)
      /\ \A p \in 1 .. (Len(m) + Len(t)) : j[p] = IF p <= Len(m) THEN m[p] ELSE t[p - Len(m)]
  BY <1>1, ConcatProperties
<1> HIDE DEF j
<1>4. DOMAIN j = 1 .. (Len(m) + Len(t))
  BY <1>3, LenProperties
<1>5. ASSUME NEW p \in 1 .. Len(j)
      PROVE  \/ p <= Len(m) /\ p \in 1 .. Len(m) /\ j[p] = m[p]
             \/ p > Len(m) /\ p - Len(m) \in 1 .. Len(t) /\ j[p] = t[p - Len(m)] /\ j[p] \in ToSet(t)
  <2>1. CASE p <= Len(m)
    BY <1>2, <1>3, <2>1
  <2>2. CASE p > Len(m)
    <3>1. p - Len(m) \in 1 .. Len(t) /\ j[p] = t[p - Len(m)]
      BY <1>2, <1>3, <2>2
    <3> QED
      BY <1>2, <2>2, <3>1 DEF ToSet
  <2> QED
    BY <1>2, <1>3, <2>1, <2>2
<1>6. /\ k \in 1 .. k /\ \A i \in 1 .. (k - 1) : i \in 1 .. k /\ i < k /\ i \in 1 .. Len(seqs)
      /\ \A i \in 1 .. k : i = k \/ i \in 1 .. (k - 1)
  BY <1>1
<1>7. /\ \A p \in 1 .. Len(m) : \E i \in 1 .. (k - 1) : m[p] \in ToSet(seqs[i])
      /\ \A i \in 1 .. (k - 1) : ToSet(seqs[i]) \subseteq ToSet(m)
      /\ Apart(seqs) => IsInjective(m)
      /\ \A p, q \in 1 .. Len(m) :
           p < q => \E i, l \in 1 .. (k - 1) :
                      i <= l /\ m[p] \in ToSet(seqs[i]) /\ m[q] \in ToSet(seqs[l])
  BY DEF InParts
<1>8. ASSUME NEW p \in 1 .. Len(j)
      PROVE  \E i \in 1 .. k : j[p] \in ToSet(seqs[i])
  BY <1>5, <1>6, <1>7 DEF t
<1>9. ToSet(m) \subseteq ToSet(j) /\ ToSet(t) \subseteq ToSet(j)
  <2>1. ASSUME NEW p \in 1 .. Len(m) PROVE m[p] \in ToSet(j)
    <3>1. p \in DOMAIN j /\ j[p] = m[p]
      BY <1>2, <1>3, <1>4
    <3> QED
      BY <3>1 DEF ToSet
  <2>2. ASSUME NEW p \in 1 .. Len(t) PROVE t[p] \in ToSet(j)
    <3> DEFINE place == Len(m) + p
    <3>1. place \in 1 .. (Len(m) + Len(t)) /\ ~(place <= Len(m)) /\ place - Len(m) = p
      BY <1>2
    <3> HIDE DEF place
    <3>2. place \in DOMAIN j /\ j[place] = t[p]
      BY <1>3, <1>4, <3>1
    <3> QED
      BY <3>2 DEF ToSet
  <2> QED
    BY <1>2, <2>1, <2>2 DEF ToSet
<1>10. ASSUME NEW p \in 1 .. Len(j), NEW q \in 1 .. Len(j), p < q
       PROVE  \E i, l \in 1 .. k : i <= l /\ j[p] \in ToSet(seqs[i]) /\ j[q] \in ToSet(seqs[l])
  <2>0. p \in Int /\ q \in Int /\ Len(j) \in Int
    BY <1>2, <1>3
  <2>1. CASE q <= Len(m)
    <3>1. p \in 1 .. Len(m) /\ q \in 1 .. Len(m) /\ j[p] = m[p] /\ j[q] = m[q]
      BY <1>2, <1>3, <1>10, <2>0, <2>1
    <3>2. PICK i, l \in 1 .. (k - 1) :
            i <= l /\ m[p] \in ToSet(seqs[i]) /\ m[q] \in ToSet(seqs[l])
      BY <1>7, <1>10, <3>1
    <3> QED
      BY <1>6, <3>1, <3>2
  <2>2. CASE q > Len(m)
    <3>1. j[q] \in ToSet(seqs[k])
      BY <1>2, <1>3, <1>5, <2>2 DEF t
    <3>2. PICK i \in 1 .. k : j[p] \in ToSet(seqs[i])
      BY <1>8
    <3>3. i <= k
      BY <1>1
    <3> QED
      BY <1>6, <3>1, <3>2, <3>3
  <2> QED
    BY <1>2, <2>0, <2>1, <2>2
<1>11. ASSUME Apart(seqs) PROVE IsInjective(j)
  <2>1. ASSUME NEW p \in 1 .. Len(m), NEW q \in 1 .. Len(t) PROVE m[p] # t[q]
    <3>1. PICK i \in 1 .. (k - 1) : m[p] \in ToSet(seqs[i])
      BY <1>7
    <3>2. ToSet(seqs[i]) \cap ToSet(seqs[k]) = {}
      BY <1>6, <1>11 DEF Apart
    <3>3. t[q] \in ToSet(seqs[k])
      BY <1>2 DEF ToSet, t
    <3> QED
      BY <3>1, <3>2, <3>3
  <2>2. IsInjective(m) /\ IsInjective(t)
    BY <1>7, <1>11 DEF Apart, t
  <2> SUFFICES ASSUME NEW p \in 1 .. Len(j), NEW q \in 1 .. Len(j), j[p] = j[q] PROVE p = q
    BY <1>3, <1>4 DEF IsInjective
  <2>3. p \in Int /\ q \in Int
    OBVIOUS
  <2>4. CASE p <= Len(m)
    <3>1. p \in 1 .. Len(m) /\ j[p] = m[p]
      BY <1>2, <1>5, <2>3, <2>4
    <3>2. q \in 1 .. Len(m) /\ j[q] = m[q]
      BY <1>5, <2>1, <3>1
    <3> QED
      BY <1>2, <2>2, <3>1, <3>2 DEF IsInjective
  <2>5. CASE ~(p <= Len(m))
    <3>1. p - Len(m) \in 1 .. Len(t) /\ j[p] = t[p - Len(m)]
      BY <1>2, <1>5, <2>3, <2>5
    <3>2. q - Len(m) \in 1 .. Len(t) /\ j[q] = t[q - Len(m)]
      BY <1>5, <2>1, <3>1
    <3>3. p - Len(m) = q - Len(m)
      BY <1>2, <2>2, <3>1, <3>2 DEF IsInjective
    <3> QED
      BY <1>2, <2>3, <3>3
  <2> QED
    BY <2>4, <2>5
<1>12. \A i \in 1 .. k : ToSet(seqs[i]) \subseteq ToSet(j)
  BY <1>6, <1>7, <1>9 DEF t
<1>13. InParts(j, seqs, k)
  BY <1>8, <1>10, <1>11, <1>12 DEF InParts
<1> QED
  BY <1>13 DEF j, t

\* The parts one behind the other.
LEMMA JoinedIs ==
  ASSUME NEW S, NEW seqs \in Seq(Seq(S))
  PROVE  Joined(seqs) \in Seq(S) /\ InParts(Joined(seqs), seqs, Len(seqs))
<1> DEFINE n == Len(seqs)
           f == JoinLoop(seqs)
<1>1. n \in Nat
  BY LenProperties
<1>2. /\ Joined(seqs) = f[n] /\ f \in [0 .. n -> Seq(S)] /\ f[0] = << >>
      /\ \A i \in 1 .. n : f[i] = f[i - 1] \o seqs[i]
  BY JoinLoopDef
<1> HIDE DEF f
<1> DEFINE Reached == {i \in 0 .. n : InParts(f[i], seqs, i)}
<1>3. 0 \in Reached
  BY <1>1, <1>2 DEF InParts, IsInjective
<1>4. ASSUME NEW i \in 1 .. n, i - 1 \in Reached PROVE i \in Reached
  <2>1. f[i - 1] \in Seq(S) /\ InParts(f[i - 1], seqs, i - 1)
    BY <1>2, <1>4
  <2>2. InParts(f[i - 1] \o seqs[i], seqs, i)
    BY <2>1, OneMorePart
  <2>3. f[i] = f[i - 1] \o seqs[i]
    BY <1>2, Zenon
  <2>4. i \in 0 .. n
    BY <1>1
  <2> QED
    BY <2>2, <2>3, <2>4
<1> HIDE DEF Reached, n
<1>5. n \in Reached
  <2>1. \A i \in 0 .. n : i \in Reached
    BY <1>1, <1>3, <1>4, IntervalInduction
  <2> QED
    BY <1>1, <2>1
<1>6. InParts(f[n], seqs, n) /\ f[n] \in Seq(S)
  BY <1>1, <1>2, <1>5 DEF Reached
<1> QED
  BY <1>2, <1>6 DEF n
-----------------------------------------------------------------------------
(* The grid of a document *)

\* Lowest and Highest find what there is to find.
LEMMA LowestIs ==
  ASSUME NEW T, NEW a \in T, \A x \in T : a <= x
  PROVE  Lowest(T) \in T /\ \A x \in T : Lowest(T) <= x
BY DEF Lowest

\* ... and the greatest.
LEMMA HighestIs ==
  ASSUME NEW T, NEW a \in T, \A x \in T : a >= x
  PROVE  Highest(T) \in T /\ \A x \in T : Highest(T) >= x
BY DEF Highest

\* The lower and the higher of two numbers.
LEMMA OfTwo ==
  ASSUME NEW a \in Int, NEW b \in Int
  PROVE  /\ Lowest({a, b}) \in Int
         /\ Lowest({a, b}) <= a /\ Lowest({a, b}) <= b
         /\ Lowest({a, b}) = a \/ Lowest({a, b}) = b
         /\ Highest({a, b}) \in Int
         /\ Highest({a, b}) >= a /\ Highest({a, b}) >= b
         /\ Highest({a, b}) = a \/ Highest({a, b}) = b
<1> DEFINE T == {a, b}
<1>1. CASE a <= b
  <2>1. a \in T /\ b \in T /\ \A x \in T : a <= x /\ b >= x
    BY <1>1
  <2>2. /\ Lowest(T) \in T /\ \A x \in T : Lowest(T) <= x
        /\ Highest(T) \in T /\ \A x \in T : Highest(T) >= x
    BY <2>1, LowestIs, HighestIs
  <2> QED
    BY <2>1, <2>2
<1>2. CASE ~(a <= b)
  <2>1. a \in T /\ b \in T /\ \A x \in T : b <= x /\ a >= x
    BY <1>2
  <2>2. /\ Lowest(T) \in T /\ \A x \in T : Lowest(T) <= x
        /\ Highest(T) \in T /\ \A x \in T : Highest(T) >= x
    BY <2>1, LowestIs, HighestIs
  <2> QED
    BY <2>1, <2>2
<1> QED
  BY <1>1, <1>2

\* Of finitely many numbers one is the lowest and one the highest.
LEMMA ExtremesExist ==
  ASSUME NEW n \in Nat \ {0}, NEW f, \A i \in 1 .. n : f[i] \in Int
  PROVE  /\ \E a \in 1 .. n : \A i \in 1 .. n : f[a] <= f[i]
         /\ \E a \in 1 .. n : \A i \in 1 .. n : f[a] >= f[i]
<1> DEFINE Has(k) == /\ \E a \in 1 .. k : \A i \in 1 .. k : f[a] <= f[i]
                     /\ \E a \in 1 .. k : \A i \in 1 .. k : f[a] >= f[i]
           Reached == {k \in 0 .. n : k = 0 \/ Has(k)}
<1>1. 0 \in Reached
  OBVIOUS
<1>2. ASSUME NEW k \in 1 .. n, k - 1 \in Reached PROVE k \in Reached
  <2>1. k \in Nat /\ k \in 1 .. k /\ k \in 0 .. n /\ \A i \in 1 .. k : i = k \/ i \in 1 .. (k - 1)
    OBVIOUS
  <2>2. \A i \in 1 .. k : f[i] \in Int
    OBVIOUS
  <2>3. CASE k - 1 = 0
    <3>1. \A i \in 1 .. k : i = k
      BY <2>1, <2>3
    <3>2. Has(k)
      BY <2>1, <2>2, <3>1
    <3> QED
      BY <2>1, <3>2
  <2>4. CASE k - 1 # 0
    <3>1. Has(k - 1)
      BY <1>2, <2>4
    <3>2. PICK a \in 1 .. (k - 1) : \A i \in 1 .. (k - 1) : f[a] <= f[i]
      BY <3>1
    <3>3. PICK b \in 1 .. (k - 1) : \A i \in 1 .. (k - 1) : f[b] >= f[i]
      BY <3>1
    <3>4. a \in 1 .. k /\ b \in 1 .. k
      BY <2>1
    <3>5. \E c \in 1 .. k : \A i \in 1 .. k : f[c] <= f[i]
      <4>1. CASE f[a] <= f[k]
        BY <2>1, <3>2, <3>4, <4>1
      <4>2. CASE ~(f[a] <= f[k])
        BY <2>1, <2>2, <3>2, <3>4, <4>2
      <4> QED
        BY <4>1, <4>2
    <3>6. \E c \in 1 .. k : \A i \in 1 .. k : f[c] >= f[i]
      <4>1. CASE f[b] >= f[k]
        BY <2>1, <3>3, <3>4, <4>1
      <4>2. CASE ~(f[b] >= f[k])
        BY <2>1, <2>2, <3>3, <3>4, <4>2
      <4> QED
        BY <4>1, <4>2
    <3> QED
      BY <2>1, <3>5, <3>6
  <2> QED
    BY <2>3, <2>4
<1> HIDE DEF Reached
<1>3. n \in Nat /\ n \in 0 .. n /\ n # 0
  OBVIOUS
<1>4. \A k \in 0 .. n : k \in Reached
  BY <1>1, <1>2, <1>3, IntervalInduction
<1>5. Has(n)
  BY <1>3, <1>4 DEF Reached
<1> QED
  BY <1>5

\* The objects of a document with bounds that are not turned round.
Bounded(doc) ==
  /\ doc.objects \in Objects
  /\ \A i \in 1 .. Len(doc.objects) : doc.objects[i].width >= 0

\* The bounds of an object.
LEMMA BoundsAre ==
  ASSUME NEW doc, Bounded(doc), NEW i \in 1 .. Len(doc.objects)
  PROVE  /\ Lo(doc.objects[i]) \in Int /\ Hi(doc.objects[i]) \in Int
         /\ Lo(doc.objects[i]) <= Hi(doc.objects[i])
<1>1. doc.objects[i] \in ObjectType /\ doc.objects[i].width >= 0
  BY ElementOfSeq DEF Bounded, Objects
<1> QED
  BY <1>1 DEF Lo, Hi, ObjectType

\* The grid starts in front of the first object ...
LEMMA GridLoIs ==
  ASSUME NEW doc, Bounded(doc), doc.objects # << >>
  PROVE  /\ GridLo(doc) \in Int
         /\ \A i \in 1 .. Len(doc.objects) : GridLo(doc) < Lo(doc.objects[i])
<1> DEFINE n == Len(doc.objects)
           f == [i \in 1 .. n |-> Lo(doc.objects[i])]
           T == {Lo(object) : object \in ToSet(doc.objects)}
<1>1. n \in Nat \ {0} /\ DOMAIN doc.objects = 1 .. n
  BY LenProperties, EmptySeq DEF Bounded, Objects
<1>2. \A i \in 1 .. n : f[i] = Lo(doc.objects[i]) /\ f[i] \in Int
  BY BoundsAre
<1>3. /\ \A i \in 1 .. n : f[i] \in T
      /\ \A x \in T : \E i \in 1 .. n : f[i] = x
  BY <1>1, <1>2 DEF ToSet
<1>4. GridLo(doc) = Lowest(T) - 1
  BY DEF GridLo
<1> HIDE DEF n, f, T
<1>5. PICK a \in 1 .. n : \A i \in 1 .. n : f[a] <= f[i]
  BY <1>1, <1>2, ExtremesExist
<1>6. Lowest(T) \in T /\ \A x \in T : Lowest(T) <= x
  BY <1>3, <1>5, LowestIs
<1>7. Lowest(T) \in Int /\ \A i \in 1 .. n : Lowest(T) <= f[i]
  BY <1>2, <1>3, <1>6
<1>8. GridLo(doc) \in Int /\ \A i \in 1 .. n : GridLo(doc) < Lo(doc.objects[i])
  BY <1>2, <1>4, <1>7
<1> QED
  BY <1>8 DEF n

\* ... and there is an end behind the last one.
LEMMA HighestHiIs ==
  ASSUME NEW doc, Bounded(doc), doc.objects # << >>
  PROVE  /\ Highest({Hi(object) : object \in ToSet(doc.objects)}) \in Int
         /\ \A i \in 1 .. Len(doc.objects) :
              Hi(doc.objects[i]) <= Highest({Hi(object) : object \in ToSet(doc.objects)})
<1> DEFINE n == Len(doc.objects)
           f == [i \in 1 .. n |-> Hi(doc.objects[i])]
           T == {Hi(object) : object \in ToSet(doc.objects)}
<1>1. n \in Nat \ {0} /\ DOMAIN doc.objects = 1 .. n
  BY LenProperties, EmptySeq DEF Bounded, Objects
<1>2. \A i \in 1 .. n : f[i] = Hi(doc.objects[i]) /\ f[i] \in Int
  BY BoundsAre
<1>3. /\ \A i \in 1 .. n : f[i] \in T
      /\ \A x \in T : \E i \in 1 .. n : f[i] = x
  BY <1>1, <1>2 DEF ToSet
<1> HIDE DEF n, f, T
<1>4. PICK a \in 1 .. n : \A i \in 1 .. n : f[a] >= f[i]
  BY <1>1, <1>2, ExtremesExist
<1>5. Highest(T) \in T /\ \A x \in T : Highest(T) >= x
  BY <1>3, <1>4, HighestIs
<1>6. Highest(T) \in Int /\ \A i \in 1 .. n : Hi(doc.objects[i]) <= Highest(T)
  BY <1>2, <1>3, <1>5
<1> QED
  BY <1>6 DEF n, T

\* Columns are counted from the left.
LEMMA ColumnIs ==
  ASSUME NEW lo \in Int, NEW x \in Int, NEW y \in Int
  PROVE  /\ Column(lo, x) \in Int
         /\ x <= y => Column(lo, x) <= Column(lo, y)
         /\ lo <= x => 1 <= Column(lo, x)
<1>1. CellSize \in Nat \ {0} /\ x - lo \in Int /\ y - lo \in Int
  BY GridAssumption
<1>2. (x - lo) \div CellSize \in Int /\ (y - lo) \div CellSize \in Int
  BY <1>1
<1>3. x <= y => (x - lo) \div CellSize <= (y - lo) \div CellSize
  <2>1. SUFFICES ASSUME x - lo <= y - lo PROVE (x - lo) \div CellSize <= (y - lo) \div CellSize
    OBVIOUS
  <2> QED
    BY <1>1, <2>1, Z3
<1>4. lo <= x => 0 <= (x - lo) \div CellSize
  <2>1. SUFFICES ASSUME 0 <= x - lo PROVE 0 <= (x - lo) \div CellSize
    OBVIOUS
  <2> QED
    BY <1>1, <2>1, Z3
<1> QED
  BY <1>2, <1>3, <1>4 DEF Column

\* The grid has a column for everything that starts within MaxAxisCells columns.
LEMMA GridColumnsAre ==
  ASSUME NEW doc, Bounded(doc), doc.objects # << >>
  PROVE  /\ GridColumns(doc) \in Nat
         /\ \A i \in 1 .. Len(doc.objects) :
              Column(GridLo(doc), Lo(doc.objects[i])) <= MaxAxisCells =>
                Column(GridLo(doc), Lo(doc.objects[i])) <= GridColumns(doc)
<1> DEFINE high == Highest({Hi(object) : object \in ToSet(doc.objects)})
           low == GridLo(doc)
           span == GridSpan(doc)
           needed == (span + CellSize - 1) \div CellSize
<1>1. /\ high \in Int /\ low \in Int
      /\ \A i \in 1 .. Len(doc.objects) : Hi(doc.objects[i]) <= high /\ low < Lo(doc.objects[i])
  BY GridLoIs, HighestHiIs
<1>2. CellSize \in Nat \ {0} /\ MaxAxisCells \in Nat
  BY GridAssumption
<1>3. span = Highest({CellSize, high + 1 - low}) /\ GridColumns(doc) = Lowest({MaxAxisCells, needed})
  BY DEF GridSpan, GridColumns
<1> HIDE DEF high, low, span
<1>4. span \in Int /\ high + 1 - low <= span /\ CellSize <= span
  <2> DEFINE least == high + 1 - low
  <2>1. least \in Int /\ CellSize \in Int /\ span = Highest({CellSize, least})
    BY <1>1, <1>2, <1>3
  <2> HIDE DEF least
  <2>2. /\ Highest({CellSize, least}) \in Int /\ Highest({CellSize, least}) >= least
        /\ Highest({CellSize, least}) >= CellSize
    BY <2>1, OfTwo
  <2>3. span \in Int /\ least <= span /\ CellSize <= span
    BY <2>1, <2>2
  <2> QED
    BY <2>3 DEF least
<1>5. needed \in Int /\ needed >= 0
  BY <1>2, <1>4, Z3
<1>6. ASSUME NEW i \in 1 .. Len(doc.objects)
      PROVE  Column(low, Lo(doc.objects[i])) <= needed
  <2> DEFINE a == Lo(doc.objects[i]) - low
  <2>1. a \in Int /\ a < span
    BY <1>1, <1>4, BoundsAre
  <2>2. Column(low, Lo(doc.objects[i])) = (a \div CellSize) + 1
    BY DEF Column
  <2> HIDE DEF a
  <2>3. (a \div CellSize) + 1 <= (span + CellSize - 1) \div CellSize
    BY <1>2, <1>4, <2>1, Z3
  <2> QED
    BY <2>2, <2>3
<1> HIDE DEF needed
<1>7. GridColumns(doc) \in Nat /\ (GridColumns(doc) = MaxAxisCells \/ GridColumns(doc) = needed)
  <2>1. MaxAxisCells \in Int
    BY <1>2
  <2>2. /\ Lowest({MaxAxisCells, needed}) \in Int
        /\ Lowest({MaxAxisCells, needed}) = MaxAxisCells \/ Lowest({MaxAxisCells, needed}) = needed
    BY <1>5, <2>1, OfTwo
  <2> QED
    BY <1>2, <1>3, <1>5, <2>2
<1> QED
  BY <1>6, <1>7 DEF low
-----------------------------------------------------------------------------
(* The lists of the grid *)

\* Positions of objects, none of them twice.
Positioned(doc, list) == list \in Seq(1 .. Len(doc.objects)) /\ IsInjective(list)

\* All objects, in the order of the document.
LEMMA IndicesAre ==
  ASSUME NEW doc, Bounded(doc)
  PROVE  Positioned(doc, Indices(doc)) /\ ToSet(Indices(doc)) = 1 .. Len(doc.objects)
<1> DEFINE n == Len(doc.objects)
           s == Indices(doc)
<1>1. n \in Nat /\ DOMAIN doc.objects = 1 .. n
  BY LenProperties DEF Bounded, Objects
<1>2. s = [i \in 1 .. n |-> i]
  BY <1>1 DEF Indices
<1> HIDE DEF s, n
<1>3. s \in Seq(1 .. n) /\ DOMAIN s = 1 .. n /\ \A i \in 1 .. n : s[i] = i
  BY <1>1, <1>2
<1>4. IsInjective(s) /\ ToSet(s) = 1 .. n
  BY <1>3 DEF IsInjective, ToSet
<1> QED
  BY <1>3, <1>4 DEF Positioned, n, s

\* The bounds of an object reach into a column.
Spans(doc, lo, i, column) ==
  /\ Column(lo, Lo(doc.objects[i])) <= column
  /\ column <= Column(lo, Hi(doc.objects[i]))

\* A column lists the objects that span it.
LEMMA ColumnListIs ==
  ASSUME NEW doc, Bounded(doc), NEW lo, NEW column
  PROVE  /\ Positioned(doc, ColumnList(doc, lo, column))
         /\ \A i \in 1 .. Len(doc.objects) :
              i \in ToSet(ColumnList(doc, lo, column)) <=> Spans(doc, lo, i, column)
<1> DEFINE n == Len(doc.objects)
           T == {i \in DOMAIN doc.objects : Spans(doc, lo, i, column)}
           s == Indices(doc)
           k == Kept(s, T)
<1>1. DOMAIN doc.objects = 1 .. n
  BY LenProperties DEF Bounded, Objects
<1>2. ColumnList(doc, lo, column) = Reverse(k)
  BY DEF ColumnList, Spans
<1>3. s \in Seq(1 .. n) /\ IsInjective(s) /\ ToSet(s) = 1 .. n
  BY IndicesAre DEF Positioned
<1>4. \A i \in 1 .. n : i \in T <=> Spans(doc, lo, i, column)
  BY <1>1
<1> HIDE DEF s, T, k
<1>5. k \in Seq(1 .. n) /\ IsInjective(k) /\ ToSet(k) = ToSet(s) \cap T
  BY <1>3, KeptIs DEF k
<1>6. Reverse(k) \in Seq(1 .. n) /\ IsInjective(Reverse(k)) /\ ToSet(Reverse(k)) = ToSet(k)
  BY <1>5, ReverseIs
<1> QED
  BY <1>2, <1>3, <1>4, <1>5, <1>6 DEF Positioned

\* A grid whose columns are lists of objects.
Gridded(doc, table) ==
  /\ table.lo \in Int
  /\ table.columns \in Seq(Seq(1 .. Len(doc.objects)))
  /\ \A c \in 1 .. Len(table.columns) : IsInjective(table.columns[c])

\* The grid of a document.
LEMMA BuiltIs ==
  ASSUME NEW doc, Bounded(doc), NEW stamp
  PROVE  /\ Gridded(doc, Built(doc, stamp))
         /\ doc.objects # << >> =>
              /\ Built(doc, stamp).lo = GridLo(doc)
              /\ Len(Built(doc, stamp).columns) = GridColumns(doc)
              /\ \A c \in 1 .. GridColumns(doc) :
                   Built(doc, stamp).columns[c] = ColumnList(doc, GridLo(doc), c)
<1> DEFINE n == Len(doc.objects)
           m == GridColumns(doc)
           low == GridLo(doc)
           lists == [c \in 1 .. m |-> ColumnList(doc, low, c)]
           b == Built(doc, stamp)
<1>1. CASE doc.objects = << >>
  <2>1. b.lo = 0 /\ b.columns = << >>
    BY <1>1 DEF Built, NoIndex
  <2> HIDE DEF b
  <2>2. << >> \in Seq(Seq(1 .. n)) /\ Len(<< >>) = 0
    OBVIOUS
  <2>3. Gridded(doc, b)
    BY <2>1, <2>2 DEF Gridded
  <2> QED
    BY <1>1, <2>3 DEF b
<1>2. CASE doc.objects # << >>
  <2>1. b = [revision |-> stamp, lo |-> low, columns |-> lists]
    BY <1>2 DEF Built
  <2>2. m \in Nat /\ low \in Int
    BY <1>2, GridColumnsAre, GridLoIs
  <2>3. \A c \in 1 .. m : Positioned(doc, ColumnList(doc, low, c))
    BY ColumnListIs
  <2> HIDE DEF b, m, low
  <2>4. b.lo = low /\ b.columns = lists
    BY <2>1
  <2>5. \A c \in 1 .. m : /\ lists[c] = ColumnList(doc, low, c)
                          /\ lists[c] \in Seq(1 .. n) /\ IsInjective(lists[c])
    BY <2>3 DEF Positioned
  <2>6. lists \in Seq(Seq(1 .. n)) /\ Len(lists) = m
    BY <2>2, <2>5
  <2> HIDE DEF lists
  <2>7. Gridded(doc, b)
    BY <2>2, <2>4, <2>5, <2>6 DEF Gridded
  <2> QED
    BY <2>4, <2>5, <2>6, <2>7 DEF b, m, low
<1> QED
  BY <1>1, <1>2

\* The columns that a rectangle spans are columns of the grid, and all of them in its bounds.
LEMMA SpannedIs ==
  ASSUME NEW S, NEW table, table.columns \in Seq(S), table.lo \in Int, NEW lo \in Int, NEW hi \in Int
  PROVE  /\ Spanned(table, lo, hi) \in Seq(S)
         /\ \A k \in 1 .. Len(Spanned(table, lo, hi)) :
              \E c \in 1 .. Len(table.columns) : Spanned(table, lo, hi)[k] = table.columns[c]
         /\ \A c \in 1 .. Len(table.columns) :
              Column(table.lo, lo) <= c /\ c <= Column(table.lo, hi) =>
                \E k \in 1 .. Len(Spanned(table, lo, hi)) :
                  Spanned(table, lo, hi)[k] = table.columns[c]
         /\ Spanned(table, lo, hi) # << >> => Column(table.lo, lo) <= Len(table.columns)
<1> DEFINE s == table.columns
           x == Column(table.lo, lo)
           y == Column(table.lo, hi)
           n == Len(s)
           a == Highest({1, x})
           b == Lowest({n, y})
           t == Spanned(table, lo, hi)
<1>1. n \in Nat /\ n \in Int /\ 1 \in Int /\ \A i \in 1 .. n : s[i] \in S
  BY LenProperties, ElementOfSeq
<1>2. x \in Int /\ y \in Int
  BY ColumnIs
<1>3. t = SubSeq(s, a, b)
  BY DEF Spanned
<1> HIDE DEF s, x, y, n, t
<1>4. a \in Int /\ a >= 1 /\ a >= x /\ (a = 1 \/ a = x)
  BY <1>1, <1>2, OfTwo
<1>5. b \in Int /\ b <= n /\ b <= y /\ (b = n \/ b = y)
  BY <1>1, <1>2, OfTwo
<1> HIDE DEF a, b
<1>6. \A i \in a .. b : s[i] \in S
  BY <1>1, <1>4, <1>5
<1>7. /\ SubSeq(s, a, b) \in Seq(S)
      /\ Len(SubSeq(s, a, b)) = IF a <= b THEN b - a + 1 ELSE 0
      /\ \A i \in 1 .. b - a + 1 : SubSeq(s, a, b)[i] = s[a + i - 1]
  BY <1>4, <1>5, <1>6, SubSeqProperties
<1>8. ASSUME NEW k \in 1 .. Len(t)
      PROVE  \E c \in 1 .. n : t[k] = s[c]
  <2>1. k \in 1 .. (b - a + 1) /\ a + k - 1 \in 1 .. n
    BY <1>1, <1>3, <1>4, <1>5, <1>7
  <2> QED
    BY <1>3, <1>7, <2>1
<1>9. ASSUME NEW c \in 1 .. n, x <= c, c <= y
      PROVE  \E k \in 1 .. Len(t) : t[k] = s[c]
  <2>1. a <= c /\ c <= b
    BY <1>1, <1>2, <1>4, <1>5, <1>9
  <2>2. c - a + 1 \in 1 .. Len(t) /\ c - a + 1 \in 1 .. b - a + 1 /\ a + (c - a + 1) - 1 = c
    BY <1>1, <1>3, <1>4, <1>5, <1>7, <2>1
  <2> QED
    BY <1>3, <1>7, <2>2
<1>10. ASSUME t # << >> PROVE x <= n
  <2>1. a <= b
    BY <1>3, <1>4, <1>5, <1>7, <1>10, EmptySeq
  <2> QED
    BY <1>1, <1>2, <1>4, <1>5, <2>1
<1>11. t \in Seq(S)
  BY <1>3, <1>7
<1> QED
  BY <1>8, <1>9, <1>10, <1>11 DEF s, x, y, n, t

\* What the marks let through is each object that may be taken, once.
LEMMA QueryIs ==
  ASSUME NEW doc, Bounded(doc), NEW table, Gridded(doc, table), NEW lo \in Int, NEW hi \in Int
  PROVE  /\ Positioned(doc, Query(table, doc, lo, hi))
         /\ ToSet(Query(table, doc, lo, hi)) \subseteq InView(doc, lo, hi)
         /\ Query(table, doc, lo, hi) # << >> => Column(table.lo, lo) <= Len(table.columns)
         /\ \A i \in InView(doc, lo, hi), c \in 1 .. Len(table.columns) :
              /\ Column(table.lo, lo) <= c /\ c <= Column(table.lo, hi)
              /\ i \in ToSet(table.columns[c])
              => i \in ToSet(Query(table, doc, lo, hi))
<1> DEFINE n == Len(doc.objects)
           C == table.columns
           columns == Spanned(table, lo, hi)
           m == Len(columns)
           V == InView(doc, lo, hi)
           Marked(k) == UNION {ToSet(columns[earlier]) : earlier \in 1 .. (k - 1)}
           Part(k) == Kept(columns[k], V \ Marked(k))
           parts == [k \in 1 .. m |-> Part(k)]
           q == Query(table, doc, lo, hi)
<1>1. /\ C \in Seq(Seq(1 .. n)) /\ table.lo \in Int
      /\ \A c \in 1 .. Len(C) : IsInjective(C[c])
  BY DEF Gridded
<1>2. /\ columns \in Seq(Seq(1 .. n))
      /\ \A k \in 1 .. m : \E c \in 1 .. Len(C) : columns[k] = C[c]
      /\ \A c \in 1 .. Len(C) :
           Column(table.lo, lo) <= c /\ c <= Column(table.lo, hi) =>
             \E k \in 1 .. m : columns[k] = C[c]
      /\ columns # << >> => Column(table.lo, lo) <= Len(C)
  BY <1>1, SpannedIs
<1>3. m \in Nat /\ DOMAIN columns = 1 .. m /\ \A k \in 1 .. m : columns[k] \in Seq(1 .. n)
  BY <1>2, LenProperties, ElementOfSeq
<1>4. q = Joined(parts)
  BY <1>3 DEF Query
<1> HIDE DEF C, columns, m, V, q
<1>5. ASSUME NEW k \in 1 .. m
      PROVE  /\ parts[k] \in Seq(1 .. n) /\ IsInjective(parts[k])
             /\ ToSet(parts[k]) = ToSet(columns[k]) \cap (V \ Marked(k))
  <2>1. IsInjective(columns[k])
    BY <1>1, <1>2
  <2>2. parts[k] = Part(k)
    BY <1>5
  <2> DEFINE T == V \ Marked(k)
             s == columns[k]
  <2>3. s \in Seq(1 .. n) /\ IsInjective(s)
    BY <1>3, <2>1
  <2> HIDE DEF T, s
  <2>4. Kept(s, T) \in Seq(1 .. n) /\ ToSet(Kept(s, T)) = ToSet(s) \cap T /\ IsInjective(Kept(s, T))
    BY <2>3, KeptIs
  <2> QED
    BY <2>2, <2>4 DEF s, T
<1>6. parts \in Seq(Seq(1 .. n)) /\ Len(parts) = m
  <2>1. \A k \in 1 .. m : Part(k) \in Seq(1 .. n)
    BY <1>5
  <2> HIDE DEF Part
  <2> QED
    BY <1>3, <2>1
<1>7. \A l \in 1 .. m : \A k \in 1 .. (l - 1) : \A i : i \in ToSet(columns[k]) => i \in Marked(l)
  OBVIOUS
<1>8. \A l \in 1 .. m : \A i : i \in Marked(l) => \E k \in 1 .. (l - 1) : i \in ToSet(columns[k])
  OBVIOUS
<1> HIDE DEF parts, Marked
<1>9. Apart(parts)
  <2>1. ASSUME NEW k \in 1 .. m, NEW l \in 1 .. m, k < l
        PROVE  ToSet(parts[k]) \cap ToSet(parts[l]) = {}
    <3>1. k \in 1 .. (l - 1)
      BY <1>3, <2>1
    <3>2. ToSet(parts[k]) \subseteq ToSet(columns[k])
      BY <1>5
    <3>3. ToSet(parts[l]) \cap Marked(l) = {}
      BY <1>5
    <3> QED
      BY <1>7, <3>1, <3>2, <3>3
  <2> QED
    BY <1>5, <1>6, <2>1 DEF Apart
<1>10. q \in Seq(1 .. n) /\ InParts(q, parts, m)
  BY <1>4, <1>6, JoinedIs
<1>11. DOMAIN q = 1 .. Len(q)
  BY <1>10, LenProperties
<1>12. Positioned(doc, q)
  BY <1>9, <1>10 DEF Positioned, InParts
<1>13. ASSUME NEW p \in 1 .. Len(q)
       PROVE  q[p] \in V /\ 1 \in 1 .. m
  <2>1. PICK k \in 1 .. m : q[p] \in ToSet(parts[k])
    BY <1>10 DEF InParts
  <2> QED
    BY <1>3, <1>5, <2>1
<1>14. ToSet(q) \subseteq V
  BY <1>11, <1>13 DEF ToSet
<1>15. ASSUME q # << >> PROVE Column(table.lo, lo) <= Len(C)
  <2>1. 1 \in 1 .. Len(q)
    BY <1>10, <1>15, EmptySeq, LenProperties
  <2>2. columns # << >>
    BY <1>2, <1>3, <1>13, <2>1, EmptySeq DEF m
  <2> QED
    BY <1>2, <2>2
<1>16. ASSUME NEW i \in V, NEW c \in 1 .. Len(C),
              Column(table.lo, lo) <= c, c <= Column(table.lo, hi), i \in ToSet(C[c])
       PROVE  i \in ToSet(q)
  <2> DEFINE T == {k \in 1 .. m : i \in ToSet(columns[k])}
  <2>1. PICK k \in 1 .. m : columns[k] = C[c]
    BY <1>2, <1>16
  <2>2. k \in T /\ T \in SUBSET Nat
    BY <1>3, <1>16, <2>1
  <2> HIDE DEF T
  <2>3. PICK first \in T : \A l \in T : first <= l
    BY <2>2, LeastElement
  <2>4. first \in 1 .. m /\ i \in ToSet(columns[first])
    BY <2>3 DEF T
  <2>5. ASSUME i \in Marked(first) PROVE FALSE
    <3>1. PICK l \in 1 .. (first - 1) : i \in ToSet(columns[l])
      BY <1>8, <2>4, <2>5
    <3>2. l \in 1 .. m /\ ~(first <= l)
      BY <1>3, <2>4, <3>1
    <3>3. l \in T
      BY <3>1, <3>2 DEF T
    <3> QED
      BY <2>3, <3>2, <3>3
  <2>6. i \in ToSet(parts[first])
    BY <1>5, <2>4, <2>5
  <2> QED
    BY <1>10, <2>4, <2>6 DEF InParts
<1> QED
  BY <1>12, <1>14, <1>15, <1>16 DEF q, V, C

\* The grid of the document finds every object that the view meets, unless it is cut off.
LEMMA CandidatesAre ==
  ASSUME NEW doc, Bounded(doc), NEW stamp, NEW lo \in Int, NEW hi \in Int, lo <= hi
  PROVE  /\ Positioned(doc, Candidates(Built(doc, stamp), doc, lo, hi))
         /\ \A i \in InView(doc, lo, hi) :
              Column(GridLo(doc), Lo(doc.objects[i])) <= MaxAxisCells =>
                i \in ToSet(Candidates(Built(doc, stamp), doc, lo, hi))
<1> DEFINE n == Len(doc.objects)
           table == Built(doc, stamp)
           low == GridLo(doc)
           m == GridColumns(doc)
           q == Query(table, doc, lo, hi)
           found == Candidates(table, doc, lo, hi)
<1>1. found = IF q = << >> THEN Indices(doc) ELSE q
  BY DEF Candidates
<1>2. Gridded(doc, table)
  BY BuiltIs
<1>3. Positioned(doc, q)
  BY <1>2, QueryIs
<1>4. Positioned(doc, Indices(doc)) /\ ToSet(Indices(doc)) = 1 .. n
  BY IndicesAre
<1>5. Positioned(doc, found)
  BY <1>1, <1>3, <1>4
<1>6. DOMAIN doc.objects = 1 .. n
  BY LenProperties DEF Bounded, Objects
<1>7. ASSUME NEW i \in InView(doc, lo, hi), Column(low, Lo(doc.objects[i])) <= MaxAxisCells, q # << >>
      PROVE  i \in ToSet(q)
  <2> DEFINE a == Lo(doc.objects[i])
             b == Hi(doc.objects[i])
  <2>1. i \in 1 .. n /\ Meets(doc.objects[i], lo, hi)
    BY <1>6 DEF InView
  <2>2. a \in Int /\ b \in Int /\ a <= b
    BY <2>1, BoundsAre
  <2>3. a <= hi /\ lo <= b
    BY <2>1, <2>2 DEF Meets
  <2>4. doc.objects # << >>
    BY <2>1, EmptySeq
  <2>5. /\ table.lo = low /\ Len(table.columns) = m
        /\ \A c \in 1 .. m : table.columns[c] = ColumnList(doc, low, c)
    BY <2>4, BuiltIs
  <2>6. low \in Int /\ low <= a /\ m \in Nat /\ Column(low, a) <= m
    <3>1. low \in Int /\ low < a
      BY <2>1, <2>4, GridLoIs
    <3>2. m \in Nat /\ Column(low, a) <= m
      BY <1>7, <2>1, <2>4, GridColumnsAre
    <3> QED
      BY <2>2, <3>1, <3>2
  <2>7. Column(low, lo) <= m
    BY <1>2, <1>7, <2>5, QueryIs
  <2> HIDE DEF a, b, m, low, q, table
  <2>8. /\ Column(low, a) \in Int /\ Column(low, lo) \in Int
        /\ Column(low, b) \in Int /\ Column(low, hi) \in Int
        /\ 1 <= Column(low, a) /\ Column(low, a) <= Column(low, b)
        /\ Column(low, a) <= Column(low, hi)
        /\ Column(low, lo) <= Column(low, b) /\ Column(low, lo) <= Column(low, hi)
    BY <2>2, <2>3, <2>6, ColumnIs
  <2>9. \E c \in 1 .. m : /\ Column(low, a) <= c /\ c <= Column(low, b)
                          /\ Column(low, lo) <= c /\ c <= Column(low, hi)
    <3>1. CASE Column(low, a) <= Column(low, lo)
      <4>1. Column(low, lo) \in 1 .. m
        BY <2>6, <2>7, <2>8, <3>1
      <4> QED
        BY <2>8, <3>1, <4>1
    <3>2. CASE ~(Column(low, a) <= Column(low, lo))
      <4>1. Column(low, a) \in 1 .. m /\ Column(low, lo) <= Column(low, a)
        BY <2>6, <2>8, <3>2
      <4> QED
        BY <2>8, <4>1
    <3> QED
      BY <3>1, <3>2
  <2>10. PICK c \in 1 .. m : /\ Column(low, a) <= c /\ c <= Column(low, b)
                             /\ Column(low, lo) <= c /\ c <= Column(low, hi)
    BY <2>9
  <2>11. i \in ToSet(table.columns[c])
    <3>1. Spans(doc, low, i, c)
      BY <2>10 DEF Spans, a, b
    <3> QED
      BY <2>1, <2>5, <3>1, ColumnListIs
  <2>12. c \in 1 .. Len(table.columns)
    BY <2>5
  <2>13. Column(table.lo, lo) <= c /\ c <= Column(table.lo, hi)
    BY <2>5, <2>10
  <2>14. i \in ToSet(Query(table, doc, lo, hi))
    BY <1>2, <2>11, <2>12, <2>13, QueryIs
  <2> QED
    BY <2>14 DEF q
<1>8. InView(doc, lo, hi) \subseteq 1 .. n
  BY <1>6 DEF InView
<1> QED
  BY <1>1, <1>4, <1>5, <1>7, <1>8 DEF low
-----------------------------------------------------------------------------
(* What is read from the grid *)

\* A document whose objects and layers the grid and the draw list can be about.
Drawable(doc) ==
  /\ Bounded(doc)
  /\ \E N : doc.layers \in Layers(N)
  /\ Distinct(doc.layers)
  /\ \A i \in 1 .. Len(doc.objects) : doc.objects[i].layer \in IdsOf(doc.layers)

\* The layer of an object is the one at its height.
LEMMA LayerAt ==
  ASSUME NEW doc, Drawable(doc), NEW k \in 1 .. Len(doc.layers), NEW id, doc.layers[k].id = id
  PROVE  LayerIndex(doc, id) = k /\ Layer(doc, id) = doc.layers[k]
<1>1. PICK N : doc.layers \in Seq(LayerType(N))
  BY DEF Drawable, Layers
<1>2. IndexOf(doc.layers, id) = k
  BY <1>1, IndexOfIs DEF Drawable
<1> QED
  BY <1>2, QueriesAre

\* No element twice.
LEMMA InjectiveCount ==
  ASSUME NEW S, NEW s \in Seq(S), IsInjective(s)
  PROVE  Cardinality(ToSet(s)) = Len(s)
<1> DEFINE n == Len(s)
           T == ToSet(s)
           f == [i \in 1 .. n |-> s[i]]
<1>1. n \in Nat /\ DOMAIN s = 1 .. n
  BY LenProperties
<1>2. T = {s[i] : i \in 1 .. n}
  BY <1>1 DEF ToSet
<1>3. \A i, j \in 1 .. n : s[i] = s[j] => i = j
  BY <1>1 DEF IsInjective
<1> HIDE DEF n, T
<1>4. f \in [1 .. n -> T] /\ \A i \in 1 .. n : f[i] = s[i]
  BY <1>2
<1> HIDE DEF f
<1>5. f \in Injection(1 .. n, T)
  BY <1>3, <1>4 DEF Injection, IsInjective
<1>6. \A t \in T : \E i \in 1 .. n : f[i] = t
  BY <1>2, <1>4
<1>7. f \in Surjection(1 .. n, T)
  BY <1>4, <1>6 DEF Surjection
<1>8. ExistsBijection(1 .. n, T)
  BY <1>5, <1>7 DEF ExistsBijection, Bijection
<1>9. Cardinality(T) = n
  BY <1>1, <1>8, FS_CountingElements
<1> QED
  BY <1>9 DEF n, T

Height(doc, i) == LayerIndex(doc, doc.objects[i].layer)

\* The draw list holds the candidates that are shown, once each, from the bottom to the top.
LEMMA DrawOrderIs ==
  ASSUME NEW doc, Drawable(doc), NEW table, NEW lo, NEW hi,
         Positioned(doc, Candidates(table, doc, lo, hi))
  PROVE  /\ Positioned(doc, DrawOrder(table, doc, lo, hi))
         /\ \A i \in 1 .. Len(doc.objects) :
              i \in ToSet(DrawOrder(table, doc, lo, hi)) <=>
                i \in ToSet(Candidates(table, doc, lo, hi)) /\ Shown(doc, doc.objects[i])
         /\ \A p, q \in 1 .. Len(DrawOrder(table, doc, lo, hi)) :
              p < q => Height(doc, DrawOrder(table, doc, lo, hi)[p])
                         <= Height(doc, DrawOrder(table, doc, lo, hi)[q])
<1> DEFINE n == Len(doc.objects)
           L == doc.layers
           m == Len(L)
           cand == Candidates(table, doc, lo, hi)
           OnLayer(layer) == {i \in DOMAIN doc.objects : doc.objects[i].layer = layer.id}
           Part(k) == IF L[k].visible THEN Kept(cand, OnLayer(L[k])) ELSE << >>
           parts == [k \in 1 .. m |-> Part(k)]
           order == DrawOrder(table, doc, lo, hi)
<1>1. DOMAIN doc.objects = 1 .. n
  BY LenProperties DEF Drawable, Bounded, Objects
<1>2. PICK N : L \in Seq(LayerType(N))
  BY DEF Drawable, Layers
<1>3. m \in Nat /\ DOMAIN L = 1 .. m /\ \A k \in 1 .. m : L[k] \in LayerType(N)
  BY <1>2, LenProperties, ElementOfSeq
<1>4. order = Joined(parts)
  BY <1>3 DEF DrawOrder
<1>5. cand \in Seq(1 .. n) /\ IsInjective(cand)
  BY DEF Positioned
<1> HIDE DEF cand, order
<1>6. ASSUME NEW k \in 1 .. m
      PROVE  /\ Part(k) \in Seq(1 .. n) /\ IsInjective(Part(k))
             /\ \A i \in 1 .. n :
                  i \in ToSet(Part(k)) <=>
                    L[k].visible /\ i \in ToSet(cand) /\ doc.objects[i].layer = L[k].id
  <2> DEFINE T == OnLayer(L[k])
             s == Kept(cand, T)
  <2>1. \A i \in 1 .. n : i \in T <=> doc.objects[i].layer = L[k].id
    BY <1>1
  <2>2. CASE L[k].visible
    <3>1. Part(k) = s
      BY <2>2
    <3> HIDE DEF T, Part
    <3>2. s \in Seq(1 .. n) /\ ToSet(s) = ToSet(cand) \cap T /\ IsInjective(s)
      BY <1>5, KeptIs
    <3> QED
      BY <2>1, <2>2, <3>1, <3>2
  <2>3. CASE ~L[k].visible
    <3>1. Part(k) = << >>
      BY <2>3
    <3> HIDE DEF Part
    <3> QED
      BY <2>3, <3>1 DEF ToSet, IsInjective
  <2> QED
    BY <2>2, <2>3
<1> HIDE DEF Part
<1>7. /\ parts \in Seq(Seq(1 .. n)) /\ Len(parts) = m
      /\ \A k \in 1 .. m : parts[k] = Part(k)
  BY <1>3, <1>6
<1> HIDE DEF parts
<1>8. ASSUME NEW k \in 1 .. m, NEW i \in 1 .. n, i \in ToSet(parts[k])
      PROVE  /\ i \in ToSet(cand) /\ Height(doc, i) = k
             /\ Layer(doc, doc.objects[i].layer) = L[k] /\ L[k].visible
  <2>1. L[k].visible /\ i \in ToSet(cand) /\ doc.objects[i].layer = L[k].id
    BY <1>6, <1>7, <1>8
  <2>2. /\ LayerIndex(doc, doc.objects[i].layer) = k
        /\ Layer(doc, doc.objects[i].layer) = L[k]
    <3>1. k \in 1 .. Len(doc.layers) /\ doc.layers[k].id = doc.objects[i].layer
      BY <2>1
    <3> QED
      BY <3>1, LayerAt
  <2> QED
    BY <2>1, <2>2 DEF Height
<1>9. Apart(parts)
  <2>1. ASSUME NEW k \in 1 .. m, NEW l \in 1 .. m, k < l
        PROVE  ToSet(parts[k]) \cap ToSet(parts[l]) = {}
    <3>1. ToSet(parts[k]) \subseteq 1 .. n
      <4>1. parts[k] \in Seq(1 .. n)
        BY <1>6, <1>7
      <4> QED
        BY <4>1, ElementOfSeq, LenProperties DEF ToSet
    <3>2. \A i \in ToSet(parts[k]) : i \in 1 .. n /\ Height(doc, i) = k
      BY <1>8, <3>1
    <3>3. \A i \in ToSet(parts[l]) : i \in 1 .. n => Height(doc, i) = l
      BY <1>8
    <3> QED
      BY <1>3, <2>1, <3>2, <3>3
  <2>2. \A k \in 1 .. m : IsInjective(parts[k])
    BY <1>6, <1>7
  <2>3. \A k, l \in 1 .. m : k < l => ToSet(parts[k]) \cap ToSet(parts[l]) = {}
    BY <2>1
  <2> QED
    BY <1>7, <2>2, <2>3 DEF Apart
<1>10. order \in Seq(1 .. n) /\ InParts(order, parts, m)
  BY <1>4, <1>7, JoinedIs
<1>11. DOMAIN order = 1 .. Len(order) /\ \A p \in 1 .. Len(order) : order[p] \in 1 .. n
  BY <1>10, LenProperties, ElementOfSeq
<1>12. Positioned(doc, order)
  BY <1>9, <1>10 DEF Positioned, InParts
<1>13. ASSUME NEW i \in 1 .. n
       PROVE  i \in ToSet(order) <=> i \in ToSet(cand) /\ Shown(doc, doc.objects[i])
  <2>1. ASSUME i \in ToSet(order)
        PROVE  i \in ToSet(cand) /\ Shown(doc, doc.objects[i])
    <3>1. PICK p \in 1 .. Len(order) : order[p] = i
      BY <1>11, <2>1 DEF ToSet
    <3>2. PICK k \in 1 .. m : i \in ToSet(parts[k])
      BY <1>10, <3>1 DEF InParts
    <3> QED
      BY <1>8, <3>2 DEF Shown
  <2>2. ASSUME i \in ToSet(cand), Shown(doc, doc.objects[i])
        PROVE  i \in ToSet(order)
    <3>1. doc.objects[i].layer \in IdsOf(L)
      BY DEF Drawable
    <3>2. PICK k \in 1 .. m : L[k].id = doc.objects[i].layer
      BY <1>2, <3>1, IdsOfIs
    <3>3. L[k].visible
      BY <2>2, <3>2, LayerAt DEF Shown
    <3>4. i \in ToSet(parts[k])
      BY <1>6, <1>7, <2>2, <3>2, <3>3
    <3> QED
      BY <1>10, <3>4 DEF InParts
  <2> QED
    BY <2>1, <2>2
<1>14. ASSUME NEW p \in 1 .. Len(order), NEW q \in 1 .. Len(order), p < q
       PROVE  Height(doc, order[p]) <= Height(doc, order[q])
  <2>1. PICK i \in 1 .. m, j \in 1 .. m :
          i <= j /\ order[p] \in ToSet(parts[i]) /\ order[q] \in ToSet(parts[j])
    BY <1>10, <1>14 DEF InParts
  <2>2. order[p] \in 1 .. n /\ order[q] \in 1 .. n
    BY <1>11
  <2>3. Height(doc, order[p]) = i /\ Height(doc, order[q]) = j
    BY <1>8, <2>1, <2>2
  <2> QED
    BY <2>1, <2>3
<1> QED
  BY <1>12, <1>13, <1>14 DEF order, cand

\* What a click tries it finds: one that may be picked, if one of the candidates may be.
LEMMA PickFinds ==
  ASSUME NEW doc, Bounded(doc), NEW table, NEW at \in Int,
         Positioned(doc, Candidates(table, doc, at - Tolerance, at + Tolerance)),
         NEW i \in 1 .. Len(doc.objects), Pickable(doc, i, at),
         i \in ToSet(Candidates(table, doc, at - Tolerance, at + Tolerance))
  PROVE  \E j \in DOMAIN doc.objects :
           Pickable(doc, j, at) /\ doc.objects[j].id = Pick(table, doc, at)
<1> DEFINE n == Len(doc.objects)
           cand == Candidates(table, doc, at - Tolerance, at + Tolerance)
           T == {j \in DOMAIN doc.objects : Pickable(doc, j, at)}
           hits == Kept(cand, T)
<1>1. DOMAIN doc.objects = 1 .. n
  BY LenProperties DEF Bounded, Objects
<1>2. Pick(table, doc, at) = IF hits = << >> THEN NoId ELSE doc.objects[Last(hits)].id
  BY DEF Pick
<1>3. i \in T /\ \A j \in T : j \in DOMAIN doc.objects /\ Pickable(doc, j, at)
  BY <1>1
<1>4. cand \in Seq(1 .. n)
  BY DEF Positioned
<1>5. i \in ToSet(cand)
  OBVIOUS
<1> HIDE DEF cand, T, hits
<1>6. hits \in Seq(1 .. n) /\ ToSet(hits) = ToSet(cand) \cap T
  BY <1>4, KeptIs DEF hits
<1>7. i \in ToSet(hits)
  BY <1>3, <1>5, <1>6
<1>8. hits # << >>
  BY <1>7 DEF ToSet
<1>9. Last(hits) \in ToSet(hits)
  <2>1. DOMAIN hits = 1 .. Len(hits) /\ Len(hits) \in Nat /\ Len(hits) # 0
    BY <1>6, <1>8, LenProperties, EmptySeq
  <2>2. Len(hits) \in DOMAIN hits
    BY <2>1
  <2> QED
    BY <2>2 DEF Last, ToSet
<1>10. Last(hits) \in T
  BY <1>6, <1>9
<1> QED
  BY <1>2, <1>3, <1>8, <1>10
-----------------------------------------------------------------------------
(* The document of the scene *)

Wide(objects) == \A i \in 1 .. Len(objects) : objects[i].width >= 0

\* What the edits keep of an openable document: all but its being untouched.
Sane(doc) ==
  /\ doc \in DocumentType(Names)
  /\ Whole(doc)
  /\ Counted(doc)
  /\ NoId < doc.nextId
  /\ Wide(doc.objects)

\* What can be opened is sane and untouched.
LEMMA SaneIs ==
  ASSUME NEW doc
  PROVE  Openable(doc) <=> Sane(doc) /\ doc.revised = FALSE
<1>1. ASSUME doc \in DocumentType(Names)
      PROVE  /\ doc.objects \in Objects /\ DOMAIN doc.objects = 1 .. Len(doc.objects)
             /\ ObjectIds(doc) = IdsOf(doc.objects) /\ LayerIds(doc) = IdsOf(doc.layers)
  BY <1>1, DocumentIs, LenProperties, QueriesAre DEF Objects
<1> QED
  BY <1>1 DEF Openable, Sane, Counted, Wide

\* So the grid and the draw list can be about it.
LEMMA SaneIsDrawable ==
  ASSUME NEW doc, Sane(doc)
  PROVE  Drawable(doc)
<1>1. doc.objects \in Objects /\ doc.layers \in Layers(Names) /\ Wide(doc.objects)
  BY DocumentIs DEF Sane
<1>2. WholeParts(doc.objects, doc.layers, doc.active)
  BY WholeIs DEF Sane
<1>3. ASSUME NEW i \in 1 .. Len(doc.objects)
      PROVE  doc.objects[i].layer \in IdsOf(doc.layers)
  <2>1. doc.objects[i] \in ToSet(doc.objects)
    BY <1>1, <1>3, LenProperties DEF Objects, ToSet
  <2> QED
    BY <1>2, <2>1 DEF WholeParts
<1> QED
  BY <1>1, <1>2, <1>3 DEF Drawable, Bounded, Wide, WholeParts

\* A sane document again, when the objects keep their ids, layers and widths.
LEMMA SaneAgain ==
  ASSUME NEW d, Sane(d), NEW e \in DocumentType(Names), Advance(d, e),
         WholeParts(e.objects, e.layers, e.active),
         IdsOf(e.objects) \subseteq IdsOf(d.objects), IdsOf(e.layers) \subseteq IdsOf(d.layers),
         Wide(e.objects)
  PROVE  Sane(e)
<1>1. Whole(e)
  BY WholeIs
<1>2. Counted(e)
  BY CountedStill DEF Sane
<1>3. e.nextId \in Nat /\ d.nextId \in Nat /\ d.nextId <= e.nextId
  BY DocumentIs DEF Sane, Advance
<1>4. NoId < e.nextId
  BY <1>3 DEF Sane, NoId
<1> QED
  BY <1>1, <1>2, <1>4 DEF Sane

\* A new object.
LEMMA AppendIsSane ==
  ASSUME NEW d, Sane(d), d.nextId # UIntMax, NEW object \in ObjectType, object.width >= 0
  PROVE  Sane(AppendObject(d, object, d.nextId, DefaultLayer))
<1> DEFINE id == d.nextId
           e == AppendObject(d, object, id, DefaultLayer)
           placed == Placed(object, id, LayerFor(d.layers, d.active, DefaultLayer))
<1>1. /\ d \in DocumentType(Names) /\ Whole(d) /\ Counted(d) /\ Wide(d.objects)
      /\ id \in Nat \ {NoId} /\ id \notin IdsOf(d.objects)
      /\ d.active \in Nat /\ d.objects \in Objects /\ d.layers \in Layers(Names)
      /\ DefaultLayer \in Nat /\ CanPass(d.nextId, id)
  <2>1. /\ d \in DocumentType(Names) /\ Whole(d) /\ Counted(d) /\ Wide(d.objects)
        /\ NoId < id
    BY DEF Sane
  <2>2. /\ d.active \in Nat /\ d.objects \in Objects /\ d.layers \in Layers(Names)
        /\ id \in Nat
    BY <2>1, DocumentIs
  <2>3. id \notin IdsOf(d.objects)
    BY <2>1, <2>2 DEF Counted
  <2>4. DefaultLayer \in Nat /\ CanPass(d.nextId, id)
    BY DEF DefaultLayer, CanPass
  <2> QED
    BY <2>1, <2>2, <2>3, <2>4 DEF NoId
<1>2. e \in DocumentType(Names) /\ Whole(e) /\ Counted(e) /\ Advance(d, e)
  <2>1. Extends(Names, d, e, id)
    BY <1>1, AppendReverses
  <2> QED
    BY <2>1 DEF Extends
<1>3. e.objects = Append(d.objects, placed)
  <2> DEFINE objects == Append(d.objects, placed)
             next == Past(d.nextId, id)
  <2>1. e = Doc(objects, d.layers, d.active, next, d.nextLayer, TRUE)
    BY <1>1, AppendObjectIs
  <2> HIDE DEF e, objects, next
  <2>2. e.objects = objects
    BY <2>1 DEF Doc
  <2> QED
    BY <2>2 DEF objects
<1>4. placed.width = object.width
  BY DEF Placed, ObjectType
<1> HIDE DEF e, placed
<1>5. Wide(e.objects)
  <2>1. Len(d.objects) \in Nat /\ Len(e.objects) = Len(d.objects) + 1
    BY <1>1, <1>3, LenProperties, AppendProperties DEF Objects
  <2>2. \A i \in 1 .. Len(e.objects) : i \in 1 .. Len(d.objects) \/ i = Len(d.objects) + 1
    BY <2>1
  <2>3. /\ e.objects[Len(d.objects) + 1] = placed
        /\ \A i \in 1 .. Len(d.objects) : e.objects[i] = d.objects[i]
    BY <1>1, <1>3, AppendProperties DEF Objects
  <2> QED
    BY <1>1, <1>4, <2>2, <2>3 DEF Wide
<1>6. NoId < e.nextId
  <2>1. e.nextId \in Nat /\ d.nextId <= e.nextId
    BY <1>2, DocumentIs DEF Advance
  <2> QED
    BY <1>1, <2>1 DEF NoId
<1> QED
  BY <1>2, <1>5, <1>6 DEF Sane, e

\* One object less.
LEMMA RemoveIsSane ==
  ASSUME NEW d, Sane(d), NEW id \in IdsOf(d.objects)
  PROVE  Sane(RemoveObject(d, id))
<1> DEFINE e == RemoveObject(d, id)
           s == d.objects
           i == IndexOf(s, id)
           t == RemoveAt(s, i)
<1>1. /\ d \in DocumentType(Names) /\ s \in Seq(ObjectType) /\ Wide(s)
      /\ WholeParts(s, d.layers, d.active)
  BY DocumentIs, WholeIs DEF Sane, Objects
<1>2. e \in DocumentType(Names) /\ Advance(d, e)
  BY <1>1, RemoveObjectIs
<1>3. e.objects = t /\ e.layers = d.layers /\ e.active = d.active
  <2>1. e = Doc(t, d.layers, d.active, d.nextId, d.nextLayer, TRUE)
    BY <1>1, RemoveObjectIs
  <2> HIDE DEF e, t
  <2> QED
    BY <2>1 DEF Doc
<1>4. i \in 1 .. Len(s)
  BY <1>1, IndexOfFinds
<1> HIDE DEF e, s, i, t
<1>5. Distinct(t) /\ ToSet(t) \subseteq ToSet(s) /\ IdsOf(t) \subseteq IdsOf(s)
  <2>1. Distinct(s)
    BY <1>1 DEF WholeParts
  <2> QED
    BY <1>1, <1>4, <2>1, RemoveDistinct DEF t
<1>6. WholeParts(t, d.layers, d.active)
  BY <1>1, <1>5 DEF WholeParts
<1>7. Wide(t)
  <2>1. \A o \in ToSet(s) : o.width >= 0
    BY <1>1, LenProperties DEF Wide, ToSet
  <2>2. t \in Seq(ObjectType)
    BY <1>1, <1>4, RemoveAtIs DEF t
  <2>3. \A j \in 1 .. Len(t) : t[j] \in ToSet(t)
    BY <2>2, LenProperties DEF ToSet
  <2> QED
    BY <1>5, <2>1, <2>3 DEF Wide
<1>8. Sane(e)
  BY <1>2, <1>3, <1>5, <1>6, <1>7, SaneAgain DEF s
<1> QED
  BY <1>8 DEF e

\* Objects moved.
LEMMA MovedIsSane ==
  ASSUME NEW d, Sane(d), NEW ids, NEW delta \in Int
  PROVE  Sane(TranslateObjects(d, ids, delta))
<1> DEFINE e == TranslateObjects(d, ids, delta)
           s == d.objects
           t == MovedBy(s, ids, delta)
<1>1. /\ d \in DocumentType(Names) /\ s \in Objects /\ Wide(s)
      /\ WholeParts(s, d.layers, d.active)
  BY DocumentIs, WholeIs DEF Sane
<1>2. e \in DocumentType(Names) /\ Advance(d, e)
  BY <1>1, TranslateObjectsIs
<1>3. e.objects = t /\ e.layers = d.layers /\ e.active = d.active
  <2>1. Content(e) = View(t, d.layers, d.active)
    BY <1>1, TranslateObjectsIs
  <2> HIDE DEF e, t
  <2> QED
    BY <2>1 DEF Content, View
<1>4. (Distinct(s) => Distinct(t)) /\ IdsOf(t) = IdsOf(s) /\ LayersOf(t) = LayersOf(s)
  BY <1>1, MovedIds
<1>5. Len(t) = Len(s) /\ \A i \in 1 .. Len(s) : t[i] = Shifted(s[i], ids, delta)
  BY <1>1, MovedByIs
<1>6. \A i \in 1 .. Len(s) : s[i] \in ObjectType
  BY <1>1, ElementOfSeq DEF Objects
<1> HIDE DEF e, s, t
<1>7. ASSUME NEW i \in 1 .. Len(s)
      PROVE  t[i].width = s[i].width
  <2>1. Shifted(s[i], ids, delta).width = s[i].width
    BY <1>6, <1>7 DEF Shifted, Translated, ObjectType
  <2> QED
    BY <1>5, <1>7, <2>1
<1>8. Wide(t)
  BY <1>1, <1>5, <1>7 DEF Wide
<1>9. WholeParts(t, d.layers, d.active)
  BY <1>1, <1>4 DEF WholeParts, LayersOf
<1>10. Sane(e)
  BY <1>2, <1>3, <1>4, <1>8, <1>9, SaneAgain DEF s
<1> QED
  BY <1>10 DEF e

\* Layers that change, and keep their ids.
LEMMA LayersAreSane ==
  ASSUME NEW d, Sane(d), NEW e \in DocumentType(Names), Advance(d, e),
         NEW layers, Content(e) = View(d.objects, layers, d.active),
         Distinct(layers), IdsOf(layers) = IdsOf(d.layers)
  PROVE  Sane(e)
<1>1. e.objects = d.objects /\ e.layers = layers /\ e.active = d.active
  BY DEF Content, View
<1>2. WholeParts(d.objects, d.layers, d.active) /\ Wide(d.objects)
  BY WholeIs DEF Sane
<1>3. WholeParts(d.objects, layers, d.active)
  BY <1>2 DEF WholeParts
<1> QED
  BY <1>1, <1>2, <1>3, SaneAgain

\* A layer shown, hidden or locked.
LEMMA SwitchedIsSane ==
  ASSUME NEW d, Sane(d), NEW id \in IdsOf(d.layers), NEW attribute \in {"visible", "locked"},
         NEW value \in BOOLEAN
  PROVE  Sane(SetLayerAttribute(d, id, attribute, value))
<1> DEFINE e == SetLayerAttribute(d, id, attribute, value)
           layers == WithValue(d.layers, id, attribute, value)
<1>1. d \in DocumentType(Names) /\ d.layers \in Layers(Names) /\ Distinct(d.layers)
  BY DocumentIs, WholeIs DEF Sane, WholeParts
<1>2. attribute \in LayerAttributes /\ value \in AttributeValues(Names, attribute)
  BY DEF LayerAttributes, AttributeValues
<1>3. e \in DocumentType(Names) /\ Advance(d, e) /\ Content(e) = View(d.objects, layers, d.active)
  BY <1>1, <1>2, SetLayerAttributeIs DEF WithValue
<1>4. Distinct(layers) /\ IdsOf(layers) = IdsOf(d.layers)
  BY <1>1, <1>2, LayerWithValue
<1> HIDE DEF e, layers
<1>5. Sane(e)
  BY <1>3, <1>4, LayersAreSane
<1> QED
  BY <1>5 DEF e

\* A layer raised.
LEMMA RaisedIsSane ==
  ASSUME NEW d, Sane(d), NEW id \in IdsOf(d.layers), NEW place \in 1 .. Len(d.layers)
  PROVE  Sane(MoveLayer(d, id, place))
<1> DEFINE e == MoveLayer(d, id, place)
           layers == Reordered(d.layers, id, place)
<1>1. d \in DocumentType(Names) /\ d.layers \in Layers(Names) /\ Distinct(d.layers)
  BY DocumentIs, WholeIs DEF Sane, WholeParts
<1>2. e \in DocumentType(Names) /\ Advance(d, e) /\ Content(e) = View(d.objects, layers, d.active)
  BY <1>1, MoveLayerIs
<1>3. Distinct(layers) /\ IdsOf(layers) = IdsOf(d.layers)
  BY <1>1, ReorderedIs
<1> HIDE DEF e, layers
<1>4. Sane(e)
  BY <1>2, <1>3, LayersAreSane
<1> QED
  BY <1>4 DEF e
-----------------------------------------------------------------------------
(* The document and the view along the steps *)

CanvasInv ==
  /\ Openable(document)
  /\ "view" \in DOMAIN canvas
  /\ IsView(canvas.view)

\* The end of a call that revised the document.
LEMMA TouchOpens ==
  ASSUME NEW doc, Sane(doc), Touch(doc)
  PROVE  Openable(document)' /\ canvas' = canvas
<1> DEFINE e == document'
<1>1. e = [doc EXCEPT !.revised = FALSE] /\ canvas' = canvas
  BY DEF Touch
<1>2. doc \in DocumentType(Names)
  BY DEF Sane
<1>3. /\ e \in DocumentType(Names) /\ e.revised = FALSE
      /\ e.objects = doc.objects /\ e.layers = doc.layers /\ e.active = doc.active
      /\ e.nextId = doc.nextId /\ e.nextLayer = doc.nextLayer
  BY <1>1, <1>2 DEF DocumentType
<1> HIDE DEF e
<1>4. Whole(e)
  BY <1>3, WholeIs DEF Sane
<1>5. Sane(e)
  BY <1>3, <1>4 DEF Sane, Counted
<1>6. Openable(e)
  BY <1>3, <1>5, SaneIs
<1> QED
  BY <1>1, <1>6 DEF e

\* Every edit leaves a document that could be opened.
LEMMA EditOpens ==
  ASSUME Openable(document), Edit
  PROVE  Openable(document)' /\ canvas' = canvas
<1>1. Sane(document) /\ document \in DocumentType(Names)
  BY SaneIs DEF Sane
<1>2. /\ ObjectIds(document) = IdsOf(document.objects)
      /\ LayerIds(document) = IdsOf(document.layers)
      /\ document.layers \in Layers(Names) /\ document.layers \in Seq(LayerType(Names))
  BY <1>1, QueriesAre, DocumentIs DEF Layers
<1>3. CASE \E x \in Positions : DrawObject(x)
  <2>1. PICK x \in Positions : DrawObject(x)
    BY <1>3
  <2> DEFINE object == [id |-> NoId, layer |-> DefaultLayer, x |-> x, width |-> 1]
  <2>2. Touch(AppendObject(document, object, document.nextId, DefaultLayer))
    BY <2>1 DEF DrawObject
  <2>3. object \in ObjectType /\ object.width >= 0
    BY CanvasAssumption DEF ObjectType, NoId, DefaultLayer
  <2>4. document.nextId # UIntMax
    <3>1. document.nextId <= MaxId /\ document.nextId \in Nat
      BY <1>1, <2>1, DocumentIs DEF DrawObject
    <3> QED
      BY <3>1, MaxIdAssumption, IdAssumption DEF UIntMax
  <2> HIDE DEF object
  <2> QED
    BY <1>1, <2>2, <2>3, <2>4, AppendIsSane, TouchOpens
<1>4. CASE \E id \in ObjectIds(document) : DeleteObject(id)
  BY <1>1, <1>2, <1>4, RemoveIsSane, TouchOpens DEF DeleteObject
<1>5. CASE \E id \in ObjectIds(document), delta \in Deltas : MoveObject(id, delta)
  <2>1. PICK id \in ObjectIds(document), delta \in Deltas :
           Touch(TranslateObjects(document, {id}, delta))
    BY <1>5 DEF MoveObject
  <2>2. delta \in Int
    BY CanvasAssumption
  <2> QED
    BY <1>1, <2>1, <2>2, MovedIsSane, TouchOpens
<1>6. CASE \E id \in LayerIds(document), attribute \in {"visible", "locked"} :
             SwitchLayer(id, attribute)
  <2>1. PICK id \in LayerIds(document), attribute \in {"visible", "locked"} :
               SwitchLayer(id, attribute)
    BY <1>6
  <2> DEFINE value == ~Layer(document, id)[attribute]
  <2>2. Touch(SetLayerAttribute(document, id, attribute, value))
    BY <2>1 DEF SwitchLayer
  <2>3. value \in BOOLEAN
    OBVIOUS
  <2> HIDE DEF value
  <2> QED
    BY <1>1, <1>2, <2>1, <2>2, <2>3, SwitchedIsSane, TouchOpens
<1>7. CASE \E id \in LayerIds(document) : RaiseLayer(id)
  <2>1. PICK id \in LayerIds(document) : RaiseLayer(id)
    BY <1>7
  <2> DEFINE place == LayerIndex(document, id) + 1
  <2>2. LayerIndex(document, id) \in 1 .. Len(document.layers)
    BY <1>2, <2>1, IndexOfFinds, QueriesAre
  <2>3. /\ LayerIndex(document, id) < Len(document.layers)
        /\ Touch(MoveLayer(document, id, place))
    BY <2>1 DEF RaiseLayer
  <2>4. Len(document.layers) \in Nat
    BY <1>2, LenProperties
  <2>5. place \in 1 .. Len(document.layers)
    BY <2>2, <2>3, <2>4
  <2> HIDE DEF place
  <2> QED
    BY <1>1, <1>2, <2>1, <2>3, <2>5, RaisedIsSane, TouchOpens
<1> QED
  BY <1>3, <1>4, <1>5, <1>6, <1>7 DEF Edit

\* The document the program starts with, and that New makes.
LEMMA NewIsOpenable == Openable(NewDocument)
<1> DEFINE layer == NewLayer(DefaultLayer, DefaultName)
           e == NewDocument
<1>1. /\ layer \in LayerType(Names) /\ layer.id = DefaultLayer
  BY FilesAssumption DEF NewLayer, LayerType, DefaultLayer
<1> HIDE DEF layer
<1>2. /\ e.objects = << >> /\ e.layers = <<layer>> /\ e.active = DefaultLayer
      /\ e.nextId = 1 /\ e.nextLayer = DefaultLayer + 1 /\ e.revised = FALSE
      /\ e \in DocumentType(Names)
  BY <1>1 DEF NewDocument, DocumentType, DefaultLayer, layer
<1> HIDE DEF e
<1>3. ToSet(<<layer>>) = {layer} /\ ToSet(<< >>) = {}
  BY DEF ToSet
<1>4. IdsOf(e.objects) = {} /\ IdsOf(e.layers) = {DefaultLayer}
  BY <1>1, <1>2, <1>3 DEF IdsOf
<1>5. Distinct(e.objects) /\ Distinct(e.layers)
  BY <1>2 DEF Distinct
<1>6. WholeParts(e.objects, e.layers, e.active)
  BY <1>2, <1>3, <1>4, <1>5 DEF WholeParts, NoId, DefaultLayer
<1>7. Whole(e)
  BY <1>6, WholeIs
<1>8. Sane(e)
  BY <1>2, <1>4, <1>7 DEF Sane, Counted, Wide, NoId, DefaultLayer
<1> QED
  BY <1>2, <1>8, SaneIs DEF e

\* The bounds of the objects are a view.
LEMMA FitIsView ==
  ASSUME Openable(document), document.objects # << >>
  PROVE  IsView([lo |-> GridLo(document),
                 hi |-> Highest({Hi(object) : object \in ToSet(document.objects)}) + 1])
<1> DEFINE low == GridLo(document)
           high == Highest({Hi(object) : object \in ToSet(document.objects)})
           n == Len(document.objects)
<1>1. Bounded(document)
  BY SaneIs, SaneIsDrawable DEF Drawable
<1>2. n \in Nat \ {0}
  BY <1>1, EmptySeq, LenProperties DEF Bounded, Objects
<1>3. 1 \in 1 .. n
  BY <1>2
<1>4. /\ low \in Int /\ high \in Int
      /\ low < Lo(document.objects[1]) /\ Hi(document.objects[1]) <= high
  BY <1>1, <1>3, GridLoIs, HighestHiIs
<1>5. /\ Lo(document.objects[1]) \in Int /\ Hi(document.objects[1]) \in Int
      /\ Lo(document.objects[1]) <= Hi(document.objects[1])
  BY <1>1, <1>3, BoundsAre
<1> HIDE DEF low, high
<1>6. low <= high + 1 /\ high + 1 \in Int
  BY <1>4, <1>5
<1>7. IsView([lo |-> low, hi |-> high + 1])
  BY <1>4, <1>6 DEF IsView
<1> QED
  BY <1>7 DEF low, high

\* Another view, or none.
LEMMA NewView ==
  ASSUME CanvasInv, Openable(document)',
         canvas' = canvas \/ \E view : IsView(view) /\ canvas' = [canvas EXCEPT !.view = view]
  PROVE  CanvasInv'
BY DEF CanvasInv

\* Every step leaves a document that could be opened, and a view that is not turned round.
LEMMA CanvasStep ==
  ASSUME CanvasInv, [Next]_vars
  PROVE  CanvasInv'
<1>1. Openable(document)
  BY DEF CanvasInv
<1>2. CASE Edit
  BY <1>1, <1>2, EditOpens, NewView
<1>3. CASE Frame \/ FrameWithoutMemory \/ FrameWithoutGrid \/ Tools \/ UNCHANGED vars
  <2>1. document' = document /\ canvas' = canvas
    BY <1>3 DEF Frame, FrameWithoutMemory, FrameWithoutGrid, Tools, Click, Preview, BeginOverlay,
                StretchOverlay, DropOverlay, vars, scene
  <2> QED
    BY <1>1, <2>1, NewView
<1>4. CASE Viewing
  <2>1. document' = document
    BY <1>4 DEF Viewing, Look, ZoomToFit, ChangeDecor, Resize
  <2>2. CASE Resize \/ \E view \in Views \union {Home} : Look(view)
    <3>1. \E view \in Views \union {Home} : canvas' = [canvas EXCEPT !.view = view]
      BY <2>2 DEF Resize, Look
    <3> QED
      BY <1>1, <2>1, <3>1, CanvasAssumption, NewView
  <2>3. CASE ZoomToFit
    <3>1. CASE document.objects = << >>
      <4>1. canvas' = [canvas EXCEPT !.view = Home] /\ IsView(Home)
        BY <2>3, <3>1, CanvasAssumption DEF ZoomToFit
      <4> QED
        BY <1>1, <2>1, <4>1, NewView
    <3>2. CASE document.objects # << >>
      <4> DEFINE view == [lo |-> GridLo(document),
                          hi |-> Highest({Hi(object) : object \in ToSet(document.objects)}) + 1]
      <4>1. canvas' = [canvas EXCEPT !.view = view]
        BY <2>3, <3>2 DEF ZoomToFit
      <4>2. IsView(view)
        BY <1>1, <3>2, FitIsView
      <4> HIDE DEF view
      <4> QED
        BY <1>1, <2>1, <4>1, <4>2, NewView
    <3> QED
      BY <3>1, <3>2
  <2>4. CASE \E decor \in Decors : ChangeDecor(decor)
    BY <1>1, <2>1, <2>4 DEF ChangeDecor, CanvasInv
  <2> QED
    BY <1>4, <2>2, <2>3, <2>4 DEF Viewing
<1>5. CASE New \/ Load
  <2>1. /\ \A file \in Files : Openable(file)
        /\ IsView(Home) /\ IsView(canvas.view)
    BY FilesAssumption, CanvasAssumption DEF CanvasInv
  <2>2. \E doc, view : Openable(doc) /\ IsView(view) /\ Replace(doc, view)
    BY <1>5, <2>1, NewIsOpenable DEF New, Load
  <2>3. PICK doc, view : /\ Openable(doc) /\ IsView(view)
                         /\ document' = doc /\ canvas' = [canvas EXCEPT !.view = view]
    BY <2>2 DEF Replace
  <2> QED
    BY <2>3, NewView
<1> QED
  BY <1>2, <1>3, <1>4, <1>5 DEF Next, Change

\* At first there is a new document, and the home view.
LEMMA CanvasInit == Init => CanvasInv
<1> SUFFICES ASSUME Init PROVE CanvasInv
  OBVIOUS
<1>1. document = NewDocument /\ "view" \in DOMAIN canvas /\ canvas.view = Home
  BY DEF Init
<1>2. IsView(Home)
  BY CanvasAssumption
<1> QED
  BY <1>1, <1>2, NewIsOpenable DEF CanvasInv
-----------------------------------------------------------------------------
\* What is drawn of the grid as it is now.
LEMMA DrawsNow ==
  ASSUME GridInv, CanvasInv
  PROVE  DrawsWhatIsInView
<1> DEFINE doc == document
           n == Len(doc.objects)
           lo == canvas.view.lo
           hi == canvas.view.hi
           grid == Grid
           cand == Candidates(grid, doc, lo, hi)
           order == DrawOrder(grid, doc, lo, hi)
<1>1. Drawable(doc) /\ Bounded(doc) /\ DOMAIN doc.objects = 1 .. n
  BY SaneIs, SaneIsDrawable, LenProperties DEF CanvasInv, Drawable, Bounded, Objects
<1>2. lo \in Int /\ hi \in Int /\ lo <= hi
  BY DEF CanvasInv, IsView
<1>3. grid = Built(doc, revision)
  BY GridOfDocument
<1>4. /\ Positioned(doc, cand)
      /\ \A i \in InView(doc, lo, hi) :
           Column(GridLo(doc), Lo(doc.objects[i])) <= MaxAxisCells => i \in ToSet(cand)
  <2> HIDE DEF doc, lo, hi, grid
  <2> QED
    BY <1>1, <1>2, <1>3, CandidatesAre
<1>5. /\ Positioned(doc, order)
      /\ \A i \in 1 .. n :
           i \in ToSet(order) <=> i \in ToSet(cand) /\ Shown(doc, doc.objects[i])
      /\ \A p, q \in 1 .. Len(order) :
           p < q => Height(doc, order[p]) <= Height(doc, order[q])
  <2> HIDE DEF doc, lo, hi, grid
  <2> QED
    BY <1>1, <1>4, DrawOrderIs
<1> HIDE DEF grid, cand, order
<1>6. order \in Seq(1 .. n) /\ IsInjective(order)
  BY <1>5 DEF Positioned
<1>7. DOMAIN order = 1 .. Len(order) /\ ToSet(order) \subseteq 1 .. n
  BY <1>6, LenProperties, ElementOfSeq DEF ToSet
<1>8. ASSUME NEW i \in DOMAIN doc.objects, Shown(doc, doc.objects[i]), Meets(doc.objects[i], lo, hi),
             Column(GridLo(doc), Lo(doc.objects[i])) <= MaxAxisCells
      PROVE  i \in ToSet(order)
  <2>1. i \in InView(doc, lo, hi)
    BY <1>8 DEF InView
  <2> QED
    BY <1>1, <1>4, <1>5, <1>8, <2>1
<1>9. Cardinality(ToSet(order)) = Len(order)
  BY <1>6, InjectiveCount
<1>10. \A i \in ToSet(order) : Shown(doc, doc.objects[i])
  BY <1>5, <1>7
<1>11. \A j, k \in DOMAIN order : j < k =>
         LayerIndex(doc, doc.objects[order[j]].layer) <= LayerIndex(doc, doc.objects[order[k]].layer)
  BY <1>5, <1>7 DEF Height
<1> QED
  BY <1>8, <1>9, <1>10, <1>11 DEF DrawsWhatIsInView, order, grid

\* What a click finds in the grid as it is now.
LEMMA ClickNow ==
  ASSUME GridInv, CanvasInv
  PROVE  ClickFinds
<1> DEFINE doc == document
           grid == Grid
<1>1. Bounded(doc) /\ DOMAIN doc.objects = 1 .. Len(doc.objects)
  BY SaneIs, SaneIsDrawable, LenProperties DEF CanvasInv, Drawable, Bounded, Objects
<1>2. grid = Built(doc, revision)
  BY GridOfDocument
<1>3. ASSUME NEW at \in Points, NEW i \in DOMAIN doc.objects, Shown(doc, doc.objects[i]),
             Pickable(doc, i, at), Column(GridLo(doc), Lo(doc.objects[i])) <= MaxAxisCells
      PROVE  \E j \in DOMAIN doc.objects :
               Pickable(doc, j, at) /\ doc.objects[j].id = Pick(grid, doc, at)
  <2> DEFINE lo == at - Tolerance
             hi == at + Tolerance
  <2>1. at \in Int /\ lo \in Int /\ hi \in Int /\ lo <= hi
    BY CanvasAssumption, GridAssumption
  <2>2. i \in InView(doc, lo, hi)
    BY <1>3 DEF InView, Pickable
  <2> HIDE DEF doc, grid
  <2>3. Positioned(doc, Candidates(grid, doc, lo, hi)) /\ i \in ToSet(Candidates(grid, doc, lo, hi))
    <3> HIDE DEF lo, hi
    <3> QED
      BY <1>1, <1>2, <1>3, <2>1, <2>2, CandidatesAre
  <2> QED
    BY <1>1, <1>3, <2>1, <2>3, PickFinds
<1> HIDE DEF grid
<1> QED
  BY <1>3 DEF ClickFinds, grid

\* The candidates of the grid, gone through layer by layer, are what canvas_drawlist_build
\* should append: the marks of the query and the columns of the rebuild lose nothing and
\* repeat nothing, whatever the sizes, the layers and the view.
THEOREM TheCanvasShowsTheView == Spec => []DrawsWhatIsInView
<1>1. GridInv /\ [Next]_vars => GridInv'
  BY EveryStep, GridStep
<1>2. CanvasInv /\ [Next]_vars => CanvasInv'
  BY CanvasStep
<1>3. GridInv /\ CanvasInv => DrawsWhatIsInView
  BY DrawsNow
<1> QED
  BY <1>1, <1>2, <1>3, GridInit, CanvasInit, PTL DEF Spec

\* canvas_view_pick_object tries the candidates of the grid; what is under the pointer,
\* shown and not locked, is among them.
THEOREM AClickFinds == Spec => []ClickFinds
<1>1. GridInv /\ [Next]_vars => GridInv'
  BY EveryStep, GridStep
<1>2. CanvasInv /\ [Next]_vars => CanvasInv'
  BY CanvasStep
<1>3. GridInv /\ CanvasInv => ClickFinds
  BY ClickNow
<1> QED
  BY <1>1, <1>2, <1>3, GridInit, CanvasInit, PTL DEF Spec
=============================================================================
