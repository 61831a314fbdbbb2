--------------------------- MODULE GesturesProofs ---------------------------
(***************************************************************************)
(* What TLAPS proves of the gestures, for all shape tools, points, reaches *)
(* and numbers of objects: the capture, the tools and the preview agree as *)
(* far as Gestures says they do, and a drag moves what was selected when   *)
(* it began, as far as the pointer went, or nothing.                       *)
(*                                                                         *)
(* The first three theorems do not depend on the document or on where the  *)
(* pointer is, so IInv leaves both out.  The last one adds them: MInv.     *)
(***************************************************************************)
EXTENDS Gestures, CommandsProofs

DragTyped(d) ==
  /\ DOMAIN d = {"dragging", "moved", "total", "last", "ids"}
  /\ d.dragging \in BOOLEAN
  /\ d.moved \in BOOLEAN

DraftTyped(draft) ==
  /\ DOMAIN draft = {"drawing", "anchor", "current"}
  /\ draft.drawing \in BOOLEAN

DraftsTyped(ds) ==
  /\ DOMAIN ds = ShapeTools
  /\ \A tool \in ShapeTools : DraftTyped(ds[tool])

PreviewTyped(p) ==
  /\ DOMAIN p = {"active", "delta"}
  /\ p.active \in BOOLEAN

Typed ==
  /\ active \in Tools
  /\ DragTyped(drag)
  /\ DraftsTyped(drafts)
  /\ PreviewTyped(preview)
  /\ captured \in BOOLEAN
  /\ panning \in BOOLEAN
  /\ doubled \in BOOLEAN
  /\ orphaned \in BOOLEAN

Idle ==
  /\ ~drag.dragging
  /\ ~panning
  /\ \A tool \in ShapeTools : ~drafts[tool].drawing

\* Nothing is going on, but for a preview that a replaced document has left.
Quiet == Idle /\ (preview.active => orphaned)

\* OnlyActiveIsBusy, tool by tool.
OnlyActive ==
  /\ drag.dragging => active = "select"
  /\ panning => active = "pan"
  /\ \A tool \in ShapeTools : drafts[tool].drawing => tool = active

Held == captured => "left" \in buttons

\* A tool that is busy has the pointer, but for a second button.
Follows == ~captured /\ ~doubled => Quiet

IInv == Typed /\ Held /\ Follows /\ OnlyActive /\ PreviewIsOfDrag
-----------------------------------------------------------------------------
(* The states the tools are put into *)

\* The states of the tools in which nothing is under way.
LEMMA Stopped ==
  /\ DragTyped(NoDrag) /\ ~NoDrag.dragging
  /\ DraftTyped(NoDraft) /\ ~NoDraft.drawing
  /\ DraftsTyped(NoDrafts) /\ \A tool \in ShapeTools : ~NoDrafts[tool].drawing
  /\ PreviewTyped(NoPreview) /\ ~NoPreview.active
<1>1. DragTyped(NoDrag) /\ NoDrag.dragging = FALSE
  BY DEF DragTyped, NoDrag
<1>2. DraftTyped(NoDraft) /\ NoDraft.drawing = FALSE
  BY DEF DraftTyped, NoDraft
<1>3. DOMAIN NoDrafts = ShapeTools /\ \A tool \in ShapeTools : NoDrafts[tool] = NoDraft
  BY DEF NoDrafts
<1>4. PreviewTyped(NoPreview) /\ NoPreview.active = FALSE
  BY DEF PreviewTyped, NoPreview
<1> QED
  BY <1>1, <1>2, <1>3, <1>4 DEF DraftsTyped

\* A drag that begins has the fields of a drag.
LEMMA Dragging ==
  ASSUME NEW at, NEW ids
  PROVE  DragTyped(DragFrom(at, ids))
BY DEF DragTyped, DragFrom

\* Giving one shape tool a draft leaves those of the others alone.
LEMMA Redrafted ==
  ASSUME NEW ds, DraftsTyped(ds), NEW tool \in ShapeTools, NEW draft, DraftTyped(draft)
  PROVE  LET next == [ds EXCEPT ![tool] = draft]
         IN  /\ DraftsTyped(next)
             /\ next[tool] = draft
             /\ \A other \in ShapeTools : other # tool => next[other] = ds[other]
BY DEF DraftsTyped

\* A shape tool is neither of the others.
LEMMA ToolsDiffer ==
  /\ "select" # "pan"
  /\ \A tool \in ShapeTools : tool # "select" /\ tool # "pan"
BY ShapeToolsAssumption

\* The named parts of a step that leaves the state of the tools as it is.
LEMMA Untouched ==
  ASSUME Typed, OnlyActive, PreviewIsOfDrag, UNCHANGED toolState,
         orphaned' = orphaned \/ orphaned' = (orphaned /\ preview'.active)
  PROVE  /\ DragTyped(drag)' /\ DraftsTyped(drafts)' /\ PreviewTyped(preview)'
         /\ panning' \in BOOLEAN /\ orphaned' \in BOOLEAN /\ active' \in Tools
         /\ OnlyActive' /\ PreviewIsOfDrag'
         /\ Quiet => Quiet'
<1>1. /\ active' = active /\ drag' = drag /\ drafts' = drafts /\ panning' = panning
      /\ preview' = preview
  BY DEF toolState
<1>2. PreviewIsOfDrag'
  BY <1>1, Zenon DEF PreviewIsOfDrag
<1>3. Quiet => Quiet'
  BY <1>1, Zenon DEF Quiet, Idle
<1> QED
  BY <1>1, <1>2, <1>3 DEF Typed, OnlyActive, DragTyped, DraftsTyped, DraftTyped, PreviewTyped
-----------------------------------------------------------------------------
\* Nothing is under way when the window opens.
LEMMA InitInv == Init => IInv
<1> SUFFICES ASSUME Init PROVE IInv
  OBVIOUS
<1>1. Typed /\ Quiet
  BY Stopped DEF Init, Typed, Quiet, Idle, Tools
<1>2. OnlyActive /\ PreviewIsOfDrag
  BY <1>1, Stopped DEF Init, Quiet, Idle, OnlyActive, PreviewIsOfDrag
<1>3. Held /\ Follows
  BY <1>1 DEF Init, Held, Follows
<1> QED
  BY <1>1, <1>2, <1>3 DEF IInv
-----------------------------------------------------------------------------
(* Presses *)

\* A press that the interface takes.
LEMMA InterfaceStep ==
  ASSUME IInv, NEW button, PressOnInterface(button)
  PROVE  IInv'
<1>1. /\ buttons' = buttons \union {button} /\ doubled' = (doubled \/ buttons # {})
      /\ captured' = captured /\ UNCHANGED toolState /\ orphaned' = orphaned
  BY DEF PressOnInterface
<1>2. Typed' /\ OnlyActive' /\ PreviewIsOfDrag' /\ (Quiet => Quiet')
  BY <1>1, Untouched DEF IInv, Typed
<1>3. Held'
  BY <1>1 DEF IInv, Held
<1>4. Follows'
  BY <1>1, <1>2 DEF IInv, Follows
<1> QED
  BY <1>2, <1>3, <1>4 DEF IInv

\* What is true of the tools when they have seen a press of the left button.
PressedWell ==
  /\ active' \in Tools /\ captured' \in BOOLEAN /\ panning' \in BOOLEAN
  /\ DragTyped(drag)' /\ DraftsTyped(drafts)' /\ PreviewTyped(preview)'
  /\ OnlyActive'
  /\ preview'.active => preview' = preview /\ drag' = drag
  /\ ~captured' /\ Quiet => Idle'

\* A press on the select tool starts a drag of the active tool, or nothing.
LEMMA SelectPressed ==
  ASSUME Typed, OnlyActive, NEW at, NEW shift, SelectDown(at, shift)
  PROVE  PressedWell
<1>1. /\ active = "select" /\ active' = active /\ drafts' = drafts /\ panning' = panning
      /\ preview' = NoPreview
  BY DEF SelectDown
<1>2. captured' \in BOOLEAN /\ DragTyped(drag') /\ (~captured' => ~drag'.dragging)
  <2>1. CASE \E id \in ObjectIds(document) :
               /\ captured' = (id \in ToSet(selection'))
               /\ drag' = IF captured' THEN DragFrom(at, selection') ELSE NoDrag
    BY <2>1, Dragging, Stopped
  <2>2. CASE captured' = FALSE /\ drag' = NoDrag
    BY <2>2, Stopped
  <2> QED
    BY <2>1, <2>2 DEF SelectDown
<1>3. OnlyActive'
  BY <1>1 DEF OnlyActive
<1>4. ~captured' /\ Quiet => Idle'
  BY <1>1, <1>2 DEF Quiet, Idle
<1> QED
  BY <1>1, <1>2, <1>3, <1>4, Stopped DEF PressedWell, Typed

\* A press on a shape tool starts a draft of the active tool, or nothing.
LEMMA ShapePressed ==
  ASSUME Typed, OnlyActive, NEW at, ShapeDown(at)
  PROVE  PressedWell
<1>1. /\ active \in ShapeTools /\ active' = active /\ drag' = drag /\ panning' = panning
      /\ preview' = preview /\ captured' = ~LayerIsLocked(document, document.active)
  BY DEF ShapeDown
<1>2. captured' \in BOOLEAN
  BY <1>1
<1>3. CASE ~captured'
  <2>1. drafts' = drafts
    BY <1>3 DEF ShapeDown
  <2>2. OnlyActive' /\ (Quiet => Idle')
    BY <1>1, <2>1 DEF OnlyActive, Quiet, Idle
  <2> QED
    BY <1>1, <1>2, <2>1, <2>2 DEF PressedWell, Typed
<1>4. CASE captured'
  <2> DEFINE draft == [drawing |-> TRUE, anchor |-> at, current |-> at]
  <2>1. drafts' = [drafts EXCEPT ![active] = draft]
    BY <1>4 DEF ShapeDown
  <2>2. DraftTyped(draft)
    BY DEF DraftTyped
  <2> HIDE DEF draft
  <2>3. /\ DraftsTyped(drafts')
        /\ \A tool \in ShapeTools : tool # active => drafts'[tool] = drafts[tool]
    <3>1. DraftsTyped(drafts) /\ active \in ShapeTools
      BY <1>1 DEF Typed
    <3>2. /\ DraftsTyped([drafts EXCEPT ![active] = draft])
          /\ \A tool \in ShapeTools :
               tool # active => [drafts EXCEPT ![active] = draft][tool] = drafts[tool]
      BY <2>2, <3>1, Redrafted
    <3> QED
      BY <2>1, <3>2
  <2>4. OnlyActive'
    BY <1>1, <2>3 DEF OnlyActive
  <2> QED
    BY <1>1, <1>2, <1>4, <2>3, <2>4 DEF PressedWell, Typed
<1> QED
  BY <1>2, <1>3, <1>4

\* A press on the pan tool starts panning with the active tool.
LEMMA PanPressed ==
  ASSUME Typed, OnlyActive, PanDown
  PROVE  PressedWell
BY DEF PanDown, PressedWell, Typed, OnlyActive

\* A press on the canvas: what it starts is held by the capture.
LEMMA PressStep ==
  ASSUME IInv, NEW button \in Buttons, NEW at, Press(button, at)
  PROVE  IInv'
<1>1. /\ buttons' = buttons \union {button}
      /\ doubled' = (buttons # {} \/ (doubled /\ ~captured'))
      /\ orphaned' = (orphaned /\ preview'.active)
  BY DEF Press
<1>2. doubled' \in BOOLEAN /\ orphaned' \in BOOLEAN
  BY <1>1
<1>3. ~doubled' /\ ~captured' => Quiet
  BY <1>1 DEF IInv, Held, Follows
<1>4. CASE button = "left"
  <2>1. PressedWell
    BY <1>4, SelectPressed, ShapePressed, PanPressed DEF Press, IInv
  <2>2. Typed' /\ OnlyActive'
    BY <2>1, <1>2 DEF PressedWell, Typed
  <2>3. Held'
    BY <1>1, <1>4 DEF Held
  <2>4. PreviewIsOfDrag'
    BY <1>1, <2>1 DEF PressedWell, PreviewIsOfDrag, IInv
  <2>5. Follows'
    BY <1>1, <1>3, <2>1 DEF PressedWell, Follows, Quiet
  <2> QED
    BY <2>2, <2>3, <2>4, <2>5 DEF IInv
<1>5. CASE button # "left"
  <2>1. captured' = FALSE /\ UNCHANGED toolState
    BY <1>5 DEF Press
  <2>2. Typed' /\ OnlyActive' /\ PreviewIsOfDrag' /\ (Quiet => Quiet')
    BY <1>1, <1>2, <2>1, Untouched DEF IInv, Typed
  <2> QED
    BY <1>3, <2>1, <2>2 DEF IInv, Held, Follows
<1> QED
  BY <1>4, <1>5
-----------------------------------------------------------------------------
(* Releases and motion *)

\* Each tool drops what it had under way, and a drag its preview.
LEMMA ReleasedIdle ==
  ASSUME Typed, OnlyActive, PreviewIsOfDrag, SelectUp \/ ShapeUp \/ PanUp
  PROVE  /\ active' \in Tools /\ panning' \in BOOLEAN
         /\ DragTyped(drag)' /\ DraftsTyped(drafts)' /\ PreviewTyped(preview)'
         /\ Idle'
         /\ preview'.active => orphaned
<1>1. CASE SelectUp
  <2>1. /\ active = "select" /\ active' = active /\ drag' = NoDrag /\ drafts' = drafts
        /\ panning' = panning /\ preview' = NoPreview
    BY <1>1 DEF SelectUp
  <2>2. Idle'
    BY <2>1, Stopped, ToolsDiffer DEF OnlyActive, Idle
  <2> QED
    BY <2>1, <2>2, Stopped DEF Typed
<1>2. CASE ShapeUp
  <2>1. /\ active \in ShapeTools /\ active' = active /\ drag' = drag /\ panning' = panning
        /\ preview' = preview /\ drafts' = [drafts EXCEPT ![active] = NoDraft]
    BY <1>2 DEF ShapeUp
  <2>2. ~drag.dragging /\ ~panning
    BY <2>1, ToolsDiffer DEF OnlyActive
  <2>3. DraftsTyped(drafts) /\ DraftTyped(NoDraft)
    BY Stopped DEF Typed
  <2>4. /\ DraftsTyped([drafts EXCEPT ![active] = NoDraft])
        /\ [drafts EXCEPT ![active] = NoDraft][active] = NoDraft
        /\ \A tool \in ShapeTools :
             tool # active => [drafts EXCEPT ![active] = NoDraft][tool] = drafts[tool]
    <3>1. active \in ShapeTools
      BY <2>1
    <3> QED
      BY <2>3, <3>1, Redrafted
  <2>5. \A tool \in ShapeTools : ~drafts'[tool].drawing
    <3> SUFFICES ASSUME NEW tool \in ShapeTools PROVE ~drafts'[tool].drawing
      OBVIOUS
    <3>1. CASE tool = active
      BY <2>1, <2>4, <3>1, Stopped
    <3>2. CASE tool # active
      BY <2>1, <2>4, <3>2 DEF OnlyActive
    <3> QED
      BY <3>1, <3>2
  <2>6. preview.active => orphaned
    BY <2>2 DEF PreviewIsOfDrag
  <2> QED
    BY <2>1, <2>2, <2>4, <2>5, <2>6 DEF Typed, Idle
<1>3. CASE PanUp
  <2>1. /\ active = "pan" /\ active' = active /\ drag' = drag /\ panning' = FALSE
        /\ preview' = preview /\ drafts' = drafts
    BY <1>3 DEF PanUp
  <2>2. ~drag.dragging /\ \A tool \in ShapeTools : ~drafts[tool].drawing
    BY <2>1, ToolsDiffer DEF OnlyActive
  <2>3. preview.active => orphaned
    BY <2>2 DEF PreviewIsOfDrag
  <2> QED
    BY <2>1, <2>2, <2>3 DEF Typed, Idle
<1> QED
  BY <1>1, <1>2, <1>3

\* A release ends what the capture was for, or is ignored when there is none.
LEMMA ReleaseStep ==
  ASSUME IInv, NEW button, Release(button)
  PROVE  IInv'
<1>1. /\ captured' = FALSE /\ doubled' = doubled
      /\ orphaned' = (orphaned /\ preview'.active)
  BY DEF Release
<1>2. orphaned' \in BOOLEAN
  BY <1>1
<1>3. Held'
  BY <1>1 DEF Held
<1>4. CASE captured
  <2>1. SelectUp \/ ShapeUp \/ PanUp
    BY <1>4 DEF Release
  <2>2. /\ active' \in Tools /\ panning' \in BOOLEAN
        /\ DragTyped(drag)' /\ DraftsTyped(drafts)' /\ PreviewTyped(preview)'
        /\ Idle'
        /\ preview'.active => orphaned
    BY <2>1, ReleasedIdle DEF IInv
  <2>3. Typed'
    BY <1>1, <1>2, <2>2 DEF Typed, IInv
  <2>4. OnlyActive' /\ Follows' /\ PreviewIsOfDrag'
    BY <1>1, <2>2 DEF Idle, OnlyActive, Follows, Quiet, PreviewIsOfDrag
  <2> QED
    BY <1>3, <2>3, <2>4 DEF IInv
<1>5. CASE ~captured
  <2>1. UNCHANGED toolState
    BY <1>5 DEF Release
  <2>2. Typed' /\ OnlyActive' /\ PreviewIsOfDrag' /\ (Quiet => Quiet')
    BY <1>1, <1>2, <2>1, Untouched DEF IInv, Typed
  <2> QED
    BY <1>1, <1>3, <1>5, <2>2 DEF IInv, Follows
<1> QED
  BY <1>4, <1>5

\* A motion previews the drag and stretches the draft that are under way.
LEMMA MoveStep ==
  ASSUME IInv, NEW at, Move(at)
  PROVE  IInv'
<1>1. /\ UNCHANGED <<buttons, captured, active, panning, doubled, orphaned>>
      /\ Held' /\ Typed
  BY DEF Move, ghosts, IInv, Held
<1>2. CASE active = "select" /\ drag.dragging /\ at # drag.last
  <2> DEFINE total == drag.total + at - drag.last
             next  == [drag EXCEPT !.last = at, !.total = total, !.moved = TRUE]
  <2>1. drag' = next /\ preview' = [active |-> TRUE, delta |-> drag'.total] /\ drafts' = drafts
    BY <1>2, ToolsDiffer DEF Move
  <2> HIDE DEF total
  <2>2. DragTyped(next) /\ next.dragging = drag.dragging /\ next.moved = TRUE
    BY <1>1 DEF Typed, DragTyped
  <2> HIDE DEF next
  <2>3. /\ DragTyped(drag)' /\ drag'.dragging /\ drag'.moved
        /\ PreviewTyped(preview)' /\ preview'.delta = drag'.total
    BY <1>2, <2>1, <2>2 DEF PreviewTyped
  <2>4. Typed' /\ PreviewIsOfDrag'
    BY <1>1, <2>1, <2>3 DEF Typed, PreviewIsOfDrag
  <2>5. OnlyActive'
    BY <1>1, <1>2, <2>1 DEF OnlyActive, IInv
  <2>6. Follows'
    BY <1>1, <1>2 DEF Follows, Quiet, Idle, IInv
  <2> QED
    BY <1>1, <2>4, <2>5, <2>6 DEF IInv
<1>3. CASE active \in ShapeTools /\ drafts[active].drawing
  <2> DEFINE draft == [drafts[active] EXCEPT !.current = at]
             next  == [drafts EXCEPT ![active] = draft]
  <2>1. active # "select"
    BY <1>3, ToolsDiffer
  <2>2. drafts' = next /\ drag' = drag /\ preview' = preview
    BY <1>3, <2>1 DEF Move
  <2>3. DraftsTyped(drafts) /\ DraftTyped(drafts[active])
    BY <1>1, <1>3 DEF Typed, DraftsTyped
  <2>4. DraftTyped(draft) /\ draft.drawing = drafts[active].drawing
    BY <2>3 DEF DraftTyped
  <2> HIDE DEF draft
  <2>5. /\ DraftsTyped(next)
        /\ \A tool \in ShapeTools : next[tool].drawing = drafts[tool].drawing
    <3>1. /\ DraftsTyped(next)
          /\ next[active] = draft
          /\ \A tool \in ShapeTools : tool # active => next[tool] = drafts[tool]
      BY <1>3, <2>3, <2>4, Redrafted
    <3> QED
      BY <2>4, <3>1
  <2> HIDE DEF next
  <2>6. Typed'
    BY <1>1, <2>2, <2>5 DEF Typed
  <2>7. OnlyActive' /\ PreviewIsOfDrag' /\ (Quiet => Quiet')
    BY <1>1, <2>2, <2>5 DEF OnlyActive, PreviewIsOfDrag, Quiet, Idle, IInv
  <2> QED
    BY <1>1, <2>6, <2>7 DEF IInv, Follows
<1>4. CASE UNCHANGED <<drag, drafts, preview>>
  <2>1. UNCHANGED toolState
    BY <1>1, <1>4 DEF toolState
  <2>2. Typed' /\ OnlyActive' /\ PreviewIsOfDrag' /\ (Quiet => Quiet')
    BY <1>1, <2>1, Untouched DEF IInv, Typed
  <2> QED
    BY <1>1, <2>2 DEF IInv, Follows
<1> QED
  BY <1>2, <1>3, <1>4 DEF Move
-----------------------------------------------------------------------------
(* What else may happen in the middle of a gesture *)

\* The active tool leaves nothing under way, and the others had nothing.
LEMMA LeftIdle ==
  ASSUME Typed, OnlyActive, PreviewIsOfDrag, Leave
  PROVE  /\ panning' \in BOOLEAN
         /\ DragTyped(drag)' /\ DraftsTyped(drafts)' /\ PreviewTyped(preview)'
         /\ Idle'
         /\ preview'.active => orphaned
<1>1. DragTyped(drag)' /\ ~drag'.dragging
  BY Stopped DEF Leave, Typed, OnlyActive
<1>2. panning' \in BOOLEAN /\ ~panning'
  BY DEF Leave, Typed, OnlyActive
<1>3. PreviewTyped(preview)' /\ (preview'.active => orphaned)
  BY Stopped DEF Leave, Typed, OnlyActive, PreviewIsOfDrag
<1>4. CASE active \in ShapeTools
  <2>1. DraftsTyped(drafts) /\ DraftTyped(NoDraft) /\ ~NoDraft.drawing
    BY Stopped DEF Typed
  <2>2. drafts' = [drafts EXCEPT ![active] = NoDraft]
    BY <1>4 DEF Leave
  <2>3. /\ DraftsTyped([drafts EXCEPT ![active] = NoDraft])
        /\ [drafts EXCEPT ![active] = NoDraft][active] = NoDraft
        /\ \A tool \in ShapeTools :
             tool # active => [drafts EXCEPT ![active] = NoDraft][tool] = drafts[tool]
    BY <1>4, <2>1, Redrafted
  <2>4. \A tool \in ShapeTools : ~drafts'[tool].drawing
    <3> SUFFICES ASSUME NEW tool \in ShapeTools PROVE ~drafts'[tool].drawing
      OBVIOUS
    <3>1. CASE tool = active
      BY <2>1, <2>2, <2>3, <3>1
    <3>2. CASE tool # active
      BY <2>2, <2>3, <3>2 DEF OnlyActive
    <3> QED
      BY <3>1, <3>2
  <2> QED
    BY <1>1, <1>2, <1>3, <2>2, <2>3, <2>4 DEF Idle
<1>5. CASE active \notin ShapeTools
  <2>1. drafts' = drafts
    BY <1>5 DEF Leave
  <2>2. \A tool \in ShapeTools : ~drafts'[tool].drawing
    BY <1>5, <2>1 DEF OnlyActive
  <2> QED
    BY <1>1, <1>2, <1>3, <2>1, <2>2 DEF Idle, Typed
<1> QED
  BY <1>4, <1>5

\* Switching tools ends what the old tool had under way.
LEMMA SwitchStep ==
  ASSUME IInv, NEW tool \in Tools, SwitchTool(tool)
  PROVE  IInv'
<1>1. /\ active' = tool /\ orphaned' = (orphaned /\ preview'.active)
      /\ UNCHANGED <<buttons, captured, doubled>>
  BY DEF SwitchTool
<1>2. /\ panning' \in BOOLEAN
      /\ DragTyped(drag)' /\ DraftsTyped(drafts)' /\ PreviewTyped(preview)'
      /\ Idle'
      /\ preview'.active => orphaned
  BY LeftIdle DEF SwitchTool, IInv
<1>3. orphaned' \in BOOLEAN
  BY <1>1
<1>4. Typed'
  BY <1>1, <1>2, <1>3 DEF Typed, IInv
<1>5. Held' /\ OnlyActive' /\ Follows' /\ PreviewIsOfDrag'
  BY <1>1, <1>2 DEF Held, Idle, OnlyActive, Follows, Quiet, PreviewIsOfDrag, IInv
<1> QED
  BY <1>4, <1>5 DEF IInv

\* Escape drops the draft of a shape tool and stops the pan; a drag goes on.
LEMMA EscapeStep ==
  ASSUME IInv, Escape
  PROVE  IInv'
<1>1. /\ panning' = FALSE
      /\ UNCHANGED <<buttons, captured, active, drag, preview, doubled, orphaned>>
  BY DEF Escape, ghosts
<1>2. DraftsTyped(drafts) /\ DraftTyped(NoDraft) /\ ~NoDraft.drawing
  BY Stopped DEF Typed, IInv
<1>3. /\ DraftsTyped(drafts)'
      /\ \A tool \in ShapeTools : drafts'[tool].drawing => drafts[tool].drawing
  <2>1. CASE active \in ShapeTools
    <3>1. drafts' = [drafts EXCEPT ![active] = NoDraft]
      BY <2>1 DEF Escape
    <3>2. /\ DraftsTyped([drafts EXCEPT ![active] = NoDraft])
          /\ [drafts EXCEPT ![active] = NoDraft][active] = NoDraft
          /\ \A tool \in ShapeTools :
               tool # active => [drafts EXCEPT ![active] = NoDraft][tool] = drafts[tool]
      BY <1>2, <2>1, Redrafted
    <3> QED
      BY <1>2, <3>1, <3>2
  <2>2. CASE active \notin ShapeTools
    BY <1>2, <2>2 DEF Escape
  <2> QED
    BY <2>1, <2>2
<1>4. Typed'
  BY <1>1, <1>3 DEF Typed, IInv
<1>5. Held' /\ OnlyActive' /\ PreviewIsOfDrag'
  BY <1>1, <1>3 DEF Held, OnlyActive, PreviewIsOfDrag, IInv
<1>6. Follows'
  BY <1>1, <1>3 DEF Follows, Quiet, Idle, IInv
<1> QED
  BY <1>4, <1>5, <1>6 DEF IInv

\* Edits and stuttering.
LEMMA UnchangedStep ==
  ASSUME IInv, UNCHANGED <<buttons, captured, toolState, doubled, orphaned>>
  PROVE  IInv'
<1>1. Typed' /\ OnlyActive' /\ PreviewIsOfDrag' /\ (Quiet => Quiet')
  BY Untouched DEF IInv, Typed
<1> QED
  BY <1>1 DEF IInv, Held, Follows

\* Replacing the document in the middle of a gesture leaves its preview, as orphaned says.
LEMMA ReplaceStep ==
  ASSUME IInv, Replace
  PROVE  IInv'
<1>1. /\ active' = "select" /\ drag' = NoDrag /\ drafts' = NoDrafts /\ panning' = FALSE
      /\ captured' = FALSE /\ preview' = preview /\ orphaned' = (orphaned \/ preview.active)
      /\ UNCHANGED <<buttons, doubled>>
  BY DEF Replace, ControllerReset
<1>2. orphaned' \in BOOLEAN /\ active' \in Tools
  BY <1>1 DEF Tools
<1>3. Typed'
  BY <1>1, <1>2, Stopped DEF Typed, IInv
<1>4. Idle'
  BY <1>1, Stopped DEF Idle
<1>5. Held' /\ OnlyActive' /\ Follows' /\ PreviewIsOfDrag'
  BY <1>1, <1>4 DEF Held, Idle, OnlyActive, Follows, Quiet, PreviewIsOfDrag
<1> QED
  BY <1>3, <1>5 DEF IInv
-----------------------------------------------------------------------------
\* The invariant is inductive.
LEMMA StepInv == IInv /\ [Next]_vars => IInv'
<1> SUFFICES ASSUME IInv, [Next]_vars PROVE IInv'
  OBVIOUS
<1>1. CASE \E button \in Buttons : PressOnInterface(button)
  BY <1>1, InterfaceStep
<1>2. CASE \E button \in Buttons, at \in Points : Press(button, at)
  BY <1>2, PressStep
<1>3. CASE \E button \in Buttons : Release(button)
  BY <1>3, ReleaseStep
<1>4. CASE \E at \in Points : Move(at)
  BY <1>4, MoveStep
<1>5. CASE \E tool \in Tools : SwitchTool(tool)
  BY <1>5, SwitchStep
<1>6. CASE Escape
  BY <1>6, EscapeStep
<1>7. CASE SelectAll \/ Delete \/ \E locked \in BOOLEAN : Lock(locked)
  <2>1. UNCHANGED <<buttons, captured, toolState, doubled, orphaned>>
    BY <1>7 DEF SelectAll, Delete, Lock, ghosts
  <2> QED
    BY <2>1, UnchangedStep
<1>8. CASE Replace
  BY <1>8, ReplaceStep
<1>9. CASE UNCHANGED vars
  <2>1. UNCHANGED <<buttons, captured, toolState, doubled, orphaned>>
    BY <1>9 DEF vars, ghosts
  <2> QED
    BY <2>1, UnchangedStep
<1> QED
  BY <1>1, <1>2, <1>3, <1>4, <1>5, <1>6, <1>7, <1>8, <1>9 DEF Next

\* The invariant holds in every reachable state.
LEMMA Invariance == Spec => []IInv
<1> QED
  BY InitInv, StepInv, PTL DEF Spec

\* Whatever tools are chosen in the middle of a gesture, tool_controller_set_active leaves
\* nothing under way in the tool that was active.
THEOREM OnlyTheActiveToolIsBusy == Spec => []OnlyActiveIsBusy
<1>1. IInv => OnlyActiveIsBusy
  <2> SUFFICES ASSUME IInv, NEW tool \in Tools, Busy(tool) PROVE tool = active
    BY DEF OnlyActiveIsBusy
  <2>1. CASE tool = "select"
    BY <2>1 DEF Busy, IInv, OnlyActive
  <2>2. CASE tool = "pan"
    BY <2>2 DEF Busy, IInv, OnlyActive
  <2>3. CASE tool \in ShapeTools
    BY <2>3, ToolsDiffer DEF Busy, IInv, OnlyActive
  <2> QED
    BY <2>1, <2>2, <2>3 DEF Tools
<1> QED
  BY <1>1, Invariance, PTL

\* With every button up and only one ever held, no tool is at work and no preview is on,
\* unless the document was replaced in the middle of a drag.
THEOREM NothingGoesOnWithoutAButton == Spec => []QuietWhenReleased
<1>1. IInv => QuietWhenReleased
  <2> SUFFICES ASSUME IInv PROVE QuietWhenReleased
    OBVIOUS
  <2>1. ASSUME buttons = {}, ~doubled, NEW tool \in Tools
        PROVE  ~Busy(tool) /\ (~orphaned => ~preview.active)
    <3>1. Idle /\ (preview.active => orphaned)
      BY <2>1 DEF IInv, Held, Follows, Quiet
    <3> QED
      BY <3>1 DEF Busy, Idle, Tools
  <2>2. "select" \in Tools
    BY DEF Tools
  <2> QED
    BY <2>1, <2>2 DEF QuietWhenReleased, IInv, Held
<1> QED
  BY <1>1, Invariance, PTL

\* The preview that the canvas shows is the move that a release would make.
THEOREM ThePreviewIsTheDrag == Spec => []PreviewIsOfDrag
<1>1. IInv => PreviewIsOfDrag
  BY DEF IInv
<1> QED
  BY <1>1, Invariance, PTL
-----------------------------------------------------------------------------
(* The document under the gestures *)

Name == {DefaultName}

Proper(doc) ==
  /\ doc \in DocumentType(Name)
  /\ Whole(doc)
  /\ Counted(doc)
  /\ doc.nextId # 0
  /\ DefaultLayer \in LayerIds(doc)

\* No object of both documents is elsewhere in the second.
Still(d, e) ==
  \A id \in ObjectIds(d) : id \in ObjectIds(e) => Object(e, id).x = Object(d, id).x

\* The second document is the first with these objects moved, all of them.
Moved(d, e, ids, delta) ==
  /\ ids \subseteq ObjectIds(d)
  /\ \A id \in ids : Object(e, id).x = Object(d, id).x + delta
  /\ \A id \in ObjectIds(d) : id \notin ids => Object(e, id).x = Object(d, id).x

\* An object is where its position in the sequence says.
LEMMA ObjectAt ==
  ASSUME NEW d, Proper(d), NEW i \in 1 .. Len(d.objects)
  PROVE  /\ d.objects[i].id \in ObjectIds(d)
         /\ Object(d, d.objects[i].id) = d.objects[i]
<1>1. d.objects \in Seq(ObjectType) /\ Distinct(d.objects)
  BY DocumentIs, WholeIs DEF Proper, Objects, WholeParts
<1>2. IndexOf(d.objects, d.objects[i].id) = i
  BY <1>1, IndexOfIs
<1>3. d.objects[i].id \in IdsOf(d.objects)
  BY <1>1, IdsOfIs
<1> QED
  BY <1>2, <1>3, QueriesAre

\* And every id is that of a position.
LEMMA ObjectFound ==
  ASSUME NEW d, Proper(d), NEW id \in ObjectIds(d)
  PROVE  \E i \in 1 .. Len(d.objects) : d.objects[i].id = id
<1>1. d.objects \in Seq(ObjectType) /\ id \in IdsOf(d.objects)
  BY DocumentIs, QueriesAre DEF Proper, Objects
<1> QED
  BY <1>1, IdsOfIs

\* Adding and removing objects leaves the others where they are.
LEMMA StillBy ==
  ASSUME NEW d, Proper(d), NEW e, Proper(e),
         \A object \in ToSet(e.objects) :
           object \in ToSet(d.objects) \/ object.id \notin ObjectIds(d)
  PROVE  Still(d, e)
<1> SUFFICES ASSUME NEW id \in ObjectIds(d), id \in ObjectIds(e)
             PROVE  Object(e, id).x = Object(d, id).x
  BY DEF Still
<1>1. PICK i \in 1 .. Len(e.objects) : e.objects[i].id = id
  BY ObjectFound
<1>2. e.objects \in Seq(ObjectType) /\ d.objects \in Seq(ObjectType)
  BY DocumentIs DEF Proper, Objects
<1>3. e.objects[i] \in ToSet(e.objects)
  BY <1>2, LenProperties DEF ToSet
<1>4. e.objects[i] \in ToSet(d.objects)
  BY <1>1, <1>3
<1>5. PICK j \in 1 .. Len(d.objects) : d.objects[j] = e.objects[i]
  BY <1>2, <1>4, LenProperties DEF ToSet
<1>6. Object(e, id) = e.objects[i] /\ Object(d, id) = d.objects[j]
  BY <1>1, <1>5, ObjectAt
<1> QED
  BY <1>5, <1>6

\* A document is still while it is unchanged.
LEMMA StillSame ==
  ASSUME NEW d
  PROVE  Still(d, d)
BY DEF Still

\* What a fresh command makes of a proper document.
LEMMA FreshProper ==
  ASSUME NEW d, Proper(d), NEW c, Fresh(Name, c, d),
         LayerIds(Redone(c, d)) = LayerIds(d)
  PROVE  Proper(Redone(c, d))
<1> DEFINE e == Redone(c, d)
<1>1. d \in DocumentType(Name) /\ Whole(d) /\ Counted(d) /\ d.nextId # 0
  BY DEF Proper
<1>2. Reversible(Name, c, d, e)
  BY <1>1, FreshReverses
<1> HIDE DEF e
<1>3. e \in DocumentType(Name) /\ Whole(e) /\ Counted(e) /\ d.nextId <= e.nextId
  BY <1>2 DEF Reversible, Advance
<1>4. d.nextId \in Nat /\ e.nextId \in Nat
  BY <1>1, <1>3, DocumentIs
<1>5. e.nextId # 0
  BY <1>1, <1>3, <1>4
<1>6. LayerIds(e) = LayerIds(d)
  BY DEF e
<1>7. Proper(e)
  BY <1>3, <1>5, <1>6 DEF Proper
<1> QED
  BY <1>7 DEF e

\* A new document has its layer and no objects.
LEMMA NewIsProper == Proper(NewDocument) /\ ObjectIds(NewDocument) = {}
<1>1. /\ NewDocument \in DocumentType(Name) /\ Whole(NewDocument) /\ Counted(NewDocument)
      /\ NewDocument.nextId # 0
  BY NewDocumentIs DEF Name
<1>2. NewDocument.active = DefaultLayer
  BY DEF NewDocument
<1>3. DefaultLayer \in LayerIds(NewDocument)
  BY <1>1, <1>2 DEF Whole
<1>4. ToSet(NewDocument.objects) = {}
  BY DEF NewDocument, ToSet
<1> QED
  BY <1>1, <1>3, <1>4 DEF Proper, ObjectIds
-----------------------------------------------------------------------------
(* The edits *)

\* What is deleted goes, and the rest stays as it is.
LEMMA DeleteLeaves ==
  ASSUME NEW d, Proper(d), NEW ids, NEW c, c = Filled(DeleteSelection(d, ids), d)
  PROVE  Proper(Redone(c, d)) /\ Still(d, Redone(c, d))
<1> DEFINE e == Redone(c, d)
           s == d.objects
           left == Left(c, Len(s), Len(c.objects))
<1>1. d \in DocumentType(Name) /\ Whole(d) /\ s \in Seq(ObjectType)
  BY DocumentIs DEF Proper, Objects
<1>2. Fresh(Name, c, d)
  BY <1>1, DeleteIsFresh
<1>3. c.kind = "delete"
  BY DEF DeleteSelection, Filled
<1>4. c \in DeleteCommand /\ Deletes(c, s)
  <2>1. c \in CommandType(Name) /\ Deletes(c, s)
    BY <1>2, <1>3 DEF Fresh
  <2> QED
    BY <1>3, <2>1, CommandIs, NotSet
<1>5. PICK positions \in SUBSET (1 .. Len(s)) : Lists(c.indices, positions)
  BY <1>4 DEF Deletes
<1>6. c.objects = Picked(s, c.indices)
  BY <1>4 DEF Deletes
<1>7. e = DeleteExecuted(c, d)
  BY <1>3, RedoneByKind
<1>8. e = Deletions(c, d)[Len(c.objects)] /\ Holds(Name, d, e, left)
  BY <1>1, <1>4, <1>5, <1>6, <1>7, DeletionsLeave
<1> HIDE DEF e
<1>9. left \in SUBSET (1 .. Len(s))
  BY DEF Left
<1> HIDE DEF left
<1>10. e.objects = Elements(s, left) /\ e.layers = d.layers
  BY <1>8 DEF Holds
<1>11. ToSet(e.objects) \subseteq ToSet(s)
  BY <1>1, <1>9, <1>10, ElementsMembers
<1>12. LayerIds(e) = LayerIds(d)
  BY <1>10, QueriesAre
<1>13. Proper(e)
  BY <1>2, <1>12, FreshProper DEF e
<1>14. Still(d, e)
  BY <1>11, <1>13, StillBy
<1> QED
  BY <1>13, <1>14 DEF e

\* What is drawn comes on top, with an id of its own.
LEMMA CreateAdds ==
  ASSUME NEW d, Proper(d), d.nextId # UIntMax,
         NEW object \in ObjectType, object.id = NoId, object.layer = DefaultLayer,
         NEW c, c = Filled(CreateObject(object), d), Redoable(c, d)
  PROVE  Proper(Redone(c, d)) /\ Still(d, Redone(c, d))
<1> DEFINE e == Redone(c, d)
           s == d.objects
<1>1. /\ d \in DocumentType(Name) /\ s \in Seq(ObjectType) /\ d.nextId # 0
      /\ d.layers \in Layers(Name) /\ d.active \in Nat
  BY DocumentIs DEF Proper, Objects
<1>2. /\ c \in CreateCommand /\ c.kind = "create" /\ c.id = d.nextId
      /\ c.object \in ObjectType /\ c.object.layer = DefaultLayer /\ c.id \in Nat
  BY <1>1, FilledCreate, CreateIs
<1>3. c \notin SetCommand(Name) /\ c \in CommandType(Name)
  BY <1>2, NotSet DEF CommandType
<1>4. Fresh(Name, c, d)
  <2>1. Passable(c, d)
    BY <1>2 DEF Passable, RememberedIds, RememberedLayers, CanPass
  <2> QED
    BY <1>1, <1>2, <1>3, <2>1 DEF Fresh, Fits, NoId
<1>5. e = AppendObject(d, c.object, c.id, c.object.layer)
  BY <1>2, RedoneByKind
<1>6. CanAppendObject(d, c.id, c.object.layer)
  BY <1>2, RedoneByKind
<1>7. c.id \notin ObjectIds(d)
  BY <1>6 DEF CanAppendObject
<1> DEFINE p == Placed(c.object, c.id, LayerFor(d.layers, d.active, c.object.layer))
<1>8. c.object.layer \in Nat
  BY <1>2 DEF DefaultLayer
<1>9. e = Doc(Append(s, p), d.layers, d.active, Past(d.nextId, c.id), d.nextLayer, TRUE)
  <2>1. /\ d \in DocumentType(Name) /\ c.object \in ObjectType
        /\ c.id \in Nat /\ c.object.layer \in Nat
    BY <1>1, <1>2, <1>8
  <2>2. AppendObject(d, c.object, c.id, c.object.layer)
          = Doc(Append(d.objects, Placed(c.object, c.id,
                                         LayerFor(d.layers, d.active, c.object.layer))),
                d.layers, d.active, Past(d.nextId, c.id), d.nextLayer, TRUE)
    BY ONLY <2>1, AppendObjectIs
  <2> QED
    BY <1>5, <2>2
<1>10. p \in ObjectType /\ p.id = c.id
  <2>1. LayerFor(d.layers, d.active, c.object.layer) \in Nat
    BY <1>1, <1>8, LayerForIs
  <2>2. c.object \in ObjectType /\ c.id \in Nat
    BY <1>2
  <2> DEFINE l == LayerFor(d.layers, d.active, c.object.layer)
  <2>3. l \in Nat /\ p = Placed(c.object, c.id, l)
    BY <2>1
  <2> HIDE DEF l, p
  <2> QED
    BY <2>2, <2>3, PlacedIs
<1>11. e.objects = Append(s, p) /\ e.layers = d.layers
  BY <1>9 DEF Doc
<1> HIDE DEF e, p
<1>12. \A o \in ToSet(e.objects) : o \in ToSet(s) \/ o = p
  <2> SUFFICES ASSUME NEW o \in ToSet(e.objects) PROVE o \in ToSet(s) \/ o = p
    OBVIOUS
  <2>1. Append(s, p) \in Seq(ObjectType) /\ Len(Append(s, p)) = Len(s) + 1 /\ Len(s) \in Nat
    BY <1>1, <1>10, AppendProperties, LenProperties
  <2>2. PICK i \in 1 .. (Len(s) + 1) : o = Append(s, p)[i]
    BY <1>11, <2>1, LenProperties DEF ToSet
  <2>3. CASE i = Len(s) + 1
    BY <1>1, <1>10, <2>2, <2>3, AppendProperties
  <2>4. CASE i # Len(s) + 1
    <3>1. i \in 1 .. Len(s)
      BY <2>1, <2>4
    <3>2. o = s[i]
      BY <1>1, <1>10, <2>2, <3>1, AppendProperties
    <3> QED
      BY <1>1, <3>1, <3>2, LenProperties DEF ToSet
  <2> QED
    BY <2>3, <2>4
<1>13. LayerIds(e) = LayerIds(d)
  BY <1>11, QueriesAre
<1>14. Proper(e)
  BY <1>4, <1>13, FreshProper DEF e
<1>15. Still(d, e)
  BY <1>7, <1>10, <1>12, <1>14, StillBy
<1> QED
  BY <1>14, <1>15 DEF e

\* A lock leaves the objects alone.
LEMMA LockKeeps ==
  ASSUME NEW d, Proper(d), NEW locked \in BOOLEAN,
         NEW c, c = Filled(ChangeLayer(d, DefaultLayer, "locked", locked), d)
  PROVE  Proper(Redone(c, d)) /\ Still(d, Redone(c, d))
<1> DEFINE e == Redone(c, d)
<1>1. /\ d \in DocumentType(Name) /\ Whole(d) /\ DefaultLayer \in LayerIds(d)
      /\ d.layers \in Layers(Name) /\ d.layers \in Seq(LayerType(Name))
      /\ DefaultLayer \in IdsOf(d.layers) /\ Distinct(d.layers)
  BY DocumentIs, WholeIs, QueriesAre DEF Proper, Layers, WholeParts
<1>2. "locked" \in LayerAttributes /\ locked \in AttributeValues(Name, "locked")
  BY DEF LayerAttributes, AttributeValues
<1>3. /\ c.kind = "attribute" /\ c.layer = DefaultLayer /\ c.attribute = "locked"
      /\ c.after = locked
  BY DEF ChangeLayer, Filled
<1>4. Redoable(c, d)
  BY <1>1, <1>3 DEF Redoable, Settable
<1>5. Fresh(Name, c, d)
  BY <1>1, <1>2, <1>4, AttributeIsFresh
<1>6. e = SetLayerAttribute(d, DefaultLayer, "locked", locked)
  BY <1>3 DEF Redone, AttributeSet
<1> DEFINE layers == WithValue(d.layers, DefaultLayer, "locked", locked)
<1>7. Content(e) = View(d.objects, layers, d.active)
  BY <1>1, <1>2, <1>6, SetLayerAttributeIs DEF WithValue
<1>8. IdsOf(layers) = IdsOf(d.layers)
  BY <1>1, <1>2, LayerWithValue
<1> HIDE DEF e, layers
<1>9. e.objects = d.objects /\ e.layers = layers
  <2>1. Content(e) = View(e.objects, e.layers, e.active)
    BY ContentIs
  <2> QED
    BY <1>7, <2>1 DEF View
<1>10. LayerIds(e) = LayerIds(d)
  BY <1>8, <1>9, QueriesAre
<1>11. Proper(e)
  BY <1>5, <1>10, FreshProper DEF e
<1>12. Still(d, e)
  BY <1>9, <1>11, StillBy
<1> QED
  BY <1>11, <1>12 DEF e

\* A move that is accepted moves all of its objects, by the same way.
LEMMA MoveMoves ==
  ASSUME NEW d, Proper(d), NEW ids, NEW delta \in Int,
         NEW c, c = Filled(MoveObjects(ids, delta), d), Allowed(MoveObjects(ids, delta), d)
  PROVE  Proper(Redone(c, d)) /\ Moved(d, Redone(c, d), ToSet(ids), delta)
<1> DEFINE e == Redone(c, d)
           s == d.objects
           t == MovedBy(s, ToSet(ids), delta)
<1>1. /\ d \in DocumentType(Name) /\ Whole(d) /\ Counted(d) /\ d.nextId # 0 /\ d.nextId \in Nat
      /\ s \in Objects /\ s \in Seq(ObjectType) /\ Distinct(s)
      /\ DefaultLayer \in LayerIds(d)
  BY DocumentIs, WholeIs DEF Proper, Objects, WholeParts
<1>2. c = MoveObjects(ids, delta)
  BY DEF MoveObjects, Filled
<1>3. c.kind = "move" /\ c.ids = ids /\ c.delta = delta
  BY <1>2 DEF MoveObjects
<1>4. ToSet(ids) \subseteq ObjectIds(d)
  BY <1>2, <1>3 DEF Allowed, MoveAllowed, Editable
<1>5. e = TranslateObjects(d, ToSet(ids), delta)
  BY <1>3 DEF Redone, ObjectsMoved
<1>6. /\ Content(e) = View(t, d.layers, d.active)
      /\ e \in DocumentType(Name) /\ Advance(d, e)
  BY <1>1, <1>5, TranslateObjectsIs
<1> HIDE DEF e
<1>7. /\ Len(t) = Len(s)
      /\ \A i \in 1 .. Len(s) : t[i] = Shifted(s[i], ToSet(ids), delta)
  BY <1>1, MovedByIs
<1>8. Distinct(t) /\ IdsOf(t) = IdsOf(s) /\ LayersOf(t) = LayersOf(s)
  BY <1>1, MovedIds
<1> HIDE DEF t
<1>9. e.objects = t /\ e.layers = d.layers /\ e.active = d.active
  <2>1. Content(e) = View(e.objects, e.layers, e.active)
    BY ContentIs
  <2> QED
    BY <1>6, <2>1 DEF View
<1>10. Whole(e)
  <2>1. WholeParts(s, d.layers, d.active)
    BY <1>1, WholeIs
  <2>2. \A o \in ToSet(t) : o.layer \in LayersOf(t)
    BY DEF LayersOf
  <2>3. \A l \in LayersOf(s) : l \in IdsOf(d.layers)
    BY <2>1 DEF LayersOf, WholeParts
  <2>4. WholeParts(t, d.layers, d.active)
    BY <1>8, <2>1, <2>2, <2>3 DEF WholeParts
  <2> QED
    BY <1>9, <2>4, WholeIs
<1>11. Counted(e)
  BY <1>1, <1>6, <1>8, <1>9, CountedStill
<1>12. e.nextId # 0
  <2>1. e.nextId \in Nat /\ d.nextId <= e.nextId
    BY <1>6, DocumentIs DEF Advance
  <2> QED
    BY <1>1, <2>1
<1>13. Proper(e)
  BY <1>1, <1>6, <1>9, <1>10, <1>11, <1>12, QueriesAre DEF Proper
<1>14. ASSUME NEW id \in ObjectIds(d)
       PROVE  Object(e, id).x = IF id \in ToSet(ids) THEN Object(d, id).x + delta
                                                     ELSE Object(d, id).x
  <2>1. PICK i \in 1 .. Len(s) : s[i].id = id
    BY ObjectFound
  <2>2. s[i] \in ObjectType
    BY <1>1, <2>1, ElementOfSeq
  <2>3. t[i] = Shifted(s[i], ToSet(ids), delta)
    BY <1>7
  <2>4. t[i].id = id
    BY <2>1, <2>2, <2>3, ShiftedKeeps
  <2>5. i \in 1 .. Len(e.objects)
    BY <1>7, <1>9
  <2>6. Object(e, id) = t[i] /\ Object(d, id) = s[i]
    BY <1>9, <1>13, <2>1, <2>4, <2>5, ObjectAt
  <2>7. t[i].x = IF id \in ToSet(ids) THEN s[i].x + delta ELSE s[i].x
    BY <2>1, <2>2, <2>3 DEF Shifted, Translated, ObjectType
  <2> QED
    BY <2>6, <2>7
<1>15. Moved(d, e, ToSet(ids), delta)
  BY <1>4, <1>14 DEF Moved
<1> QED
  BY <1>13, <1>15 DEF e
-----------------------------------------------------------------------------
(* A drag knows what was pressed *)

\* Points and distances are integers, and a drag that has the pointer is that of the press.
Tracked ==
  /\ start.at \in Int /\ drag.last \in Int /\ drag.total \in Int
  /\ \A tool \in ShapeTools : drafts[tool].anchor \in Int /\ drafts[tool].current \in Int
  /\ captured /\ drag.dragging => drag.ids = start.ids /\ drag.total = drag.last - start.at

\* The tools in which nothing is under way are at 0.
LEMMA Zeros ==
  /\ NoDrag.last = 0 /\ NoDrag.total = 0 /\ ~NoDrag.dragging
  /\ NoDraft.anchor = 0 /\ NoDraft.current = 0
  /\ \A tool \in ShapeTools : NoDrafts[tool] = NoDraft
BY DEF NoDrag, NoDraft, NoDrafts

\* A shape tool that is given a draft has that one, and the others keep theirs.
LEMMA TrackedDrafts ==
  ASSUME DraftsTyped(drafts),
         \A tool \in ShapeTools : drafts[tool].anchor \in Int /\ drafts[tool].current \in Int,
         active \in ShapeTools, NEW draft, DraftTyped(draft),
         draft.anchor \in Int, draft.current \in Int,
         drafts' = [drafts EXCEPT ![active] = draft]
  PROVE  \A tool \in ShapeTools : drafts'[tool].anchor \in Int /\ drafts'[tool].current \in Int
<1>1. /\ [drafts EXCEPT ![active] = draft][active] = draft
      /\ \A tool \in ShapeTools :
           tool # active => [drafts EXCEPT ![active] = draft][tool] = drafts[tool]
  BY Redrafted
<1> SUFFICES ASSUME NEW tool \in ShapeTools
             PROVE  drafts'[tool].anchor \in Int /\ drafts'[tool].current \in Int
  OBVIOUS
<1>2. CASE tool = active
  BY <1>1, <1>2
<1>3. CASE tool # active
  BY <1>1, <1>3
<1> QED
  BY <1>2, <1>3

\* A press of the left button that is accepted by the select tool starts a drag from there;
\* another tool that accepts it finds no drag under way.
LEMMA PressTracks ==
  ASSUME IInv, Tracked, NEW button \in Buttons, NEW at \in Int, Press(button, at)
  PROVE  Tracked'
<1>1. start' = IF captured' THEN [at |-> at, ids |-> selection'] ELSE start
  BY DEF Press
<1>2. start'.at \in Int
  BY <1>1 DEF Tracked
<1>3. CASE button = "left"
  <2>1. CASE PanDown
    <3>1. active = "pan" /\ drag' = drag /\ drafts' = drafts
      BY <2>1 DEF PanDown
    <3>2. ~drag.dragging
      BY <3>1 DEF IInv, OnlyActive
    <3> QED
      BY <1>2, <3>1, <3>2 DEF Tracked
  <2>2. CASE ShapeDown(at)
    <3>1. /\ active \in ShapeTools /\ drag' = drag
          /\ drafts' = IF captured'
                       THEN [drafts EXCEPT ![active] =
                               [drawing |-> TRUE, anchor |-> at, current |-> at]]
                       ELSE drafts
      BY <2>2 DEF ShapeDown
    <3>2. ~drag.dragging
      BY <3>1, ToolsDiffer DEF IInv, OnlyActive
    <3> DEFINE draft == [drawing |-> TRUE, anchor |-> at, current |-> at]
    <3>3. DraftTyped(draft) /\ draft.anchor \in Int /\ draft.current \in Int
      BY DEF DraftTyped
    <3> HIDE DEF draft
    <3>4. \A tool \in ShapeTools : drafts'[tool].anchor \in Int /\ drafts'[tool].current \in Int
      <4>1. CASE captured'
        <5>1. drafts' = [drafts EXCEPT ![active] = draft]
          BY <3>1, <4>1 DEF draft
        <5> QED
          BY <3>1, <3>3, <5>1, TrackedDrafts DEF IInv, Typed, Tracked
      <4>2. CASE ~captured'
        BY <3>1, <4>2 DEF Tracked
      <4> QED
        BY <4>1, <4>2
    <3> QED
      BY <1>2, <3>1, <3>2, <3>4 DEF Tracked
  <2>3. CASE \E shift \in BOOLEAN : SelectDown(at, shift)
    <3>1. /\ drafts' = drafts
          /\ \/ /\ captured'
                /\ drag' = DragFrom(at, selection')
             \/ drag' = NoDrag
      BY <2>3 DEF SelectDown
    <3>2. CASE captured' /\ drag' = DragFrom(at, selection')
      <4>1. /\ drag'.last = at /\ drag'.total = 0 /\ drag'.ids = selection'
            /\ start'.at = at /\ start'.ids = selection'
        BY <1>1, <3>2 DEF DragFrom
      <4>2. drag'.total = drag'.last - start'.at
        BY <4>1
      <4> QED
        BY <1>2, <3>1, <4>1, <4>2 DEF Tracked
    <3>3. CASE drag' = NoDrag
      BY <1>2, <3>1, <3>3, Zeros DEF Tracked
    <3> QED
      BY <3>1, <3>2, <3>3
  <2> QED
    BY <1>3, <2>1, <2>2, <2>3 DEF Press
<1>4. CASE button # "left"
  BY <1>2, <1>4 DEF Press, toolState, Tracked
<1> QED
  BY <1>3, <1>4

\* A release ends it.
LEMMA ReleaseTracks ==
  ASSUME IInv, Tracked, NEW button, Release(button)
  PROVE  Tracked'
<1>1. captured' = FALSE /\ start' = start
  BY DEF Release
<1>2. CASE captured
  <2>1. SelectUp \/ ShapeUp \/ PanUp
    BY <1>2 DEF Release
  <2>2. CASE SelectUp
    BY <1>1, <2>2, Zeros DEF SelectUp, Tracked
  <2>3. CASE ShapeUp
    <3>1. /\ active \in ShapeTools /\ drag' = drag
          /\ drafts' = [drafts EXCEPT ![active] = NoDraft]
      BY <2>3 DEF ShapeUp
    <3>2. \A tool \in ShapeTools : drafts'[tool].anchor \in Int /\ drafts'[tool].current \in Int
      BY <3>1, Zeros, Stopped, TrackedDrafts DEF IInv, Typed, Tracked
    <3> QED
      BY <1>1, <3>1, <3>2 DEF Tracked
  <2>4. CASE PanUp
    BY <1>1, <2>4 DEF PanUp, Tracked
  <2> QED
    BY <2>1, <2>2, <2>3, <2>4
<1>3. CASE ~captured
  BY <1>1, <1>3 DEF Release, toolState, Tracked
<1> QED
  BY <1>2, <1>3

\* The motion adds up to the way from the press.
LEMMA MoveTracks ==
  ASSUME IInv, Tracked, NEW at \in Int, Move(at)
  PROVE  Tracked'
<1>1. captured' = captured /\ start' = start
  BY DEF Move, ghosts
<1>2. CASE active = "select" /\ drag.dragging /\ at # drag.last
  <2> DEFINE total == drag.total + at - drag.last
  <2>1. /\ drag' = [drag EXCEPT !.last = at, !.total = total, !.moved = TRUE]
        /\ drafts' = drafts
    BY <1>2, ToolsDiffer DEF Move
  <2>2. total \in Int /\ (drag.total = drag.last - start.at => total = at - start.at)
    BY DEF Tracked
  <2> HIDE DEF total
  <2>3. drag'.last = at /\ drag'.total = total /\ drag'.ids = drag.ids
    BY <2>1 DEF IInv, Typed, DragTyped
  <2> QED
    BY <1>1, <1>2, <2>1, <2>2, <2>3 DEF Tracked
<1>3. CASE active \in ShapeTools /\ drafts[active].drawing
  <2> DEFINE draft == [drafts[active] EXCEPT !.current = at]
  <2>1. active # "select"
    BY <1>3, ToolsDiffer
  <2>2. drafts' = [drafts EXCEPT ![active] = draft] /\ drag' = drag
    BY <1>3, <2>1 DEF Move
  <2>3. DraftsTyped(drafts) /\ DraftTyped(drafts[active])
    BY <1>3 DEF Typed, DraftsTyped, IInv
  <2>4. DraftTyped(draft) /\ draft.anchor = drafts[active].anchor /\ draft.current = at
    BY <2>3 DEF DraftTyped
  <2> HIDE DEF draft
  <2>5. \A tool \in ShapeTools : drafts'[tool].anchor \in Int /\ drafts'[tool].current \in Int
    BY <1>3, <2>2, <2>3, <2>4, TrackedDrafts DEF Tracked
  <2> QED
    BY <1>1, <2>2, <2>5 DEF Tracked
<1>4. CASE UNCHANGED <<drag, drafts, preview>>
  BY <1>1, <1>4 DEF Tracked
<1> QED
  BY <1>2, <1>3, <1>4 DEF Move

\* Switching tools and Escape only drop what is under way.
LEMMA DropTracks ==
  ASSUME IInv, Tracked, captured' = captured, start' = start,
         drag' = drag \/ drag' = NoDrag,
         drafts' = drafts \/ (active \in ShapeTools /\ drafts' = [drafts EXCEPT ![active] = NoDraft])
  PROVE  Tracked'
<1>1. \A tool \in ShapeTools : drafts'[tool].anchor \in Int /\ drafts'[tool].current \in Int
  BY Zeros, Stopped, TrackedDrafts DEF IInv, Typed, Tracked
<1>2. CASE drag' = drag
  BY <1>1, <1>2 DEF Tracked
<1>3. CASE drag' = NoDrag
  BY <1>1, <1>3, Zeros DEF Tracked
<1> QED
  BY <1>2, <1>3
-----------------------------------------------------------------------------
(* Every step leaves the objects where they are, but for the release of a drag *)

MInv == IInv /\ Proper(document) /\ Tracked

\* The objects of the press are moved, by the way from there to the last point.
WholeMove ==
  /\ captured
  /\ Moved(document, document', ToSet(start.ids), drag.last - start.at)

Steady == Proper(document)' /\ (Still(document, document') \/ WholeMove)

\* The document stays.
LEMMA SameSteady ==
  ASSUME MInv, UNCHANGED document
  PROVE  Steady
BY StillSame DEF MInv, Steady, Proper

\* The release of a drag.
LEMMA SelectUpSteady ==
  ASSUME MInv, captured, SelectUp
  PROVE  Steady
<1> DEFINE command == MoveObjects(drag.ids, drag.total)
           moves   == drag.dragging /\ drag.moved /\ drag.total # 0
<1>1. document' = IF moves /\ Accepts(command) THEN Executed(command) ELSE document
  BY DEF SelectUp
<1>2. CASE moves /\ Accepts(command)
  <2>1. Allowed(command, document) /\ document' = Redone(Filled(command, document), document)
    BY <1>1, <1>2 DEF Accepts, Executed
  <2>2. drag.ids = start.ids /\ drag.total = drag.last - start.at /\ drag.total \in Int
    BY <1>2 DEF MInv, Tracked
  <2>3. Proper(document') /\ Moved(document, document', ToSet(drag.ids), drag.total)
    BY <2>1, <2>2, MoveMoves DEF MInv
  <2> QED
    BY <2>2, <2>3 DEF Steady, WholeMove
<1>3. CASE ~(moves /\ Accepts(command))
  BY <1>1, <1>3, SameSteady
<1> QED
  BY <1>2, <1>3

\* The release of a draft.
LEMMA ShapeUpSteady ==
  ASSUME MInv, ShapeUp
  PROVE  Steady
<1> DEFINE draft   == drafts[active]
           command == CreateObject(Drawn(draft))
<1>1. CASE /\ document' = Executed(command) /\ Accepts(command)
           /\ document.nextId <= MaxId
  <2>1. active \in ShapeTools
    BY DEF ShapeUp
  <2>2. draft.anchor \in Int /\ draft.current \in Int
    BY <2>1 DEF MInv, Tracked
  <2> HIDE DEF draft
  <2>3. /\ Drawn(draft) \in ObjectType
        /\ Drawn(draft).id = NoId /\ Drawn(draft).layer = DefaultLayer
    BY <2>2 DEF Drawn, ObjectType, NoId, DefaultLayer
  <2>4. /\ Redoable(Filled(command, document), document)
        /\ document' = Redone(Filled(command, document), document)
    BY <1>1 DEF Accepts, Executed
  <2>6. document.nextId # UIntMax
    <3>1. document.nextId \in Nat
      BY DocumentIs DEF MInv, Proper
    <3> QED
      BY <1>1, <3>1, MaxIdAssumption, IdAssumption DEF UIntMax
  <2>5. Proper(document') /\ Still(document, document')
    BY <2>3, <2>4, <2>6, CreateAdds DEF MInv
  <2> QED
    BY <2>5 DEF Steady
<1>2. CASE UNCHANGED editing
  BY <1>2, SameSteady DEF editing
<1> QED
  BY <1>1, <1>2 DEF ShapeUp

\* The edits of the menus and panels.
LEMMA EditSteady ==
  ASSUME MInv, Delete \/ (\E locked \in BOOLEAN : Lock(locked)) \/ Replace
  PROVE  Steady
<1>1. CASE Delete
  <2>1. document' = Redone(Filled(DeleteSelection(document, Pruned(selection, document)),
                                  document), document)
    BY <1>1 DEF Delete, Executed
  <2>2. Proper(document') /\ Still(document, document')
    BY <2>1, DeleteLeaves DEF MInv
  <2> QED
    BY <2>2 DEF Steady
<1>2. CASE \E locked \in BOOLEAN : Lock(locked)
  <2>1. PICK locked \in BOOLEAN :
          document' = Redone(Filled(ChangeLayer(document, DefaultLayer, "locked", locked),
                                    document), document)
    BY <1>2 DEF Lock, Executed
  <2>2. Proper(document') /\ Still(document, document')
    BY <2>1, LockKeeps DEF MInv
  <2> QED
    BY <2>2 DEF Steady
<1>3. CASE Replace
  <2>1. document' = NewDocument
    BY <1>3 DEF Replace
  <2>2. Proper(NewDocument) /\ ObjectIds(NewDocument) = {}
    BY NewIsProper
  <2> QED
    BY <2>1, <2>2 DEF Steady, Still
<1> QED
  BY <1>1, <1>2, <1>3

\* No step moves anything else.
LEMMA StepMoves == MInv /\ [Next]_vars => MInv' /\ Steady
<1> SUFFICES ASSUME MInv, [Next]_vars PROVE Tracked' /\ Steady
  BY StepInv DEF MInv, Steady
<1> USE DEF MInv
<1>1. CASE \E button \in Buttons : PressOnInterface(button)
  <2>1. UNCHANGED <<editing, captured, toolState, start>>
    BY <1>1 DEF PressOnInterface
  <2> QED
    BY <2>1, SameSteady, DropTracks DEF editing, toolState
<1>2. CASE \E button \in Buttons, at \in Points : Press(button, at)
  <2>1. PICK button \in Buttons, at \in Points : Press(button, at)
    BY <1>2
  <2>2. at \in Int
    BY PointsAssumption
  <2>3. UNCHANGED document
    BY <2>1 DEF Press, PanDown, ShapeDown, SelectDown, editing
  <2> QED
    BY <2>1, <2>2, <2>3, SameSteady, PressTracks
<1>3. CASE \E button \in Buttons : Release(button)
  <2>1. PICK button \in Buttons : Release(button)
    BY <1>3
  <2>2. Tracked'
    BY <2>1, ReleaseTracks
  <2>3. CASE captured /\ SelectUp
    BY <2>2, <2>3, SelectUpSteady
  <2>4. CASE captured /\ ShapeUp
    BY <2>2, <2>4, ShapeUpSteady
  <2>5. CASE captured /\ PanUp
    BY <2>2, <2>5, SameSteady DEF PanUp, editing
  <2>6. CASE ~captured
    BY <2>1, <2>2, <2>6, SameSteady DEF Release, editing
  <2> QED
    BY <2>1, <2>3, <2>4, <2>5, <2>6 DEF Release
<1>4. CASE \E at \in Points : Move(at)
  <2>1. PICK at \in Points : Move(at)
    BY <1>4
  <2>2. at \in Int /\ UNCHANGED document
    BY <2>1, PointsAssumption DEF Move, editing
  <2> QED
    BY <2>1, <2>2, SameSteady, MoveTracks
<1>5. CASE \E tool \in Tools : SwitchTool(tool)
  <2>1. /\ UNCHANGED <<editing, captured, start>>
        /\ drag' = drag \/ drag' = NoDrag
        /\ drafts' = drafts
             \/ (active \in ShapeTools /\ drafts' = [drafts EXCEPT ![active] = NoDraft])
    BY <1>5 DEF SwitchTool, Leave
  <2> QED
    BY <2>1, SameSteady, DropTracks DEF editing
<1>6. CASE Escape
  <2>1. /\ UNCHANGED <<document, captured, start>>
        /\ drag' = drag
        /\ drafts' = drafts
             \/ (active \in ShapeTools /\ drafts' = [drafts EXCEPT ![active] = NoDraft])
    BY <1>6 DEF Escape, ghosts
  <2> QED
    BY <2>1, SameSteady, DropTracks
<1>7. CASE SelectAll
  <2>1. UNCHANGED <<document, captured, toolState, start>>
    BY <1>7 DEF SelectAll, ghosts
  <2> QED
    BY <2>1, SameSteady, DropTracks DEF toolState
<1>8. CASE Delete \/ \E locked \in BOOLEAN : Lock(locked)
  <2>1. UNCHANGED <<captured, toolState, start>>
    BY <1>8 DEF Delete, Lock, ghosts
  <2> QED
    BY <1>8, <2>1, EditSteady, DropTracks DEF toolState
<1>9. CASE Replace
  <2>1. drag' = NoDrag /\ drafts' = NoDrafts /\ start' = start
    BY <1>9 DEF Replace, ControllerReset
  <2>2. Tracked'
    BY <2>1, Zeros DEF Tracked
  <2> QED
    BY <1>9, <2>2, EditSteady
<1>10. CASE UNCHANGED vars
  <2>1. UNCHANGED <<document, captured, toolState, start>>
    BY <1>10 DEF vars, ghosts, editing
  <2> QED
    BY <2>1, SameSteady, DropTracks DEF toolState
<1> QED
  BY <1>1, <1>2, <1>3, <1>4, <1>5, <1>6, <1>7, <1>8, <1>9, <1>10 DEF Next

\* At the start nothing is drawn and nothing is pressed.
LEMMA InitMoves == Init => MInv
<1> SUFFICES ASSUME Init PROVE MInv
  OBVIOUS
<1>1. Proper(document)
  BY NewIsProper DEF Init
<1>2. Tracked
  BY Zeros DEF Init, Tracked
<1> QED
  BY <1>1, <1>2, InitInv DEF MInv

\* Objects are moved by the release of a captured pointer alone, all that were selected when it
\* was pressed, and each from there to the last point the tool saw.
THEOREM DragsMoveWhole == Spec => DragMovesWhole
<1> DEFINE Action ==
      \A id \in ObjectIds(document) :
        Displaced(id) =>
          /\ captured
          /\ id \in ToSet(start.ids)
          /\ ToSet(start.ids) \subseteq ObjectIds(document)
          /\ \A other \in ToSet(start.ids) :
               Object(document', other).x = Object(document, other).x + drag.last - start.at
<1>1. MInv /\ [Next]_vars => [Action]_vars
  <2> SUFFICES ASSUME MInv, [Next]_vars, NEW id \in ObjectIds(document), Displaced(id)
               PROVE  /\ captured
                      /\ id \in ToSet(start.ids)
                      /\ ToSet(start.ids) \subseteq ObjectIds(document)
                      /\ \A other \in ToSet(start.ids) :
                           Object(document', other).x
                             = Object(document, other).x + drag.last - start.at
    OBVIOUS
  <2>1. Steady
    BY StepMoves
  <2>2. WholeMove
    BY <2>1 DEF Steady, Still, Displaced
  <2>3. Moved(document, document', ToSet(start.ids), drag.last - start.at) /\ captured
    BY <2>2 DEF WholeMove
  <2>4. id \in ToSet(start.ids) /\ ToSet(start.ids) \subseteq ObjectIds(document)
    BY <2>3 DEF Moved, Displaced
  <2>5. ASSUME NEW other \in ToSet(start.ids)
        PROVE  Object(document', other).x = Object(document, other).x + drag.last - start.at
    <3>1. other \in ObjectIds(document)
      BY <2>4
    <3>2. PICK i \in 1 .. Len(document.objects) : document.objects[i].id = other
      BY <3>1, ObjectFound DEF MInv
    <3>3. Object(document, other) = document.objects[i] /\ document.objects \in Seq(ObjectType)
      BY <3>2, ObjectAt, DocumentIs DEF MInv, Proper, Objects
    <3>4. Object(document, other).x \in Int
      <4>1. document.objects[i] \in ObjectType
        BY <3>2, <3>3, ElementOfSeq
      <4> QED
        BY <3>3, <4>1 DEF ObjectType
    <3>5. start.at \in Int /\ drag.last \in Int
      BY DEF MInv, Tracked
    <3>6. Object(document', other).x = Object(document, other).x + (drag.last - start.at)
      BY <2>3 DEF Moved
    <3> QED
      BY <3>4, <3>5, <3>6
  <2> QED
    BY <2>3, <2>4, <2>5
<1>2. Spec => []MInv
  BY InitMoves, StepMoves, PTL DEF Spec
<1> QED
  BY <1>1, <1>2, PTL DEF Spec, DragMovesWhole
=============================================================================
