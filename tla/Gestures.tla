------------------------------ MODULE Gestures ------------------------------
(***************************************************************************)
(* Pointer gestures: what the buttons and the motion of the mouse become   *)
(* on their way through src/src/app/application_callbacks.c,               *)
(* src/src/tools/tool_input_dispatch.c, tool_runtime.c and the tools, and  *)
(* what keyboard, menus and dialogs may do to a gesture that is under way. *)
(*                                                                         *)
(* Editor takes a gesture for one state that the next release, tool or     *)
(* document ends.  Here are the parts it is made of, which need not agree: *)
(* the buttons that are held, the capture of the pointer, the state of     *)
(* every tool, and the preview that the workspace keeps for the canvas.    *)
(* The properties say how far they do agree, and that a gesture that has   *)
(* lost the pointer has no effect on the document, as Editor assumes.      *)
(*                                                                         *)
(* Every event carries the point of the world under the cursor.  Scrolling *)
(* moves the world, and events over panels are not passed on, so the next  *)
(* event may be at any point.  The document is changed by the commands of  *)
(* Commands; of the other edits, which may come at any time, there are     *)
(* those that take objects or locks away from a gesture.                   *)
(***************************************************************************)
EXTENDS Commands

CONSTANTS
  ShapeTools,  \* the tools of tool_shape.c
  Points,      \* bound: points of the world that events are at
  Reach,       \* bound: how far objects get from the origin
  MaxId        \* bound: object ids handed out

ASSUME ShapeToolsAssumption == ShapeTools \cap {"select", "pan"} = {}

ASSUME PointsAssumption == Points \subseteq Int

ASSUME MaxIdAssumption == MaxId \in Nat /\ MaxId + 1 < IdLimit

VARIABLES
  document,
  selection,   \* ids, in the order they were selected
  buttons,     \* ghost: the buttons that are held
  captured,    \* pointer_captured
  active,      \* the active tool
  drag,        \* SelectToolState
  drafts,      \* ShapeToolState of every shape tool; its overlay exists while it draws
  panning,     \* PanToolState
  preview,     \* selection_preview_active and selection_preview_delta
  doubled,     \* ghost: a button was pressed while another was held, ...
  orphaned,    \* ghost: ... and the document was replaced, since a press was accepted
  start        \* ghost: where that press was, and what was selected then

editing == <<document, selection>>

toolState == <<active, drag, drafts, panning, preview>>

ghosts == <<doubled, orphaned, start>>

vars == <<editing, buttons, captured, toolState, ghosts>>

Buttons == {"left", "right", "middle"}

Tools == {"select", "pan"} \union ShapeTools

NoPreview == [active |-> FALSE, delta |-> 0]

NoDrag == [dragging |-> FALSE, moved |-> FALSE, total |-> 0, last |-> 0, ids |-> << >>]

NoDraft == [drawing |-> FALSE, anchor |-> 0, current |-> 0]

NoDrafts == [tool \in ShapeTools |-> NoDraft]

Init ==
  /\ document = NewDocument
  /\ selection = << >>
  /\ buttons = {}
  /\ captured = FALSE
  /\ active = "select"
  /\ drag = NoDrag
  /\ drafts = NoDrafts
  /\ panning = FALSE
  /\ preview = NoPreview
  /\ doubled = FALSE
  /\ orphaned = FALSE
  /\ start = [at |-> 0, ids |-> << >>]

\* Bound on the coordinates.
Within(doc) == \A object \in ToSet(doc.objects) : object.x \in -Reach .. Reach

\* command_executor_execute, without its log.
Accepts(command) ==
  /\ Allowed(command, document)
  /\ Redoable(Filled(command, document), document)

Executed(command) == Redone(Filled(command, document), document)
-----------------------------------------------------------------------------
(* tool->pointer_down.  The tools refuse the buttons other than the left   *)
(* one and keep their state; what the refusal does is in Press.            *)

Hit(id, at) ==
  LET object == Object(document, id)
  IN  ~ObjectIsLocked(document, id) /\ at \in object.x .. (object.x + object.width)

SelectedByPress(id, shift) ==
  CASE ~shift -> <<id>>
    [] shift /\ id \in ToSet(selection) -> Remove(selection, id)
    [] OTHER -> Append(selection, id)

\* Mutant: the way of the drag before is not forgotten.
DragFromKept(at, ids) ==
  [dragging |-> TRUE, moved |-> FALSE, total |-> drag.total, last |-> at, ids |-> ids]

\* A drag keeps the ids that are selected when it starts.
DragFrom(at, ids) ==
  [dragging |-> TRUE, moved |-> FALSE, total |-> 0, last |-> at, ids |-> ids]

SelectDown(at, shift) ==
  /\ active = "select"
  /\ preview' = NoPreview
  /\ \/ \E id \in ObjectIds(document) :
          /\ Hit(id, at)
          /\ selection' = SelectedByPress(id, shift)
          /\ captured' = (id \in ToSet(selection'))
          /\ drag' = IF captured' THEN DragFrom(at, selection') ELSE NoDrag
     \/ /\ \A id \in ObjectIds(document) : ~Hit(id, at)
        /\ selection' = IF shift THEN selection ELSE << >>
        /\ captured' = FALSE
        /\ drag' = NoDrag
  /\ UNCHANGED <<document, active, drafts, panning>>

\* On a locked layer a draft that lost the pointer stays.
ShapeDown(at) ==
  /\ active \in ShapeTools
  /\ captured' = ~LayerIsLocked(document, document.active)
  /\ drafts' = IF captured'
               THEN [drafts EXCEPT ![active] = [drawing |-> TRUE, anchor |-> at, current |-> at]]
               ELSE drafts
  /\ UNCHANGED <<editing, active, drag, panning, preview>>

PanDown ==
  /\ active = "pan"
  /\ captured' = TRUE
  /\ panning' = TRUE
  /\ UNCHANGED <<editing, active, drag, drafts, preview>>
-----------------------------------------------------------------------------
(* mouse_button_callback *)

\* The user interface takes the press: a panel, a dialog, or the context menu, which a
\* right click opens and the next left click closes, capture or not.
PressOnInterface(button) ==
  /\ button \notin buttons
  /\ ~captured \/ button = "right"
  /\ buttons' = buttons \union {button}
  /\ doubled' = (doubled \/ buttons # {})
  /\ UNCHANGED <<editing, captured, toolState, orphaned, start>>

\* tool_controller_pointer_down: the pointer is captured by a press that is accepted, and
\* lost by one that is not.
Press(button, at) ==
  /\ button \notin buttons
  /\ buttons' = buttons \union {button}
  /\ IF button = "left"
     THEN PanDown \/ ShapeDown(at) \/ \E shift \in BOOLEAN : SelectDown(at, shift)
     ELSE captured' = FALSE /\ UNCHANGED <<editing, toolState>>
  /\ doubled' = (buttons # {} \/ (doubled /\ ~captured'))
  /\ orphaned' = (orphaned /\ preview'.active)
  /\ start' = IF captured' THEN [at |-> at, ids |-> selection'] ELSE start

\* Mutant: the state is left to the next press.
SelectUpKept ==
  LET command == MoveObjects(drag.ids, drag.total)
      moves   == drag.dragging /\ drag.moved /\ drag.total # 0
  IN  /\ active = "select"
      /\ document' = IF moves /\ Accepts(command) THEN Executed(command) ELSE document
      /\ Within(document')
      /\ preview' = NoPreview
      /\ UNCHANGED <<selection, active, drag, drafts, panning>>

\* select_tool_pointer_up; the preview goes whether or not the move was accepted.
SelectUp ==
  LET command == MoveObjects(drag.ids, drag.total)
      moves   == drag.dragging /\ drag.moved /\ drag.total # 0
  IN  /\ active = "select"
      /\ document' = IF moves /\ Accepts(command) THEN Executed(command) ELSE document
      /\ Within(document')
      /\ drag' = NoDrag
      /\ preview' = NoPreview
      /\ UNCHANGED <<selection, active, drafts, panning>>

Drawn(draft) ==
  [id |-> NoId, layer |-> DefaultLayer,
   x     |-> IF draft.anchor < draft.current THEN draft.anchor ELSE draft.current,
   width |-> IF draft.anchor < draft.current THEN draft.current - draft.anchor
                                             ELSE draft.anchor - draft.current]

\* shape_tool_pointer_up: a draft of a single point is dropped.
ShapeUp ==
  LET draft   == drafts[active]
      command == CreateObject(Drawn(draft))
  IN  /\ active \in ShapeTools
      /\ IF draft.drawing /\ draft.anchor # draft.current /\ Accepts(command)
         THEN /\ document.nextId <= MaxId
              /\ document' = Executed(command)
              /\ selection' = <<document.nextId>>
         ELSE UNCHANGED editing
      /\ drafts' = [drafts EXCEPT ![active] = NoDraft]
      /\ UNCHANGED <<active, drag, panning, preview>>

PanUp ==
  /\ active = "pan"
  /\ panning' = FALSE
  /\ UNCHANGED <<editing, active, drag, drafts, preview>>

\* tool_controller_pointer_up, for any button, while the pointer is captured.
Release(button) ==
  /\ button \in buttons
  /\ buttons' = buttons \ {button}
  /\ IF captured
     THEN SelectUp \/ ShapeUp \/ PanUp
     ELSE UNCHANGED <<editing, toolState>>
  /\ captured' = FALSE
  /\ orphaned' = (orphaned /\ preview'.active)
  /\ UNCHANGED <<doubled, start>>
-----------------------------------------------------------------------------
(* cursor_pos_callback: the active tool follows, captured or not *)

Move(at) ==
  /\ CASE active = "select" /\ drag.dragging /\ at # drag.last ->
            /\ drag' = [drag EXCEPT !.last = at, !.total = @ + at - drag.last, !.moved = TRUE]
            /\ preview' = [active |-> TRUE, delta |-> drag'.total]
            /\ UNCHANGED drafts
       [] active \in ShapeTools /\ drafts[active].drawing ->
            /\ drafts' = [drafts EXCEPT ![active].current = at]
            /\ UNCHANGED <<drag, preview>>
       [] OTHER -> UNCHANGED <<drag, drafts, preview>>
  /\ UNCHANGED <<editing, buttons, captured, active, panning, ghosts>>
-----------------------------------------------------------------------------
(* What else may happen in the middle of a gesture *)

\* Mutant: the preview stays on.
LeaveShowing ==
  /\ drag' = IF active = "select" THEN NoDrag ELSE drag
  /\ drafts' = IF active \in ShapeTools THEN [drafts EXCEPT ![active] = NoDraft] ELSE drafts
  /\ panning' = (panning /\ active # "pan")
  /\ UNCHANGED preview

\* Mutant: the tool that is left is not told.
LeaveForgotten == UNCHANGED <<drag, drafts, panning, preview>>

\* tool->deactivate of the active tool.
Leave ==
  /\ drag' = IF active = "select" THEN NoDrag ELSE drag
  /\ preview' = IF active = "select" THEN NoPreview ELSE preview
  /\ drafts' = IF active \in ShapeTools THEN [drafts EXCEPT ![active] = NoDraft] ELSE drafts
  /\ panning' = (panning /\ active # "pan")

\* tool_controller_set_active: the capture is left to the new tool.
SwitchTool(tool) ==
  /\ tool # active
  /\ active' = tool
  /\ Leave
  /\ orphaned' = (orphaned /\ preview'.active)
  /\ UNCHANGED <<editing, buttons, captured, doubled, start>>

\* Shape tools drop their draft and the pan tool stops; a drag loses the selection only.
Escape ==
  /\ selection' = IF active = "select" THEN << >> ELSE selection
  /\ drafts' = IF active \in ShapeTools THEN [drafts EXCEPT ![active] = NoDraft] ELSE drafts
  /\ panning' = FALSE
  /\ UNCHANGED <<document, buttons, captured, active, drag, preview, ghosts>>

Pruned(ids, doc) ==
  SelectSeq(ids, LAMBDA id : id \in ObjectIds(doc) /\ ~ObjectIsLocked(doc, id))

SelectAll ==
  /\ selection' = Pruned([i \in DOMAIN document.objects |-> document.objects[i].id], document)
  /\ UNCHANGED <<document, buttons, captured, toolState, ghosts>>

Delete ==
  LET command == DeleteSelection(document, Pruned(selection, document))
  IN  /\ Pruned(selection, document) # << >>
      /\ document' = Executed(command)
      /\ selection' = << >>
      /\ UNCHANGED <<buttons, captured, toolState, ghosts>>

Lock(locked) ==
  /\ Layer(document, DefaultLayer).locked # locked
  /\ document' = Executed(ChangeLayer(document, DefaultLayer, "locked", locked))
  /\ selection' = Pruned(selection, document')
  /\ UNCHANGED <<buttons, captured, toolState, ghosts>>

\* tool_controller_shutdown and tool_controller_init.
ControllerReset ==
  /\ active' = "select"
  /\ drag' = NoDrag
  /\ drafts' = NoDrafts
  /\ panning' = FALSE
  /\ captured' = FALSE

\* New, or Open: nobody resets the preview.
Replace ==
  /\ document' = NewDocument
  /\ selection' = << >>
  /\ ControllerReset
  /\ orphaned' = (orphaned \/ preview.active)
  /\ UNCHANGED <<buttons, preview, doubled, start>>
-----------------------------------------------------------------------------
Next ==
  \/ \E button \in Buttons :
       \/ PressOnInterface(button)
       \/ \E at \in Points : Press(button, at)
       \/ Release(button)
  \/ \E at \in Points : Move(at)
  \/ \E tool \in Tools : SwitchTool(tool)
  \/ Escape
  \/ SelectAll
  \/ Delete
  \/ \E locked \in BOOLEAN : Lock(locked)
  \/ Replace

Spec == Init /\ [][Next]_vars
-----------------------------------------------------------------------------
(* Properties *)

Busy(tool) ==
  CASE tool = "select" -> drag.dragging
    [] tool = "pan" -> panning
    [] OTHER -> drafts[tool].drawing

(***************************************************************************)
(* Only the active tool has anything under way, whatever tools were chosen *)
(* in the middle of a gesture.                                             *)
(***************************************************************************)
OnlyActiveIsBusy ==
  \A tool \in Tools : Busy(tool) => tool = active

(***************************************************************************)
(* The pointer is captured only while the left button is held; and when no *)
(* button is held, nothing is going on: no tool drags, draws or pans, and  *)
(* no preview is shown.  There are two ways out of that.  A second button  *)
(* that is pressed in the middle of a gesture takes the capture, the       *)
(* release is then ignored, and the tool follows the pointer until the     *)
(* next press; and a document that is replaced in the middle of a drag     *)
(* leaves the preview on.                                                  *)
(***************************************************************************)
QuietWhenReleased ==
  /\ captured => "left" \in buttons
  /\ buttons = {} /\ ~doubled =>
       /\ \A tool \in Tools : ~Busy(tool)
       /\ ~orphaned => ~preview.active

(***************************************************************************)
(* A preview is that of the drag under way and displaces by what its       *)
(* release would, unless the document was replaced under it.               *)
(***************************************************************************)
PreviewIsOfDrag ==
  preview.active /\ ~orphaned =>
    drag.dragging /\ drag.moved /\ preview.delta = drag.total

(***************************************************************************)
(* Objects are moved by the release of a captured pointer and by nothing   *)
(* else: all the objects that were selected when the pointer was pressed,  *)
(* whatever was selected, deleted or locked since, and each by the way     *)
(* from there to the last point the tool saw; or none of them.             *)
(***************************************************************************)
Displaced(id) ==
  /\ id \in ObjectIds(document')
  /\ Object(document', id).x # Object(document, id).x

DragMovesWhole ==
  [][\A id \in ObjectIds(document) :
       Displaced(id) =>
         /\ captured
         /\ id \in ToSet(start.ids)
         /\ ToSet(start.ids) \subseteq ObjectIds(document)
         /\ \A other \in ToSet(start.ids) :
              Object(document', other).x = Object(document, other).x + drag.last - start.at]_vars
=============================================================================
