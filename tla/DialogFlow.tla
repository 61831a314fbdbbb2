----------------------------- MODULE DialogFlow -----------------------------
(***************************************************************************)
(* What stands between a user's work and its loss: the question in front   *)
(* of New, Open and Exit, the other dialogs that share its place, Save As, *)
(* and the main loop that decides when the program ends.  From             *)
(* src/src/app/workspace_actions.c, workspace_dialogs.c,                   *)
(* workspace_dialog_commands.c, workspace_file_commands.c,                 *)
(* application_file_actions.c, application.c and the parts of the user     *)
(* interface and of the input router that let a call through.              *)
(*                                                                         *)
(* A frame has two halves.  First the window's events are delivered; they  *)
(* see the workspace as it is, except where they ask the user interface,   *)
(* which remembers the dialog of the frame before.  Then the panels are    *)
(* built from a view of the workspace taken once; their actions take       *)
(* effect at once, but what the panels offer is decided by that view.  A   *)
(* frame has one press of the mouse button for the panels; a field of the  *)
(* inspector may commit besides.                                           *)
(*                                                                         *)
(* A content is the number of the edit that made it, 0 when it is not the  *)
(* work of this session: a new document or a file that was there before.   *)
(* Every edit makes a new content and sets the dirty flag, as Editor shows *)
(* of the built-in tools and commands; scripts are left to Editor.  Native *)
(* file pickers block the program, so a call that uses one is one step.  A *)
(* refused call that changes nothing is a stuttering step.                 *)
(***************************************************************************)
EXTENDS Naturals

CONSTANTS
  Names,        \* what the name field may hold
  GoodNames,    \* those that are the name of a file
  DefaultName,  \* "document.json"
  NoName,       \* the empty string
  MaxEdits      \* bound: edits

ASSUME NamesAssumption ==
  /\ GoodNames \subseteq Names
  /\ DefaultName \in GoodNames
  /\ NoName \notin GoodNames
  /\ MaxEdits \in Nat

VARIABLES
  doc,           \* the document: its content, its dirty flag and its path
  disk,          \* the documents in the directory, by name
  edits,         \* edits made
  captured,      \* a tool holds the pointer
  dialog,        \* session.active_dialog
  shouldClose,   \* the window's close flag
  phase,         \* of the main loop: "events", "panels" or "stopped"
  shown,         \* the dialog of the view model, which modal_active repeats
  kindSnapshot,  \* ui->dialog_kind_snapshot
  field,         \* ui->dialog_input_buffer
  clicked,       \* the press of this frame is used up
  answer,        \* ghost: the answer the last step gave to a dialog
  opened,        \* ghost: the dialog is new since the last frame
  givenUp,       \* ghost: the content last answered with "Don't Save"
  closedAt       \* ghost: edits made when Exit was last executed

ui == <<shown, kindSnapshot, field>>

ghosts == <<givenUp, closedAt>>

vars == <<doc, disk, edits, captured, dialog, shouldClose, phase, ui, clicked,
          answer, opened, ghosts>>

Actions == {"new", "open", "exit"}

Kinds == {"none", "confirm", "shortcuts", "info", "saveas"}

NoDialog == [kind |-> "none", action |-> "none", text |-> NoName]

NewDocument == [content |-> 0, dirty |-> FALSE, path |-> NoName]

Modal == dialog.kind # "none"

\* workspace_service_document_path: a document without a path has the default one.
DocumentPath == IF doc.path = NoName THEN DefaultName ELSE doc.path

Init ==
  /\ disk \in UNION {[files -> {0}] : files \in SUBSET GoodNames}
  /\ doc = [NewDocument EXCEPT !.path = DefaultName]
  /\ edits = 0
  /\ captured = FALSE
  /\ dialog = NoDialog
  /\ shouldClose = FALSE
  /\ phase = "events"
  /\ shown = "none"
  /\ kindSnapshot = "none"
  /\ field = NoName
  /\ clicked = FALSE
  /\ answer = "none"
  /\ opened = FALSE
  /\ givenUp = 0
  /\ closedAt = MaxEdits
-----------------------------------------------------------------------------
(* The workspace: what the calls do *)

\* The document after an edit, which syncs the dirty flag.
Edit ==
  /\ edits < MaxEdits
  /\ edits' = edits + 1
  /\ doc' = [content |-> edits', dirty |-> TRUE, path |-> doc.path]

\* Mutant: the path stays.
SavedAsUnnamed(name) == [content |-> doc.content, dirty |-> FALSE, path |-> doc.path]


\* The file is replaced, then the document is clean and has that path.
SavedAs(name) == [content |-> doc.content, dirty |-> FALSE, path |-> name]

DiskWith(name) ==
  [n \in DOMAIN disk \union {name} |-> IF n = name THEN doc.content ELSE disk[n]]

Save == /\ disk' = DiskWith(DocumentPath)
        /\ doc' = SavedAs(DocumentPath)

\* The picker may be cancelled or fail, and so may the load: nothing changes.
OpenWithPicker(from, files) ==
  \/ /\ doc' = from
     /\ UNCHANGED captured
  \/ \E name \in DOMAIN files :
       /\ doc' = [content |-> files[name], dirty |-> FALSE, path |-> name]
       /\ captured' = FALSE

(***************************************************************************)
(* services.execute_action on the document from.  New and a load start the *)
(* tools again, which lets go of the pointer.                              *)
(***************************************************************************)
ExecuteAction(action, from, files) ==
  \/ /\ action = "new"
     /\ doc' = NewDocument
     /\ captured' = FALSE
     /\ UNCHANGED <<shouldClose, closedAt>>
  \/ /\ action = "open"
     /\ OpenWithPicker(from, files)
     /\ UNCHANGED <<shouldClose, closedAt>>
  \/ /\ action = "exit"
     /\ shouldClose' = TRUE
     /\ closedAt' = edits
     /\ doc' = from
     /\ UNCHANGED captured

OpenDialog(kind, action, text) ==
  /\ dialog' = [kind |-> kind, action |-> action, text |-> text]
  /\ opened' = TRUE

\* Mutant: the payload stays.
CloseDialogInPart == /\ dialog' = [dialog EXCEPT !.kind = "none"]
                     /\ UNCHANGED opened

CloseDialog == /\ dialog' = NoDialog
               /\ UNCHANGED opened

\* workspace_request_action, with no dialog up.
RequestAction(action) ==
  /\ ~Modal
  /\ IF doc.dirty
     THEN /\ OpenDialog("confirm", action, NoName)
          /\ UNCHANGED <<doc, captured, shouldClose, closedAt>>
     ELSE /\ ExecuteAction(action, doc, disk)
          /\ UNCHANGED <<dialog, opened>>
  /\ UNCHANGED <<disk, edits, givenUp>>

\* workspace_file_save_document; a save that fails changes nothing.
SaveDocument ==
  /\ Save
  /\ UNCHANGED <<edits, captured, dialog, opened, shouldClose, ghosts>>

\* workspace_file_save_document_as proposes the name of the document.
SaveDocumentAs ==
  /\ ~Modal
  /\ OpenDialog("saveas", "none", DocumentPath)
  /\ UNCHANGED <<doc, disk, edits, captured, shouldClose, ghosts>>

ToggleShortcuts ==
  /\ \/ /\ dialog.kind = "shortcuts"
        /\ CloseDialog
     \/ /\ ~Modal
        /\ OpenDialog("shortcuts", "none", NoName)
  /\ UNCHANGED <<doc, disk, edits, captured, shouldClose, ghosts>>

\* workspace_dialog_command_open_about does not look whether a dialog is up.
OpenAbout ==
  /\ OpenDialog("info", "none", NoName)
  /\ UNCHANGED <<doc, disk, edits, captured, shouldClose, ghosts>>
-----------------------------------------------------------------------------
(* The answers to a dialog: workspace_dialog_resolve *)

\* Mutant: the action does not wait for the save.
AnswerSaveRegardless ==
  /\ dialog.kind = "confirm"
  /\ answer' = "save"
  /\ disk' \in {disk, DiskWith(DocumentPath)}
  /\ CloseDialog
  /\ ExecuteAction(dialog.action, SavedAs(DocumentPath), disk')
  /\ UNCHANGED <<edits, givenUp>>


\* "Save": the action waits for a save that succeeds.
AnswerSave ==
  /\ dialog.kind = "confirm"
  /\ answer' = "save"
  /\ disk' = DiskWith(DocumentPath)
  /\ CloseDialog
  /\ ExecuteAction(dialog.action, SavedAs(DocumentPath), disk')
  /\ UNCHANGED <<edits, givenUp>>

\* Mutant: the payload is read after the dialog was closed.
AnswerDiscardClosed ==
  /\ dialog.kind = "confirm"
  /\ answer' = "discard"
  /\ givenUp' = doc.content
  /\ CloseDialog
  /\ ExecuteAction(dialog'.action, doc, disk) \/ UNCHANGED <<doc, captured, shouldClose, closedAt>>
  /\ UNCHANGED <<disk, edits>>


\* "Don't Save"
AnswerDiscard ==
  /\ dialog.kind = "confirm"
  /\ answer' = "discard"
  /\ givenUp' = doc.content
  /\ CloseDialog
  /\ ExecuteAction(dialog.action, doc, disk)
  /\ UNCHANGED <<disk, edits>>

\* "Cancel", "Close" and "OK"; the two help dialogs also take the default answer.
AnswerDismiss ==
  /\ Modal
  /\ answer' = "dismiss"
  /\ CloseDialog
  /\ UNCHANGED <<doc, disk, edits, captured, shouldClose, ghosts>>

(***************************************************************************)
(* "Save" of Save As, with the text of the name field: the dialog stays up *)
(* when the name is not good or the save fails.                            *)
(***************************************************************************)
AnswerName ==
  /\ dialog.kind = "saveas"
  /\ \/ /\ field \in GoodNames
        /\ answer' = "name"
        /\ disk' = DiskWith(field)
        /\ doc' = SavedAs(field)
        /\ CloseDialog
     \/ /\ answer' = "none"
        /\ dialog' = [dialog EXCEPT !.text = field]
        /\ UNCHANGED <<doc, disk, opened>>
  /\ UNCHANGED <<edits, captured, shouldClose, ghosts>>
-----------------------------------------------------------------------------
(* The first half of a frame: the events of the window *)

InEvents == /\ phase = "events"
            /\ UNCHANGED <<phase, ui, clicked>>

\* Keys in the scope of a dialog: Esc, Enter, and Shift+/ under ToggleShortcuts.
ModalKey == /\ InEvents
            /\ Modal
            /\ \/ AnswerDismiss
               \/ AnswerSave

\* Keys in the global scope.
GlobalKey ==
  /\ InEvents
  /\ ~Modal
  /\ \/ \E action \in {"new", "open"} : RequestAction(action)
     \/ SaveDocument
     \/ /\ Edit
        /\ UNCHANGED <<disk, captured, dialog, opened, shouldClose, ghosts>>

ShortcutsKey == /\ InEvents
                /\ ToggleShortcuts

\* Mutant: the flag that the platform set is not cleared.
WindowCloseAtOnce ==
  /\ InEvents
  /\ shouldClose' = TRUE
  /\ IF ~Modal /\ doc.dirty
     THEN OpenDialog("confirm", "exit", NoName)
     ELSE UNCHANGED <<dialog, opened>>
  /\ UNCHANGED <<doc, disk, edits, captured, ghosts>>


\* window_close_callback clears the flag and asks to exit.
WindowClose ==
  /\ InEvents
  /\ IF Modal \/ doc.dirty
     THEN shouldClose' = FALSE /\ UNCHANGED closedAt
     ELSE shouldClose' = TRUE /\ closedAt' = edits
  /\ IF ~Modal /\ doc.dirty
     THEN OpenDialog("confirm", "exit", NoName)
     ELSE UNCHANGED <<dialog, opened>>
  /\ UNCHANGED <<doc, disk, edits, captured, givenUp>>

\* A press on the canvas starts a gesture unless the panels block the pointer.
PointerPress ==
  /\ InEvents
  /\ ~captured
  /\ shown = "none"
  /\ captured' = TRUE
  /\ UNCHANGED <<doc, disk, edits, dialog, opened, shouldClose, ghosts>>

\* The gesture that holds the pointer ends, and may edit, dialog or not.
PointerRelease ==
  /\ InEvents
  /\ captured
  /\ captured' = FALSE
  /\ Edit \/ UNCHANGED <<doc, edits>>
  /\ UNCHANGED <<disk, dialog, opened, shouldClose, ghosts>>
-----------------------------------------------------------------------------
(* The second half: the panels *)

InPanels == /\ phase = "panels"
            /\ UNCHANGED <<phase, ui>>

PanelEdit ==
  /\ InPanels
  /\ shown = "none"
  /\ Edit
  /\ UNCHANGED <<clicked, disk, captured, dialog, opened, shouldClose, ghosts>>

Click == ~clicked /\ clicked' = TRUE

\* Mutant: the menu bar stays alive under a dialog.
MenuCommandUnderDialog ==
  /\ InPanels
  /\ Click
  /\ \/ \E action \in Actions : RequestAction(action)
     \/ SaveDocument
     \/ SaveDocumentAs
     \/ ToggleShortcuts
     \/ OpenAbout


\* The menu bar, which is not built under a dialog.
MenuCommand ==
  /\ InPanels
  /\ shown = "none"
  /\ Click
  /\ \/ \E action \in Actions : RequestAction(action)
     \/ SaveDocument
     \/ SaveDocumentAs
     \/ ToggleShortcuts
     \/ OpenAbout

DialogButton ==
  /\ InPanels
  /\ shown # "none"
  /\ Click
  /\ \/ AnswerSave
     \/ AnswerDiscard
     \/ AnswerDismiss
     \/ AnswerName

TypeName ==
  /\ phase = "panels"
  /\ shown = "saveas"
  /\ field' \in Names
  /\ UNCHANGED <<doc, disk, edits, captured, dialog, opened, shouldClose, ghosts,
                 phase, shown, kindSnapshot, clicked>>
-----------------------------------------------------------------------------
(* The main loop *)

\* Mutant: the loop also looks at the dirty flag.
LoopOrUnsaved(next) == IF shouldClose /\ ~doc.dirty THEN "stopped" ELSE next

LoopOr(next) == IF shouldClose THEN "stopped" ELSE next

\* Mutant: the kind seen last is kept when there is no dialog.
BeginFrameRemembering ==
  /\ phase = "events"
  /\ phase' = "panels"
  /\ shown' = dialog.kind
  /\ kindSnapshot' = IF Modal THEN dialog.kind ELSE kindSnapshot
  /\ field' = IF dialog.kind = "saveas" /\ kindSnapshot # "saveas"
              THEN dialog.text
              ELSE field
  /\ clicked' = FALSE
  /\ opened' = FALSE
  /\ UNCHANGED <<doc, disk, edits, captured, dialog, shouldClose, ghosts>>

(***************************************************************************)
(* The view of the workspace is taken.  The name field takes the text of   *)
(* Save As in the first frame of the dialog, which the interface tells by  *)
(* the kind of dialog it saw last.                                         *)
(***************************************************************************)
BeginFrame ==
  /\ phase = "events"
  /\ phase' = "panels"
  /\ shown' = dialog.kind
  /\ kindSnapshot' = dialog.kind
  /\ field' = IF dialog.kind = "saveas" /\ kindSnapshot # "saveas"
              THEN dialog.text
              ELSE field
  /\ clicked' = FALSE
  /\ opened' = FALSE
  /\ UNCHANGED <<doc, disk, edits, captured, dialog, shouldClose, ghosts>>

EndFrame ==
  /\ phase = "panels"
  /\ phase' = LoopOr("events")
  /\ UNCHANGED <<doc, disk, edits, captured, dialog, opened, shouldClose, ghosts, ui, clicked>>

\* A window without area is not drawn: the loop goes on to its condition.
SkipFrame ==
  /\ phase = "events"
  /\ shouldClose
  /\ phase' = "stopped"
  /\ UNCHANGED <<doc, disk, edits, captured, dialog, opened, shouldClose, ghosts, ui, clicked>>

Loop == /\ answer' = "none"
        /\ BeginFrame \/ EndFrame \/ SkipFrame

Silent == /\ answer' = "none"
          /\ \/ GlobalKey \/ ShortcutsKey \/ WindowClose
             \/ PointerPress \/ PointerRelease
             \/ PanelEdit \/ MenuCommand \/ TypeName

Next == Loop \/ Silent \/ ModalKey \/ DialogButton

Spec == Init /\ [][Next]_vars

(***************************************************************************)
(* The queue of events that one poll delivers is finite and the panels are *)
(* built once, so the loop always comes round.  Nothing is assumed of the  *)
(* user.                                                                   *)
(***************************************************************************)
FairSpec == Spec /\ WF_vars(Loop)
-----------------------------------------------------------------------------
(* Properties *)

TypeOK ==
  /\ doc \in [content : 0..MaxEdits, dirty : BOOLEAN, path : GoodNames \union {NoName}]
  /\ DOMAIN disk \subseteq GoodNames
  /\ \A name \in DOMAIN disk : disk[name] \in 0..MaxEdits
  /\ edits \in 0..MaxEdits
  /\ captured \in BOOLEAN
  /\ dialog \in [kind : Kinds, action : Actions \union {"none"}, text : Names \union {NoName}]
  /\ dialog.kind = "confirm" <=> dialog.action # "none"
  /\ shouldClose \in BOOLEAN
  /\ phase \in {"events", "panels", "stopped"}
  /\ shown \in Kinds
  /\ kindSnapshot \in Kinds
  /\ field \in Names \union {NoName}
  /\ clicked \in BOOLEAN
  /\ answer \in {"none", "save", "discard", "dismiss", "name"}
  /\ opened \in BOOLEAN
  /\ givenUp \in 0..MaxEdits
  /\ closedAt \in 0..MaxEdits

\* The content is not this session's work, or a file holds it.
Safe(content, files) ==
  content = 0 \/ \E name \in DOMAIN files : files[name] = content

(***************************************************************************)
(* What is not marked as changed is in the file that Save would write, or  *)
(* was never this session's work: workspace_mark_saved is called at the    *)
(* right moments and with the right path.                                  *)
(***************************************************************************)
CleanMatchesFile ==
  ~doc.dirty => \/ doc.content = 0
                \/ /\ DocumentPath \in DOMAIN disk
                   /\ disk[DocumentPath] = doc.content

(***************************************************************************)
(* New and Open replace only a document that a file holds or that the user *)
(* has just answered not to save: a save that fails, a dialog that was     *)
(* dismissed or a request under another dialog never costs the work.       *)
(***************************************************************************)
WorkKept ==
  [][doc'.content # doc.content /\ edits' = edits
       => Safe(doc.content, disk') \/ answer' = "discard"]_vars

(***************************************************************************)
(* When the loop ends, the document is held by a file or the user chose    *)
(* not to save this very content.  The exception is an edit made after     *)
(* Exit was carried out and before the loop looked at the close flag.      *)
(***************************************************************************)
ClosedOnPurpose ==
  phase = "stopped" => \/ Safe(doc.content, disk)
                       \/ doc.content = givenUp
                       \/ doc.content > closedAt

\* The question about unsaved changes goes away, or changes, only when it is
\* answered: no key, menu, close button or other dialog takes its place.
QuestionStands ==
  [][dialog.kind = "confirm" /\ dialog' # dialog
       => answer' \in {"save", "discard", "dismiss"}]_vars

(***************************************************************************)
(* "Save" and "Don't Save" carry out the action the question was about,    *)
(* which is kept in the payload that closing the dialog clears.  Open may  *)
(* end without a document.                                                 *)
(***************************************************************************)
AnswerActs ==
  [][answer' \in {"save", "discard"} /\ dialog' # dialog
       => \/ dialog.action = "open"
          \/ dialog.action = "new" /\ doc' = NewDocument
          \/ dialog.action = "exit" /\ shouldClose']_vars

\* The name field of a Save As that was opened since the last frame proposes
\* the document's name, and not what was typed into an earlier one.
FieldFresh ==
  [][phase = "events" /\ phase' = "panels" /\ opened /\ dialog.kind = "saveas"
       => field' = dialog.text]_vars

\* Once the close flag is set the loop ends, or a dialog is up because the
\* window was closed again and the request had to be put off.
ExitTakesEffect == shouldClose ~> (phase = "stopped" \/ Modal)
=============================================================================
