-------------------------- MODULE DialogFlowProofs --------------------------
(***************************************************************************)
(* Theorems about DialogFlow, for any names of files and any number of     *)
(* edits: no unsaved work is lost without an answer, the loop ends only on *)
(* purpose, the question is not displaced, and its answer is carried out.  *)
(*                                                                         *)
(* What decides about the work is a part of the state, and every step      *)
(* changes that part in one of the seven ways of Effect; the invariants    *)
(* about it are proved once for each way and not for each action.          *)
(***************************************************************************)
EXTENDS DialogFlow, TLAPS

work == <<doc, disk, edits, shouldClose, closedAt, givenUp>>

\* No step leaves the loop unless the close flag is set.
StoppedAsAsked == phase = "stopped" => shouldClose

\* Before the press of the frame is used up, the view of the panels is right.
ViewIsFresh == phase = "panels" /\ ~clicked => shown = dialog.kind

(***************************************************************************)
(* Whenever the close flag is set, the loop may end: ClosedOnPurpose holds *)
(* already.                                                                *)
(***************************************************************************)
CloseJustified ==
  shouldClose => /\ closedAt <= edits
                 /\ \/ Safe(doc.content, disk)
                    \/ doc.content = givenUp
                    \/ doc.content > closedAt

\* A Save As that no frame has seen yet does not find its own kind remembered.
FieldIsDue == /\ shown = kindSnapshot
              /\ opened /\ dialog.kind = "saveas" => kindSnapshot # "saveas"

Inv == /\ TypeOK
       /\ CleanMatchesFile
       /\ CloseJustified
       /\ StoppedAsAsked
       /\ ViewIsFresh
       /\ FieldIsDue

Edited == /\ Edit
          /\ UNCHANGED <<disk, shouldClose, closedAt, givenUp>>

SavedTo(name) == /\ doc' = SavedAs(name)
                 /\ disk' = DiskWith(name)
                 /\ UNCHANGED <<edits, shouldClose, closedAt, givenUp>>

ActedClean(action) == /\ ~doc.dirty
                      /\ ExecuteAction(action, doc, disk)
                      /\ UNCHANGED <<disk, edits, givenUp>>

ActedSaved(action) == /\ disk' = DiskWith(DocumentPath)
                      /\ ExecuteAction(action, SavedAs(DocumentPath), disk')
                      /\ UNCHANGED <<edits, givenUp>>

ActedGivenUp(action) == /\ answer' = "discard"
                        /\ givenUp' = doc.content
                        /\ ExecuteAction(action, doc, disk)
                        /\ UNCHANGED <<disk, edits>>

CloseRefused == /\ shouldClose' = FALSE
                /\ UNCHANGED <<doc, disk, edits, closedAt, givenUp>>

CloseGranted == /\ ~doc.dirty
                /\ shouldClose' = TRUE
                /\ closedAt' = edits
                /\ UNCHANGED <<doc, disk, edits, givenUp>>

Effect == \/ UNCHANGED work
          \/ Edited
          \/ \E name \in GoodNames : SavedTo(name)
          \/ \E action \in Actions : \/ ActedClean(action)
                                     \/ ActedSaved(action)
                                     \/ ActedGivenUp(action)
          \/ CloseRefused
          \/ CloseGranted
-----------------------------------------------------------------------------
(* Lemmas about the calls *)

\* The path that Save writes to is the name of a file.
LEMMA PathIsGood == TypeOK => DocumentPath \in GoodNames
  BY NamesAssumption DEF TypeOK, DocumentPath

\* A save writes the content under its name and leaves the other files alone.
LEMMA SaveHolds ==
  ASSUME TypeOK, NEW name \in GoodNames
  PROVE  /\ DOMAIN DiskWith(name) = DOMAIN disk \union {name}
         /\ DOMAIN DiskWith(name) \subseteq GoodNames
         /\ DiskWith(name)[name] = doc.content
         /\ \A n \in DOMAIN DiskWith(name) : DiskWith(name)[n] \in 0..MaxEdits
         /\ SavedAs(name) = [content |-> doc.content, dirty |-> FALSE, path |-> name]
         /\ Safe(doc.content, DiskWith(name))
<1>1. DOMAIN DiskWith(name) = DOMAIN disk \union {name}
  BY DEF DiskWith
<1>2. \A n \in DOMAIN disk \union {name} :
        DiskWith(name)[n] = IF n = name THEN doc.content ELSE disk[n]
  BY DEF DiskWith
<1>3. DiskWith(name)[name] = doc.content
  BY <1>2
<1>4. DOMAIN DiskWith(name) \subseteq GoodNames
  BY <1>1 DEF TypeOK
<1>5. \A n \in DOMAIN DiskWith(name) : DiskWith(name)[n] \in 0..MaxEdits
  BY <1>1, <1>2 DEF TypeOK
<1>6. SavedAs(name) = [content |-> doc.content, dirty |-> FALSE, path |-> name]
  BY DEF TypeOK, SavedAs
<1>7. Safe(doc.content, DiskWith(name))
  BY <1>1, <1>3 DEF Safe
<1> QED
  BY <1>1, <1>3, <1>4, <1>5, <1>6, <1>7

\* A clean document is safe.
LEMMA CleanIsSafe == CleanMatchesFile /\ ~doc.dirty => Safe(doc.content, disk)
  BY DEF CleanMatchesFile, Safe

\* The fields of the document, with their types.
LEMMA DocTyped ==
  TypeOK => /\ doc.content \in 0..MaxEdits
            /\ doc.dirty \in BOOLEAN
            /\ doc.path \in GoodNames \union {NoName}
            /\ doc = [content |-> doc.content, dirty |-> doc.dirty, path |-> doc.path]
  BY DEF TypeOK

(***************************************************************************)
(* An action leaves the document it was given, or a new one, or one that a *)
(* file holds.                                                             *)
(***************************************************************************)
LEMMA ActionLeaves ==
  ASSUME NEW action, NEW from, NEW files, ExecuteAction(action, from, files)
  PROVE  /\ \/ doc' = from
            \/ doc' = NewDocument
            \/ \E name \in DOMAIN files :
                 doc' = [content |-> files[name], dirty |-> FALSE, path |-> name]
         /\ \/ UNCHANGED <<shouldClose, closedAt>>
            \/ shouldClose' = TRUE /\ closedAt' = edits /\ doc' = from
         /\ captured' \in {captured, FALSE}
  BY DEF ExecuteAction, OpenWithPicker
-----------------------------------------------------------------------------
(* Every step has one of the effects *)

\* Whatever the step, the work changes in one of the seven ways of Effect, or not.
LEMMA EveryEffect == TypeOK /\ [Next]_vars => Effect
<1> SUFFICES ASSUME TypeOK, [Next]_vars PROVE Effect
  OBVIOUS
<1> USE PathIsGood DEF work, ghosts, Effect
<1>request. ASSUME NEW action \in Actions, RequestAction(action) PROVE Effect
  BY <1>request DEF RequestAction, ActedClean
<1>save. ASSUME SaveDocument PROVE Effect
  BY <1>save DEF SaveDocument, Save, SavedTo
<1>yes. ASSUME AnswerSave PROVE Effect
  BY <1>yes DEF AnswerSave, ActedSaved, TypeOK
<1>no. ASSUME AnswerDiscard PROVE Effect
  BY <1>no DEF AnswerDiscard, ActedGivenUp, TypeOK
<1>dismiss. ASSUME AnswerDismiss PROVE Effect
  BY <1>dismiss DEF AnswerDismiss
<1>toggle. ASSUME ToggleShortcuts PROVE Effect
  BY <1>toggle DEF ToggleShortcuts
<1>1. CASE UNCHANGED vars
  BY <1>1 DEF vars
<1>2. CASE Loop
  BY <1>2 DEF Loop, BeginFrame, EndFrame, SkipFrame
<1>3. CASE ModalKey
  BY <1>3, <1>yes, <1>dismiss DEF ModalKey
<1>4. CASE DialogButton
  <2>1. ASSUME AnswerName PROVE Effect
    BY <2>1 DEF AnswerName, SavedTo
  <2> QED
    BY <1>4, <2>1, <1>yes, <1>no, <1>dismiss DEF DialogButton
<1>5. CASE GlobalKey
  <2>1. ASSUME Edit, UNCHANGED <<disk, captured, dialog, opened, shouldClose, ghosts>>
        PROVE  Effect
    BY <2>1 DEF Edited
  <2> QED
    BY <1>5, <2>1, <1>request, <1>save DEF GlobalKey, Actions
<1>6. CASE ShortcutsKey
  BY <1>6, <1>toggle DEF ShortcutsKey
<1>7. CASE WindowClose
  BY <1>7 DEF WindowClose, CloseRefused, CloseGranted
<1>8. CASE PointerPress
  BY <1>8 DEF PointerPress
<1>9. CASE PointerRelease
  BY <1>9 DEF PointerRelease, Edited
<1>10. CASE PanelEdit
  BY <1>10 DEF PanelEdit, Edited
<1>11. CASE MenuCommand
  <2>1. ASSUME SaveDocumentAs PROVE Effect
    BY <2>1 DEF SaveDocumentAs
  <2>2. ASSUME OpenAbout PROVE Effect
    BY <2>2 DEF OpenAbout
  <2> QED
    BY <1>11, <2>1, <2>2, <1>request, <1>save, <1>toggle DEF MenuCommand
<1>12. CASE TypeName
  BY <1>12 DEF TypeName
<1> QED
  BY <1>1, <1>2, <1>3, <1>4, <1>5, <1>6, <1>7, <1>8, <1>9, <1>10, <1>11, <1>12
     DEF Next, Silent
-----------------------------------------------------------------------------
(* The invariants, by effect *)

(***************************************************************************)
(* The document, the directory and the close flag keep their types, and    *)
(* the two invariants about the work are kept, whatever the effect.        *)
(***************************************************************************)
Typed == /\ doc \in [content : 0..MaxEdits, dirty : BOOLEAN, path : GoodNames \union {NoName}]
         /\ DOMAIN disk \subseteq GoodNames
         /\ \A name \in DOMAIN disk : disk[name] \in 0..MaxEdits
         /\ edits \in 0..MaxEdits
         /\ shouldClose \in BOOLEAN
         /\ givenUp \in 0..MaxEdits
         /\ closedAt \in 0..MaxEdits

Guarded == Typed /\ CleanMatchesFile /\ CloseJustified

\* A document that was loaded under its name, or is new, is clean and in its file.
LEMMA ActionGuards ==
  ASSUME Guarded, NEW action, NEW from,
         from \in [content : 0..MaxEdits, dirty : BOOLEAN, path : GoodNames \union {NoName}],
         DOMAIN disk' \subseteq GoodNames,
         \A name \in DOMAIN disk' : disk'[name] \in 0..MaxEdits,
         edits' = edits,
         givenUp' \in 0..MaxEdits,
         Safe(from.content, disk') \/ from.content = givenUp',
         ~from.dirty => \/ from.content = 0
                        \/ /\ from.path # NoName
                           /\ from.path \in DOMAIN disk'
                           /\ disk'[from.path] = from.content
                        \/ /\ from.path = NoName
                           /\ DefaultName \in DOMAIN disk'
                           /\ disk'[DefaultName] = from.content,
         ExecuteAction(action, from, disk')
  PROVE  Guarded'
<1>1. /\ NewDocument.content = 0
      /\ NewDocument \in [content : 0..MaxEdits, dirty : BOOLEAN, path : GoodNames \union {NoName}]
  BY NamesAssumption DEF NewDocument
<1>2. \/ UNCHANGED <<shouldClose, closedAt>>
      \/ shouldClose' = TRUE /\ closedAt' = edits
  BY ActionLeaves
<1>3. /\ shouldClose' => closedAt' <= edits'
      /\ shouldClose' \in BOOLEAN
      /\ closedAt' \in 0..MaxEdits
  <2>1. edits \in Nat /\ edits \in 0..MaxEdits /\ edits' = edits
    BY NamesAssumption DEF Guarded, Typed
  <2>2. CASE UNCHANGED <<shouldClose, closedAt>>
    BY <2>1, <2>2 DEF Guarded, Typed, CloseJustified
  <2>3. CASE shouldClose' = TRUE /\ closedAt' = edits
    BY <2>1, <2>3
  <2> QED
    BY <1>2, <2>2, <2>3
<1>4. CASE doc' = from
  <2>1. CleanMatchesFile'
    BY <1>4 DEF CleanMatchesFile, DocumentPath
  <2>2. CloseJustified'
    BY <1>3, <1>4 DEF CloseJustified
  <2> QED
    BY <1>3, <1>4, <2>1, <2>2 DEF Guarded, Typed
<1>5. CASE doc' = NewDocument
  <2>1. CleanMatchesFile' /\ Safe(doc.content, disk)'
    BY <1>1, <1>5 DEF CleanMatchesFile, Safe
  <2>2. CloseJustified'
    BY <1>3, <2>1 DEF CloseJustified
  <2> QED
    BY <1>1, <1>2, <1>5, <2>1, <2>2 DEF Guarded, Typed
<1>6. ASSUME NEW name \in DOMAIN disk',
             doc' = [content |-> disk'[name], dirty |-> FALSE, path |-> name]
      PROVE  Guarded'
  <2>1. name \in GoodNames /\ name # NoName
    BY NamesAssumption
  <2>2. doc'.content = disk'[name] /\ doc'.path = name
    BY <1>6
  <2>3. CleanMatchesFile' /\ Safe(doc.content, disk)'
    BY <2>1, <2>2 DEF CleanMatchesFile, DocumentPath, Safe
  <2>4. CloseJustified'
    BY <1>3, <2>3 DEF CloseJustified
  <2>5. doc' \in [content : 0..MaxEdits, dirty : BOOLEAN, path : GoodNames \union {NoName}]
    BY <1>6, <2>1
  <2> QED
    BY <1>3, <2>3, <2>4, <2>5 DEF Guarded, Typed
<1> QED
  BY <1>4, <1>5, <1>6, ActionLeaves

\* The invariants about the work are kept by every effect.
LEMMA EffectGuards == TypeOK /\ Guarded /\ Effect => Guarded'
<1> SUFFICES ASSUME TypeOK, Guarded, Effect PROVE Guarded'
  OBVIOUS
<1>1. CASE UNCHANGED work
  BY <1>1 DEF work, Guarded, Typed, CleanMatchesFile, DocumentPath, CloseJustified, Safe
<1>2. CASE Edited
  <2>1. /\ doc'.content = edits + 1
        /\ doc'.dirty = TRUE
        /\ edits' = edits + 1
        /\ edits < MaxEdits
        /\ doc' \in [content : 0..MaxEdits, dirty : BOOLEAN, path : GoodNames \union {NoName}]
    BY <1>2, DocTyped, NamesAssumption DEF Edited, Edit, Guarded, Typed
  <2>2. CleanMatchesFile'
    BY <2>1 DEF CleanMatchesFile
  <2>3. CloseJustified'
    BY <1>2, <2>1, NamesAssumption DEF Edited, Guarded, Typed, CloseJustified
  <2> QED
    BY <1>2, <2>1, <2>2, <2>3, NamesAssumption DEF Edited, Guarded, Typed
<1>3. ASSUME NEW name \in GoodNames, SavedTo(name) PROVE Guarded'
  <2>1. /\ doc' = [content |-> doc.content, dirty |-> FALSE, path |-> name]
        /\ name # NoName
        /\ doc.content \in 0..MaxEdits
    BY <1>3, SaveHolds, DocTyped, NamesAssumption DEF SavedTo
  <2>2. /\ DOMAIN disk' \subseteq GoodNames
        /\ name \in DOMAIN disk'
        /\ disk'[name] = doc.content
        /\ \A n \in DOMAIN disk' : disk'[n] \in 0..MaxEdits
        /\ Safe(doc'.content, disk')
    <3>1. disk' = DiskWith(name) /\ doc'.content = doc.content
      BY <1>3, <2>1 DEF SavedTo
    <3>2. name \in DOMAIN DiskWith(name)
      BY SaveHolds
    <3> QED
      BY <3>1, <3>2, SaveHolds
  <2>3. CleanMatchesFile'
    BY <2>1, <2>2 DEF CleanMatchesFile, DocumentPath
  <2>4. CloseJustified'
    BY <1>3, <2>2 DEF SavedTo, Guarded, CloseJustified
  <2> QED
    BY <1>3, <2>1, <2>2, <2>3, <2>4 DEF SavedTo, Guarded, Typed
<1>4. ASSUME NEW action \in Actions, ActedClean(action) PROVE Guarded'
  <2>1. disk' = disk /\ edits' = edits /\ givenUp' = givenUp
    BY <1>4 DEF ActedClean
  <2>2. Safe(doc.content, disk')
    BY <1>4, <2>1, CleanIsSafe DEF ActedClean, Guarded
  <2>3. ExecuteAction(action, doc, disk')
    BY <1>4, <2>1 DEF ActedClean
  <2> QED
    BY <2>1, <2>2, <2>3, ActionGuards DEF Guarded, Typed, CleanMatchesFile, DocumentPath
<1>5. ASSUME NEW action \in Actions, ActedSaved(action) PROVE Guarded'
  <2> DEFINE from == SavedAs(DocumentPath)
  <2>1. DocumentPath \in GoodNames /\ DocumentPath # NoName
    BY PathIsGood, NamesAssumption
  <2>2. /\ edits' = edits /\ givenUp' = givenUp
        /\ disk' = DiskWith(DocumentPath)
        /\ ExecuteAction(action, from, disk')
    BY <1>5 DEF ActedSaved
  <2>3. /\ from = [content |-> doc.content, dirty |-> FALSE, path |-> DocumentPath]
        /\ doc.content \in 0..MaxEdits
    BY <2>1, SaveHolds, DocTyped
  <2>4. /\ DOMAIN disk' \subseteq GoodNames
        /\ DocumentPath \in DOMAIN disk'
        /\ disk'[DocumentPath] = doc.content
        /\ \A n \in DOMAIN disk' : disk'[n] \in 0..MaxEdits
        /\ Safe(doc.content, disk')
    BY <2>1, <2>2, SaveHolds
  <2>5. /\ from.content = doc.content
        /\ from.path = DocumentPath
        /\ from \in [content : 0..MaxEdits, dirty : BOOLEAN, path : GoodNames \union {NoName}]
    BY <2>1, <2>3
  <2> HIDE DEF from
  <2> QED
    BY <2>1, <2>2, <2>4, <2>5, ActionGuards DEF Guarded, Typed
<1>6. ASSUME NEW action \in Actions, ActedGivenUp(action) PROVE Guarded'
  <2>1. /\ disk' = disk /\ edits' = edits
        /\ givenUp' = doc.content
        /\ givenUp' \in 0..MaxEdits
    BY <1>6, DocTyped DEF ActedGivenUp
  <2>2. ExecuteAction(action, doc, disk')
    BY <1>6, <2>1 DEF ActedGivenUp
  <2> QED
    BY <2>1, <2>2, ActionGuards DEF Guarded, Typed, CleanMatchesFile, DocumentPath
<1>7. CASE CloseRefused
  BY <1>7 DEF CloseRefused, Guarded, Typed, CleanMatchesFile, DocumentPath, CloseJustified
<1>8. CASE CloseGranted
  <2>1. Safe(doc.content, disk)
    BY <1>8, CleanIsSafe DEF CloseGranted, Guarded
  <2> QED
    BY <1>8, <2>1 DEF CloseGranted, Guarded, Typed, CleanMatchesFile, DocumentPath,
                      CloseJustified, Safe
<1> QED
  BY <1>1, <1>2, <1>3, <1>4, <1>5, <1>6, <1>7, <1>8 DEF Effect
-----------------------------------------------------------------------------
(* The invariants about the dialog and the frame, by action *)

InterfaceTyped ==
  /\ captured \in BOOLEAN
  /\ dialog \in [kind : Kinds, action : Actions \union {"none"}, text : Names \union {NoName}]
  /\ dialog.kind = "confirm" <=> dialog.action # "none"
  /\ phase \in {"events", "panels", "stopped"}
  /\ shown \in Kinds
  /\ kindSnapshot \in Kinds
  /\ field \in Names \union {NoName}
  /\ clicked \in BOOLEAN
  /\ answer \in {"none", "save", "discard", "dismiss", "name"}
  /\ opened \in BOOLEAN

Frame == InterfaceTyped /\ StoppedAsAsked /\ ViewIsFresh /\ FieldIsDue

\* What a call does to the dialog: it stays, it is closed, or another one opens.
DialogStep ==
  \/ UNCHANGED <<dialog, opened>>
  \/ dialog' = NoDialog /\ UNCHANGED opened
  \/ /\ opened' = TRUE
     /\ \/ \E action \in Actions : dialog' = [kind |-> "confirm", action |-> action, text |-> NoName]
        \/ \E kind \in {"shortcuts", "info"} :
             dialog' = [kind |-> kind, action |-> "none", text |-> NoName]
  \/ /\ \/ shown = "none" /\ opened' = TRUE
        \/ dialog.kind = "saveas" /\ opened' = opened
     /\ \E text \in Names \union {NoName} :
          dialog' = [kind |-> "saveas", action |-> "none", text |-> text]

\* A step within a half of the frame keeps the invariants.
LEMMA CallFrames ==
  ASSUME Inv, UNCHANGED <<phase, shown, kindSnapshot>>,
         phase # "stopped",
         captured' \in BOOLEAN,
         clicked' \in BOOLEAN,
         field' \in Names \union {NoName},
         answer' \in {"none", "save", "discard", "dismiss", "name"},
         \/ phase = "events"
         \/ clicked'
         \/ UNCHANGED <<clicked, dialog>>,
         DialogStep
  PROVE  Frame'
<1>1. /\ dialog' \in [kind : Kinds, action : Actions \union {"none"}, text : Names \union {NoName}]
      /\ dialog'.kind = "confirm" <=> dialog'.action # "none"
      /\ opened' \in BOOLEAN
      /\ opened' /\ dialog'.kind = "saveas" => shown = "none" \/ (opened /\ dialog.kind = "saveas")
  <2>1. CASE UNCHANGED <<dialog, opened>>
    BY <2>1 DEF Inv, TypeOK
  <2>2. CASE dialog' = NoDialog /\ UNCHANGED opened
    BY <2>2 DEF Inv, TypeOK, NoDialog, Kinds
  <2>3. ASSUME NEW action \in Actions, opened' = TRUE,
               dialog' = [kind |-> "confirm", action |-> action, text |-> NoName]
        PROVE  <1>1!:
    BY <2>3 DEF Kinds, Actions
  <2>4. ASSUME NEW kind \in {"shortcuts", "info"}, opened' = TRUE,
               dialog' = [kind |-> kind, action |-> "none", text |-> NoName]
        PROVE  <1>1!:
    BY <2>4 DEF Kinds
  <2>5. ASSUME NEW text \in Names \union {NoName},
               dialog' = [kind |-> "saveas", action |-> "none", text |-> text]
        PROVE  /\ shown = "none" /\ opened' = TRUE => <1>1!:
               /\ dialog.kind = "saveas" /\ opened' = opened => <1>1!:
    <3>1. /\ dialog' \in [kind : Kinds, action : Actions \union {"none"}, text : Names \union {NoName}]
          /\ dialog'.kind = "saveas" /\ dialog'.action = "none"
      BY <2>5 DEF Kinds
    <3>2. dialog'.kind = "confirm" <=> dialog'.action # "none"
      BY <3>1
    <3>3. ASSUME opened' = TRUE PROVE opened' \in BOOLEAN
      BY <3>3
    <3>4. ASSUME opened' = opened PROVE opened' \in BOOLEAN /\ (opened' => opened)
      BY <3>4 DEF Inv, TypeOK
    <3> QED
      BY <3>1, <3>2, <3>3, <3>4, Zenon
  <2> QED
    BY <2>1, <2>2, <2>3, <2>4, <2>5 DEF DialogStep
<1>2. InterfaceTyped'
  BY <1>1 DEF Inv, TypeOK, InterfaceTyped
<1>3. StoppedAsAsked'
  BY DEF StoppedAsAsked
<1>4. ViewIsFresh'
  BY DEF Inv, ViewIsFresh
<1>5. FieldIsDue'
  <2>1. shown' = kindSnapshot' /\ kindSnapshot' = kindSnapshot /\ shown = kindSnapshot
    BY DEF Inv, FieldIsDue
  <2>2. opened' /\ dialog'.kind = "saveas" => kindSnapshot # "saveas"
    BY <1>1, <2>1 DEF Inv, FieldIsDue
  <2> QED
    BY <2>1, <2>2 DEF FieldIsDue
<1> QED
  BY <1>2, <1>3, <1>4, <1>5 DEF Frame

\* The invariants about the dialog and the frame are kept by every step.
LEMMA EveryFrame == Inv /\ [Next]_vars => Frame'
<1> SUFFICES ASSUME Inv, [Next]_vars PROVE Frame'
  OBVIOUS
<1>typed. TypeOK
  BY DEF Inv
<1> USE DEF ghosts, ui
<1>request. ASSUME NEW action \in Actions, RequestAction(action)
            PROVE  captured' \in BOOLEAN /\ DialogStep
  BY <1>request, <1>typed, ActionLeaves DEF RequestAction, OpenDialog, DialogStep, TypeOK
<1>save. ASSUME SaveDocument PROVE captured' \in BOOLEAN /\ DialogStep
  BY <1>save, <1>typed DEF SaveDocument, DialogStep, TypeOK
<1>yes. ASSUME AnswerSave
        PROVE  captured' \in BOOLEAN /\ DialogStep /\ answer' = "save"
  BY <1>yes, <1>typed, ActionLeaves DEF AnswerSave, CloseDialog, DialogStep, TypeOK
<1>no. ASSUME AnswerDiscard
       PROVE  captured' \in BOOLEAN /\ DialogStep /\ answer' = "discard"
  BY <1>no, <1>typed, ActionLeaves DEF AnswerDiscard, CloseDialog, DialogStep, TypeOK
<1>dismiss. ASSUME AnswerDismiss
            PROVE  captured' \in BOOLEAN /\ DialogStep /\ answer' = "dismiss"
  BY <1>dismiss, <1>typed DEF AnswerDismiss, CloseDialog, DialogStep, TypeOK
<1>toggle. ASSUME ToggleShortcuts PROVE captured' \in BOOLEAN /\ DialogStep
  BY <1>toggle, <1>typed DEF ToggleShortcuts, CloseDialog, OpenDialog, DialogStep, TypeOK
<1>1. CASE UNCHANGED vars
  BY <1>1 DEF vars, Inv, TypeOK, Frame, InterfaceTyped, StoppedAsAsked, ViewIsFresh, FieldIsDue
<1>2. CASE Loop
  <2>1. UNCHANGED <<captured, dialog, shouldClose>> /\ answer' = "none"
    BY <1>2 DEF Loop, BeginFrame, EndFrame, SkipFrame
  <2>2. CASE BeginFrame
    <3>1. /\ phase' = "panels" /\ shown' = dialog.kind /\ kindSnapshot' = dialog.kind
          /\ clicked' = FALSE /\ opened' = FALSE /\ field' \in Names \union {NoName}
      BY <2>2, <1>typed DEF BeginFrame, TypeOK
    <3> QED
      BY <2>1, <3>1, <1>typed
         DEF Frame, InterfaceTyped, StoppedAsAsked, ViewIsFresh, FieldIsDue, TypeOK
  <2>3. ASSUME UNCHANGED <<opened, ui, clicked>>,
               phase' \in {"events", "stopped"}, phase' = "stopped" => shouldClose
        PROVE  Frame'
    BY <2>1, <2>3 DEF Inv, TypeOK, Frame, InterfaceTyped, StoppedAsAsked, ViewIsFresh, FieldIsDue
  <2>4. CASE EndFrame
    BY <2>3, <2>4 DEF EndFrame, LoopOr
  <2>5. CASE SkipFrame
    BY <2>3, <2>5 DEF SkipFrame
  <2> QED
    BY <1>2, <2>2, <2>4, <2>5 DEF Loop
<1>3. ASSUME InEvents, captured' \in BOOLEAN, DialogStep,
             answer' \in {"none", "save", "discard", "dismiss", "name"}
      PROVE  Frame'
  BY <1>3, <1>typed, CallFrames DEF InEvents, TypeOK
<1>4. ASSUME InPanels, Click, captured' \in BOOLEAN, DialogStep,
             answer' \in {"none", "save", "discard", "dismiss", "name"}
      PROVE  Frame'
  BY <1>4, <1>typed, CallFrames DEF InPanels, Click, TypeOK
<1>5. CASE ModalKey
  BY <1>3, <1>5, <1>yes, <1>dismiss DEF ModalKey
<1>6. CASE DialogButton
  <2>1. ASSUME AnswerName, InPanels
        PROVE  /\ captured' \in BOOLEAN /\ DialogStep
               /\ answer' \in {"name", "none"}
    <3>1. dialog = [kind |-> "saveas", action |-> "none", text |-> dialog.text]
      BY <2>1, <1>typed DEF AnswerName, TypeOK
    <3> QED
      BY <2>1, <3>1, <1>typed DEF AnswerName, CloseDialog, DialogStep, TypeOK
  <2> QED
    BY <1>4, <1>6, <2>1, <1>yes, <1>no, <1>dismiss DEF DialogButton
<1>7. CASE Silent
  <2>0. answer' = "none"
    BY <1>7 DEF Silent
  <2>1. CASE GlobalKey
    <3>1. ASSUME UNCHANGED <<captured, dialog, opened>>
          PROVE  captured' \in BOOLEAN /\ DialogStep
      BY <3>1, <1>typed DEF DialogStep, TypeOK
    <3> QED
      BY <2>0, <2>1, <3>1, <1>3, <1>request, <1>save DEF GlobalKey, Actions
  <2>2. CASE ShortcutsKey
    BY <2>0, <2>2, <1>3, <1>toggle DEF ShortcutsKey
  <2>3. CASE WindowClose
    <3>1. captured' \in BOOLEAN /\ DialogStep
      BY <2>3, <1>typed DEF WindowClose, OpenDialog, DialogStep, Actions, TypeOK
    <3> QED
      BY <2>0, <2>3, <3>1, <1>3 DEF WindowClose
  <2>4. CASE PointerPress
    BY <2>0, <2>4, <1>3 DEF PointerPress, DialogStep
  <2>5. CASE PointerRelease
    BY <2>0, <2>5, <1>3 DEF PointerRelease, DialogStep
  <2>6. CASE PanelEdit
    BY <2>0, <2>6, <1>typed, CallFrames DEF PanelEdit, InPanels, DialogStep, TypeOK
  <2>7. CASE TypeName
    BY <2>0, <2>7, <1>typed, CallFrames DEF TypeName, DialogStep, TypeOK
  <2>8. CASE MenuCommand
    <3>1. ASSUME SaveDocumentAs PROVE captured' \in BOOLEAN /\ DialogStep
      <4>1. DocumentPath \in Names \union {NoName}
        BY <1>typed, PathIsGood, NamesAssumption
      <4>2. shown = "none"
        BY <2>8 DEF MenuCommand
      <4> QED
        BY <3>1, <4>1, <4>2, <1>typed DEF SaveDocumentAs, OpenDialog, DialogStep, TypeOK
    <3>2. ASSUME OpenAbout PROVE captured' \in BOOLEAN /\ DialogStep
      BY <3>2, <1>typed DEF OpenAbout, OpenDialog, DialogStep, TypeOK
    <3> QED
      BY <2>0, <2>8, <3>1, <3>2, <1>4, <1>request, <1>save, <1>toggle DEF MenuCommand
  <2> QED
    BY <1>7, <2>1, <2>2, <2>3, <2>4, <2>5, <2>6, <2>7, <2>8 DEF Silent
<1> QED
  BY <1>1, <1>2, <1>5, <1>6, <1>7 DEF Next
-----------------------------------------------------------------------------
(* The invariant *)

\* The program starts with a new document, no dialog and an open window.
LEMMA Initial == Init => Inv
<1> SUFFICES ASSUME Init PROVE Inv
  OBVIOUS
<1>1. \A name \in DOMAIN disk : disk[name] \in 0..MaxEdits
  <2>1. PICK files \in SUBSET GoodNames : disk \in [files -> {0}]
    BY DEF Init
  <2> QED
    BY <2>1, NamesAssumption
<1>2. DOMAIN disk \subseteq GoodNames
  <2>1. PICK files \in SUBSET GoodNames : disk \in [files -> {0}]
    BY DEF Init
  <2> QED
    BY <2>1
<1>3. /\ doc = [content |-> 0, dirty |-> FALSE, path |-> DefaultName]
      /\ 0 \in 0..MaxEdits /\ MaxEdits \in 0..MaxEdits
  <2>1. doc = [NewDocument EXCEPT !.path = DefaultName]
    BY DEF Init
  <2>2. doc = [content |-> 0, dirty |-> FALSE, path |-> DefaultName]
    BY <2>1 DEF NewDocument
  <2> QED
    BY <2>2, NamesAssumption
<1>4. /\ dialog = [kind |-> "none", action |-> "none", text |-> NoName]
      /\ "none" \in Kinds
  BY DEF Init, NoDialog, Kinds
<1>5. TypeOK
  <2>1. doc \in [content : 0..MaxEdits, dirty : BOOLEAN, path : GoodNames \union {NoName}]
    BY <1>3, NamesAssumption
  <2>2. /\ dialog \in [kind : Kinds, action : Actions \union {"none"}, text : Names \union {NoName}]
        /\ dialog.kind = "confirm" <=> dialog.action # "none"
    BY <1>4
  <2>3. /\ edits \in 0..MaxEdits /\ givenUp \in 0..MaxEdits /\ closedAt \in 0..MaxEdits
        /\ captured \in BOOLEAN /\ shouldClose \in BOOLEAN
        /\ clicked \in BOOLEAN /\ opened \in BOOLEAN
    BY <1>3 DEF Init
  <2>4. /\ phase \in {"events", "panels", "stopped"}
        /\ shown \in Kinds /\ kindSnapshot \in Kinds
        /\ field \in Names \union {NoName}
        /\ answer \in {"none", "save", "discard", "dismiss", "name"}
    BY <1>4 DEF Init
  <2> QED
    BY <1>1, <1>2, <2>1, <2>2, <2>3, <2>4 DEF TypeOK
<1>6. CleanMatchesFile /\ CloseJustified
  BY <1>3 DEF Init, CleanMatchesFile, CloseJustified
<1>7. StoppedAsAsked /\ ViewIsFresh /\ FieldIsDue
  BY <1>4 DEF Init, StoppedAsAsked, ViewIsFresh, FieldIsDue
<1> QED
  BY <1>5, <1>6, <1>7 DEF Inv

\* The invariant is inductive.
LEMMA Kept == Inv /\ [Next]_vars => Inv'
<1> SUFFICES ASSUME Inv, [Next]_vars PROVE Inv'
  OBVIOUS
<1>1. TypeOK /\ Guarded
  BY DEF Inv, TypeOK, Guarded, Typed
<1>2. Guarded'
  BY <1>1, EveryEffect, EffectGuards
<1>3. Frame'
  BY EveryFrame
<1>4. TypeOK'
  BY <1>2, <1>3 DEF Guarded, Typed, Frame, InterfaceTyped, TypeOK
<1> QED
  BY <1>2, <1>3, <1>4 DEF Guarded, Frame, Inv

\* The invariant holds in every reachable state.
LEMMA AlwaysInv == Spec => []Inv
  BY Initial, Kept, PTL DEF Spec

(***************************************************************************)
(* The document, the directory, the dialog and the frame stay in their     *)
(* types; the payload of a dialog names an action only under the question. *)
(***************************************************************************)
THEOREM DialogTypeCorrect == Spec => []TypeOK
<1>1. Inv => TypeOK
  BY DEF Inv
<1> QED
  BY <1>1, AlwaysInv, PTL

\* What is not marked as changed is in the file that Save would write.
THEOREM CleanIsOnFile == Spec => []CleanMatchesFile
<1>1. Inv => CleanMatchesFile
  BY DEF Inv
<1> QED
  BY <1>1, AlwaysInv, PTL

(***************************************************************************)
(* The loop ends only when the work is in a file, was given up, or is an   *)
(* edit made after Exit was carried out.                                   *)
(***************************************************************************)
THEOREM ClosesOnPurpose == Spec => []ClosedOnPurpose
<1>1. Inv => ClosedOnPurpose
  BY DEF Inv, StoppedAsAsked, CloseJustified, ClosedOnPurpose
<1> QED
  BY <1>1, AlwaysInv, PTL
-----------------------------------------------------------------------------
(* What no step does *)

(***************************************************************************)
(* Another document takes the place of this one only when this one is in a *)
(* file or the user has just answered not to save it.                      *)
(***************************************************************************)
THEOREM WorkIsKept == Spec => WorkKept
<1> DEFINE Keeps == doc'.content # doc.content /\ edits' = edits
                      => Safe(doc.content, disk') \/ answer' = "discard"
<1>1. Inv /\ [Next]_vars => [Keeps]_vars
  <2> SUFFICES ASSUME Inv, [Next]_vars PROVE Keeps
    OBVIOUS
  <2>0. TypeOK /\ CleanMatchesFile
    BY DEF Inv
  <2>1. CASE UNCHANGED work
    BY <2>1 DEF work
  <2>2. CASE Edited
    BY <2>0, <2>2, NamesAssumption DEF Edited, Edit, TypeOK
  <2>3. ASSUME NEW name \in GoodNames, SavedTo(name) PROVE Keeps
    BY <2>0, <2>3, SaveHolds DEF SavedTo
  <2>4. ASSUME NEW action \in Actions, ActedClean(action) PROVE Keeps
    BY <2>0, <2>4, CleanIsSafe DEF ActedClean
  <2>5. ASSUME NEW action \in Actions, ActedSaved(action) PROVE Keeps
    <3>1. disk' = DiskWith(DocumentPath) /\ Safe(doc.content, DiskWith(DocumentPath))
      BY <2>0, <2>5, PathIsGood, SaveHolds DEF ActedSaved
    <3> QED
      BY <3>1
  <2>6. ASSUME NEW action \in Actions, ActedGivenUp(action) PROVE Keeps
    BY <2>6 DEF ActedGivenUp
  <2>7. CASE CloseRefused
    BY <2>7 DEF CloseRefused
  <2>8. CASE CloseGranted
    BY <2>8 DEF CloseGranted
  <2> HIDE DEF Keeps
  <2> QED
    BY <2>0, <2>1, <2>2, <2>3, <2>4, <2>5, <2>6, <2>7, <2>8, EveryEffect DEF Effect
<1> QED
  BY <1>1, AlwaysInv, PTL DEF Spec, WorkKept

\* Nothing but an answer removes the question about unsaved changes.
THEOREM QuestionIsAnswered == Spec => QuestionStands
<1> DEFINE Answered == dialog.kind = "confirm" /\ dialog' # dialog
                         => answer' \in {"save", "discard", "dismiss"}
<1>1. Inv /\ [Next]_vars => [Answered]_vars
  <2> SUFFICES ASSUME Inv, [Next]_vars, dialog.kind = "confirm", dialog' # dialog
               PROVE  answer' \in {"save", "discard", "dismiss"}
    OBVIOUS
  <2>1. Modal /\ dialog.kind \notin {"saveas", "shortcuts"}
    BY DEF Modal
  <2>2. ~Loop /\ ~UNCHANGED vars
    BY DEF Loop, BeginFrame, EndFrame, SkipFrame, vars
  <2>3. ~Silent
    <3>1. ~GlobalKey /\ ~ShortcutsKey /\ ~WindowClose
      BY <2>1 DEF GlobalKey, ShortcutsKey, ToggleShortcuts, WindowClose
    <3>2. ~PointerPress /\ ~PointerRelease /\ ~PanelEdit /\ ~TypeName
      BY DEF PointerPress, PointerRelease, PanelEdit, TypeName
    <3>3. ~MenuCommand
      BY <2>1 DEF MenuCommand, InPanels, Click, Inv, ViewIsFresh, Modal
    <3> QED
      BY <3>1, <3>2, <3>3 DEF Silent
  <2>4. AnswerSave \/ AnswerDiscard \/ AnswerDismiss
    BY <2>1, <2>2, <2>3 DEF Next, ModalKey, DialogButton, AnswerName
  <2> QED
    BY <2>4 DEF AnswerSave, AnswerDiscard, AnswerDismiss
<1> QED
  BY <1>1, AlwaysInv, PTL DEF Spec, QuestionStands

\* "Save" and "Don't Save" carry out the action that was put off.
THEOREM AnswerIsCarriedOut == Spec => AnswerActs
<1> DEFINE Acts == answer' \in {"save", "discard"} /\ dialog' # dialog
                     => \/ dialog.action = "open"
                        \/ dialog.action = "new" /\ doc' = NewDocument
                        \/ dialog.action = "exit" /\ shouldClose'
<1>1. [Next]_vars => [Acts]_vars
  <2> SUFFICES ASSUME [Next]_vars, ~UNCHANGED vars,
                      answer' \in {"save", "discard"}, dialog' # dialog
               PROVE  Acts
    OBVIOUS
  <2>1. ~Loop /\ ~Silent
    BY DEF Loop, Silent
  <2>2. AnswerSave \/ AnswerDiscard
    BY <2>1 DEF Next, ModalKey, DialogButton, AnswerName, AnswerDismiss
  <2> QED
    BY <2>2 DEF AnswerSave, AnswerDiscard, ExecuteAction
<1> QED
  BY <1>1, PTL DEF Spec, AnswerActs

\* A Save As proposes the document's name in the first frame that shows it.
THEOREM FieldIsFresh == Spec => FieldFresh
<1> DEFINE Fresh == phase = "events" /\ phase' = "panels" /\ opened /\ dialog.kind = "saveas"
                      => field' = dialog.text
<1>1. Inv /\ [Next]_vars => [Fresh]_vars
  <2> SUFFICES ASSUME Inv, [Next]_vars, phase = "events", phase' = "panels",
                      opened, dialog.kind = "saveas"
               PROVE  field' = dialog.text
    OBVIOUS
  <2>1. BeginFrame
    <3>1. ~ModalKey /\ ~DialogButton /\ ~UNCHANGED vars
      BY DEF ModalKey, DialogButton, InEvents, InPanels, vars
    <3>2. ~Silent
      BY DEF Silent, GlobalKey, ShortcutsKey, WindowClose, PointerPress, PointerRelease,
             PanelEdit, MenuCommand, TypeName, InEvents, InPanels
    <3> QED
      BY <3>1, <3>2 DEF Next, Loop, EndFrame, SkipFrame
  <2> QED
    BY <2>1 DEF BeginFrame, Inv, FieldIsDue
<1> QED
  BY <1>1, AlwaysInv, PTL DEF Spec, FieldFresh
=============================================================================
