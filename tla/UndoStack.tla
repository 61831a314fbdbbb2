------------------------------ MODULE UndoStack ------------------------------
(***************************************************************************)
(* What an undo history promises its user, with no log, no command and no  *)
(* byte in sight: a line of document states and a position on it.  Undo    *)
(* and Redo walk the line one state at a time; an edit cuts off what lies  *)
(* ahead and adds a state, or, when it continues the previous edit,        *)
(* replaces the last state; the oldest states may be forgotten, but never  *)
(* the last step back.                                                     *)
(***************************************************************************)
EXTENDS Integers, Sequences

CONSTANTS Docs, InitialDoc

VARIABLES states, position

vars == <<states, position>>

Init ==
  /\ states = <<InitialDoc>>
  /\ position = 1

\* The line becomes s without its k oldest states, and the user is at its end.
ArriveAtEnd(s, k) ==
  /\ states' = SubSeq(s, k + 1, Len(s))
  /\ position' = Len(s) - k

Edit(doc) ==
  LET s == Append(SubSeq(states, 1, position), doc)
  IN  \E k \in 0 .. (Len(s) - 2) : ArriveAtEnd(s, k)

Continue(doc) ==
  /\ position > 1
  /\ LET s == Append(SubSeq(states, 1, position - 1), doc)
     IN  \E k \in 0 .. (Len(s) - 2) : ArriveAtEnd(s, k)

Undo ==
  /\ position > 1
  /\ position' = position - 1
  /\ UNCHANGED states

Redo ==
  /\ position < Len(states)
  /\ position' = position + 1
  /\ UNCHANGED states

Forget ==
  \E k \in 1 .. (position - 2) :
    /\ states' = SubSeq(states, k + 1, Len(states))
    /\ position' = position - k

Next ==
  \/ \E doc \in Docs : Edit(doc) \/ Continue(doc)
  \/ Undo
  \/ Redo
  \/ Forget

Spec == Init /\ [][Next]_vars
=============================================================================
