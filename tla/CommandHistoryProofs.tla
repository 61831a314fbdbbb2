------------------------ MODULE CommandHistoryProofs ------------------------
(***************************************************************************)
(* What TLAPS proves of the command executor, for all documents, keys,     *)
(* sizes, budgets and bounds: under every fault the types, the account of  *)
(* the bytes and the budget; under the clean ones the linear history, and  *)
(* that the executor implements UndoStack.                                 *)
(***************************************************************************)
EXTENDS CommandHistory, Induction, FiniteSetTheorems, SequenceTheorems, TLAPS
-----------------------------------------------------------------------------
(* The log operators *)

\* Pruning stops short of the last executed entry.
LEMMA PruneCountBound ==
  ASSUME NEW l, l.cursor \in Nat
  PROVE  /\ PruneCount(l) \in Nat
         /\ PruneCount(l) <= l.cursor
         /\ l.cursor > 0 => PruneCount(l) < l.cursor
<1> DEFINE Passes == {k \in 0 .. (l.cursor - 2) :
                        \A j \in 0 .. k : UsedAfterDropping(l, j) > l.budget}
<1>1. /\ IsFiniteSet(0 .. (l.cursor - 2))
      /\ Cardinality(0 .. (l.cursor - 2)) =
           IF 0 > l.cursor - 2 THEN 0 ELSE l.cursor - 1
  BY FS_Interval, SMTT(30)
<1>2. IsFiniteSet(Passes) /\ Cardinality(Passes) <= Cardinality(0 .. (l.cursor - 2))
  BY <1>1, FS_Subset
<1>3. Cardinality(Passes) \in Nat
  BY <1>2, FS_CardinalityType
<1>4. PruneCount(l) = Cardinality(Passes)
  BY DEF PruneCount
<1> QED
  BY <1>1, <1>2, <1>3, <1>4

\* The fields of a log that the history depends on.
LogFields == {"entries", "bytes", "cursor", "used", "undoCount",
              "redoCount", "capacity", "budget"}

Shaped(l) ==
  /\ DOMAIN l = LogFields
  /\ l.entries \in Seq(Command)
  /\ l.cursor \in 0 .. Len(l.entries)

\* A typed log has the fields and the sequences that the operators look at.
LEMMA TypedIsShaped ==
  ASSUME NEW l, LogTyped(l)
  PROVE  Shaped(l)
BY DEF LogTyped, Shaped, LogFields

\* Refreshing the counters makes any shaped log a typed one.
LEMMA Refreshed ==
  ASSUME NEW l, Shaped(l)
  PROVE  /\ LogTyped(RefreshCounts(l))
         /\ RefreshCounts(l).entries = l.entries
         /\ RefreshCounts(l).cursor = l.cursor
BY DEF Shaped, LogTyped, LogFields, RefreshCounts

\* Pruning drops the k oldest entries, all of them executed and never the last
\* executed one.
LEMMA Pruned ==
  ASSUME NEW l, Shaped(l)
  PROVE  \E k \in 0 .. l.cursor :
           /\ l.cursor > 0 => k < l.cursor
           /\ PruneBudget(l).entries = SubSeq(l.entries, k + 1, Len(l.entries))
           /\ PruneBudget(l).cursor = l.cursor - k
           /\ LogTyped(PruneBudget(l))
<1> DEFINE k == PruneCount(l)
           p == [l EXCEPT !.entries = SubSeq(@, k + 1, Len(@)),
                          !.bytes   = SubSeq(@, k + 1, Len(@)),
                          !.cursor  = @ - k,
                          !.used    = UsedAfterDropping(l, k)]
<1>1. k \in 0 .. l.cursor /\ (l.cursor > 0 => k < l.cursor)
  BY PruneCountBound DEF Shaped
<1>2. /\ p.entries = SubSeq(l.entries, k + 1, Len(l.entries))
      /\ p.cursor = l.cursor - k
      /\ DOMAIN p = LogFields
  <2> HIDE DEF k
  <2> QED BY DEF Shaped, LogFields
<1>3. /\ SubSeq(l.entries, k + 1, Len(l.entries)) \in Seq(Command)
      /\ Len(SubSeq(l.entries, k + 1, Len(l.entries))) = Len(l.entries) - k
  <2> HIDE DEF k
  <2> QED BY <1>1, SubSeqProperties DEF Shaped
<1>4. Shaped(p)
  <2> HIDE DEF k, p
  <2> QED BY <1>1, <1>2, <1>3 DEF Shaped
<1>5. PruneBudget(l) = RefreshCounts(p)
  BY DEF PruneBudget
<1> HIDE DEF k, p
<1> QED
  BY <1>1, <1>2, <1>4, <1>5, Refreshed

\* Reserving a slot and clearing the undone tail leaves the executed entries.
LEMMA Ready ==
  ASSUME NEW l, LogTyped(l)
  PROVE  /\ Shaped(ReadyToAppend(l))
         /\ ReadyToAppend(l).entries = SubSeq(l.entries, 1, l.cursor)
         /\ Len(ReadyToAppend(l).entries) = l.cursor
         /\ ReadyToAppend(l).cursor = l.cursor
<1> DEFINE r == Reserved(l)
           c == [r EXCEPT !.entries = SubSeq(@, 1, r.cursor),
                          !.bytes   = SubSeq(@, 1, r.cursor),
                          !.used    = @ - SumBytes(SubSeq(r.bytes, r.cursor + 1, Len(r.bytes)))]
<1>1. DOMAIN r = LogFields /\ r.entries = l.entries /\ r.cursor = l.cursor
  BY DEF Reserved, LogTyped, LogFields
<1> HIDE DEF r
<1>2. /\ DOMAIN c = LogFields
      /\ c.entries = SubSeq(l.entries, 1, l.cursor)
      /\ c.cursor = l.cursor
  BY <1>1 DEF LogFields
<1>3. /\ SubSeq(l.entries, 1, l.cursor) \in Seq(Command)
      /\ Len(SubSeq(l.entries, 1, l.cursor)) = l.cursor
  BY SubSeqProperties DEF LogTyped
<1>4. Shaped(c)
  BY <1>2, <1>3, SMTT(30) DEF Shaped, LogTyped
<1>5. ReadyToAppend(l) = RefreshCounts(c)
  BY DEF ReadyToAppend, ClearTail, r
<1> HIDE DEF c
<1> QED
  BY <1>2, <1>3, <1>4, <1>5, Refreshed, TypedIsShaped

\* What one append does to the log: the line s of executed entries, with the
\* command pushed or absorbed at its end, loses some of its oldest entries.
Appended(l, s) ==
  /\ LogTyped(l)
  /\ \E k \in 0 .. Len(s) - 1 : l.entries = SubSeq(s, k + 1, Len(s))
  /\ l.cursor = Len(l.entries)

\* Pruning a log whose cursor is at its end drops only its oldest entries.
LEMMA PrunedAtEnd ==
  ASSUME NEW l, Shaped(l), l.entries # << >>, l.cursor = Len(l.entries)
  PROVE  Appended(PruneBudget(l), l.entries)
<1> DEFINE s == l.entries
           q == PruneBudget(l)
<1>1. s \in Seq(Command) /\ Len(s) \in Nat /\ Len(s) > 0
  BY EmptySeq, LenProperties DEF Shaped
<1>2. PICK k \in 0 .. l.cursor :
        /\ l.cursor > 0 => k < l.cursor
        /\ q.entries = SubSeq(s, k + 1, Len(s))
        /\ q.cursor = l.cursor - k
        /\ LogTyped(q)
  BY Pruned
<1> HIDE DEF q
<1>3. k \in 0 .. Len(s) - 1
  BY <1>1, <1>2
<1>4. Len(SubSeq(s, k + 1, Len(s))) = Len(s) - k
  BY <1>1, <1>3, SubSeqProperties
<1>5. Appended(q, s)
  BY <1>2, <1>3, <1>4 DEF Appended
<1> QED
  BY <1>5 DEF q

\* Pushing a command appends it to the executed entries, whatever was undone.
LEMMA Pushed ==
  ASSUME NEW l, LogTyped(l), NEW command \in Command, NEW size
  PROVE  Appended(Push(l, command, size),
                  Append(SubSeq(l.entries, 1, l.cursor), command))
<1> DEFINE ready == ReadyToAppend(l)
           s == Append(SubSeq(l.entries, 1, l.cursor), command)
           p == [ready EXCEPT !.entries = Append(@, command),
                              !.bytes   = Append(@, size),
                              !.cursor  = @ + 1,
                              !.used    = @ + size]
           q == RefreshCounts(p)
<1>1. /\ Shaped(ready)
      /\ ready.entries = SubSeq(l.entries, 1, l.cursor)
      /\ Len(ready.entries) = l.cursor
      /\ ready.cursor = l.cursor
  BY Ready
<1> HIDE DEF ready
<1>2. DOMAIN p = LogFields /\ p.entries = s /\ p.cursor = l.cursor + 1
  BY <1>1 DEF Shaped, LogFields
<1>3. s \in Seq(Command) /\ Len(s) = l.cursor + 1 /\ s # << >>
  <2>1. ready.entries \in Seq(Command) /\ l.cursor \in Nat
    BY <1>1 DEF Shaped
  <2>2. /\ Append(ready.entries, command) \in Seq(Command)
        /\ Append(ready.entries, command) # << >>
        /\ Len(Append(ready.entries, command)) = Len(ready.entries) + 1
    BY <2>1, AppendProperties
  <2> QED
    BY <1>1, <2>2
<1>4. Shaped(p)
  BY <1>2, <1>3, <1>1 DEF Shaped
<1>5. Push(l, command, size) = PruneBudget(q)
  BY DEF Push, ready
<1> HIDE DEF p, s
<1>6. Shaped(q) /\ q.entries = s /\ q.cursor = Len(s)
  BY <1>2, <1>3, <1>4, Refreshed, TypedIsShaped
<1> HIDE DEF q
<1> QED
  BY <1>3, <1>5, <1>6, PrunedAtEnd DEF s

\* Absorbing a command replaces the last executed entry and discards what was undone.
LEMMA Absorbed ==
  ASSUME NEW l, LogTyped(l), l.cursor > 0, NEW absorbed \in Command, NEW size
  PROVE  Appended(Absorb(l, absorbed, size),
                  [SubSeq(l.entries, 1, l.cursor) EXCEPT ![l.cursor] = absorbed])
<1> DEFINE ready == ReadyToAppend(l)
           s == [SubSeq(l.entries, 1, l.cursor) EXCEPT ![l.cursor] = absorbed]
           p == [ready EXCEPT !.entries[l.cursor] = absorbed,
                              !.bytes[l.cursor]   = size,
                              !.used = @ + size - ready.bytes[l.cursor]]
<1>1. /\ Shaped(ready)
      /\ ready.entries = SubSeq(l.entries, 1, l.cursor)
      /\ Len(ready.entries) = l.cursor
      /\ ready.cursor = l.cursor
  BY Ready
<1>2. DOMAIN p = LogFields /\ p.entries = s /\ p.cursor = l.cursor
  <2> HIDE DEF ready
  <2> QED BY <1>1 DEF Shaped, LogFields
<1>3. s \in Seq(Command) /\ Len(s) = l.cursor /\ s # << >>
  BY <1>1, ExceptSeq DEF Shaped
<1>4. Shaped(p)
  BY <1>2, <1>3, <1>1 DEF Shaped
<1>5. Absorb(l, absorbed, size) = PruneBudget(p)
  BY DEF Absorb
<1> HIDE DEF p, s
<1> QED
  BY <1>2, <1>3, <1>4, <1>5, PrunedAtEnd DEF s
-----------------------------------------------------------------------------
(* Commands and the line of documents they make *)

\* A command starts on a document or a corrupt one, and ends on a document.
LEMMA CommandTyped ==
  ASSUME NEW command \in Command
  PROVE  /\ Len(command) \in Nat \ {0}
         /\ command[1] \in Edit /\ command[Len(command)] \in Edit
         /\ Before(command) \in Docs \union {Corrupt}
         /\ After(command) \in Docs
<1>1. command \in Seq(Edit) /\ Len(command) \in Nat \ {0}
  BY EmptySeq, LenProperties DEF Command
<1>2. command[1] \in Edit /\ command[Len(command)] \in Edit
  BY <1>1, ElementOfSeq
<1> QED
  BY <1>1, <1>2 DEF Before, After, Edit

\* The executed commands are entries of the log.
LEMMA LastExecuted ==
  ASSUME LogTyped(log), log.cursor > 0
  PROVE  log.entries[log.cursor] \in Command
BY ElementOfSeq DEF LogTyped

\* The next undone command is an entry of the log.
LEMMA FirstUndone ==
  ASSUME LogTyped(log), log.cursor < Len(log.entries)
  PROVE  log.entries[log.cursor + 1] \in Command
BY ElementOfSeq DEF LogTyped

\* A merge keeps what the first command started from and ends where the second
\* one does.
LEMMA MergedCommand ==
  ASSUME NEW previous \in Command, NEW command \in Command,
         Merges(previous, command)
  PROVE  /\ Merged(previous, command) \in Command
         /\ Before(Merged(previous, command)) = Before(previous)
         /\ After(Merged(previous, command)) = After(command)
         /\ Chained(Merged(previous, command))
<1> DEFINE edit == [previous[1] EXCEPT !.after = command[1].after]
<1>1. previous[1] \in Edit /\ command[1] \in Edit
  BY CommandTyped
<1>2. edit \in Edit /\ edit.before = previous[1].before /\ edit.after = command[1].after
  BY <1>1 DEF Edit
<1> HIDE DEF edit
<1>3. /\ <<edit>> \in Seq(Edit) /\ <<edit>> # << >>
      /\ Len(<<edit>>) = 1 /\ <<edit>>[1] = edit
  BY <1>2
<1>4. Merged(previous, command) = <<edit>>
  BY DEF Merged, edit
<1> QED
  BY <1>2, <1>3, <1>4 DEF Command, Before, After, Chained, Merges

\* Every command of the line s starts where the one before it ended.
Line(s) ==
  /\ \A i \in 1 .. Len(s) : Chained(s[i]) /\ Before(s[i]) \in Docs
  /\ \A i \in 2 .. Len(s) : After(s[i - 1]) = Before(s[i])

\* Forgetting the oldest commands of a line leaves a line.
LEMMA LineSuffix ==
  ASSUME NEW s \in Seq(Command), Line(s), NEW k \in 0 .. Len(s)
  PROVE  Line(SubSeq(s, k + 1, Len(s)))
<1> DEFINE t == SubSeq(s, k + 1, Len(s))
<1>1. /\ Len(s) \in Nat /\ Len(t) = Len(s) - k
      /\ \A i \in 1 .. Len(t) : t[i] = s[k + i]
  BY SubSeqProperties, LenProperties
<1> HIDE DEF t
<1>2. ASSUME NEW i \in 1 .. Len(t)
      PROVE  Chained(t[i]) /\ Before(t[i]) \in Docs
  <2>1. k + i \in 1 .. Len(s) /\ t[i] = s[k + i]
    BY <1>1
  <2> QED
    BY <2>1 DEF Line
<1>3. ASSUME NEW i \in 2 .. Len(t)
      PROVE  After(t[i - 1]) = Before(t[i])
  <2>1. t[i - 1] = s[k + i - 1] /\ t[i] = s[k + i]
    BY <1>1
  <2>2. k + i \in 2 .. Len(s)
    BY <1>1
  <2> QED
    BY <2>1, <2>2 DEF Line
<1> QED
  BY <1>2, <1>3 DEF Line, t

\* Discarding the newest commands of a line leaves a line.
LEMMA LinePrefix ==
  ASSUME NEW s \in Seq(Command), Line(s), NEW k \in 0 .. Len(s)
  PROVE  Line(SubSeq(s, 1, k))
<1> DEFINE t == SubSeq(s, 1, k)
<1>1. Len(s) \in Nat /\ Len(t) = k /\ \A i \in 1 .. Len(t) : t[i] = s[i]
  BY SubSeqProperties, LenProperties
<1> HIDE DEF t
<1>2. Line(t)
  BY <1>1, SMTT(30) DEF Line
<1> QED
  BY <1>2 DEF t

\* A chained command that starts where a line ends makes it longer by one.
LEMMA LineAppend ==
  ASSUME NEW s \in Seq(Command), Line(s), NEW command \in Command,
         Chained(command), Before(command) \in Docs,
         s # << >> => After(s[Len(s)]) = Before(command)
  PROVE  Line(Append(s, command))
<1> DEFINE t == Append(s, command)
<1>1. /\ Len(t) = Len(s) + 1 /\ t[Len(t)] = command
      /\ \A i \in 1 .. Len(s) : t[i] = s[i]
  BY AppendProperties, LenProperties
<1>2. Len(s) \in Nat /\ (Len(s) > 0 => s # << >>)
  BY LenProperties, EmptySeq
<1> HIDE DEF t
<1>3. Line(t)
  <2>1. ASSUME NEW i \in 1 .. Len(t)
        PROVE  Chained(t[i]) /\ Before(t[i]) \in Docs
    BY <1>1, <1>2, <2>1 DEF Line
  <2>2. ASSUME NEW i \in 2 .. Len(t)
        PROVE  After(t[i - 1]) = Before(t[i])
    BY <1>1, <1>2, <2>2 DEF Line
  <2> QED
    BY <2>1, <2>2 DEF Line
<1> QED
  BY <1>3 DEF t

\* A command with the same start may take the place of the last one of a line.
LEMMA LineReplaceLast ==
  ASSUME NEW s \in Seq(Command), Line(s), s # << >>, NEW command \in Command,
         Chained(command), Before(command) = Before(s[Len(s)])
  PROVE  Line([s EXCEPT ![Len(s)] = command])
<1> DEFINE t == [s EXCEPT ![Len(s)] = command]
<1>1. Len(s) \in Nat \ {0}
  BY LenProperties, EmptySeq
<1>2. /\ Len(t) = Len(s) /\ t[Len(s)] = command
      /\ \A i \in 1 .. (Len(s) - 1) : t[i] = s[i]
  BY <1>1, ExceptSeq, LenProperties
<1> HIDE DEF t
<1>3. Line(t)
  BY <1>1, <1>2 DEF Line
<1> QED
  BY <1>3 DEF t
-----------------------------------------------------------------------------
(* One append to the log *)

\* The line an append makes of the executed entries.
Extended(command) ==
  IF log.cursor > 0 /\ Merges(log.entries[log.cursor], command)
  THEN [SubSeq(log.entries, 1, log.cursor)
          EXCEPT ![log.cursor] = Merged(log.entries[log.cursor], command)]
  ELSE Append(SubSeq(log.entries, 1, log.cursor), command)

\* append_internal, whether it merges or pushes, leaves a suffix of that line.
LEMMA RecordedAppended ==
  ASSUME LogTyped(log), NEW command \in Command
  PROVE  Appended(Recorded(command), Extended(command))
<1>1. CASE log.cursor > 0 /\ Merges(log.entries[log.cursor], command)
  <2> DEFINE absorbed == Merged(log.entries[log.cursor], command)
  <2>1. absorbed \in Command
    BY <1>1, LastExecuted, MergedCommand
  <2>2. Recorded(command) = Absorb(log, absorbed, Measure(absorbed))
    BY <1>1 DEF Recorded
  <2> HIDE DEF absorbed
  <2>3. Appended(Absorb(log, absorbed, Measure(absorbed)),
                 [SubSeq(log.entries, 1, log.cursor) EXCEPT ![log.cursor] = absorbed])
    BY <1>1, <2>1, Absorbed
  <2> QED
    BY <1>1, <2>2, <2>3 DEF Extended, absorbed
<1>2. CASE ~(log.cursor > 0 /\ Merges(log.entries[log.cursor], command))
  <2>1. Recorded(command) = Push(log, command, Measure(command))
    BY <1>2 DEF Recorded
  <2>2. Extended(command) = Append(SubSeq(log.entries, 1, log.cursor), command)
    BY <1>2 DEF Extended
  <2> QED
    BY <2>1, <2>2, Pushed
<1> QED
  BY <1>1, <1>2

\* The line an append makes is one, and ends where the command does.
LEMMA ExtendedLine ==
  ASSUME LogTyped(log), Line(log.entries),
         NEW command \in Command, Chained(command), Before(command) \in Docs,
         log.cursor > 0 => After(log.entries[log.cursor]) = Before(command)
  PROVE  /\ Extended(command) \in Seq(Command)
         /\ Extended(command) # << >>
         /\ Line(Extended(command))
         /\ After(Extended(command)[Len(Extended(command))]) = After(command)
<1> DEFINE executed == SubSeq(log.entries, 1, log.cursor)
           s == Extended(command)
<1>1. /\ executed \in Seq(Command)
      /\ Len(executed) = log.cursor
      /\ log.cursor > 0 => executed[log.cursor] = log.entries[log.cursor]
      /\ log.cursor \in Nat
  BY SubSeqProperties DEF LogTyped
<1>2. Line(executed)
  BY LinePrefix DEF LogTyped
<1>3. /\ s \in Seq(Command)
      /\ s # << >>
      /\ Line(s)
      /\ After(s[Len(s)]) = After(command)
  <2>1. CASE log.cursor > 0 /\ Merges(log.entries[log.cursor], command)
    <3> DEFINE absorbed == Merged(log.entries[log.cursor], command)
    <3>1. /\ absorbed \in Command
          /\ Before(absorbed) = Before(log.entries[log.cursor])
          /\ After(absorbed) = After(command)
          /\ Chained(absorbed)
      BY <2>1, LastExecuted, MergedCommand
    <3>2. s = [executed EXCEPT ![Len(executed)] = absorbed]
      BY <1>1, <2>1 DEF Extended
    <3> HIDE DEF absorbed, executed, s
    <3>3. executed # << >>
      BY <1>1, <2>1, EmptySeq
    <3>4. Line(s)
      BY <1>1, <1>2, <2>1, <3>1, <3>2, <3>3, LineReplaceLast
    <3>5. /\ s \in Seq(Command) /\ Len(s) = Len(executed)
          /\ s[Len(s)] = absorbed /\ s # << >>
      BY <1>1, <2>1, <3>1, <3>2, ExceptSeq, EmptySeq
    <3> QED
      BY <3>1, <3>4, <3>5
  <2>2. CASE ~(log.cursor > 0 /\ Merges(log.entries[log.cursor], command))
    <3>1. s = Append(executed, command)
      BY <2>2 DEF Extended
    <3> HIDE DEF executed, s
    <3>2. executed # << >> => After(executed[Len(executed)]) = Before(command)
      BY <1>1, EmptySeq, LenProperties
    <3>3. Line(s)
      BY <1>1, <1>2, <3>1, <3>2, LineAppend
    <3> QED
      BY <1>1, <3>1, <3>3, AppendProperties
  <2> QED
    BY <2>1, <2>2
<1> QED
  BY <1>3

\* Appending a command made on the settled document keeps the log a line and
\* puts the cursor at the command's end.
LEMMA RecordedLine ==
  ASSUME LogTyped(log), Line(log.entries),
         NEW command \in Command, Chained(command), Before(command) \in Docs,
         log.cursor > 0 => After(log.entries[log.cursor]) = Before(command)
  PROVE  LET l == Recorded(command)
         IN  /\ Line(l.entries)
             /\ l.cursor = Len(l.entries)
             /\ l.cursor > 0
             /\ After(l.entries[l.cursor]) = After(command)
<1> DEFINE s == Extended(command)
           l == Recorded(command)
<1>1. /\ s \in Seq(Command)
      /\ s # << >>
      /\ Line(s)
      /\ After(s[Len(s)]) = After(command)
  BY ExtendedLine
<1>2. Appended(l, s)
  BY RecordedAppended
<1> HIDE DEF s, l
<1>3. PICK k \in 0 .. Len(s) - 1 : l.entries = SubSeq(s, k + 1, Len(s))
  BY <1>2 DEF Appended
<1>4. Len(s) \in Nat
  BY <1>1, LenProperties
<1>5. Line(l.entries)
  <2>1. k \in 0 .. Len(s)
    BY <1>3, <1>4
  <2> QED
    BY <1>1, <1>3, <2>1, LineSuffix
<1>6. /\ Len(l.entries) = Len(s) - k
      /\ l.entries[Len(s) - k] = s[Len(s)]
  BY <1>1, <1>3, <1>4, SubSeqProperties
<1>7. l.cursor = Len(l.entries) /\ l.cursor > 0
  BY <1>2, <1>3, <1>4, <1>6 DEF Appended
<1>8. After(l.entries[l.cursor]) = After(command)
  BY <1>1, <1>6, <1>7
<1> QED
  BY <1>5, <1>7, <1>8 DEF l
-----------------------------------------------------------------------------
(* Commands on the current document, and the open transaction *)

\* What a caller builds is one edit of the current document.
LEMMA NewCommandTyped ==
  ASSUME document \in Docs \union {Corrupt}, NEW command \in NewCommands
  PROVE  /\ command \in Command
         /\ Len(command) = 1
         /\ Before(command) = document
         /\ After(command) \in Docs
         /\ Chained(command)
<1>1. PICK edit \in [before : {document}, after : Docs,
                     key : Keys \union {NoMerge}, size : Sizes] : command = <<edit>>
  BY DEF NewCommands
<1>2. edit \in Edit /\ edit.before = document /\ edit.after \in Docs
  BY <1>1 DEF Edit
<1> QED
  BY <1>1, <1>2 DEF Command, Before, After, Chained

\* A single edit is undone to the document it was made on.
LEMMA TakenBackRestores ==
  ASSUME document \in Docs \union {Corrupt}, NEW command \in NewCommands,
         TakenBack(command)
  PROVE  /\ document' \in Docs \union {Corrupt}
         /\ "take_back" \notin Faults => document' = document
BY NewCommandTyped DEF TakenBack, Undone

\* A nonempty transaction is a command.
LEMMA TransactionIsCommand ==
  ASSUME transaction_commands \in Seq(Edit), transaction_commands # << >>
  PROVE  transaction_commands \in Command
BY DEF Command

\* The transaction after a further edit of the current document, merged with its
\* last edit or added behind it, still starts where it did, or with the edit.
LEMMA JoinedTransaction ==
  ASSUME document \in Docs \union {Corrupt},
         transaction_commands \in Seq(Edit),
         NEW command \in NewCommands
  PROVE  /\ Joined(command) \in Seq(Edit)
         /\ Joined(command) # << >>
         /\ After(Joined(command)) = After(command)
         /\ Before(Joined(command)) = IF transaction_commands = << >>
                                      THEN document
                                      ELSE Before(transaction_commands)
         /\ TransactionAtDocument => Chained(Joined(command))
<1> DEFINE last == Len(transaction_commands)
           s == Joined(command)
<1>1. /\ command \in Seq(Edit) /\ Len(command) = 1 /\ command[1] \in Edit
      /\ Before(command) = document
      /\ command[1].before = document
      /\ command[1].after = After(command)
  BY NewCommandTyped, CommandTyped DEF Command, Before, After
<1>2. last \in Nat /\ (last = 0 <=> transaction_commands = << >>)
  BY LenProperties, EmptySeq
<1>3. CASE last > 0 /\ Merges(<<transaction_commands[last]>>, command)
  <2>1. transaction_commands[last] \in Edit
    BY <1>2, <1>3, ElementOfSeq
  <2> DEFINE edit == [transaction_commands[last] EXCEPT !.after = After(command)]
  <2>2. /\ edit \in Edit
        /\ edit.after = After(command)
        /\ edit.before = transaction_commands[last].before
    BY <1>1, <2>1 DEF Edit
  <2>3. s = [transaction_commands EXCEPT ![last] = edit]
    BY <1>3 DEF Joined
  <2> HIDE DEF edit, s
  <2>4. /\ s \in Seq(Edit) /\ Len(s) = last /\ s # << >>
        /\ s[last] = edit
        /\ \A i \in 1 .. last - 1 : s[i] = transaction_commands[i]
    BY <1>2, <1>3, <2>2, <2>3, ExceptSeq, EmptySeq
  <2>5. After(s) = After(command) /\ Before(s) = Before(transaction_commands)
    BY <1>2, <1>3, <2>2, <2>4 DEF After, Before
  <2>6. ASSUME TransactionAtDocument
        PROVE  Chained(s)
    <3> SUFFICES ASSUME NEW i \in 2 .. last
                 PROVE  s[i - 1].after = s[i].before
      BY <2>4 DEF Chained
    <3>1. transaction_commands[i - 1].after = transaction_commands[i].before
      BY <2>6 DEF TransactionAtDocument, Chained
    <3>2. i - 1 \in 1 .. last - 1
      BY <1>2
    <3> QED
      BY <1>2, <2>2, <2>4, <3>1, <3>2
  <2> QED
    BY <1>2, <1>3, <2>4, <2>5, <2>6 DEF s
<1>4. CASE ~(last > 0 /\ Merges(<<transaction_commands[last]>>, command))
  <2>1. s = transaction_commands \o command
    BY <1>4 DEF Joined
  <2> HIDE DEF s
  <2>2. /\ s \in Seq(Edit) /\ Len(s) = last + 1
        /\ s[last + 1] = command[1]
        /\ \A i \in 1 .. last : s[i] = transaction_commands[i]
    BY <1>1, <1>2, <2>1, ConcatProperties, SMTT(30)
  <2>3. s # << >>
    BY <1>2, <2>2, EmptySeq
  <2>4. After(s) = After(command)
    BY <1>1, <2>2 DEF After
  <2>5. Before(s) = IF transaction_commands = << >>
                    THEN document
                    ELSE Before(transaction_commands)
    BY <1>1, <1>2, <2>2 DEF Before
  <2>6. ASSUME TransactionAtDocument
        PROVE  Chained(s)
    <3> SUFFICES ASSUME NEW i \in 2 .. last + 1
                 PROVE  s[i - 1].after = s[i].before
      BY <2>2 DEF Chained
    <3>1. CASE i = last + 1
      BY <1>1, <1>2, <2>2, <2>6, <3>1 DEF TransactionAtDocument, After
    <3>2. CASE i \in 2 .. last
      BY <1>2, <2>2, <2>6, <3>2 DEF TransactionAtDocument, Chained
    <3> QED
      BY <1>2, <3>1, <3>2
  <2> QED
    BY <2>2, <2>3, <2>4, <2>5, <2>6 DEF s
<1> QED
  BY <1>3, <1>4
-----------------------------------------------------------------------------
(* Types, under every fault *)

AnyDoc == Docs \union {Corrupt}

\* Undoing or redoing a command gives a document, real or corrupt.
LEMMA StepTyped ==
  ASSUME NEW command \in Command, NEW doc
  PROVE  Undone(command, doc) \in AnyDoc /\ Redone(command, doc) \in AnyDoc
BY CommandTyped DEF Undone, Redone, AnyDoc

\* The cursor steps keep a log typed.
LEMMA StepsTyped ==
  ASSUME NEW l, LogTyped(l)
  PROVE  /\ CanUndo(l) => /\ LogTyped(StepBack(l))
                          /\ StepBack(l).entries = l.entries
                          /\ StepBack(l).cursor = l.cursor - 1
         /\ CanRedo(l) => /\ LogTyped(StepForward(l))
                          /\ StepForward(l).entries = l.entries
                          /\ StepForward(l).cursor = l.cursor + 1
<1>1. ASSUME CanUndo(l)
      PROVE  /\ LogTyped(StepBack(l))
             /\ StepBack(l).entries = l.entries
             /\ StepBack(l).cursor = l.cursor - 1
  <2> DEFINE p == [l EXCEPT !.cursor = @ - 1]
  <2>1. /\ DOMAIN p = LogFields /\ p.entries = l.entries /\ p.cursor = l.cursor - 1
    BY DEF LogTyped, LogFields
  <2> HIDE DEF p
  <2>2. Shaped(p)
    BY <1>1, <2>1, LenProperties DEF Shaped, LogTyped, CanUndo
  <2>3. StepBack(l) = RefreshCounts(p)
    BY DEF StepBack, p
  <2> QED
    BY <2>1, <2>2, <2>3, Refreshed
<1>2. ASSUME CanRedo(l)
      PROVE  /\ LogTyped(StepForward(l))
             /\ StepForward(l).entries = l.entries
             /\ StepForward(l).cursor = l.cursor + 1
  <2> DEFINE p == [l EXCEPT !.cursor = @ + 1]
  <2>1. /\ DOMAIN p = LogFields /\ p.entries = l.entries /\ p.cursor = l.cursor + 1
    BY DEF LogTyped, LogFields
  <2> HIDE DEF p
  <2>2. Shaped(p)
    BY <1>2, <2>1, LenProperties DEF Shaped, LogTyped, CanRedo
  <2>3. StepForward(l) = RefreshCounts(p)
    BY DEF StepForward, p
  <2> QED
    BY <2>1, <2>2, <2>3, Refreshed
<1> QED
  BY <1>1, <1>2

\* A new budget prunes executed entries, and never the last executed one.
LEMMA BudgetPrunes ==
  ASSUME LogTyped(log), NEW budget
  PROVE  LET l == WithBudget(log, budget)
         IN  \E k \in 0 .. log.cursor :
               /\ log.cursor > 0 => k < log.cursor
               /\ l.entries = SubSeq(log.entries, k + 1, Len(log.entries))
               /\ l.cursor = log.cursor - k
               /\ LogTyped(l)
<1> DEFINE p == [log EXCEPT !.budget = budget]
<1>1. DOMAIN p = LogFields /\ p.entries = log.entries /\ p.cursor = log.cursor
  BY DEF LogTyped, LogFields
<1>2. WithBudget(log, budget) = PruneBudget(p)
  BY DEF WithBudget
<1> HIDE DEF p
<1>3. Shaped(p)
  BY <1>1 DEF Shaped, LogTyped
<1> QED
  BY <1>1, <1>2, <1>3, Pruned

\* Reserving a transaction slot yields a capacity.
LEMMA GrownTyped ==
  ASSUME NEW capacity \in Nat
  PROVE  Grown(capacity) \in Nat
BY CapacityAssumption DEF Grown

\* An executor starts with typed variables.
LEMMA InitTyped == Init => TypeOK
<1> SUFFICES ASSUME Init PROVE TypeOK
  OBVIOUS
<1>1. PICK budget \in Budgets : log = InitLog(budget)
  BY DEF Init
<1>2. LogTyped(log)
  BY <1>1 DEF InitLog, LogTyped
<1>3. document \in Docs \union {Corrupt}
  BY DocsAssumption DEF Init
<1>4. transaction_commands \in Seq(Edit)
  BY DEF Init
<1> QED
  BY <1>2, <1>3, <1>4 DEF Init, TypeOK

\* Every call keeps the variables typed, whatever fails.
LEMMA NextTyped == TypeOK /\ [Next]_vars => TypeOK'
<1> SUFFICES ASSUME TypeOK, [Next]_vars PROVE TypeOK'
  OBVIOUS
<1> USE DEF TypeOK, AnyDoc
<1>1. ASSUME NEW command \in NewCommands, Execute(command)
      PROVE  TypeOK'
  <2>1. command \in Command /\ After(command) \in Docs /\ Before(command) = document
    BY NewCommandTyped
  <2>2. CASE ExecuteLogged(command)
    BY <2>1, <2>2, RecordedAppended DEF ExecuteLogged, Appended, transaction
  <2>3. CASE ExecuteUnlogged(command)
    BY <2>3, TakenBackRestores DEF ExecuteUnlogged, transaction
  <2>4. CASE ExecuteInTransaction(command)
    BY <2>1, <2>4, JoinedTransaction, GrownTyped DEF ExecuteInTransaction
  <2>5. CASE ExecuteNotJoined(command)
    BY <2>5, TakenBackRestores DEF ExecuteNotJoined, transaction
  <2> QED
    BY <1>1, <2>2, <2>3, <2>4, <2>5 DEF Execute
<1>2. CASE ExecuteRefused
  BY <1>2 DEF ExecuteRefused, transaction
<1>3. CASE Undo
  <2>1. Undone(log.entries[log.cursor], document) \in AnyDoc
    BY <1>3, LastExecuted, StepTyped DEF Undo, CanUndo
  <2>2. LogTyped(StepBack(log))
    BY <1>3, StepsTyped DEF Undo
  <2> QED
    BY <1>3, <2>1, <2>2 DEF Undo, transaction
<1>4. CASE UndoFails
  <2>1. log.entries[log.cursor] \in Seq(Edit)
    BY <1>4, LastExecuted DEF UndoFails, CanUndo, Command
  <2>2. document' \in AnyDoc
    <3>1. CASE UNCHANGED document
      BY <3>1
    <3>2. ASSUME NEW i \in 2 .. Len(log.entries[log.cursor]),
                 document' = log.entries[log.cursor][i].before
          PROVE  document' \in AnyDoc
      <4>1. log.entries[log.cursor][i] \in Edit
        BY <2>1, ElementOfSeq, LenProperties
      <4> QED
        BY <3>2, <4>1 DEF Edit
    <3> QED
      BY <1>4, <3>1, <3>2 DEF UndoFails
  <2> QED
    BY <1>4, <2>2 DEF UndoFails, transaction
<1>5. CASE Redo
  <2>1. Redone(log.entries[log.cursor + 1], document) \in AnyDoc
    BY <1>5, FirstUndone, StepTyped DEF Redo, CanRedo
  <2>2. LogTyped(StepForward(log))
    BY <1>5, StepsTyped DEF Redo
  <2> QED
    BY <1>5, <2>1, <2>2 DEF Redo, transaction
<1>6. CASE RedoFails
  BY <1>6 DEF RedoFails, transaction
<1>7. CASE StepRefused
  BY <1>7 DEF StepRefused, transaction
<1>8. CASE BeginTransaction
  BY <1>8, EmptySeq DEF BeginTransaction
<1>9. CASE CommitTransaction
  <2>1. LogTyped(log')
    BY <1>9, TransactionIsCommand, RecordedAppended DEF CommitTransaction, Appended
  <2> QED
    BY <1>9, <2>1, EmptySeq DEF CommitTransaction, CloseTransaction
<1>10. CASE CommitFails
  BY <1>10, EmptySeq DEF CommitFails, CloseTransaction
<1>11. CASE RollbackTransaction
  <2>1. document' \in AnyDoc
    BY <1>11, TransactionIsCommand, StepTyped DEF RollbackTransaction
  <2> QED
    BY <1>11, <2>1, EmptySeq DEF RollbackTransaction, CloseTransaction
<1>12. CASE RollbackFails
  <2>1. PICK i \in DOMAIN transaction_commands :
          document' = IF i = 1
                      THEN transaction_commands[1].after
                      ELSE Undone(SubSeq(transaction_commands, 1, i - 1),
                                  transaction_commands[i].after)
    BY <1>12 DEF RollbackFails
  <2>2. i \in 1 .. Len(transaction_commands) /\ Len(transaction_commands) \in Nat
    BY <2>1, LenProperties
  <2>3. document' \in AnyDoc
    <3>1. CASE i = 1
      <4>1. transaction_commands[1] \in Edit
        BY <2>2, <3>1, ElementOfSeq
      <4> QED
        BY <2>1, <3>1, <4>1 DEF Edit
    <3>2. CASE i # 1
      <4>1. /\ SubSeq(transaction_commands, 1, i - 1) \in Seq(Edit)
            /\ Len(SubSeq(transaction_commands, 1, i - 1)) = i - 1
        BY <2>2, <3>2, SubSeqProperties
      <4>2. SubSeq(transaction_commands, 1, i - 1) \in Command
        BY <2>2, <3>2, <4>1, EmptySeq DEF Command
      <4> QED
        BY <2>1, <3>2, <4>2, StepTyped
    <3> QED
      BY <3>1, <3>2
  <2> QED
    BY <1>12, <2>3, EmptySeq DEF RollbackFails, CloseTransaction
<1>13. ASSUME NEW budget \in Budgets, SetMemoryBudget(budget)
       PROVE  TypeOK'
  BY <1>13, BudgetPrunes DEF SetMemoryBudget, transaction
<1>14. CASE UNCHANGED vars
  BY <1>14 DEF vars, transaction
<1> QED
  BY <1>1, <1>2, <1>3, <1>4, <1>5, <1>6, <1>7, <1>8, <1>9, <1>10, <1>11,
     <1>12, <1>13, <1>14 DEF Next

\* Types hold of every behaviour, with any set of faults.
THEOREM TypeCorrect == Spec => []TypeOK
BY InitTyped, NextTyped, PTL DEF Spec
-----------------------------------------------------------------------------
(* The linear history, when every failure is a clean one *)

\* The inductive invariant: the history is a line, and of real documents only.
History == TypeOK /\ LinearHistory /\ NeverCorrupt

\* The same, said of the log as a line.
OnLine ==
  /\ Line(log.entries)
  /\ DocumentAtCursor
  /\ TransactionAtDocument
  /\ document \in Docs
  /\ transaction_commands # << >> => Before(transaction_commands) \in Docs

\* For typed variables the two agree.
LEMMA HistoryLine == TypeOK => (History <=> OnLine)
<1> SUFFICES ASSUME TypeOK PROVE History <=> OnLine
  OBVIOUS
<1>1. DOMAIN log.entries = 1 .. Len(log.entries)
  BY LenProperties DEF TypeOK, LogTyped
<1>2. \A i \in DOMAIN log.entries :
        Before(log.entries[i]) \in Docs <=> Before(log.entries[i]) # Corrupt
  <2> SUFFICES ASSUME NEW i \in DOMAIN log.entries
               PROVE  Before(log.entries[i]) \in Docs <=> Before(log.entries[i]) # Corrupt
    OBVIOUS
  <2>1. log.entries[i] \in Command
    BY <1>1, ElementOfSeq DEF TypeOK, LogTyped
  <2> QED
    BY <2>1, CommandTyped, DocsAssumption
<1>3. document \in Docs <=> document # Corrupt
  BY DocsAssumption DEF TypeOK
<1>4. transaction_commands # << >> =>
        (Before(transaction_commands) \in Docs <=> Before(transaction_commands) # Corrupt)
  BY TransactionIsCommand, CommandTyped, DocsAssumption DEF TypeOK
<1> QED
  BY <1>1, <1>2, <1>3, <1>4
  DEF History, OnLine, LinearHistory, NeverCorrupt, EntriesChained,
      NeighboursChained, Line

\* An executor starts with an empty line.
LEMMA InitHistory == Init => History
<1> SUFFICES ASSUME Init PROVE History
  OBVIOUS
<1>1. TypeOK
  BY InitTyped
<1>2. log.entries = << >> /\ log.cursor = 0 /\ transaction_commands = << >>
  BY DEF Init, InitLog
<1>3. /\ Line(log.entries) /\ DocumentAtCursor /\ TransactionAtDocument
      /\ document \in Docs
  BY <1>2, DocsAssumption
  DEF Init, Line, DocumentAtCursor, TransactionAtDocument, Chained
<1> QED
  BY <1>1, <1>2, <1>3, HistoryLine DEF OnLine

\* Recording a command that starts at the settled document, and leaving no
\* transaction open, keeps the history.
LEMMA RecordKeepsHistory ==
  ASSUME History, TypeOK', NEW command \in Command,
         Chained(command), Before(command) \in Docs, Before(command) = Settled,
         log' = Recorded(command), document' = After(command),
         transaction_commands' = << >>
  PROVE  History'
<1> DEFINE l == Recorded(command)
<1>1. /\ LogTyped(log) /\ Line(log.entries)
      /\ log.cursor > 0 => After(log.entries[log.cursor]) = Before(command)
  BY HistoryLine DEF History, OnLine, TypeOK, DocumentAtCursor
<1>2. /\ Line(l.entries) /\ l.cursor = Len(l.entries)
      /\ After(l.entries[l.cursor]) = After(command)
  BY <1>1, RecordedLine
<1> HIDE DEF l
<1>3. log' = l
  BY DEF l
<1>4. Line(log.entries)'
  BY <1>2, <1>3 DEF Line, Chained, Before, After
<1>5. DocumentAtCursor'
  BY <1>2, <1>3 DEF DocumentAtCursor, Settled, Before, After
<1>6. TransactionAtDocument' /\ document' \in Docs
  BY CommandTyped DEF TransactionAtDocument, Chained
<1>7. OnLine'
  BY <1>4, <1>5, <1>6 DEF OnLine
<1> QED
  BY <1>7, HistoryLine, PTL

\* A call that leaves the log and the settled document as they were keeps the
\* history.
LEMMA UnchangedLogKeepsHistory ==
  ASSUME History, TypeOK', log' = log, Settled' = Settled,
         TransactionAtDocument', document' \in Docs,
         (transaction_commands # << >> => Before(transaction_commands) \in Docs)'
  PROVE  History'
<1>1. Line(log.entries) /\ DocumentAtCursor
  BY HistoryLine DEF History, OnLine
<1>2. Line(log.entries)'
  BY <1>1 DEF Line, Chained, Before, After
<1>3. DocumentAtCursor'
  BY <1>1 DEF DocumentAtCursor, After, Before
<1>4. OnLine'
  BY <1>2, <1>3 DEF OnLine
<1> QED
  BY <1>4, HistoryLine, PTL

\* A call that keeps the document, the log and the transaction keeps the history.
LEMMA NothingChanged ==
  ASSUME History, TypeOK', document' = document, log' = log,
         transaction_active' = transaction_active,
         transaction_commands' = transaction_commands
  PROVE  History'
<1>1. OnLine
  BY HistoryLine DEF History
<1>2. Settled' = Settled
  BY DEF Settled, Before
<1>3. TransactionAtDocument'
  BY <1>1 DEF OnLine, TransactionAtDocument, Chained, After
<1>4. /\ document' \in Docs
      /\ (transaction_commands # << >> => Before(transaction_commands) \in Docs)'
  BY <1>1 DEF OnLine, Before
<1> QED
  BY <1>2, <1>3, <1>4, UnchangedLogKeepsHistory

\* Undo and redo move the document along the line with the cursor.
LEMMA CursorKeepsHistory ==
  ASSUME History, TypeOK', Undo \/ Redo
  PROVE  History'
<1>1. /\ OnLine /\ LogTyped(log) /\ log.entries \in Seq(Command)
      /\ transaction_commands = << >>
      /\ transaction_commands' = << >>
  BY HistoryLine
  DEF History, OnLine, TypeOK, LogTyped, TransactionAtDocument, Undo, Redo, transaction
<1>2. Settled = document /\ Settled' = document'
  BY <1>1 DEF Settled
<1>3. Len(log.entries) \in Nat /\ log.cursor \in 0 .. Len(log.entries)
  BY <1>1, LenProperties DEF LogTyped
<1>4. CASE Undo
  <2> DEFINE command == log.entries[log.cursor]
  <2>1. log.cursor > 0 /\ log.cursor \in 1 .. Len(log.entries)
    BY <1>3, <1>4 DEF Undo, CanUndo
  <2>2. Chained(command) /\ Before(command) \in Docs /\ document = After(command)
    BY <1>1, <1>2, <2>1 DEF OnLine, Line, DocumentAtCursor
  <2>3. document' = Before(command)
    BY <1>4, <2>2 DEF Undo, Undone
  <2>4. log'.entries = log.entries /\ log'.cursor = log.cursor - 1
    BY <1>1, <1>4, StepsTyped DEF Undo
  <2>5. log.cursor > 1 => After(log.entries[log.cursor - 1]) = Before(command)
    BY <1>1, <1>3, <2>1 DEF OnLine, Line
  <2>6. DocumentAtCursor'
    <3>1. log'.cursor > 0 => document' = After(log.entries[log'.cursor])
      BY <1>3, <2>1, <2>3, <2>4, <2>5
    <3>2. log.entries[log'.cursor + 1] = command
      BY <1>3, <2>4
    <3> QED
      BY <1>2, <2>3, <2>4, <3>1, <3>2 DEF DocumentAtCursor, After, Before
  <2>7. Line(log.entries)'
    BY <1>1, <2>4 DEF OnLine, Line, Chained, Before, After
  <2>8. OnLine'
    BY <1>1, <2>2, <2>3, <2>6, <2>7 DEF OnLine, TransactionAtDocument, Chained
  <2> QED
    BY <2>8, HistoryLine, PTL
<1>5. CASE Redo
  <2> DEFINE command == log.entries[log.cursor + 1]
  <2>1. log.cursor < Len(log.entries) /\ log.cursor + 1 \in 1 .. Len(log.entries)
    BY <1>3, <1>5 DEF Redo, CanRedo
  <2>2. Chained(command) /\ command \in Command /\ document = Before(command)
    BY <1>1, <1>2, <2>1, FirstUndone DEF OnLine, Line, DocumentAtCursor
  <2>3. document' = After(command) /\ document' \in Docs
    BY <1>5, <2>2, CommandTyped DEF Redo, Redone
  <2>4. log'.entries = log.entries /\ log'.cursor = log.cursor + 1
    BY <1>1, <1>5, StepsTyped DEF Redo
  <2>5. log.cursor + 1 < Len(log.entries) =>
          Before(log.entries[log.cursor + 2]) = After(command)
    <3> SUFFICES ASSUME log.cursor + 1 < Len(log.entries)
                 PROVE  Before(log.entries[log.cursor + 2]) = After(command)
      OBVIOUS
    <3>1. PICK i \in 2 .. Len(log.entries) : i = log.cursor + 2 /\ i - 1 = log.cursor + 1
      BY <1>3
    <3>2. After(log.entries[i - 1]) = Before(log.entries[i])
      BY <1>1 DEF OnLine, Line
    <3> QED
      BY <3>1, <3>2
  <2>6. DocumentAtCursor'
    <3>1. document' = After(log.entries[log'.cursor])
      BY <2>3, <2>4
    <3>2. log'.cursor < Len(log.entries) =>
            document' = Before(log.entries[log'.cursor + 1])
      BY <1>3, <2>3, <2>4, <2>5
    <3> QED
      BY <1>2, <2>4, <3>1, <3>2 DEF DocumentAtCursor, After, Before
  <2>7. Line(log.entries)'
    BY <1>1, <2>4 DEF OnLine, Line, Chained, Before, After
  <2>8. OnLine'
    BY <1>1, <2>3, <2>6, <2>7 DEF OnLine, TransactionAtDocument, Chained
  <2> QED
    BY <2>8, HistoryLine, PTL
<1> QED
  BY <1>4, <1>5

\* A smaller budget forgets the start of the line and nothing else.
LEMMA BudgetKeepsHistory ==
  ASSUME History, TypeOK', NEW budget \in Budgets, SetMemoryBudget(budget)
  PROVE  History'
<1>1. /\ OnLine /\ LogTyped(log) /\ log.entries \in Seq(Command)
      /\ Len(log.entries) \in Nat /\ log.cursor \in 0 .. Len(log.entries)
  BY HistoryLine, LenProperties DEF History, TypeOK, LogTyped
<1>2. PICK k \in 0 .. log.cursor :
        /\ log.cursor > 0 => k < log.cursor
        /\ log'.entries = SubSeq(log.entries, k + 1, Len(log.entries))
        /\ log'.cursor = log.cursor - k
  BY <1>1, BudgetPrunes DEF SetMemoryBudget
<1>3. k \in 0 .. Len(log.entries)
  BY <1>1, <1>2
<1> DEFINE s == SubSeq(log.entries, k + 1, Len(log.entries))
<1>4. Line(s)
  BY <1>1, <1>3, LineSuffix DEF OnLine
<1>5. /\ Len(s) = Len(log.entries) - k
      /\ \A i \in 1 .. Len(s) : s[i] = log.entries[k + i]
  BY <1>1, <1>3, SubSeqProperties, SMTT(30)
<1> HIDE DEF s
<1>6. log'.entries = s /\ log'.cursor = log.cursor - k
  BY <1>2 DEF s
<1>7. Line(log.entries)'
  BY <1>4, <1>6 DEF Line, Chained, Before, After
<1>8. Settled' = Settled
  BY DEF Settled, SetMemoryBudget, transaction, Before
<1>9. DocumentAtCursor'
  <2>1. ASSUME log'.cursor > 0
        PROVE  Settled = After(s[log'.cursor])
    <3>1. s[log'.cursor] = log.entries[log.cursor]
      BY <1>1, <1>2, <1>5, <1>6, <2>1, SMTT(30)
    <3>2. log.cursor > 0
      BY <1>1, <1>2, <1>6, <2>1
    <3> QED
      BY <1>1, <3>1, <3>2 DEF OnLine, DocumentAtCursor
  <2>2. ASSUME log'.cursor < Len(s)
        PROVE  Settled = Before(s[log'.cursor + 1])
    <3>1. s[log'.cursor + 1] = log.entries[log.cursor + 1]
      <4>1. log'.cursor + 1 \in 1 .. Len(s) /\ k + (log'.cursor + 1) = log.cursor + 1
        BY <1>1, <1>2, <1>3, <1>5, <1>6, <2>2
      <4> QED
        BY <1>5, <4>1
    <3>2. log.cursor < Len(log.entries)
      BY <1>1, <1>2, <1>5, <1>6, <2>2
    <3> QED
      BY <1>1, <3>1, <3>2 DEF OnLine, DocumentAtCursor
  <2> QED
    BY <1>6, <1>8, <2>1, <2>2 DEF DocumentAtCursor, After, Before
<1>10. OnLine'
  BY <1>1, <1>7, <1>9
  DEF OnLine, SetMemoryBudget, transaction, TransactionAtDocument, Chained, After, Before
<1> QED
  BY <1>10, HistoryLine, PTL

\* Every call keeps the history when only clean faults happen.
LEMMA NextHistory ==
  ASSUME Faults \subseteq CleanFaults, History, [Next]_vars
  PROVE  History'
<1>1. TypeOK /\ TypeOK' /\ OnLine
  BY NextTyped, HistoryLine DEF History
<1>2. /\ "take_back" \notin Faults /\ "undo_part" \notin Faults
      /\ "commit" \notin Faults
  BY DEF CleanFaults
<1>3. ~transaction_active => transaction_commands = << >>
  BY <1>1 DEF OnLine, TransactionAtDocument
<1>4. ASSUME NEW command \in NewCommands, Execute(command)
      PROVE  History'
  <2>1. /\ command \in Command /\ Chained(command)
        /\ Before(command) = document /\ After(command) \in Docs
    BY <1>1, NewCommandTyped DEF TypeOK
  <2>2. CASE ExecuteLogged(command)
    <3>1. Before(command) = Settled /\ Before(command) \in Docs
      BY <1>1, <1>3, <2>1, <2>2 DEF ExecuteLogged, Settled, OnLine
    <3>2. transaction_commands' = << >>
      BY <1>3, <2>2 DEF ExecuteLogged, transaction
    <3> QED
      BY <1>1, <2>1, <2>2, <3>1, <3>2, RecordKeepsHistory DEF ExecuteLogged
  <2>3. CASE ExecuteUnlogged(command)
    <3>1. document' = document
      BY <1>1, <1>2, <2>3, TakenBackRestores DEF ExecuteUnlogged, TypeOK
    <3> QED
      BY <1>1, <2>3, <3>1, NothingChanged DEF ExecuteUnlogged, transaction
  <2>4. CASE ExecuteInTransaction(command)
    <3> DEFINE joined == Joined(command)
    <3>1. /\ joined # << >>
          /\ After(joined) = After(command)
          /\ Before(joined) = IF transaction_commands = << >>
                              THEN document
                              ELSE Before(transaction_commands)
          /\ Chained(joined)
      BY <1>1, JoinedTransaction DEF TypeOK, OnLine
    <3>2. transaction_commands' = joined /\ document' = After(command) /\ log' = log
      BY <2>4 DEF ExecuteInTransaction
    <3> HIDE DEF joined
    <3>3. Settled' = Settled
      BY <3>1, <3>2 DEF Settled, Before
    <3>4. TransactionAtDocument'
      BY <2>4, <3>1, <3>2
      DEF TransactionAtDocument, ExecuteInTransaction, Chained, After
    <3>5. (transaction_commands # << >> => Before(transaction_commands) \in Docs)'
      BY <1>1, <3>1, <3>2 DEF OnLine, Before
    <3> QED
      BY <1>1, <2>1, <3>2, <3>3, <3>4, <3>5, UnchangedLogKeepsHistory
  <2>5. CASE ExecuteNotJoined(command)
    <3>1. document' = document
      BY <1>1, <1>2, <2>5, TakenBackRestores DEF ExecuteNotJoined, TypeOK
    <3> QED
      BY <1>1, <2>5, <3>1, NothingChanged DEF ExecuteNotJoined, transaction
  <2> QED
    BY <1>4, <2>2, <2>3, <2>4, <2>5 DEF Execute
<1>5. CASE ExecuteRefused
  BY <1>1, <1>5, NothingChanged DEF ExecuteRefused, transaction
<1>6. CASE Undo \/ Redo
  BY <1>1, <1>6, CursorKeepsHistory
<1>7. CASE UndoFails
  BY <1>1, <1>2, <1>7, NothingChanged DEF UndoFails, transaction
<1>8. CASE RedoFails \/ StepRefused
  BY <1>1, <1>8, NothingChanged DEF RedoFails, StepRefused, transaction
<1>9. CASE BeginTransaction
  <2>1. /\ transaction_commands = << >> /\ transaction_commands' = << >>
        /\ document' = document /\ log' = log
    BY <1>3, <1>9 DEF BeginTransaction
  <2>2. Settled' = Settled /\ TransactionAtDocument'
    BY <2>1 DEF Settled, TransactionAtDocument, Chained
  <2> QED
    BY <1>1, <2>1, <2>2, UnchangedLogKeepsHistory DEF OnLine
<1>10. CASE CommitTransaction
  <2>1. transaction_commands' = << >> /\ document' = document
    BY <1>10 DEF CommitTransaction, CloseTransaction
  <2>2. CASE transaction_commands = << >>
    <3>1. log' = log
      BY <1>10, <2>2 DEF CommitTransaction
    <3>2. Settled' = Settled /\ TransactionAtDocument'
      BY <2>1, <2>2 DEF Settled, TransactionAtDocument, Chained
    <3> QED
      BY <1>1, <2>1, <3>1, <3>2, UnchangedLogKeepsHistory DEF OnLine
  <2>3. CASE transaction_commands # << >>
    <3>1. /\ transaction_commands \in Command
          /\ Chained(transaction_commands)
          /\ Before(transaction_commands) \in Docs
          /\ Before(transaction_commands) = Settled
          /\ document' = After(transaction_commands)
      BY <1>1, <2>1, <2>3, TransactionIsCommand
      DEF TypeOK, OnLine, TransactionAtDocument, Settled
    <3>2. log' = Recorded(transaction_commands)
      BY <1>10, <2>3 DEF CommitTransaction
    <3> QED
      BY <1>1, <2>1, <3>1, <3>2, RecordKeepsHistory
  <2> QED
    BY <2>2, <2>3
<1>11. CASE RollbackTransaction
  <2>1. transaction_commands' = << >> /\ log' = log
    BY <1>11 DEF RollbackTransaction, CloseTransaction
  <2>2. document' = Settled
    BY <1>1, <1>11
    DEF RollbackTransaction, Settled, OnLine, TransactionAtDocument, Undone
  <2>3. Settled' = Settled /\ TransactionAtDocument' /\ document' \in Docs
    BY <1>1, <2>1, <2>2 DEF Settled, TransactionAtDocument, Chained, OnLine
  <2> QED
    BY <1>1, <2>1, <2>3, UnchangedLogKeepsHistory
<1>12. CASE CommitFails \/ RollbackFails
  BY <1>2, <1>12 DEF CommitFails, RollbackFails
<1>13. ASSUME NEW budget \in Budgets, SetMemoryBudget(budget)
       PROVE  History'
  BY <1>1, <1>13, BudgetKeepsHistory
<1>14. CASE UNCHANGED vars
  BY <1>1, <1>14, NothingChanged DEF vars, transaction
<1> QED
  BY <1>4, <1>5, <1>6, <1>7, <1>8, <1>9, <1>10, <1>11, <1>12, <1>13, <1>14 DEF Next

\* With clean faults only, the undo log and the open transaction are always one
\* line of documents with the current one on it.
THEOREM HistoryIsLinear ==
  ASSUME Faults \subseteq CleanFaults
  PROVE  Spec => []LinearHistory
<1>1. History /\ [Next]_vars => History'
  BY NextHistory
<1>2. History => LinearHistory
  BY DEF History
<1> QED
  BY <1>1, <1>2, InitHistory, PTL DEF Spec

\* With clean faults only, no command ever runs on a document it was not made for.
THEOREM NothingCorrupted ==
  ASSUME Faults \subseteq CleanFaults
  PROVE  Spec => []NeverCorrupt
<1>1. History /\ [Next]_vars => History'
  BY NextHistory
<1>2. History => NeverCorrupt
  BY DEF History
<1> QED
  BY <1>1, <1>2, InitHistory, PTL DEF Spec
-----------------------------------------------------------------------------
(* What a failed call may change *)

\* The calls that report failure, action by action.
LEMMA FailingCalls ==
  ASSUME Next, ~returned'
  PROVE  \/ \E command \in NewCommands : \/ ExecuteUnlogged(command)
                                         \/ ExecuteNotJoined(command)
         \/ ExecuteRefused \/ UndoFails \/ RedoFails \/ StepRefused \/ CommitFails
BY DEF Next, Execute, ExecuteLogged, ExecuteInTransaction, Undo, Redo,
       BeginTransaction, CommitTransaction, RollbackTransaction, RollbackFails,
       SetMemoryBudget

\* With clean faults only, a call that reports failure keeps the document.
THEOREM FailuresKeepTheDocument ==
  ASSUME Faults \subseteq CleanFaults
  PROVE  Spec => FailureKeepsDocument
<1>1. ASSUME TypeOK, Next
      PROVE  ~returned' => document' = document
  <2>1. /\ "take_back" \notin Faults /\ "undo_part" \notin Faults
        /\ "commit" \notin Faults
    BY DEF CleanFaults
  <2>2. ASSUME NEW command \in NewCommands, TakenBack(command)
        PROVE  document' = document
    BY <1>1, <2>1, <2>2, TakenBackRestores DEF TypeOK
  <2> QED
    BY <1>1, <2>1, <2>2, FailingCalls
    DEF ExecuteUnlogged, ExecuteNotJoined, ExecuteRefused, UndoFails, RedoFails,
        StepRefused, CommitFails
<1> QED
  BY <1>1, TypeCorrect, PTL DEF Spec, FailureKeepsDocument
-----------------------------------------------------------------------------
(* The undo stack: the executor implements UndoStack when every failure is clean *)

\* The documents along a nonempty line of commands.
DocsOf(s) == [i \in 1 .. (Len(s) + 1) |-> IF i = 1 THEN Before(s[1]) ELSE After(s[i - 1])]

\* What the mapping makes of the entries e when the settled document is doc.
StatesOf(e, doc) == IF e = << >> THEN <<doc>> ELSE DocsOf(e)

\* The mapping, before and after a step.
LEMMA StatesAre ==
  /\ States = StatesOf(log.entries, Settled)
  /\ States' = StatesOf(log'.entries, Settled')
BY DEF States, StatesOf, DocsOf, After, Before

\* There is one document more than there are commands.
LEMMA DocsOfTyped ==
  ASSUME NEW s \in Seq(Command), s # << >>, Line(s)
  PROVE  /\ Len(s) \in Nat \ {0}
         /\ DocsOf(s) \in Seq(Docs)
         /\ Len(DocsOf(s)) = Len(s) + 1
         /\ DocsOf(s)[1] = Before(s[1])
         /\ \A i \in 1 .. Len(s) : DocsOf(s)[i + 1] = After(s[i])
<1>1. Len(s) \in Nat \ {0}
  BY LenProperties, EmptySeq
<1>2. ASSUME NEW i \in 1 .. Len(s)
      PROVE  After(s[i]) \in Docs /\ Before(s[i]) \in Docs
  BY ElementOfSeq, CommandTyped DEF Line
<1>3. ASSUME NEW i \in 1 .. (Len(s) + 1)
      PROVE  (IF i = 1 THEN Before(s[1]) ELSE After(s[i - 1])) \in Docs
  <2>1. CASE i = 1
    BY <1>1, <1>2, <2>1
  <2>2. CASE i # 1
    <3>1. i - 1 \in 1 .. Len(s)
      BY <1>1, <2>2
    <3> QED
      BY <1>2, <2>2, <3>1
  <2> QED
    BY <2>1, <2>2
<1>4. Len(s) + 1 \in Nat
  BY <1>1
<1>5. DocsOf(s) \in [1 .. (Len(s) + 1) -> Docs]
  BY <1>3 DEF DocsOf
<1>6. DocsOf(s) \in Seq(Docs) /\ Len(DocsOf(s)) = Len(s) + 1
  BY <1>4, <1>5, LenProperties
<1>7. DocsOf(s)[1] = Before(s[1])
  BY <1>1 DEF DocsOf
<1>8. ASSUME NEW i \in 1 .. Len(s)
      PROVE  DocsOf(s)[i + 1] = After(s[i])
  <2>1. i + 1 \in 1 .. (Len(s) + 1) /\ i + 1 # 1 /\ (i + 1) - 1 = i
    BY <1>1
  <2> QED
    BY <2>1 DEF DocsOf
<1> QED
  BY <1>1, <1>6, <1>7, <1>8

\* Forgetting the oldest k commands forgets the oldest k documents.
LEMMA DocsOfSuffix ==
  ASSUME NEW s \in Seq(Command), s # << >>, Line(s), NEW k \in 0 .. (Len(s) - 1)
  PROVE  /\ SubSeq(s, k + 1, Len(s)) # << >>
         /\ DocsOf(SubSeq(s, k + 1, Len(s))) = SubSeq(DocsOf(s), k + 1, Len(s) + 1)
<1> DEFINE t == SubSeq(s, k + 1, Len(s))
           d == DocsOf(s)
           u == SubSeq(d, k + 1, Len(s) + 1)
<1>1. /\ Len(s) \in Nat \ {0} /\ d \in Seq(Docs) /\ Len(d) = Len(s) + 1
      /\ d[1] = Before(s[1])
      /\ \A i \in 1 .. Len(s) : d[i + 1] = After(s[i])
  BY DocsOfTyped
<1>2. /\ t \in Seq(Command) /\ Len(t) = Len(s) - k
      /\ \A i \in 1 .. (Len(s) - k) : t[i] = s[k + i]
  BY <1>1, SubSeqProperties, ElementOfSeq
<1>3. t # << >> /\ Line(t)
  <2>1. k \in 0 .. Len(s) /\ Len(t) > 0
    BY <1>1, <1>2
  <2>2. Line(t)
    BY <2>1, LineSuffix
  <2> HIDE DEF t
  <2>3. t # << >>
    BY <2>1, EmptySeq
  <2> QED
    BY <2>2, <2>3
<1>4. /\ u \in Seq(Docs) /\ Len(u) = Len(s) + 1 - k
      /\ \A i \in 1 .. (Len(s) + 1 - k) : u[i] = d[k + i]
  <2> HIDE DEF d
  <2>1. \A i \in (k + 1) .. (Len(s) + 1) : d[i] \in Docs
    BY <1>1, ElementOfSeq
  <2> QED
    BY <1>1, <2>1, SubSeqProperties
<1> HIDE DEF t, d, u
<1>5. /\ DocsOf(t) \in Seq(Docs)
      /\ Len(DocsOf(t)) = Len(t) + 1
      /\ DocsOf(t)[1] = Before(t[1])
      /\ \A i \in 1 .. Len(t) : DocsOf(t)[i + 1] = After(t[i])
  BY <1>2, <1>3, DocsOfTyped
<1>6. ASSUME NEW i \in 1 .. (Len(t) + 1)
      PROVE  DocsOf(t)[i] = u[i]
  <2>1. CASE i = 1
    <3>1. u[1] = d[k + 1] /\ t[1] = s[k + 1]
      BY <1>1, <1>2, <1>4
    <3>2. CASE k = 0
      BY <1>1, <1>5, <2>1, <3>1, <3>2
    <3>3. CASE k # 0
      <4>1. k \in 1 .. Len(s) /\ k + 1 \in 2 .. Len(s) /\ (k + 1) - 1 = k
        BY <1>1, <3>3
      <4>2. After(s[k]) = Before(s[k + 1])
        BY <4>1 DEF Line
      <4> QED
        BY <1>1, <1>5, <2>1, <3>1, <4>1, <4>2
    <3> QED
      BY <3>2, <3>3
  <2>2. CASE i # 1
    <3>1. /\ i - 1 \in 1 .. Len(t) /\ (i - 1) + 1 = i
          /\ k + (i - 1) \in 1 .. Len(s) /\ (k + (i - 1)) + 1 = k + i
          /\ i - 1 \in 1 .. (Len(s) - k) /\ i \in 1 .. (Len(s) + 1 - k)
      BY <1>1, <1>2, <2>2
    <3>2. DocsOf(t)[i] = After(t[i - 1]) /\ t[i - 1] = s[k + (i - 1)]
      BY <1>2, <1>5, <3>1
    <3>3. u[i] = d[k + i] /\ d[k + i] = After(s[k + (i - 1)])
      BY <1>1, <1>4, <3>1
    <3> QED
      BY <3>2, <3>3
  <2> QED
    BY <2>1, <2>2
<1>7. Len(DocsOf(t)) = Len(u) /\ Len(t) + 1 = Len(u)
  BY <1>1, <1>2, <1>4, <1>5
<1>8. DocsOf(t) = u
  BY <1>4, <1>5, <1>6, <1>7, SeqEqual
<1> QED
  BY <1>3, <1>8 DEF t, d, u

\* The states of a line on which doc is the settled document.
LEMMA StatesOfTyped ==
  ASSUME NEW e \in Seq(Command), Line(e), NEW doc \in Docs
  PROVE  /\ Len(e) \in Nat
         /\ StatesOf(e, doc) \in Seq(Docs)
         /\ Len(StatesOf(e, doc)) = Len(e) + 1
         /\ StatesOf(e, doc)[1] = IF e = << >> THEN doc ELSE Before(e[1])
         /\ \A i \in 1 .. Len(e) : StatesOf(e, doc)[i + 1] = After(e[i])
<1>1. CASE e = << >>
  <2>1. StatesOf(e, doc) = <<doc>> /\ Len(e) = 0
    BY <1>1 DEF StatesOf
  <2>2. <<doc>> \in Seq(Docs) /\ Len(<<doc>>) = 1 /\ <<doc>>[1] = doc
    OBVIOUS
  <2>3. Len(e) \in Nat /\ \A i \in 1 .. Len(e) : FALSE
    BY <2>1
  <2>4. StatesOf(e, doc) \in Seq(Docs) /\ Len(StatesOf(e, doc)) = Len(e) + 1
    BY <2>1, <2>2
  <2>5. StatesOf(e, doc)[1] = doc
    BY <2>1, <2>2
  <2> QED
    BY <1>1, <2>3, <2>4, <2>5
<1>2. CASE e # << >>
  BY <1>2, DocsOfTyped DEF StatesOf
<1> QED
  BY <1>1, <1>2

\* A pushed command adds the document it makes behind the settled one.
LEMMA StatesPushed ==
  ASSUME NEW e \in Seq(Command), Line(e), NEW c \in 0 .. Len(e), NEW doc \in Docs,
         c = 0 /\ e # << >> => doc = Before(e[1]),
         NEW command \in Command, Before(command) = doc,
         Line(Append(SubSeq(e, 1, c), command))
  PROVE  DocsOf(Append(SubSeq(e, 1, c), command)) =
           Append(SubSeq(StatesOf(e, doc), 1, c + 1), After(command))
<1> DEFINE x == SubSeq(e, 1, c)
           s == Append(x, command)
           d == StatesOf(e, doc)
           y == SubSeq(d, 1, c + 1)
           u == Append(y, After(command))
<1>1. /\ Len(e) \in Nat /\ d \in Seq(Docs) /\ Len(d) = Len(e) + 1
      /\ d[1] = IF e = << >> THEN doc ELSE Before(e[1])
      /\ \A i \in 1 .. Len(e) : d[i + 1] = After(e[i])
  BY StatesOfTyped
<1>2. x \in Seq(Command) /\ Len(x) = c /\ \A i \in 1 .. c : x[i] = e[i]
  BY <1>1, SubSeqProperties, ElementOfSeq
<1> HIDE DEF x
<1>3. /\ s \in Seq(Command) /\ Len(s) = c + 1 /\ s[c + 1] = command
      /\ \A i \in 1 .. c : s[i] = x[i]
  BY <1>2, AppendProperties
<1>4. s # << >>
  <2> HIDE DEF s
  <2> QED BY <1>1, <1>3, EmptySeq
<1> HIDE DEF d
<1>5. /\ y \in Seq(Docs) /\ Len(y) = c + 1
      /\ \A i \in 1 .. (c + 1) : y[i] = d[i]
  <2>1. \A i \in 1 .. (c + 1) : d[i] \in Docs
    BY <1>1, ElementOfSeq
  <2> QED
    BY <1>1, <2>1, SubSeqProperties
<1> HIDE DEF y
<1>6. /\ u \in Seq(Docs) /\ Len(u) = c + 2 /\ u[c + 2] = After(command)
      /\ \A i \in 1 .. (c + 1) : u[i] = y[i]
  <2>1. After(command) \in Docs
    BY CommandTyped
  <2>2. /\ u \in Seq(Docs) /\ Len(u) = Len(y) + 1 /\ u[Len(y) + 1] = After(command)
        /\ \A i \in 1 .. Len(y) : u[i] = y[i]
    BY <1>5, <2>1, AppendProperties
  <2> HIDE DEF u
  <2> QED
    BY <1>1, <1>5, <2>2
<1>7. Line(s)
  BY DEF x
<1> HIDE DEF s, u
<1>8. /\ DocsOf(s) \in Seq(Docs) /\ Len(DocsOf(s)) = c + 2
      /\ DocsOf(s)[1] = Before(s[1])
      /\ \A i \in 1 .. (c + 1) : DocsOf(s)[i + 1] = After(s[i])
  BY <1>1, <1>3, <1>4, <1>7, DocsOfTyped
<1>9. ASSUME NEW i \in 1 .. (c + 2)
      PROVE  DocsOf(s)[i] = u[i]
  <2>1. CASE i = 1
    <3>1. u[1] = d[1]
      BY <1>1, <1>5, <1>6
    <3>2. CASE c = 0
      BY <1>1, <1>3, <1>8, <2>1, <3>1, <3>2, EmptySeq
    <3>3. CASE c # 0
      <4>1. e # << >> /\ s[1] = e[1]
        BY <1>1, <1>2, <1>3, <3>3, EmptySeq
      <4> QED
        BY <1>1, <1>8, <2>1, <3>1, <4>1
    <3> QED
      BY <3>2, <3>3
  <2>2. CASE i = c + 2
    BY <1>1, <1>3, <1>6, <1>8, <2>2
  <2>3. CASE i \in 2 .. (c + 1)
    <3>1. i - 1 \in 1 .. c /\ (i - 1) + 1 = i /\ i - 1 \in 1 .. Len(e) /\ i - 1 \in 1 .. (c + 1)
      BY <1>1, <2>3
    <3>2. DocsOf(s)[i] = After(s[i - 1]) /\ s[i - 1] = e[i - 1]
      BY <1>2, <1>3, <1>8, <3>1
    <3>3. u[i] = d[i] /\ d[i] = After(e[i - 1])
      BY <1>1, <1>5, <1>6, <2>3, <3>1
    <3> QED
      BY <3>2, <3>3
  <2> QED
    BY <1>1, <2>1, <2>2, <2>3
<1>10. DocsOf(s) = u
  BY <1>1, <1>6, <1>8, <1>9, SeqEqual
<1> QED
  BY <1>10 DEF s, u, x, y, d

\* An absorbed command replaces the last document of the executed ones.
LEMMA StatesAbsorbed ==
  ASSUME NEW e \in Seq(Command), Line(e), NEW c \in 1 .. Len(e), NEW doc \in Docs,
         NEW absorbed \in Command, Before(absorbed) = Before(e[c]),
         Line([SubSeq(e, 1, c) EXCEPT ![c] = absorbed])
  PROVE  DocsOf([SubSeq(e, 1, c) EXCEPT ![c] = absorbed]) =
           Append(SubSeq(StatesOf(e, doc), 1, c), After(absorbed))
<1> DEFINE x == SubSeq(e, 1, c)
           s == [x EXCEPT ![c] = absorbed]
           d == StatesOf(e, doc)
           y == SubSeq(d, 1, c)
           u == Append(y, After(absorbed))
<1>1. /\ Len(e) \in Nat /\ d \in Seq(Docs) /\ Len(d) = Len(e) + 1
      /\ d[1] = IF e = << >> THEN doc ELSE Before(e[1])
      /\ \A i \in 1 .. Len(e) : d[i + 1] = After(e[i])
  BY StatesOfTyped
<1>2. x \in Seq(Command) /\ Len(x) = c /\ \A i \in 1 .. c : x[i] = e[i]
  BY <1>1, SubSeqProperties, ElementOfSeq
<1> HIDE DEF x
<1>3. /\ s \in Seq(Command) /\ Len(s) = c
      /\ \A i \in 1 .. c : s[i] = IF i = c THEN absorbed ELSE x[i]
  BY <1>1, <1>2, ExceptSeq
<1>4. s # << >> /\ e # << >>
  <2> HIDE DEF s
  <2> QED BY <1>1, <1>3, EmptySeq
<1> HIDE DEF d
<1>5. /\ y \in Seq(Docs) /\ Len(y) = c
      /\ \A i \in 1 .. c : y[i] = d[i]
  <2>1. \A i \in 1 .. c : d[i] \in Docs
    BY <1>1, ElementOfSeq
  <2> QED
    BY <1>1, <2>1, SubSeqProperties
<1> HIDE DEF y
<1>6. /\ u \in Seq(Docs) /\ Len(u) = c + 1 /\ u[c + 1] = After(absorbed)
      /\ \A i \in 1 .. c : u[i] = y[i]
  <2>1. After(absorbed) \in Docs
    BY CommandTyped
  <2>2. /\ u \in Seq(Docs) /\ Len(u) = Len(y) + 1 /\ u[Len(y) + 1] = After(absorbed)
        /\ \A i \in 1 .. Len(y) : u[i] = y[i]
    BY <1>5, <2>1, AppendProperties
  <2> HIDE DEF u
  <2> QED
    BY <1>1, <1>5, <2>2
<1>7. Line(s)
  BY DEF x
<1> HIDE DEF s, u
<1>8. /\ DocsOf(s) \in Seq(Docs) /\ Len(DocsOf(s)) = c + 1
      /\ DocsOf(s)[1] = Before(s[1])
      /\ \A i \in 1 .. c : DocsOf(s)[i + 1] = After(s[i])
  BY <1>1, <1>3, <1>4, <1>7, DocsOfTyped
<1>9. ASSUME NEW i \in 1 .. (c + 1)
      PROVE  DocsOf(s)[i] = u[i]
  <2>1. CASE i = 1
    <3>1. u[1] = Before(e[1])
      BY <1>1, <1>4, <1>5, <1>6
    <3>2. s[1] = IF 1 = c THEN absorbed ELSE e[1]
      <4>1. 1 \in 1 .. c
        BY <1>1
      <4> QED
        BY <1>2, <1>3, <4>1
    <3>3. Before(s[1]) = Before(e[1])
      BY <3>2
    <3> QED
      BY <1>8, <2>1, <3>1, <3>3
  <2>2. CASE i = c + 1
    BY <1>1, <1>3, <1>6, <1>8, <2>2
  <2>3. CASE i \in 2 .. c
    <3>1. /\ i - 1 \in 1 .. c /\ (i - 1) + 1 = i /\ i - 1 \in 1 .. Len(e) /\ i - 1 # c
          /\ i \in 1 .. c
      BY <1>1, <2>3, SMTT(30)
    <3>2. DocsOf(s)[i] = After(s[i - 1]) /\ s[i - 1] = e[i - 1]
      BY <1>2, <1>3, <1>8, <3>1
    <3>3. u[i] = d[i] /\ d[i] = After(e[i - 1])
      BY <1>1, <1>5, <1>6, <3>1
    <3> QED
      BY <3>2, <3>3
  <2> QED
    BY <1>1, <2>1, <2>2, <2>3
<1>10. DocsOf(s) = u
  BY <1>1, <1>6, <1>8, <1>9, SeqEqual
<1> QED
  BY <1>10 DEF s, u, x, y, d

\* A recorded command is an edit of the undo stack, or continues the last one.
LEMMA RecordIsEdit ==
  ASSUME History, NEW command \in Command,
         Chained(command), Before(command) \in Docs, Before(command) = Settled,
         log' = Recorded(command)
  PROVE  Stack!Edit(After(command)) \/ Stack!Continue(After(command))
<1> DEFINE e == log.entries
           c == log.cursor
           s == Extended(command)
           l == Recorded(command)
           d == DocsOf(s)
<1>1. /\ LogTyped(log) /\ Line(e) /\ DocumentAtCursor
      /\ e \in Seq(Command) /\ c \in 0 .. Len(e) /\ Len(e) \in Nat
      /\ c > 0 => After(e[c]) = Before(command)
      /\ c = 0 /\ e # << >> => Settled = Before(e[1])
  <2>1. LogTyped(log) /\ Line(e) /\ DocumentAtCursor
    BY HistoryLine DEF History, OnLine, TypeOK
  <2>2. e \in Seq(Command) /\ c \in 0 .. Len(e) /\ Len(e) \in Nat
    BY <2>1, LenProperties DEF LogTyped
  <2>3. e # << >> => Len(e) > 0
    BY <2>2, EmptySeq
  <2> QED
    BY <2>1, <2>2, <2>3 DEF DocumentAtCursor
<1>2. /\ s \in Seq(Command) /\ s # << >> /\ Line(s)
  BY <1>1, ExtendedLine
<1>3. Appended(l, s)
  BY <1>1, RecordedAppended
<1>4. /\ Len(s) \in Nat \ {0}
      /\ d \in Seq(Docs) /\ Len(d) = Len(s) + 1
  BY <1>2, DocsOfTyped
<1> HIDE DEF s, l, d
<1>5. PICK k \in 0 .. (Len(s) - 1) : l.entries = SubSeq(s, k + 1, Len(s))
  BY <1>3, <1>4 DEF Appended
<1>6. /\ l.entries # << >>
      /\ DocsOf(l.entries) = SubSeq(d, k + 1, Len(d))
  BY <1>2, <1>4, <1>5, DocsOfSuffix DEF d
<1>7. l.cursor = Len(s) - k
  <2>1. Len(SubSeq(s, k + 1, Len(s))) = Len(s) - k
    BY <1>2, <1>4, <1>5, SubSeqProperties, ElementOfSeq
  <2> QED
    BY <1>3, <1>5, <2>1 DEF Appended
<1>8. /\ States = StatesOf(e, Settled)
      /\ States' = SubSeq(d, k + 1, Len(d))
      /\ log'.cursor + 1 = Len(d) - k
      /\ k \in 0 .. (Len(d) - 2)
  <2>1. log' = l
    BY DEF l
  <2>2. States' = DocsOf(l.entries)
    BY <1>6, <2>1, StatesAre DEF StatesOf
  <2> QED
    BY <1>4, <1>5, <1>6, <1>7, <2>1, <2>2, StatesAre
<1>9. CASE c > 0 /\ Merges(e[c], command)
  <2> DEFINE absorbed == Merged(e[c], command)
  <2>1. /\ absorbed \in Command
        /\ Before(absorbed) = Before(e[c])
        /\ After(absorbed) = After(command)
    BY <1>1, <1>9, LastExecuted, MergedCommand
  <2>2. s = [SubSeq(e, 1, c) EXCEPT ![c] = absorbed]
    BY <1>9 DEF Extended, s
  <2> HIDE DEF absorbed
  <2>3. c \in 1 .. Len(e)
    BY <1>1, <1>9
  <2>4. d = Append(SubSeq(States, 1, c), After(command))
    BY <1>1, <1>2, <1>8, <2>1, <2>2, <2>3, StatesAbsorbed, ZenonT(30) DEF d
  <2>5. (c + 1) - 1 = c /\ c + 1 > 1
    BY <2>3
  <2>6. Stack!Continue(After(command))
    BY <1>8, <2>4, <2>5 DEF Stack!Continue, Stack!ArriveAtEnd
  <2> QED
    BY <2>6
<1>10. CASE ~(c > 0 /\ Merges(e[c], command))
  <2>1. s = Append(SubSeq(e, 1, c), command)
    BY <1>10 DEF Extended, s
  <2>2. d = Append(SubSeq(States, 1, c + 1), After(command))
    BY <1>1, <1>2, <1>8, <2>1, StatesPushed DEF d
  <2>3. Stack!Edit(After(command))
    BY <1>8, <2>2 DEF Stack!Edit, Stack!ArriveAtEnd
  <2> QED
    BY <2>3
<1> QED
  BY <1>9, <1>10

\* A new budget makes the undo stack forget its oldest states, or changes nothing.
LEMMA BudgetForgets ==
  ASSUME History, NEW budget \in Budgets, SetMemoryBudget(budget)
  PROVE  Stack!Forget \/ UNCHANGED Stack!vars
<1>1. /\ LogTyped(log) /\ Line(log.entries)
      /\ log.entries \in Seq(Command) /\ log.cursor \in 0 .. Len(log.entries)
      /\ Len(log.entries) \in Nat
  BY HistoryLine, LenProperties DEF History, OnLine, TypeOK, LogTyped
<1>2. PICK k \in 0 .. log.cursor :
        /\ log.cursor > 0 => k < log.cursor
        /\ log'.entries = SubSeq(log.entries, k + 1, Len(log.entries))
        /\ log'.cursor = log.cursor - k
  BY <1>1, BudgetPrunes DEF SetMemoryBudget
<1>3. Settled' = Settled
  BY DEF Settled, SetMemoryBudget, transaction, Before
<1>4. CASE k = 0
  <2>1. log'.entries = log.entries
    BY <1>1, <1>2, <1>4
  <2>2. log'.cursor = log.cursor
    BY <1>1, <1>2, <1>4
  <2>3. States' = States
    BY <1>3, <2>1, StatesAre
  <2> QED
    BY <2>2, <2>3 DEF Stack!vars
<1>5. CASE k # 0
  <2>1. /\ k \in 1 .. (log.cursor - 1) /\ k \in 0 .. (Len(log.entries) - 1)
        /\ log.entries # << >>
        /\ log.cursor \in Nat
    BY <1>1, <1>2, <1>5, EmptySeq
  <2>2. /\ log'.entries # << >>
        /\ DocsOf(log'.entries) = SubSeq(DocsOf(log.entries), k + 1, Len(log.entries) + 1)
        /\ Len(DocsOf(log.entries)) = Len(log.entries) + 1
    BY <1>1, <1>2, <2>1, DocsOfSuffix, DocsOfTyped
  <2>3. States' = SubSeq(States, k + 1, Len(States))
    BY <2>1, <2>2, StatesAre DEF StatesOf
  <2>4. /\ k \in 1 .. ((log.cursor + 1) - 2)
        /\ log'.cursor + 1 = (log.cursor + 1) - k
    BY <1>2, <2>1
  <2> QED
    BY <2>3, <2>4 DEF Stack!Forget
<1> QED
  BY <1>4, <1>5

\* Undo and redo walk the states.
LEMMA CursorWalks ==
  ASSUME History, Undo \/ Redo
  PROVE  Stack!Undo \/ Stack!Redo
<1>1. /\ LogTyped(log) /\ Line(log.entries) /\ Settled \in Docs
      /\ log.entries \in Seq(Command) /\ log.cursor \in 0 .. Len(log.entries)
      /\ Len(log.entries) \in Nat
  BY HistoryLine, LenProperties DEF History, OnLine, TypeOK, LogTyped, Settled
<1>2. Len(States) = Len(log.entries) + 1
  BY <1>1, StatesAre, StatesOfTyped
<1>3. CASE Undo
  <2>1. /\ log'.entries = log.entries /\ log'.cursor = log.cursor - 1
        /\ log.cursor > 0
    BY <1>1, <1>3, StepsTyped DEF Undo, CanUndo
  <2>2. log.entries # << >>
    BY <1>1, <2>1, EmptySeq
  <2>3. States' = States
    BY <2>1, <2>2, StatesAre DEF StatesOf
  <2> QED
    BY <1>1, <2>1, <2>3 DEF Stack!Undo
<1>4. CASE Redo
  <2>1. /\ log'.entries = log.entries /\ log'.cursor = log.cursor + 1
        /\ log.cursor < Len(log.entries)
    BY <1>1, <1>4, StepsTyped DEF Redo, CanRedo
  <2>2. log.entries # << >>
    BY <1>1, <2>1, EmptySeq
  <2>3. States' = States
    BY <2>1, <2>2, StatesAre DEF StatesOf
  <2> QED
    BY <1>1, <1>2, <2>1, <2>3 DEF Stack!Redo
<1> QED
  BY <1>3, <1>4

\* Whatever leaves the log and the settled document alone is invisible.
LEMMA Invisible ==
  ASSUME log' = log, Settled' = Settled
  PROVE  UNCHANGED Stack!vars
BY StatesAre DEF Stack!vars

\* Every call is a step of the undo stack, or invisible to its user.
LEMMA NextIsStackStep ==
  ASSUME Faults \subseteq CleanFaults, History, [Next]_vars
  PROVE  [Stack!Next]_(Stack!vars)
<1>1. TypeOK /\ OnLine
  BY HistoryLine DEF History
<1>2. /\ "take_back" \notin Faults /\ "undo_part" \notin Faults
      /\ "commit" \notin Faults
  BY DEF CleanFaults
<1>3. ~transaction_active => transaction_commands = << >>
  BY <1>1 DEF OnLine, TransactionAtDocument
<1>4. ASSUME document' = document, transaction_commands' = transaction_commands
      PROVE  Settled' = Settled
  BY <1>4 DEF Settled, Before
<1>5. ASSUME NEW command \in Command, Stack!Edit(After(command)) \/ Stack!Continue(After(command))
      PROVE  Stack!Next
  BY <1>5, CommandTyped DEF Stack!Next
<1>6. ASSUME NEW command \in NewCommands, Execute(command)
      PROVE  [Stack!Next]_(Stack!vars)
  <2>1. /\ command \in Command /\ Chained(command)
        /\ Before(command) = document /\ After(command) \in Docs
    BY <1>1, NewCommandTyped DEF TypeOK
  <2>2. CASE ExecuteLogged(command)
    <3>1. Before(command) = Settled /\ Before(command) \in Docs
      BY <1>1, <1>3, <2>1, <2>2 DEF ExecuteLogged, Settled, OnLine
    <3> QED
      BY <1>5, <2>1, <2>2, <3>1, RecordIsEdit DEF ExecuteLogged
  <2>3. CASE ExecuteUnlogged(command)
    <3>1. document' = document
      BY <1>1, <1>2, <2>3, TakenBackRestores DEF ExecuteUnlogged, TypeOK
    <3> QED
      BY <1>4, <2>3, <3>1, Invisible DEF ExecuteUnlogged, transaction
  <2>4. CASE ExecuteInTransaction(command)
    <3> DEFINE joined == Joined(command)
    <3>1. /\ joined # << >>
          /\ Before(joined) = IF transaction_commands = << >>
                              THEN document
                              ELSE Before(transaction_commands)
      BY <1>1, JoinedTransaction DEF TypeOK
    <3>2. transaction_commands' = joined /\ log' = log
      BY <2>4 DEF ExecuteInTransaction
    <3> HIDE DEF joined
    <3>3. Settled' = Settled
      BY <3>1, <3>2 DEF Settled, Before
    <3> QED
      BY <3>2, <3>3, Invisible
  <2>5. CASE ExecuteNotJoined(command)
    <3>1. document' = document
      BY <1>1, <1>2, <2>5, TakenBackRestores DEF ExecuteNotJoined, TypeOK
    <3> QED
      BY <1>4, <2>5, <3>1, Invisible DEF ExecuteNotJoined, transaction
  <2> QED
    BY <1>6, <2>2, <2>3, <2>4, <2>5 DEF Execute
<1>7. CASE ExecuteRefused \/ RedoFails \/ StepRefused
  BY <1>4, <1>7, Invisible DEF ExecuteRefused, RedoFails, StepRefused, transaction
<1>8. CASE UndoFails
  BY <1>2, <1>4, <1>8, Invisible DEF UndoFails, transaction
<1>9. CASE Undo \/ Redo
  BY <1>9, CursorWalks DEF Stack!Next
<1>10. CASE BeginTransaction
  <2>1. /\ transaction_commands = << >> /\ transaction_commands' = << >>
        /\ document' = document /\ log' = log
    BY <1>3, <1>10 DEF BeginTransaction
  <2> QED
    BY <1>4, <2>1, Invisible
<1>11. CASE CommitTransaction
  <2>1. transaction_commands' = << >> /\ document' = document
    BY <1>11 DEF CommitTransaction, CloseTransaction
  <2>2. CASE transaction_commands = << >>
    <3>1. log' = log
      BY <1>11, <2>2 DEF CommitTransaction
    <3> QED
      BY <1>4, <2>1, <2>2, <3>1, Invisible
  <2>3. CASE transaction_commands # << >>
    <3>1. /\ transaction_commands \in Command
          /\ Chained(transaction_commands)
          /\ Before(transaction_commands) \in Docs
          /\ Before(transaction_commands) = Settled
      BY <1>1, <2>3, TransactionIsCommand
      DEF TypeOK, OnLine, TransactionAtDocument, Settled
    <3>2. log' = Recorded(transaction_commands)
      BY <1>11, <2>3 DEF CommitTransaction
    <3> QED
      BY <1>5, <3>1, <3>2, RecordIsEdit
  <2> QED
    BY <2>2, <2>3
<1>12. CASE RollbackTransaction
  <2>1. transaction_commands' = << >> /\ log' = log
    BY <1>12 DEF RollbackTransaction, CloseTransaction
  <2>2. document' = Settled
    BY <1>1, <1>12
    DEF RollbackTransaction, Settled, OnLine, TransactionAtDocument, Undone
  <2>3. Settled' = Settled
    BY <2>1, <2>2 DEF Settled
  <2> QED
    BY <2>1, <2>3, Invisible
<1>13. CASE CommitFails \/ RollbackFails
  BY <1>2, <1>13 DEF CommitFails, RollbackFails
<1>14. ASSUME NEW budget \in Budgets, SetMemoryBudget(budget)
       PROVE  [Stack!Next]_(Stack!vars)
  BY <1>14, BudgetForgets DEF Stack!Next
<1>15. CASE UNCHANGED vars
  BY <1>4, <1>15, Invisible DEF vars, transaction
<1> QED
  BY <1>6, <1>7, <1>8, <1>9, <1>10, <1>11, <1>12, <1>13, <1>14, <1>15 DEF Next

\* With clean faults only, the executor is an undo stack: its log, its merges,
\* its budget and its transactions show the user a line of documents, walked one
\* at a time and cut off by an edit.
THEOREM ExecutorIsAnUndoStack ==
  ASSUME Faults \subseteq CleanFaults
  PROVE  Spec => IsUndoStack
<1>1. Init => Stack!Init
  BY DEF Init, InitLog, States, Settled, Stack!Init
<1>2. History /\ [Next]_vars => History'
  BY NextHistory
<1>3. History /\ [Next]_vars => [Stack!Next]_(Stack!vars)
  BY NextIsStackStep
<1> QED
  BY <1>1, <1>2, <1>3, InitHistory, PTL DEF Spec, IsUndoStack, Stack!Spec
-----------------------------------------------------------------------------
(* Sums of bytes *)

\* The running sums of a log's bytes, up to the sum of them all.
LEMMA SumBytesDef ==
  ASSUME NEW s \in Seq(Int)
  PROVE  LET sum == RunningSum(s, Len(s))
         IN  /\ Len(s) \in Nat
             /\ \A i \in 1 .. Len(s) : s[i] \in Int
             /\ sum \in [0 .. Len(s) -> Int]
             /\ SumBytes(s) = sum[Len(s)]
             /\ sum[0] = 0
             /\ \A i \in 1 .. Len(s) : sum[i] = sum[i - 1] + s[i]
<1>1. Len(s) \in Nat /\ \A i \in 1 .. Len(s) : s[i] \in Int
  BY LenProperties, ElementOfSeq
<1>2. SumBytes(s) = RunningSum(s, Len(s))[Len(s)]
  BY Zenon DEF SumBytes, RunningSum
<1> QED
  BY <1>1, <1>2, RunningSumDef

\* A function with the equations of the running sums ends in the sum.
LEMMA SumBytesIs ==
  ASSUME NEW s \in Seq(Int), NEW g, g[0] = 0,
         \A i \in 1 .. Len(s) : g[i] = g[i - 1] + s[i]
  PROVE  SumBytes(s) = g[Len(s)]
<1>1. Len(s) \in Nat /\ \A i \in 1 .. Len(s) : s[i] \in Int
  BY SumBytesDef
<1>2. \A i \in 0 .. Len(s) : RunningSum(s, Len(s))[i] = g[i]
  BY <1>1, RunningSumUnique
<1> QED
  BY <1>1, <1>2, SumBytesDef

\* Nothing recorded, nothing used.
LEMMA SumBytesEmpty == SumBytes(<< >>) = 0
<1>1. << >> \in Seq(Int) /\ Len(<< >>) = 0
  OBVIOUS
<1> QED
  BY <1>1, SumBytesDef

\* The bytes of a log are those of its first k entries and those of the rest.
LEMMA SumBytesSplit ==
  ASSUME NEW s \in Seq(Int), NEW k \in 0 .. Len(s)
  PROVE  /\ SumBytes(s) \in Int
         /\ SumBytes(SubSeq(s, 1, k)) = RunningSum(s, Len(s))[k]
         /\ SumBytes(SubSeq(s, 1, k)) \in Int
         /\ SumBytes(SubSeq(s, k + 1, Len(s))) \in Int
         /\ SumBytes(s) = SumBytes(SubSeq(s, 1, k)) + SumBytes(SubSeq(s, k + 1, Len(s)))
<1> DEFINE sum == RunningSum(s, Len(s))
<1>1. /\ Len(s) \in Nat /\ sum \in [0 .. Len(s) -> Int]
      /\ \A i \in 1 .. Len(s) : s[i] \in Int
      /\ SumBytes(s) = sum[Len(s)] /\ sum[0] = 0
      /\ \A i \in 1 .. Len(s) : sum[i] = sum[i - 1] + s[i]
  BY SumBytesDef
<1> HIDE DEF sum
<1> DEFINE front == SubSeq(s, 1, k)
           back == SubSeq(s, k + 1, Len(s))
           backSum == [i \in 0 .. (Len(s) - k) |-> sum[k + i] - sum[k]]
<1>2. /\ front \in Seq(Int) /\ Len(front) = k
      /\ \A i \in 1 .. k : front[i] = s[i]
  BY <1>1, SubSeqProperties
<1>3. /\ back \in Seq(Int) /\ Len(back) = Len(s) - k
      /\ \A i \in 1 .. (Len(s) - k) : back[i] = s[k + i]
  BY <1>1, SubSeqProperties
<1> HIDE DEF front, back
<1>4. SumBytes(front) = sum[k]
  <2>1. \A i \in 1 .. Len(front) : sum[i] = sum[i - 1] + front[i]
    BY <1>1, <1>2
  <2> QED
    BY <1>1, <1>2, <2>1, SumBytesIs
<1>5. SumBytes(back) = sum[Len(s)] - sum[k]
  <2>1. backSum[0] = 0
    BY <1>1, SMTT(30)
  <2>2. ASSUME NEW i \in 1 .. (Len(s) - k)
        PROVE  backSum[i] = backSum[i - 1] + back[i]
    <3>1. /\ i - 1 \in 0 .. (Len(s) - k) /\ i \in 0 .. (Len(s) - k)
          /\ k + i \in 1 .. Len(s) /\ (k + i) - 1 = k + (i - 1)
          /\ k \in 0 .. Len(s) /\ k + (i - 1) \in 0 .. Len(s)
      BY <1>1
    <3>2. sum[k + i] = sum[k + (i - 1)] + s[k + i]
      BY <1>1, <3>1
    <3>3. backSum[i] = sum[k + i] - sum[k] /\ backSum[i - 1] = sum[k + (i - 1)] - sum[k]
      BY <3>1
    <3>4. sum[k + (i - 1)] \in Int /\ sum[k] \in Int /\ back[i] = s[k + i] /\ s[k + i] \in Int
      BY <1>1, <1>3, <3>1
    <3> HIDE DEF backSum
    <3> QED
      BY <3>2, <3>3, <3>4
  <2>3. backSum[Len(s) - k] = sum[Len(s)] - sum[k]
    BY <1>1
  <2> HIDE DEF backSum
  <2> QED
    BY <1>3, <2>1, <2>2, <2>3, SumBytesIs
<1>6. sum[k] \in Int /\ sum[Len(s)] \in Int
  BY <1>1
<1> QED
  BY <1>1, <1>4, <1>5, <1>6 DEF front, back, sum

\* One entry counts its own bytes.
LEMMA SumBytesOne ==
  ASSUME NEW x \in Int
  PROVE  SumBytes(<<x>>) = x
<1> DEFINE s == <<x>>
           sum == RunningSum(s, Len(s))
<1>1. s \in Seq(Int) /\ Len(s) = 1 /\ s[1] = x
  OBVIOUS
<1> HIDE DEF s
<1>2. /\ SumBytes(s) = sum[Len(s)] /\ sum[0] = 0
      /\ \A i \in 1 .. Len(s) : sum[i] = sum[i - 1] + s[i]
  BY <1>1, SumBytesDef
<1> HIDE DEF sum
<1>3. sum[1] = 0 + x
  BY <1>1, <1>2
<1> QED
  BY <1>1, <1>2, <1>3 DEF s

\* A further entry adds its bytes.
LEMMA SumBytesAppend ==
  ASSUME NEW s \in Seq(Int), NEW x \in Int
  PROVE  SumBytes(Append(s, x)) = SumBytes(s) + x
<1> DEFINE t == Append(s, x)
<1>1. /\ t \in Seq(Int) /\ Len(t) = Len(s) + 1 /\ t[Len(s) + 1] = x
      /\ Len(s) \in Nat /\ \A i \in 1 .. Len(s) : t[i] = s[i]
  BY AppendProperties, LenProperties
<1> HIDE DEF t
<1>2. SubSeq(t, 1, Len(s)) = s
  <2>1. /\ SubSeq(t, 1, Len(s)) \in Seq(Int)
        /\ Len(SubSeq(t, 1, Len(s))) = Len(s)
        /\ \A i \in 1 .. Len(s) : SubSeq(t, 1, Len(s))[i] = t[i]
    BY <1>1, SubSeqProperties
  <2> QED
    BY <1>1, <2>1, SeqEqual
<1>3. SubSeq(t, Len(s) + 1, Len(s) + 1) = <<x>>
  <2>1. /\ SubSeq(t, Len(s) + 1, Len(s) + 1) \in Seq(Int)
        /\ Len(SubSeq(t, Len(s) + 1, Len(s) + 1)) = 1
        /\ SubSeq(t, Len(s) + 1, Len(s) + 1)[1] = x
    BY <1>1, SubSeqProperties
  <2>2. <<x>> \in Seq(Int) /\ Len(<<x>>) = 1 /\ <<x>>[1] = x
    OBVIOUS
  <2> DEFINE u == SubSeq(t, Len(s) + 1, Len(s) + 1)
             v == <<x>>
  <2>3. /\ u \in Seq(Int) /\ v \in Seq(Int) /\ Len(u) = Len(v)
        /\ \A i \in 1 .. Len(u) : u[i] = v[i]
    BY <2>1, <2>2
  <2> HIDE DEF u, v
  <2>4. u = v
    BY <2>3, SeqEqual
  <2> QED
    BY <2>4 DEF u, v
<1>4. Len(s) \in 0 .. Len(t)
  BY <1>1
<1>5. SumBytes(t) = SumBytes(s) + SumBytes(<<x>>)
  BY <1>1, <1>2, <1>3, <1>4, SumBytesSplit, ZenonT(30)
<1> QED
  BY <1>5, SumBytesOne DEF t

\* Sizes are never negative, so neither is what they add up to.
LEMMA SumBytesNat ==
  ASSUME NEW s \in Seq(Nat)
  PROVE  SumBytes(s) \in Nat
<1>1. s \in Seq(Int) /\ Len(s) \in Nat /\ \A i \in 1 .. Len(s) : s[i] \in Nat
  BY LenProperties, ElementOfSeq
<1> DEFINE sum == RunningSum(s, Len(s))
           T == {i \in 0 .. Len(s) : sum[i] \in Nat}
<1>2. /\ SumBytes(s) = sum[Len(s)] /\ sum[0] = 0
      /\ \A i \in 1 .. Len(s) : sum[i] = sum[i - 1] + s[i]
  BY <1>1, SumBytesDef
<1> HIDE DEF sum
<1>3. 0 \in T
  BY <1>1, <1>2
<1>4. ASSUME NEW i \in 1 .. Len(s), i - 1 \in T
      PROVE  i \in T
  BY <1>1, <1>2, <1>4
<1> HIDE DEF T
<1>5. \A i \in 0 .. Len(s) : i \in T
  BY <1>1, <1>3, <1>4, IntervalInduction
<1> QED
  BY <1>1, <1>2, <1>5 DEF T

\* The part of a sequence of sizes behind its first k.
LEMMA RestOfSizes ==
  ASSUME NEW s \in Seq(Nat), NEW k \in 0 .. Len(s)
  PROVE  /\ s \in Seq(Int)
         /\ SubSeq(s, 1, k) \in Seq(Nat)
         /\ Len(SubSeq(s, 1, k)) = k
         /\ \A i \in 1 .. k : SubSeq(s, 1, k)[i] = s[i]
         /\ SubSeq(s, k + 1, Len(s)) \in Seq(Nat)
         /\ Len(SubSeq(s, k + 1, Len(s))) = Len(s) - k
         /\ \A i \in 1 .. (Len(s) - k) : SubSeq(s, k + 1, Len(s))[i] = s[k + i]
<1>1. Len(s) \in Nat /\ \A i \in 1 .. Len(s) : s[i] \in Nat
  BY LenProperties, ElementOfSeq
<1>2. s \in Seq(Int)
  OBVIOUS
<1> QED
  BY <1>1, <1>2, SubSeqProperties

\* While used is the sum of the bytes, the pruning subtraction never saturates:
\* k entries dropped leave the bytes of the others.
LEMMA DroppedExactly ==
  ASSUME NEW l, l.bytes \in Seq(Nat), l.used = SumBytes(l.bytes),
         NEW k \in 0 .. Len(l.bytes)
  PROVE  UsedAfterDropping(l, k) = SumBytes(SubSeq(l.bytes, k + 1, Len(l.bytes)))
<1> DEFINE s == l.bytes
           left == [i \in 0 .. k |-> SumBytes(SubSeq(s, i + 1, Len(s)))]
           Defines(used) ==
             used = [i \in 0 .. k |->
                       IF i = 0 THEN l.used
                       ELSE IF used[i - 1] >= s[i] THEN used[i - 1] - s[i] ELSE 0]
<1>1. s \in Seq(Nat) /\ s \in Seq(Int) /\ Len(s) \in Nat /\ k \in 0 .. Len(s)
  BY LenProperties, RestOfSizes
<1>2. ASSUME NEW i \in 1 .. k
      PROVE  /\ left[i] \in Nat /\ s[i] \in Nat
             /\ left[i - 1] = left[i] + s[i]
  <2>1. i \in 0 .. Len(s) /\ i - 1 \in 0 .. Len(s) /\ i \in 1 .. Len(s) /\ (i - 1) + 1 = i
    BY <1>1
  <2>2. /\ left[i] = SumBytes(SubSeq(s, i + 1, Len(s)))
        /\ left[i - 1] = SumBytes(SubSeq(s, (i - 1) + 1, Len(s)))
    BY <2>1
  <2>3. left[i] \in Nat
    BY <1>1, <2>1, <2>2, RestOfSizes, SumBytesNat
  <2>4. /\ SumBytes(s) = RunningSum(s, Len(s))[i] + left[i]
        /\ SumBytes(s) = RunningSum(s, Len(s))[i - 1] + left[i - 1]
        /\ RunningSum(s, Len(s))[i - 1] \in Int
        /\ left[i - 1] \in Int
    BY <1>1, <2>1, <2>2, SumBytesSplit
  <2>5. RunningSum(s, Len(s))[i] = RunningSum(s, Len(s))[i - 1] + s[i]
    BY <1>1, <2>1, SumBytesDef
  <2>6. s[i] \in Nat
    BY <1>1, <2>1, ElementOfSeq
  <2> DEFINE before == RunningSum(s, Len(s))[i - 1]
             after == RunningSum(s, Len(s))[i]
             a == left[i]
             b == left[i - 1]
             c == s[i]
  <2>7. /\ before \in Int /\ a \in Nat /\ b \in Int /\ c \in Nat
        /\ after = before + c
        /\ after + a = before + b
    BY <2>3, <2>4, <2>5, <2>6
  <2> HIDE DEF before, after, a, b, c
  <2>8. b = a + c
    BY <2>7
  <2> QED
    BY <2>3, <2>6, <2>8 DEF a, b, c
<1>3. left[0] = l.used
  <2>1. SubSeq(s, 1, Len(s)) = s
    BY <1>1
  <2>2. left[0] = SumBytes(SubSeq(s, 1, Len(s)))
    BY <1>1
  <2> QED
    BY <2>1, <2>2
<1>4. Defines(left)
  <2>1. ASSUME NEW i \in 0 .. k
        PROVE  left[i] = IF i = 0 THEN l.used
                         ELSE IF left[i - 1] >= s[i] THEN left[i - 1] - s[i] ELSE 0
    <3>1. CASE i = 0
      BY <1>3, <3>1
    <3>2. CASE i # 0
      <4>1. i \in 1 .. k
        BY <3>2
      <4>2. left[i] \in Nat /\ s[i] \in Nat /\ left[i - 1] = left[i] + s[i]
        BY <1>2, <4>1
      <4> HIDE DEF left, s
      <4>3. left[i - 1] >= s[i] /\ left[i - 1] - s[i] = left[i]
        BY <4>2
      <4> QED
        BY <3>2, <4>3
    <3> QED
      BY <3>1, <3>2
  <2> QED
    BY <2>1
<1> DEFINE g == CHOOSE used : Defines(used)
<1>5. Defines(g)
  <2> HIDE DEF Defines
  <2> QED BY <1>4
<1>6. UsedAfterDropping(l, k) = g[k]
  BY Zenon DEF UsedAfterDropping
<1> HIDE DEF g
<1> DEFINE T == {i \in 0 .. k : g[i] = left[i]}
<1>7. 0 \in T
  BY <1>3, <1>5
<1>8. ASSUME NEW i \in 1 .. k, i - 1 \in T
      PROVE  i \in T
  <2>1. i \in 0 .. k /\ i # 0 /\ g[i - 1] = left[i - 1]
    BY <1>8
  <2>2. g[i] = IF g[i - 1] >= s[i] THEN g[i - 1] - s[i] ELSE 0
    BY <1>5, <2>1
  <2>3. left[i] = IF left[i - 1] >= s[i] THEN left[i - 1] - s[i] ELSE 0
    BY <1>4, <2>1
  <2> HIDE DEF left
  <2> QED
    BY <2>1, <2>2, <2>3
<1> HIDE DEF T
<1>9. k \in Nat /\ k \in 0 .. k
  BY <1>1
<1>10. \A i \in 0 .. k : i \in T
  BY <1>7, <1>8, <1>9, IntervalInduction
<1> QED
  BY <1>6, <1>9, <1>10 DEF T
-----------------------------------------------------------------------------
(* The account of a log *)

\* A transaction is charged its commands and its slots, a natural number.
LEMMA MeasureNat ==
  ASSUME NEW command \in Command
  PROVE  Measure(command) \in Nat
<1>1. command \in Seq(Edit) /\ Len(command) \in Nat \ {0}
  BY CommandTyped DEF Command
<1>2. ASSUME NEW i \in 1 .. Len(command)
      PROVE  command[i].size \in Nat
  <2>1. command[i] \in Edit
    BY <1>1, ElementOfSeq
  <2> QED
    BY <2>1, SizesAssumption DEF Edit
<1> DEFINE sizes == [i \in DOMAIN command |-> command[i].size]
<1>3. sizes \in Seq(Nat)
  <2>1. DOMAIN command = 1 .. Len(command)
    BY <1>1, LenProperties
  <2>2. sizes = [i \in 1 .. Len(command) |-> command[i].size]
    BY <2>1
  <2> QED
    BY <1>1, <1>2, <2>2
<1> HIDE DEF sizes
<1>4. SumBytes(sizes) \in Nat
  BY <1>3, SumBytesNat
<1>5. 1 \in 1 .. Len(command)
  BY <1>1
<1> QED
  BY <1>1, <1>2, <1>4, <1>5, SizesAssumption DEF Measure, sizes

\* Every entry has a recorded size, the one its command has now, and used is
\* what they add up to, to be compared with a budget of bytes.
Accounted(l) ==
  /\ l.budget \in Nat
  /\ l.bytes \in Seq(Nat)
  /\ Len(l.bytes) = Len(l.entries)
  /\ l.used = SumBytes(l.bytes)
  /\ \A i \in 1 .. Len(l.entries) : l.bytes[i] = Measure(l.entries[i])

\* The account does not depend on the counters, the cursor or the capacity.
LEMMA SameAccount ==
  ASSUME NEW l, Accounted(l), NEW m,
         m.entries = l.entries, m.bytes = l.bytes, m.used = l.used, m.budget = l.budget
  PROVE  Accounted(m)
BY DEF Accounted

\* Refreshing the counters touches nothing else.
LEMMA RefreshedAccount ==
  ASSUME NEW l, Shaped(l)
  PROVE  /\ RefreshCounts(l).bytes = l.bytes
         /\ RefreshCounts(l).used = l.used
         /\ RefreshCounts(l).entries = l.entries
         /\ RefreshCounts(l).budget = l.budget
         /\ RefreshCounts(l).cursor = l.cursor
BY DEF Shaped, LogFields, RefreshCounts

\* Pruning keeps the account of what it leaves.
LEMMA PrunedAccount ==
  ASSUME NEW l, Shaped(l), Accounted(l)
  PROVE  Accounted(PruneBudget(l))
<1> DEFINE k == PruneCount(l)
           p == [l EXCEPT !.entries = SubSeq(@, k + 1, Len(@)),
                          !.bytes   = SubSeq(@, k + 1, Len(@)),
                          !.cursor  = @ - k,
                          !.used    = UsedAfterDropping(l, k)]
<1>1. k \in 0 .. l.cursor
  BY PruneCountBound DEF Shaped
<1>2. /\ p.entries = SubSeq(l.entries, k + 1, Len(l.entries))
      /\ p.bytes = SubSeq(l.bytes, k + 1, Len(l.bytes))
      /\ p.used = UsedAfterDropping(l, k)
      /\ p.cursor = l.cursor - k
      /\ p.budget = l.budget
      /\ DOMAIN p = LogFields
  <2> HIDE DEF k
  <2> QED BY DEF Shaped, LogFields
<1>3. PruneBudget(l) = RefreshCounts(p)
  BY DEF PruneBudget
<1> HIDE DEF k, p
<1>4. /\ k \in 0 .. Len(l.entries) /\ k \in 0 .. Len(l.bytes)
      /\ Len(l.entries) \in Nat
  BY <1>1, LenProperties DEF Shaped, Accounted
<1>5. /\ p.entries \in Seq(Command)
      /\ Len(p.entries) = Len(l.entries) - k
      /\ \A i \in 1 .. (Len(l.entries) - k) : p.entries[i] = l.entries[k + i]
  BY <1>2, <1>4, SubSeqProperties, ElementOfSeq DEF Shaped
<1>6. /\ p.bytes \in Seq(Nat)
      /\ Len(p.bytes) = Len(l.entries) - k
      /\ \A i \in 1 .. (Len(l.entries) - k) : p.bytes[i] = l.bytes[k + i]
  BY <1>2, <1>4, RestOfSizes DEF Accounted
<1>7. p.used = SumBytes(p.bytes)
  BY <1>2, <1>4, DroppedExactly DEF Accounted
<1>8. \A i \in 1 .. Len(p.entries) : p.bytes[i] = Measure(p.entries[i])
  <2> SUFFICES ASSUME NEW i \in 1 .. Len(p.entries)
               PROVE  p.bytes[i] = Measure(p.entries[i])
    OBVIOUS
  <2>1. k + i \in 1 .. Len(l.entries) /\ i \in 1 .. (Len(l.entries) - k)
    BY <1>4, <1>5
  <2> QED
    BY <1>5, <1>6, <2>1 DEF Accounted
<1>9. Accounted(p)
  BY <1>1, <1>2, <1>5, <1>6, <1>7, <1>8 DEF Accounted
<1>10. Shaped(p)
  BY <1>1, <1>2, <1>4, <1>5 DEF Shaped
<1> QED
  BY <1>3, <1>9, <1>10, RefreshedAccount, SameAccount

\* What pruning is for.
WithinBudget(l) == l.used <= l.budget \/ l.cursor <= 1

\* Pruning stops within the budget or at the last executed entry.
LEMMA PrunedToBudget ==
  ASSUME NEW l, Shaped(l), Accounted(l)
  PROVE  WithinBudget(PruneBudget(l))
<1> DEFINE k == PruneCount(l)
           q == PruneBudget(l)
           Over(j) == UsedAfterDropping(l, j) > l.budget
           Passes == {i \in 0 .. (l.cursor - 2) : \A j \in 0 .. i : Over(j)}
           p == [l EXCEPT !.entries = SubSeq(@, k + 1, Len(@)),
                          !.bytes   = SubSeq(@, k + 1, Len(@)),
                          !.cursor  = @ - k,
                          !.used    = UsedAfterDropping(l, k)]
<1>1. k \in 0 .. l.cursor /\ l.cursor \in Nat
  BY PruneCountBound, LenProperties DEF Shaped
<1>2. /\ p.used = UsedAfterDropping(l, k)
      /\ p.cursor = l.cursor - k
      /\ p.budget = l.budget
  <2> HIDE DEF k
  <2> QED BY DEF Shaped, LogFields
<1>3. q.used = p.used /\ q.cursor = p.cursor /\ q.budget = p.budget
  <2>1. DOMAIN p = LogFields
    <3> HIDE DEF k
    <3> QED BY DEF Shaped, LogFields
  <2>2. q = RefreshCounts(p)
    BY DEF PruneBudget
  <2> HIDE DEF p, q
  <2> QED
    BY <2>1, <2>2 DEF RefreshCounts, LogFields
<1>4. k = Cardinality(Passes)
  BY DEF PruneCount
<1> HIDE DEF k, p, q
<1>5. CASE l.cursor <= 1
  <2>1. q.cursor <= 1
    BY <1>1, <1>2, <1>3, <1>5
  <2> QED
    BY <2>1 DEF q, WithinBudget
<1>6. CASE l.cursor > 1
  <2> DEFINE n == l.cursor - 1
  <2>1. n \in Nat /\ n - 1 = l.cursor - 2
    BY <1>1, <1>6
  <2>2. Passes \in SUBSET (0 .. (n - 1))
    BY <2>1
  <2>3. \A i \in Passes : \A j \in 0 .. i : j \in Passes
    <3> SUFFICES ASSUME NEW i \in Passes, NEW j \in 0 .. i
                 PROVE  j \in Passes
      OBVIOUS
    <3>1. i \in 0 .. (l.cursor - 2) /\ \A h \in 0 .. i : Over(h)
      OBVIOUS
    <3>2. j \in 0 .. (l.cursor - 2) /\ \A h \in 0 .. j : h \in 0 .. i
      BY <1>1, <3>1
    <3> HIDE DEF Over
    <3> QED
      BY <3>1, <3>2
  <2>4. k \in 0 .. n /\ Passes = 0 .. (k - 1)
    <3> HIDE DEF Passes, n
    <3> QED BY <1>4, <2>1, <2>2, <2>3, InitialSegment
  <2>5. CASE k = n
    <3>1. q.cursor = 1
      BY <1>1, <1>2, <1>3, <2>5
    <3> QED
      BY <3>1 DEF q, WithinBudget
  <2>6. CASE k # n
    <3>1. k \in 0 .. (l.cursor - 2) /\ k \notin Passes
      <4>1. k \in 0 .. (l.cursor - 2) /\ ~ (k \in 0 .. (k - 1))
        BY <1>1, <1>6, <2>4, <2>6
      <4> HIDE DEF Passes
      <4> QED
        BY <2>4, <4>1
    <3>2. PICK j \in 0 .. k : ~Over(j)
      <4> HIDE DEF Over
      <4> QED BY <3>1
    <3>3. j = k
      <4>1. CASE j \in 0 .. (k - 1)
        <5>1. j \in Passes
          <6> HIDE DEF Passes
          <6> QED BY <2>4, <4>1
        <5>2. j \in 0 .. j
          BY <4>1
        <5>3. Over(j)
          <6> HIDE DEF Over
          <6> QED BY <5>1, <5>2
        <5> QED
          BY <3>2, <5>3
      <4> QED
        BY <1>1, <4>1
    <3>4. ~ (q.used > q.budget)
      BY <1>2, <1>3, <3>2, <3>3
    <3>5. k \in 0 .. Len(l.bytes)
      BY <1>1, LenProperties DEF Shaped, Accounted
    <3>6. q.used \in Nat /\ q.budget \in Nat
      <4>1. q.used = SumBytes(SubSeq(l.bytes, k + 1, Len(l.bytes)))
        BY <1>2, <1>3, <3>5, DroppedExactly DEF Accounted
      <4>2. SubSeq(l.bytes, k + 1, Len(l.bytes)) \in Seq(Nat)
        BY <3>5, RestOfSizes DEF Accounted
      <4> QED
        BY <1>2, <1>3, <4>1, <4>2, SumBytesNat DEF Accounted
    <3>7. q.used <= q.budget
      BY <3>4, <3>6
    <3> QED
      BY <3>7 DEF q, WithinBudget
  <2> QED
    BY <2>5, <2>6
<1> QED
  BY <1>1, <1>5, <1>6

\* Clearing the undone tail keeps the account: it subtracts what it discards.
LEMMA ReadyAccount ==
  ASSUME NEW l, LogTyped(l), Accounted(l)
  PROVE  /\ Accounted(ReadyToAppend(l))
         /\ Len(ReadyToAppend(l).bytes) = l.cursor
<1> DEFINE r == Reserved(l)
           c == [r EXCEPT !.entries = SubSeq(@, 1, r.cursor),
                          !.bytes   = SubSeq(@, 1, r.cursor),
                          !.used    = @ - SumBytes(SubSeq(r.bytes, r.cursor + 1, Len(r.bytes)))]
<1>1. /\ DOMAIN r = LogFields /\ r.entries = l.entries /\ r.cursor = l.cursor
      /\ r.bytes = l.bytes /\ r.used = l.used /\ r.budget = l.budget
  BY DEF Reserved, LogTyped, LogFields
<1> HIDE DEF r
<1>2. /\ DOMAIN c = LogFields
      /\ c.entries = SubSeq(l.entries, 1, l.cursor)
      /\ c.bytes = SubSeq(l.bytes, 1, l.cursor)
      /\ c.used = l.used - SumBytes(SubSeq(l.bytes, l.cursor + 1, Len(l.bytes)))
      /\ c.cursor = l.cursor /\ c.budget = l.budget
  BY <1>1 DEF LogFields
<1>3. ReadyToAppend(l) = RefreshCounts(c)
  BY DEF ReadyToAppend, ClearTail, r
<1> HIDE DEF c
<1>4. l.cursor \in 0 .. Len(l.bytes) /\ Len(l.entries) \in Nat
  BY LenProperties DEF LogTyped, Accounted
<1>5. /\ c.entries \in Seq(Command)
      /\ Len(c.entries) = l.cursor
      /\ \A i \in 1 .. l.cursor : c.entries[i] = l.entries[i]
  BY <1>2, <1>4, SubSeqProperties, ElementOfSeq DEF LogTyped
<1>6. /\ c.bytes \in Seq(Nat)
      /\ Len(c.bytes) = l.cursor
      /\ \A i \in 1 .. l.cursor : c.bytes[i] = l.bytes[i]
  BY <1>2, <1>4, RestOfSizes DEF Accounted
<1>7. c.used = SumBytes(c.bytes)
  <2>1. l.bytes \in Seq(Int)
    BY <1>4, RestOfSizes DEF Accounted
  <2> QED
    BY <1>2, <1>4, <2>1, SumBytesSplit DEF Accounted
<1>8. \A i \in 1 .. Len(c.entries) : c.bytes[i] = Measure(c.entries[i])
  BY <1>4, <1>5, <1>6 DEF Accounted, LogTyped
<1>9. Accounted(c)
  BY <1>2, <1>5, <1>6, <1>7, <1>8 DEF Accounted
<1>10. Shaped(c)
  BY <1>2, <1>4, <1>5 DEF Shaped
<1> QED
  BY <1>3, <1>6, <1>9, <1>10, RefreshedAccount, SameAccount

\* A pushed command is accounted for.
LEMMA PushedAccount ==
  ASSUME NEW l, LogTyped(l), Accounted(l), NEW command \in Command
  PROVE  /\ Accounted(Push(l, command, Measure(command)))
         /\ WithinBudget(Push(l, command, Measure(command)))
<1> DEFINE ready == ReadyToAppend(l)
           size == Measure(command)
           p == [ready EXCEPT !.entries = Append(@, command),
                              !.bytes   = Append(@, size),
                              !.cursor  = @ + 1,
                              !.used    = @ + size]
           q == RefreshCounts(p)
<1>1. /\ Shaped(ready) /\ Accounted(ready)
      /\ Len(ready.entries) = l.cursor
      /\ Len(ready.bytes) = l.cursor
      /\ ready.cursor = l.cursor
  BY Ready, ReadyAccount
<1>2. size \in Nat
  BY MeasureNat
<1> HIDE DEF ready, size
<1>3. /\ DOMAIN p = LogFields
      /\ p.entries = Append(ready.entries, command)
      /\ p.bytes = Append(ready.bytes, size)
      /\ p.cursor = l.cursor + 1 /\ p.budget = ready.budget
      /\ p.used = ready.used + size
  BY <1>1 DEF Shaped, LogFields
<1>4. Push(l, command, size) = PruneBudget(q)
  BY DEF Push, ready
<1> HIDE DEF p, q
<1>5. /\ p.entries \in Seq(Command) /\ l.cursor \in Nat
      /\ Len(p.entries) = l.cursor + 1
      /\ p.entries[l.cursor + 1] = command
      /\ \A i \in 1 .. l.cursor : p.entries[i] = ready.entries[i]
  BY <1>1, <1>3, AppendProperties DEF Shaped
<1>6. /\ p.bytes \in Seq(Nat)
      /\ Len(p.bytes) = l.cursor + 1
      /\ p.bytes[l.cursor + 1] = size
      /\ \A i \in 1 .. l.cursor : p.bytes[i] = ready.bytes[i]
  BY <1>1, <1>2, <1>3, AppendProperties DEF Accounted
<1>7. p.used = SumBytes(p.bytes)
  <2>1. ready.bytes \in Seq(Int) /\ size \in Int
    BY <1>1, <1>2 DEF Accounted
  <2> QED
    BY <1>1, <1>3, <2>1, SumBytesAppend DEF Accounted
<1>8. \A i \in 1 .. Len(p.entries) : p.bytes[i] = Measure(p.entries[i])
  <2> SUFFICES ASSUME NEW i \in 1 .. (l.cursor + 1)
               PROVE  p.bytes[i] = Measure(p.entries[i])
    BY <1>5
  <2>1. CASE i = l.cursor + 1
    BY <1>5, <1>6, <2>1 DEF size
  <2>2. CASE i \in 1 .. l.cursor
    BY <1>1, <1>5, <1>6, <2>2 DEF Accounted
  <2> QED
    BY <1>5, <2>1, <2>2
<1>9. Accounted(p)
  BY <1>1, <1>3, <1>5, <1>6, <1>7, <1>8 DEF Accounted
<1>10. Shaped(p)
  BY <1>3, <1>5 DEF Shaped
<1>11. Shaped(q) /\ Accounted(q)
  BY <1>9, <1>10, Refreshed, RefreshedAccount, SameAccount, TypedIsShaped DEF q
<1> QED
  BY <1>4, <1>11, PrunedAccount, PrunedToBudget DEF size

\* Replacing the last size changes the sum by the difference.
LEMMA SumBytesReplaceLast ==
  ASSUME NEW s \in Seq(Nat), Len(s) > 0, NEW x \in Nat
  PROVE  /\ [s EXCEPT ![Len(s)] = x] \in Seq(Nat)
         /\ SumBytes([s EXCEPT ![Len(s)] = x]) = SumBytes(s) + x - s[Len(s)]
<1> DEFINE n == Len(s)
           t == [s EXCEPT ![Len(s)] = x]
           sum == RunningSum(s, Len(s))
           new == [i \in 0 .. n |-> IF i = n THEN sum[n - 1] + x ELSE sum[i]]
<1>1. /\ s \in Seq(Int) /\ n \in Nat /\ n > 0
      /\ sum \in [0 .. n -> Int] /\ sum[0] = 0 /\ SumBytes(s) = sum[n]
      /\ \A i \in 1 .. n : sum[i] = sum[i - 1] + s[i]
      /\ \A i \in 1 .. n : s[i] \in Int
  BY SumBytesDef
<1>2. /\ t \in Seq(Nat) /\ t \in Seq(Int) /\ Len(t) = n
      /\ \A i \in 1 .. n : t[i] = IF i = n THEN x ELSE s[i]
  BY <1>1, ExceptSeq
<1> HIDE DEF n, t, sum
<1>3. /\ new[0] = 0
      /\ \A i \in 1 .. n : new[i] = new[i - 1] + t[i]
  <2>1. new[0] = 0
    BY <1>1
  <2>2. ASSUME NEW i \in 1 .. n
        PROVE  new[i] = new[i - 1] + t[i]
    <3>1. new[i - 1] = sum[i - 1]
      BY <1>1
    <3>2. CASE i = n
      BY <1>1, <1>2, <3>1, <3>2
    <3>3. CASE i # n
      <4>1. new[i] = sum[i] /\ t[i] = s[i]
        BY <1>1, <1>2, <3>3
      <4> QED
        BY <1>1, <3>1, <4>1
    <3> QED
      BY <3>2, <3>3
  <2> QED
    BY <2>1, <2>2
<1>4. new[n] = sum[n - 1] + x
  BY <1>1
<1> HIDE DEF new
<1>5. SumBytes(t) = new[n]
  BY <1>2, <1>3, SumBytesIs
<1>6. sum[n] = sum[n - 1] + s[n] /\ sum[n - 1] \in Int /\ s[n] \in Int
  BY <1>1
<1>7. SumBytes(t) = SumBytes(s) + x - s[n]
  BY <1>1, <1>4, <1>5, <1>6
<1> QED
  BY <1>2, <1>7 DEF n, t

\* An absorbed command is accounted for: the size the entry had is taken off.
LEMMA AbsorbedAccount ==
  ASSUME NEW l, LogTyped(l), Accounted(l), l.cursor > 0, NEW absorbed \in Command
  PROVE  /\ Accounted(Absorb(l, absorbed, Measure(absorbed)))
         /\ WithinBudget(Absorb(l, absorbed, Measure(absorbed)))
<1> DEFINE ready == ReadyToAppend(l)
           size == Measure(absorbed)
           p == [ready EXCEPT !.entries[l.cursor] = absorbed,
                              !.bytes[l.cursor]   = size,
                              !.used = @ + size - ready.bytes[l.cursor]]
<1>1. /\ Shaped(ready) /\ Accounted(ready)
      /\ Len(ready.entries) = l.cursor
      /\ Len(ready.bytes) = l.cursor
      /\ ready.cursor = l.cursor
      /\ l.cursor \in Nat
  BY Ready, ReadyAccount DEF Shaped
<1>2. size \in Nat
  BY MeasureNat
<1> HIDE DEF ready, size
<1>3. /\ DOMAIN p = LogFields
      /\ p.entries = [ready.entries EXCEPT ![l.cursor] = absorbed]
      /\ p.bytes = [ready.bytes EXCEPT ![l.cursor] = size]
      /\ p.cursor = l.cursor /\ p.budget = ready.budget
      /\ p.used = ready.used + size - ready.bytes[l.cursor]
  BY <1>1 DEF Shaped, LogFields
<1>4. Absorb(l, absorbed, size) = PruneBudget(p)
  BY DEF Absorb, ready
<1> HIDE DEF p
<1>5. /\ p.entries \in Seq(Command)
      /\ Len(p.entries) = l.cursor
      /\ \A i \in 1 .. l.cursor :
           p.entries[i] = IF i = l.cursor THEN absorbed ELSE ready.entries[i]
  BY <1>1, <1>3, ExceptSeq DEF Shaped
<1>6. /\ p.bytes \in Seq(Nat)
      /\ Len(p.bytes) = l.cursor
      /\ \A i \in 1 .. l.cursor :
           p.bytes[i] = IF i = l.cursor THEN size ELSE ready.bytes[i]
  BY <1>1, <1>2, <1>3, ExceptSeq DEF Accounted
<1>7. p.used = SumBytes(p.bytes)
  BY <1>1, <1>2, <1>3, SumBytesReplaceLast DEF Accounted
<1>8. \A i \in 1 .. Len(p.entries) : p.bytes[i] = Measure(p.entries[i])
  BY <1>1, <1>5, <1>6 DEF Accounted, size
<1>9. Accounted(p)
  BY <1>1, <1>3, <1>5, <1>6, <1>7, <1>8 DEF Accounted
<1>10. Shaped(p)
  BY <1>1, <1>3, <1>5 DEF Shaped
<1> QED
  BY <1>4, <1>9, <1>10, PrunedAccount, PrunedToBudget DEF size

\* One append, merged or pushed.
LEMMA RecordedAccount ==
  ASSUME LogTyped(log), Accounted(log), NEW command \in Command
  PROVE  Accounted(Recorded(command)) /\ WithinBudget(Recorded(command))
<1>1. CASE log.cursor > 0 /\ Merges(log.entries[log.cursor], command)
  <2> DEFINE absorbed == Merged(log.entries[log.cursor], command)
  <2>1. absorbed \in Command
    BY <1>1, LastExecuted, MergedCommand
  <2>2. Recorded(command) = Absorb(log, absorbed, Measure(absorbed))
    BY <1>1 DEF Recorded
  <2> HIDE DEF absorbed
  <2> QED
    BY <1>1, <2>1, <2>2, AbsorbedAccount
<1>2. CASE ~(log.cursor > 0 /\ Merges(log.entries[log.cursor], command))
  <2>1. Recorded(command) = Push(log, command, Measure(command))
    BY <1>2 DEF Recorded
  <2> QED
    BY <2>1, PushedAccount
<1> QED
  BY <1>1, <1>2
-----------------------------------------------------------------------------
(* BytesAccounted *)

\* A step of the cursor leaves the account alone.
LEMMA CursorAccount ==
  ASSUME NEW l, LogTyped(l), Accounted(l)
  PROVE  /\ CanUndo(l) => Accounted(StepBack(l))
         /\ CanRedo(l) => Accounted(StepForward(l))
<1> DEFINE b == [l EXCEPT !.cursor = @ - 1]
           f == [l EXCEPT !.cursor = @ + 1]
<1>1. /\ DOMAIN b = LogFields /\ b.entries = l.entries /\ b.cursor = l.cursor - 1
      /\ b.bytes = l.bytes /\ b.used = l.used /\ b.budget = l.budget
  BY DEF LogTyped, LogFields
<1>2. /\ DOMAIN f = LogFields /\ f.entries = l.entries /\ f.cursor = l.cursor + 1
      /\ f.bytes = l.bytes /\ f.used = l.used /\ f.budget = l.budget
  BY DEF LogTyped, LogFields
<1>3. StepBack(l) = RefreshCounts(b) /\ StepForward(l) = RefreshCounts(f)
  BY DEF StepBack, StepForward
<1> HIDE DEF b, f
<1>4. l.cursor \in 0 .. Len(l.entries) /\ Len(l.entries) \in Nat
  BY LenProperties DEF LogTyped
<1>5. CanUndo(l) => Shaped(b)
  BY <1>1, <1>4 DEF Shaped, LogTyped, CanUndo
<1>6. CanRedo(l) => Shaped(f)
  BY <1>2, <1>4 DEF Shaped, LogTyped, CanRedo
<1> QED
  BY <1>1, <1>2, <1>3, <1>5, <1>6, RefreshedAccount, SameAccount

\* A new budget prunes, and keeps the account.
LEMMA BudgetAccount ==
  ASSUME NEW l, LogTyped(l), Accounted(l), NEW budget \in Budgets
  PROVE  Accounted(WithBudget(l, budget)) /\ WithinBudget(WithBudget(l, budget))
<1> DEFINE m == [l EXCEPT !.budget = budget]
<1>1. /\ DOMAIN m = LogFields /\ m.entries = l.entries /\ m.cursor = l.cursor
      /\ m.bytes = l.bytes /\ m.used = l.used /\ m.budget = budget
  BY DEF LogTyped, LogFields
<1>2. WithBudget(l, budget) = PruneBudget(m)
  BY DEF WithBudget
<1> HIDE DEF m
<1>3. budget \in Nat
  BY BudgetsAssumption
<1>4. Shaped(m) /\ Accounted(m)
  BY <1>1, <1>3 DEF Shaped, LogTyped, Accounted
<1> QED
  BY <1>2, <1>4, PrunedAccount, PrunedToBudget

\* Every call keeps the account, whatever fails.
LEMMA NextAccount ==
  ASSUME TypeOK, Accounted(log), [Next]_vars
  PROVE  Accounted(log)'
<1>1. LogTyped(log)
  BY DEF TypeOK
<1>2. SUFFICES Accounted(log')
  BY DEF Accounted
<1>3. ASSUME NEW command \in NewCommands, Execute(command)
      PROVE  Accounted(log')
  <2>1. command \in Command
    BY NewCommandTyped DEF TypeOK
  <2> QED
    BY <1>1, <1>3, <2>1, RecordedAccount
    DEF Execute, ExecuteLogged, ExecuteUnlogged, ExecuteInTransaction, ExecuteNotJoined
<1>4. CASE Undo \/ UndoFails \/ Redo \/ RedoFails
  BY <1>1, <1>4, CursorAccount DEF Undo, UndoFails, Redo, RedoFails
<1>5. CASE CommitTransaction
  BY <1>1, <1>5, RecordedAccount, TransactionIsCommand DEF CommitTransaction, TypeOK
<1>6. CASE ExecuteRefused \/ StepRefused \/ BeginTransaction \/ CommitFails
           \/ RollbackTransaction \/ RollbackFails \/ UNCHANGED vars
  BY <1>6 DEF ExecuteRefused, StepRefused, BeginTransaction, CommitFails,
              RollbackTransaction, RollbackFails, vars
<1>7. ASSUME NEW budget \in Budgets, SetMemoryBudget(budget)
      PROVE  Accounted(log')
  BY <1>1, <1>7, BudgetAccount DEF SetMemoryBudget
<1> QED
  BY <1>3, <1>4, <1>5, <1>6, <1>7 DEF Next

\* The account is an invariant, with any set of faults.
LEMMA AccountInvariant == Spec => []Accounted(log)
<1>1. Init => Accounted(log)
  <2> SUFFICES ASSUME NEW budget \in Budgets, log = InitLog(budget)
               PROVE  Accounted(log)
    BY DEF Init
  <2>1. /\ log.entries = << >> /\ log.bytes = << >> /\ log.used = 0
        /\ log.budget \in Nat
    BY BudgetsAssumption DEF InitLog
  <2> QED
    BY <2>1, SumBytesEmpty DEF Accounted
<1>2. TypeOK /\ Accounted(log) /\ [Next]_vars => Accounted(log)'
  BY NextAccount
<1> QED
  BY <1>1, <1>2, TypeCorrect, PTL DEF Spec

\* The bytes charged against the budget are always those of the recorded
\* commands as they are, after merges, cleared tails and pruning alike.
THEOREM BytesAreAccounted == Spec => []BytesAccounted
<1>1. TypeOK /\ Accounted(log) => BytesAccounted
  BY LenProperties DEF TypeOK, LogTyped, Accounted, BytesAccounted
<1> QED
  BY <1>1, AccountInvariant, TypeCorrect, PTL

\* A call that changes the entries leaves the log within its budget, or with one
\* executed command at most.
THEOREM TheBudgetIsKept == Spec => BudgetKept
<1>1. ASSUME TypeOK, Accounted(log), Next, log'.entries # log.entries
      PROVE  WithinBudget(log')
  <2>1. LogTyped(log)
    BY <1>1 DEF TypeOK
  <2>2. ASSUME NEW command \in NewCommands, Execute(command)
        PROVE  WithinBudget(log')
    <3>1. command \in Command
      BY <1>1, NewCommandTyped DEF TypeOK
    <3> QED
      BY <1>1, <2>1, <2>2, <3>1, RecordedAccount
      DEF Execute, ExecuteLogged, ExecuteUnlogged, ExecuteInTransaction, ExecuteNotJoined
  <2>3. CASE Undo \/ UndoFails \/ Redo \/ RedoFails
    BY <1>1, <2>1, <2>3, StepsTyped DEF Undo, UndoFails, Redo, RedoFails
  <2>4. CASE CommitTransaction
    BY <1>1, <2>1, <2>4, RecordedAccount, TransactionIsCommand
    DEF CommitTransaction, TypeOK
  <2>5. CASE ExecuteRefused \/ StepRefused \/ BeginTransaction \/ CommitFails
             \/ RollbackTransaction \/ RollbackFails
    BY <1>1, <2>5 DEF ExecuteRefused, StepRefused, BeginTransaction, CommitFails,
                      RollbackTransaction, RollbackFails
  <2>6. ASSUME NEW budget \in Budgets, SetMemoryBudget(budget)
        PROVE  WithinBudget(log')
    BY <1>1, <2>1, <2>6, BudgetAccount DEF SetMemoryBudget
  <2> QED
    BY <1>1, <2>2, <2>3, <2>4, <2>5, <2>6 DEF Next
<1>2. ASSUME TypeOK, Accounted(log), Next
      PROVE  log'.entries # log.entries => \/ log'.used <= log'.budget
                                           \/ log'.cursor <= 1
  BY <1>1, <1>2 DEF WithinBudget
<1> QED
  BY <1>2, AccountInvariant, TypeCorrect, PTL DEF Spec, BudgetKept
=============================================================================
