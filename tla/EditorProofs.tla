--------------------------- MODULE EditorProofs ---------------------------
(***************************************************************************)
(* What TLAPS proves of the editing session, for all files, names, keys,   *)
(* budgets and bounds.  The inductive invariant says that the log is a     *)
(* chain: each entry leads from what the user saw before it to what the    *)
(* user saw after it, and its undo back.                                   *)
(***************************************************************************)
EXTENDS Editor, CommandsProofs, FunctionTheorems
-----------------------------------------------------------------------------
(* The log operators, for entries of any kind *)

LogFields == {"entries", "bytes", "cursor", "used", "undoCount",
              "redoCount", "capacity", "budget"}

\* A log with entries of C.
Shaped(l, C) ==
  /\ DOMAIN l = LogFields
  /\ l.entries \in Seq(C)
  /\ l.cursor \in 0 .. Len(l.entries)

\* Pruning stops short of the last executed entry.
LEMMA PruneCountBound ==
  ASSUME NEW l, l.cursor \in Nat
  PROVE  /\ PruneCount(l) \in Nat
         /\ PruneCount(l) <= l.cursor
         /\ l.cursor > 0 => PruneCount(l) < l.cursor
<1> DEFINE Passes == {k \in 0 .. (l.cursor - 2) :
                        \A j \in 0 .. k : UsedAfterDropping(l, j) > l.budget}
<1>1. /\ IsFiniteSet(0 .. (l.cursor - 2))
      /\ Cardinality(0 .. (l.cursor - 2)) =
           IF 0 > l.cursor - 2 THEN 0 ELSE l.cursor - 1
  BY FS_Interval, SMTT(30)
<1>2. IsFiniteSet(Passes) /\ Cardinality(Passes) <= Cardinality(0 .. (l.cursor - 2))
  BY <1>1, FS_Subset
<1>3. Cardinality(Passes) \in Nat
  BY <1>2, FS_CardinalityType
<1>4. PruneCount(l) = Cardinality(Passes)
  BY DEF PruneCount
<1> QED
  BY <1>1, <1>2, <1>3, <1>4

\* Refreshing the counters leaves the entries and the cursor.
LEMMA RefreshedLog ==
  ASSUME NEW C, NEW l, Shaped(l, C)
  PROVE  /\ Shaped(RefreshCounts(l), C)
         /\ RefreshCounts(l).entries = l.entries
         /\ RefreshCounts(l).cursor = l.cursor
BY DEF Shaped, LogFields, RefreshCounts

\* What one append makes of the log: the line s of executed entries, with the
\* command pushed or absorbed at its end, loses some of its oldest entries.
Appended(C, l, s) ==
  /\ Shaped(l, C)
  /\ \E k \in 0 .. Len(s) - 1 : l.entries = SubSeq(s, k + 1, Len(s))
  /\ l.cursor = Len(l.entries)

\* Pruning a log whose cursor is at its end drops only its oldest entries.
LEMMA PrunedLog ==
  ASSUME NEW C, NEW l, Shaped(l, C), l.entries # << >>, l.cursor = Len(l.entries)
  PROVE  Appended(C, PruneBudget(l), l.entries)
<1> DEFINE k == PruneCount(l)
           s == l.entries
           p == [l EXCEPT !.entries = SubSeq(@, k + 1, Len(@)),
                          !.bytes   = SubSeq(@, k + 1, Len(@)),
                          !.cursor  = @ - k,
                          !.used    = UsedAfterDropping(l, k)]
           q == PruneBudget(l)
<1>1. s \in Seq(C) /\ Len(s) \in Nat /\ Len(s) > 0
  BY EmptySeq, LenProperties DEF Shaped
<1>2. k \in 0 .. Len(s) - 1
  <2>1. k \in Nat /\ k < l.cursor
    BY <1>1, PruneCountBound
  <2> QED
    BY <1>1, <2>1
<1>3. q = RefreshCounts(p)
  BY DEF PruneBudget
<1> HIDE DEF k, q
<1>4. /\ p.entries = SubSeq(s, k + 1, Len(s))
      /\ p.cursor = l.cursor - k
      /\ DOMAIN p = LogFields
  BY DEF Shaped, LogFields
<1>5. /\ SubSeq(s, k + 1, Len(s)) \in Seq(C)
      /\ Len(SubSeq(s, k + 1, Len(s))) = Len(s) - k
  BY <1>1, <1>2, SubSeqProperties
<1> HIDE DEF p
<1>6. Shaped(p, C)
  BY <1>1, <1>2, <1>4, <1>5 DEF Shaped
<1>7. Shaped(q, C) /\ q.entries = SubSeq(s, k + 1, Len(s)) /\ q.cursor = Len(s) - k
  BY <1>3, <1>4, <1>6, RefreshedLog
<1>8. Appended(C, q, s)
  BY <1>2, <1>5, <1>7 DEF Appended
<1> QED
  BY <1>8 DEF q

\* Reserving a slot and clearing the undone tail leaves the executed entries.
LEMMA ReadyLog ==
  ASSUME NEW C, NEW l, Shaped(l, C)
  PROVE  /\ Shaped(ReadyToAppend(l), C)
         /\ ReadyToAppend(l).entries = SubSeq(l.entries, 1, l.cursor)
         /\ Len(ReadyToAppend(l).entries) = l.cursor
         /\ ReadyToAppend(l).cursor = l.cursor
<1> DEFINE r == Reserved(l)
           c == [r EXCEPT !.entries = SubSeq(@, 1, r.cursor),
                          !.bytes   = SubSeq(@, 1, r.cursor),
                          !.used    = @ - SumBytes(SubSeq(r.bytes, r.cursor + 1, Len(r.bytes)))]
<1>1. DOMAIN r = LogFields /\ r.entries = l.entries /\ r.cursor = l.cursor
  BY DEF Reserved, Shaped, LogFields
<1> HIDE DEF r
<1>2. /\ DOMAIN c = LogFields
      /\ c.entries = SubSeq(l.entries, 1, l.cursor)
      /\ c.cursor = l.cursor
  BY <1>1 DEF LogFields
<1>3. /\ SubSeq(l.entries, 1, l.cursor) \in Seq(C)
      /\ Len(SubSeq(l.entries, 1, l.cursor)) = l.cursor
  BY SubSeqProperties DEF Shaped
<1>4. l.cursor \in Nat
  BY DEF Shaped
<1>5. ReadyToAppend(l) = RefreshCounts(c)
  BY DEF ReadyToAppend, ClearTail, r
<1> HIDE DEF c
<1>6. Shaped(c, C)
  BY <1>2, <1>3, <1>4 DEF Shaped
<1> QED
  BY <1>2, <1>3, <1>5, <1>6, RefreshedLog

\* Pushing a command appends it to the executed entries, whatever was undone.
LEMMA PushedLog ==
  ASSUME NEW C, NEW l, Shaped(l, C), NEW command \in C, NEW size
  PROVE  Appended(C, Push(l, command, size), Append(SubSeq(l.entries, 1, l.cursor), command))
<1> DEFINE ready == ReadyToAppend(l)
           s == Append(SubSeq(l.entries, 1, l.cursor), command)
           p == [ready EXCEPT !.entries = Append(@, command),
                              !.bytes   = Append(@, size),
                              !.cursor  = @ + 1,
                              !.used    = @ + size]
           q == RefreshCounts(p)
<1>1. /\ Shaped(ready, C)
      /\ ready.entries = SubSeq(l.entries, 1, l.cursor)
      /\ Len(ready.entries) = l.cursor
      /\ ready.cursor = l.cursor
  BY ReadyLog
<1> HIDE DEF ready
<1>2. DOMAIN p = LogFields /\ p.entries = s /\ p.cursor = l.cursor + 1
  BY <1>1 DEF Shaped, LogFields
<1>3. s \in Seq(C) /\ Len(s) = l.cursor + 1 /\ s # << >>
  <2>1. ready.entries \in Seq(C) /\ l.cursor \in Nat
    BY <1>1 DEF Shaped
  <2>2. /\ Append(ready.entries, command) \in Seq(C)
        /\ Append(ready.entries, command) # << >>
        /\ Len(Append(ready.entries, command)) = Len(ready.entries) + 1
    BY <2>1, AppendProperties
  <2> QED
    BY <1>1, <2>2
<1>4. l.cursor \in Nat
  BY DEF Shaped
<1>5. Push(l, command, size) = PruneBudget(q)
  BY DEF Push, ready
<1> HIDE DEF p, s
<1>6. Shaped(p, C)
  BY <1>2, <1>3, <1>4 DEF Shaped
<1>7. Shaped(q, C) /\ q.entries = s /\ q.cursor = Len(s)
  BY <1>2, <1>3, <1>6, RefreshedLog
<1> HIDE DEF q
<1> QED
  BY <1>3, <1>5, <1>7, PrunedLog DEF s

\* Absorbing a command replaces the last executed entry and discards what was undone.
LEMMA AbsorbedLog ==
  ASSUME NEW C, NEW l, Shaped(l, C), l.cursor > 0, NEW absorbed \in C, NEW size
  PROVE  Appended(C, Absorb(l, absorbed, size),
                  [SubSeq(l.entries, 1, l.cursor) EXCEPT ![l.cursor] = absorbed])
<1> DEFINE ready == ReadyToAppend(l)
           s == [SubSeq(l.entries, 1, l.cursor) EXCEPT ![l.cursor] = absorbed]
           p == [ready EXCEPT !.entries[l.cursor] = absorbed,
                              !.bytes[l.cursor]   = size,
                              !.used = @ + size - ready.bytes[l.cursor]]
<1>1. /\ Shaped(ready, C)
      /\ ready.entries = SubSeq(l.entries, 1, l.cursor)
      /\ Len(ready.entries) = l.cursor
      /\ ready.cursor = l.cursor
  BY ReadyLog
<1>2. DOMAIN p = LogFields /\ p.entries = s /\ p.cursor = l.cursor
  <2> HIDE DEF ready
  <2> QED BY <1>1 DEF Shaped, LogFields
<1>3. s \in Seq(C) /\ Len(s) = l.cursor /\ s # << >>
  BY <1>1, ExceptSeq DEF Shaped
<1>4. l.cursor \in Nat
  BY DEF Shaped
<1>5. Absorb(l, absorbed, size) = PruneBudget(p)
  BY DEF Absorb
<1> HIDE DEF p, s
<1>6. Shaped(p, C)
  BY <1>2, <1>3, <1>4 DEF Shaped
<1> QED
  BY <1>2, <1>3, <1>5, <1>6, PrunedLog DEF s

\* An undo and a redo move the cursor.
LEMMA SteppedLog ==
  ASSUME NEW C, NEW l, Shaped(l, C)
  PROVE  /\ l.cursor > 0 => /\ Shaped(StepBack(l), C)
                            /\ StepBack(l).entries = l.entries
                            /\ StepBack(l).cursor = l.cursor - 1
         /\ l.cursor < Len(l.entries) => /\ Shaped(StepForward(l), C)
                                         /\ StepForward(l).entries = l.entries
                                         /\ StepForward(l).cursor = l.cursor + 1
<1>1. l.cursor \in 0 .. Len(l.entries) /\ Len(l.entries) \in Nat
  BY LenProperties DEF Shaped
<1>2. ASSUME l.cursor > 0
      PROVE  /\ Shaped(StepBack(l), C)
             /\ StepBack(l).entries = l.entries
             /\ StepBack(l).cursor = l.cursor - 1
  <2> DEFINE p == [l EXCEPT !.cursor = @ - 1]
  <2>1. p.entries = l.entries /\ p.cursor = l.cursor - 1 /\ DOMAIN p = LogFields
    BY DEF Shaped, LogFields
  <2>2. StepBack(l) = RefreshCounts(p)
    BY DEF StepBack
  <2> HIDE DEF p
  <2>3. Shaped(p, C)
    BY <1>1, <1>2, <2>1 DEF Shaped
  <2> QED
    BY <2>1, <2>2, <2>3, RefreshedLog
<1>3. ASSUME l.cursor < Len(l.entries)
      PROVE  /\ Shaped(StepForward(l), C)
             /\ StepForward(l).entries = l.entries
             /\ StepForward(l).cursor = l.cursor + 1
  <2> DEFINE p == [l EXCEPT !.cursor = @ + 1]
  <2>1. p.entries = l.entries /\ p.cursor = l.cursor + 1 /\ DOMAIN p = LogFields
    BY DEF Shaped, LogFields
  <2>2. StepForward(l) = RefreshCounts(p)
    BY DEF StepForward
  <2> HIDE DEF p
  <2>3. Shaped(p, C)
    BY <1>1, <1>3, <2>1 DEF Shaped
  <2> QED
    BY <2>1, <2>2, <2>3, RefreshedLog
<1> QED
  BY <1>2, <1>3
-----------------------------------------------------------------------------
(* The log and the timeline *)

\* Each command of s leads from one content of t to the next.
Chained(s, t) ==
  /\ Len(t) = Len(s) + 1
  /\ \A i \in 1 .. Len(s) : Links(Names, s[i], t[i], t[i + 1])

\* What remains when the undone tail goes.
LEMMA ChainPrefix ==
  ASSUME NEW C, NEW V, NEW s \in Seq(C), NEW t \in Seq(V), Chained(s, t), NEW n \in 0 .. Len(s)
  PROVE  /\ Chained(SubSeq(s, 1, n), SubSeq(t, 1, n + 1))
         /\ SubSeq(s, 1, n) \in Seq(C) /\ Len(SubSeq(s, 1, n)) = n
         /\ SubSeq(t, 1, n + 1) \in Seq(V) /\ Len(SubSeq(t, 1, n + 1)) = n + 1
         /\ SubSeq(t, 1, n + 1)[n + 1] = t[n + 1]
<1>1. Len(s) \in Nat /\ n \in Nat /\ Len(t) = Len(s) + 1
  BY LenProperties DEF Chained
<1>2. /\ SubSeq(s, 1, n) \in Seq(C) /\ Len(SubSeq(s, 1, n)) = n
      /\ \A i \in 1 .. n : SubSeq(s, 1, n)[i] = s[i]
  BY <1>1, SubSeqProperties
<1>3. /\ SubSeq(t, 1, n + 1) \in Seq(V) /\ Len(SubSeq(t, 1, n + 1)) = n + 1
      /\ \A i \in 1 .. (n + 1) : SubSeq(t, 1, n + 1)[i] = t[i]
  BY <1>1, SubSeqProperties
<1>4. ASSUME NEW i \in 1 .. n
      PROVE  Links(Names, SubSeq(s, 1, n)[i], SubSeq(t, 1, n + 1)[i], SubSeq(t, 1, n + 1)[i + 1])
  <2>1. i \in 1 .. Len(s) /\ i \in 1 .. (n + 1) /\ i + 1 \in 1 .. (n + 1)
    BY <1>1
  <2>2. Links(Names, s[i], t[i], t[i + 1])
    BY <2>1 DEF Chained
  <2> QED
    BY <1>2, <1>3, <2>1, <2>2
<1>5. n + 1 \in 1 .. (n + 1)
  BY <1>1
<1> QED
  BY <1>2, <1>3, <1>4, <1>5 DEF Chained

\* How many entries may be dropped from s, and what is left of it.
Drops(s) == 0 .. Len(s)

Rest(s, k) == SubSeq(s, k + 1, Len(s))

\* What remains when the oldest entries go.
LEMMA ChainSuffix ==
  ASSUME NEW C, NEW V, NEW s \in Seq(C), NEW t \in Seq(V), Chained(s, t), NEW k \in Drops(s)
  PROVE  /\ Chained(Rest(s, k), Rest(t, k))
         /\ Len(Rest(s, k)) = Len(s) - k
         /\ Rest(t, k) \in Seq(V)
         /\ Rest(t, k)[Len(Rest(s, k)) + 1] = t[Len(t)]
<1> DEFINE a == SubSeq(s, k + 1, Len(s))
           b == SubSeq(t, k + 1, Len(t))
           n == Len(s)
<1>1. n \in Nat /\ k \in Nat /\ k \in 0 .. n /\ Len(t) = n + 1
  BY LenProperties DEF Chained, Drops
<1>2. Len(a) = n - k /\ \A i \in 1 .. (n - k) : a[i] = s[k + i]
  BY <1>1, SubSeqProperties
<1>3. b \in Seq(V) /\ Len(b) = n + 1 - k /\ \A i \in 1 .. (n + 1 - k) : b[i] = t[k + i]
  BY <1>1, SubSeqProperties
<1> HIDE DEF a, b
<1>4. ASSUME NEW i \in 1 .. Len(a)
      PROVE  Links(Names, a[i], b[i], b[i + 1])
  <2>1. /\ k + i \in 1 .. n /\ i \in 1 .. (n - k) /\ i \in 1 .. (n + 1 - k)
        /\ i + 1 \in 1 .. (n + 1 - k) /\ k + (i + 1) = (k + i) + 1
    BY <1>1, <1>2
  <2>2. Links(Names, s[k + i], t[k + i], t[(k + i) + 1])
    BY <2>1 DEF Chained
  <2> QED
    BY <1>2, <1>3, <2>1, <2>2
<1>5. b[n - k + 1] = t[Len(t)]
  <2>1. n - k + 1 \in 1 .. (n + 1 - k) /\ k + (n - k + 1) = n + 1
    BY <1>1
  <2> QED
    BY <1>1, <1>3, <2>1
<1>6. Len(b) = Len(a) + 1
  BY <1>1, <1>2, <1>3
<1> QED
  BY <1>2, <1>3, <1>4, <1>5, <1>6 DEF Chained, Rest, a, b

\* A new entry at the end.
LEMMA ChainAppend ==
  ASSUME NEW C, NEW V, NEW s \in Seq(C), NEW t \in Seq(V), Chained(s, t),
         NEW c \in C, NEW v \in V, Links(Names, c, t[Len(s) + 1], v)
  PROVE  /\ Chained(Append(s, c), Append(t, v))
         /\ Append(s, c) \in Seq(C) /\ Append(t, v) \in Seq(V)
         /\ Len(Append(t, v)) = Len(t) + 1 /\ Append(t, v)[Len(t) + 1] = v
<1> DEFINE n == Len(s)
           a == Append(s, c)
           b == Append(t, v)
<1>1. n \in Nat /\ Len(t) = n + 1
  BY LenProperties DEF Chained
<1>2. a \in Seq(C) /\ Len(a) = n + 1 /\ a[n + 1] = c /\ \A i \in 1 .. n : a[i] = s[i]
  BY AppendProperties
<1>3. b \in Seq(V) /\ Len(b) = Len(t) + 1 /\ b[Len(t) + 1] = v /\ \A i \in 1 .. Len(t) : b[i] = t[i]
  BY AppendProperties
<1> HIDE DEF a, b
<1>4. ASSUME NEW i \in 1 .. Len(a)
      PROVE  Links(Names, a[i], b[i], b[i + 1])
  <2>1. CASE i \in 1 .. n
    <3>1. i \in 1 .. Len(t) /\ i + 1 \in 1 .. Len(t)
      BY <1>1, <2>1
    <3>2. Links(Names, s[i], t[i], t[i + 1])
      BY <2>1 DEF Chained
    <3> QED
      BY <1>2, <1>3, <2>1, <3>1, <3>2
  <2>2. CASE i = n + 1
    <3>1. n + 1 \in 1 .. Len(t) /\ i + 1 = Len(t) + 1
      BY <1>1, <2>2
    <3> QED
      BY <1>2, <1>3, <2>2, <3>1
  <2> QED
    BY <1>1, <1>2, <2>1, <2>2
<1>5. Len(b) = Len(a) + 1
  BY <1>1, <1>2, <1>3
<1> QED
  BY <1>2, <1>3, <1>4, <1>5 DEF Chained, a, b

\* The last entry changes, and with it what it leads to.
LEMMA ChainReplace ==
  ASSUME NEW C, NEW V, NEW s \in Seq(C), NEW t \in Seq(V), Chained(s, t), Len(s) > 0,
         NEW c \in C, NEW v \in V, Links(Names, c, t[Len(s)], v)
  PROVE  /\ Chained([s EXCEPT ![Len(s)] = c], Append(SubSeq(t, 1, Len(s)), v))
         /\ [s EXCEPT ![Len(s)] = c] \in Seq(C) /\ Len([s EXCEPT ![Len(s)] = c]) = Len(s)
         /\ Append(SubSeq(t, 1, Len(s)), v) \in Seq(V)
         /\ Len(Append(SubSeq(t, 1, Len(s)), v)) = Len(s) + 1
         /\ Append(SubSeq(t, 1, Len(s)), v)[Len(s) + 1] = v
<1> DEFINE n == Len(s)
           a == [s EXCEPT ![n] = c]
           p == SubSeq(t, 1, n)
           b == Append(p, v)
<1>1. n \in Nat /\ Len(t) = n + 1 /\ n \in 1 .. n
  BY LenProperties DEF Chained
<1>2. a \in Seq(C) /\ Len(a) = n /\ a[n] = c /\ \A i \in 1 .. n : i # n => a[i] = s[i]
  <2>1. a = Replaced(s, n, c)
    BY DEF Replaced
  <2>2. n \in 1 .. Len(s)
    BY <1>1
  <2>5. n = Len(s)
    OBVIOUS
  <2>4. s \in Seq(C) /\ c \in C
    OBVIOUS
  <2> HIDE DEF a, n
  <2>3. /\ Replaced(s, n, c) \in Seq(C) /\ Len(Replaced(s, n, c)) = Len(s)
        /\ Replaced(s, n, c)[n] = c
        /\ \A j \in 1 .. Len(s) : j # n => Replaced(s, n, c)[j] = s[j]
    BY ONLY <2>2, <2>4, ReplacedIs
  <2> QED
    BY <2>1, <2>3, <2>5
<1>3. p \in Seq(V) /\ Len(p) = n /\ \A i \in 1 .. n : p[i] = t[i]
  BY <1>1, SubSeqProperties
<1> HIDE DEF a, p
<1>4. b \in Seq(V) /\ Len(b) = n + 1 /\ b[n + 1] = v /\ \A i \in 1 .. n : b[i] = t[i]
  BY <1>3, AppendProperties
<1> HIDE DEF b
<1>5. ASSUME NEW i \in 1 .. Len(a)
      PROVE  Links(Names, a[i], b[i], b[i + 1])
  <2>1. CASE i # n
    <3>1. i \in 1 .. n /\ i + 1 \in 1 .. n
      BY <1>1, <1>2, <2>1
    <3>2. Links(Names, s[i], t[i], t[i + 1])
      BY <3>1 DEF Chained
    <3> QED
      BY <1>2, <1>4, <2>1, <3>1, <3>2
  <2>2. CASE i = n
    BY <1>1, <1>2, <1>4, <2>2
  <2> QED
    BY <2>1, <2>2
<1> QED
  BY <1>1, <1>2, <1>4, <1>5 DEF Chained, a, b, p
-----------------------------------------------------------------------------
(* What the invariant says of the log *)

\* Documents whose ids the counters nextId and nextLayer have left behind.
Under(d, nextId, nextLayer) ==
  /\ \A id \in IdsOf(d.objects) : id < nextId
  /\ \A id \in IdsOf(d.layers) : id < nextLayer

\* What the user may have seen.
Seen(nextId, nextLayer) ==
  {Content(d) : d \in {e \in DocumentType(Names) : Whole(e) /\ Under(e, nextId, nextLayer)}}

\* Commands that may be in the log.
Logged(nextId, nextLayer) ==
  {c \in CommandType(Names) :
     /\ \A id \in RememberedIds(c) : id \in 1 .. (nextId - 1)
     /\ \A id \in RememberedLayers(c) : id \in 1 .. (nextLayer - 1)}

\* The log is a chain, and the document is at its cursor.
OnChain(doc, l, line) ==
  /\ doc \in DocumentType(Names)
  /\ doc.nextId # 0
  /\ Shaped(l, Logged(doc.nextId, doc.nextLayer))
  /\ line \in Seq(Seen(doc.nextId, doc.nextLayer))
  /\ Chained(l.entries, line)
  /\ line[l.cursor + 1] = Content(doc)

\* The document of a chain is whole, and none of its ids is still to be handed out.
LEMMA OnChainIs ==
  ASSUME NEW doc, NEW l, NEW line, OnChain(doc, l, line)
  PROVE  /\ Whole(doc)
         /\ Counted(doc)
         /\ l.cursor \in 0 .. Len(l.entries) /\ Len(l.entries) \in Nat
         /\ Len(line) = Len(l.entries) + 1
         /\ \A i \in 1 .. Len(line) :
              \E d \in DocumentType(Names) :
                /\ line[i] = Content(d) /\ Whole(d) /\ Under(d, doc.nextId, doc.nextLayer)
<1>1. l.cursor \in 0 .. Len(l.entries) /\ Len(l.entries) \in Nat /\ Len(line) = Len(l.entries) + 1
  BY LenProperties DEF OnChain, Shaped, Chained
<1>2. ASSUME NEW i \in 1 .. Len(line)
      PROVE  \E d \in DocumentType(Names) :
               /\ line[i] = Content(d) /\ Whole(d) /\ Under(d, doc.nextId, doc.nextLayer)
  <2>1. line[i] \in Seen(doc.nextId, doc.nextLayer)
    BY ElementOfSeq DEF OnChain
  <2> QED
    BY <2>1 DEF Seen
<1>3. PICK d \in DocumentType(Names) :
        line[l.cursor + 1] = Content(d) /\ Whole(d) /\ Under(d, doc.nextId, doc.nextLayer)
  <2>1. l.cursor + 1 \in 1 .. Len(line)
    BY <1>1
  <2> QED
    BY <1>2, <2>1
<1>4. Content(d) = Content(doc)
  BY <1>3 DEF OnChain
<1>5. Whole(doc)
  BY <1>3, <1>4, SameWhole
<1>6. Counted(doc)
  <2>1. d.objects = doc.objects /\ d.layers = doc.layers
    BY <1>4, ContentIs
  <2> QED
    BY <1>3, <2>1 DEF Counted, Under
<1> QED
  BY <1>1, <1>2, <1>5, <1>6

\* What was in the log, or seen, stays so while the counters grow.
LEMMA LoggedGrows ==
  ASSUME NEW n \in Nat, NEW m \in Nat, NEW n2 \in Nat, NEW m2 \in Nat, n <= n2, m <= m2
  PROVE  Logged(n, m) \subseteq Logged(n2, m2) /\ Seen(n, m) \subseteq Seen(n2, m2)
<1>1. Logged(n, m) \subseteq Logged(n2, m2)
  <2>1. 1 .. (n - 1) \subseteq 1 .. (n2 - 1) /\ 1 .. (m - 1) \subseteq 1 .. (m2 - 1)
    OBVIOUS
  <2> QED
    BY <2>1 DEF Logged
<1>2. ASSUME NEW d \in DocumentType(Names), Under(d, n, m)
      PROVE  Under(d, n2, m2)
  <2>1. IdsOf(d.objects) \subseteq Nat /\ IdsOf(d.layers) \subseteq Nat
    BY IdsAreNat
  <2>2. ASSUME NEW id \in IdsOf(d.objects) PROVE id < n2
    <3>1. id \in Nat /\ id < n
      BY <1>2, <2>1 DEF Under
    <3> QED
      BY <3>1
  <2>3. ASSUME NEW id \in IdsOf(d.layers) PROVE id < m2
    <3>1. id \in Nat /\ id < m
      BY <1>2, <2>1 DEF Under
    <3> QED
      BY <3>1
  <2> QED
    BY <2>2, <2>3 DEF Under
<1>3. Seen(n, m) \subseteq Seen(n2, m2)
  BY <1>2 DEF Seen
<1> QED
  BY <1>1, <1>3

\* Sequences over a larger set.
LEMMA SeqGrows ==
  ASSUME NEW S, NEW T, S \subseteq T, NEW s \in Seq(S)
  PROVE  s \in Seq(T)
<1>1. Len(s) \in Nat /\ s \in [1 .. Len(s) -> S]
  BY LenProperties
<1>2. s \in [1 .. Len(s) -> T]
  BY <1>1
<1> QED
  BY <1>1, <1>2, IsASeq

\* The oldest entries are dropped, and the timeline with them.
LEMMA PrunedChain ==
  ASSUME NEW e \in DocumentType(Names), e.nextId # 0, NEW C, C = Logged(e.nextId, e.nextLayer),
         NEW V, V = Seen(e.nextId, e.nextLayer),
         NEW s \in Seq(C), NEW t \in Seq(V), Chained(s, t), t[Len(s) + 1] = Content(e),
         NEW l, Appended(C, l, s)
  PROVE  OnChain(e, l, SubSeq(t, Len(t) - Len(l.entries), Len(t)))
<1>1. Len(s) \in Nat /\ Len(t) = Len(s) + 1
  BY LenProperties DEF Chained
<1>2. PICK k \in Drops(s) : l.entries = Rest(s, k)
  <2>1. PICK k \in 0 .. Len(s) - 1 : l.entries = SubSeq(s, k + 1, Len(s))
    BY DEF Appended
  <2>2. k \in Drops(s)
    BY <1>1 DEF Drops
  <2> QED
    BY <2>1, <2>2 DEF Rest
<1>3. k \in 0 .. Len(s)
  BY <1>2 DEF Drops
<1>4. /\ Chained(Rest(s, k), Rest(t, k))
      /\ Len(Rest(s, k)) = Len(s) - k
      /\ Rest(t, k) \in Seq(V)
      /\ Rest(t, k)[Len(Rest(s, k)) + 1] = t[Len(t)]
  BY ONLY s \in Seq(C), t \in Seq(V), Chained(s, t), k \in Drops(s), ChainSuffix
<1>5. Len(l.entries) = Len(s) - k /\ Len(t) - Len(l.entries) = k + 1
  BY <1>1, <1>2, <1>3, <1>4
<1>6. Shaped(l, C) /\ l.cursor = Len(l.entries)
  BY <1>5 DEF Appended
<1>7. SubSeq(t, Len(t) - Len(l.entries), Len(t)) = Rest(t, k)
  BY <1>5 DEF Rest
<1> QED
  BY <1>1, <1>2, <1>4, <1>6, <1>7 DEF OnChain

\* An execution extends the chain by one entry or replaces its last one.
LEMMA ExecuteKeeps ==
  ASSUME OnChain(document, log, timeline), NEW command, Execute(command),
         Fresh(Names, Filled(command, document), document)
  PROVE  /\ OnChain(document', log', timeline')
         /\ document' = Redone(Filled(command, document), document)
         /\ Advance(document, document')
<1> DEFINE f == Filled(command, document)
           d == document
           e == document'
           last == log.entries[log.cursor]
           n == log.cursor
           C == Logged(e.nextId, e.nextLayer)
           V == Seen(e.nextId, e.nextLayer)
           merges == n > 0 /\ Merges(last, f)
           s == SubSeq(log.entries, 1, n)
           t == SubSeq(timeline, 1, n + 1)
<1>1. /\ e = Redone(f, d)
      /\ log' = IF merges THEN Absorb(log, Merged(last, f), 1) ELSE Push(log, f, 1)
  BY DEF Execute
<1>2. LET line == Append(SubSeq(timeline, 1, IF merges THEN n ELSE n + 1), Content(e))
      IN  timeline' = SubSeq(line, Len(line) - Len(log'.entries), Len(line))
  BY DEF Execute
<1>3. /\ d \in DocumentType(Names) /\ Whole(d) /\ Counted(d) /\ d.nextId # 0
      /\ n \in 0 .. Len(log.entries) /\ Len(log.entries) \in Nat
      /\ Len(timeline) = Len(log.entries) + 1
      /\ timeline[n + 1] = Content(d)
  BY OnChainIs DEF OnChain
<1>4. /\ Reversible(Names, f, d, e)
      /\ RememberedIds(f) \subseteq IdsOf(d.objects) \union IdsOf(e.objects)
      /\ RememberedLayers(f) \subseteq IdsOf(e.layers)
      /\ Links(Names, f, Content(d), Content(e))
      /\ f \in CommandType(Names) /\ Redoable(f, d) /\ Fits(Names, f, d.layers)
  BY <1>1, <1>3, FreshReverses, FreshLinks DEF Fresh
<1>5. e \in DocumentType(Names) /\ Advance(d, e) /\ Whole(e) /\ Counted(e)
  BY <1>4 DEF Reversible
<1> HIDE DEF f
<1>6. /\ d.nextId \in Nat /\ e.nextId \in Nat /\ d.nextLayer \in Nat /\ e.nextLayer \in Nat
      /\ d.nextId <= e.nextId /\ d.nextLayer <= e.nextLayer /\ e.nextId # 0
  <2>1. d.nextId \in Nat /\ e.nextId \in Nat /\ d.nextLayer \in Nat /\ e.nextLayer \in Nat
    BY <1>3, <1>5, DocumentIs
  <2>2. d.nextId <= e.nextId /\ d.nextLayer <= e.nextLayer
    BY <1>5 DEF Advance
  <2> QED
    BY <1>3, <2>1, <2>2
<1>7. Shaped(log, C) /\ timeline \in Seq(V)
  <2>1. /\ Shaped(log, Logged(d.nextId, d.nextLayer))
        /\ timeline \in Seq(Seen(d.nextId, d.nextLayer))
    BY DEF OnChain
  <2>2. Logged(d.nextId, d.nextLayer) \subseteq C /\ Seen(d.nextId, d.nextLayer) \subseteq V
    BY <1>6, LoggedGrows
  <2> HIDE DEF C, V
  <2> QED
    BY <2>1, <2>2, SeqGrows DEF Shaped
<1>8. Content(e) \in V
  BY <1>5 DEF Seen, Under, Counted
<1>9. f \in C
  <2>1. ASSUME NEW id \in RememberedIds(f) PROVE id \in 1 .. (e.nextId - 1)
    <3>1. id \in Nat /\ id # NoId /\ id < e.nextId
      <4>1. CASE id \in IdsOf(d.objects)
        <5>1. id \in Nat /\ id < d.nextId
          BY <1>3, <4>1, IdsAreNat DEF Counted
        <5>2. id # NoId
          BY <1>3, <4>1, WholeIs DEF WholeParts
        <5> QED
          BY <1>6, <5>1, <5>2
      <4>2. CASE id \in IdsOf(e.objects)
        <5>1. id \in Nat /\ id < e.nextId
          BY <1>5, <4>2, IdsAreNat DEF Counted
        <5>2. id # NoId
          BY <1>5, <4>2, WholeIs DEF WholeParts
        <5> QED
          BY <5>1, <5>2
      <4> QED
        BY <1>4, <2>1, <4>1, <4>2
    <3> QED
      BY <1>6, <3>1 DEF NoId
  <2>2. ASSUME NEW id \in RememberedLayers(f) PROVE id \in 1 .. (e.nextLayer - 1)
    <3>1. id \in IdsOf(e.layers)
      BY <1>4, <2>2
    <3>2. id \in Nat /\ id < e.nextLayer
      BY <1>5, <3>1, IdsAreNat DEF Counted
    <3>3. id # NoId
      BY <1>5, <3>1, WholeIs DEF WholeParts
    <3> QED
      BY <1>6, <3>2, <3>3 DEF NoId
  <2> QED
    BY <1>4, <2>1, <2>2 DEF Logged
<1>10. C = Logged(e.nextId, e.nextLayer) /\ V = Seen(e.nextId, e.nextLayer)
  OBVIOUS
<1>11. log.entries \in Seq(C) /\ Chained(log.entries, timeline)
  BY <1>7 DEF OnChain, Shaped
<1> HIDE DEF C, V, merges
<1>12. /\ Chained(s, t)
       /\ s \in Seq(C) /\ Len(s) = n /\ t \in Seq(V) /\ Len(t) = n + 1
       /\ t[n + 1] = Content(d)
  <2>1. n \in 0 .. Len(log.entries) /\ log.entries \in Seq(C) /\ timeline \in Seq(V)
    BY <1>3, <1>7, <1>11
  <2>2. /\ Chained(s, t)
        /\ s \in Seq(C) /\ Len(s) = n /\ t \in Seq(V) /\ Len(t) = n + 1
        /\ t[n + 1] = timeline[n + 1]
    BY ONLY <1>11, <2>1, ChainPrefix
  <2> QED
    BY <1>3, <2>2
<1> HIDE DEF s, t
<1>13. CASE merges
  <2> DEFINE m == Merged(last, f)
             a == [s EXCEPT ![n] = m]
             line == Append(SubSeq(timeline, 1, n), Content(e))
  <2>1. n \in 1 .. Len(log.entries) /\ n > 0 /\ Merges(last, f) /\ n \in 1 .. Len(timeline)
    BY <1>3, <1>13 DEF merges
  <2>2. /\ log' = Absorb(log, m, 1)
        /\ timeline' = SubSeq(line, Len(line) - Len(log'.entries), Len(line))
    BY <1>1, <1>2, <1>13
  <2>3. last \in CommandType(Names)
    <3>1. last \in C
      BY <1>11, <2>1, ElementOfSeq
    <3> QED
      BY <3>1 DEF C, Logged
  <2>4. Links(Names, last, timeline[n], Content(d))
    BY <1>3, <1>11, <2>1 DEF Chained
  <2>5. PICK p \in DocumentType(Names) : timeline[n] = Content(p) /\ Whole(p)
    BY <2>1, OnChainIs
  <2> HIDE DEF last
  <2>6. m \in SetCommand(Names) /\ Links(Names, m, Content(p), Content(Redone(f, d)))
    BY <1>3, <1>4, <2>1, <2>3, <2>4, <2>5, MergeLinks
  <2> HIDE DEF m
  <2>7. m \in C
    <3>1. m.kind \in {"move", "property", "active", "attribute", "moveLayer"}
      BY <2>6, SetCommandIs
    <3>2. RememberedIds(m) = {} /\ RememberedLayers(m) = {}
      BY <3>1 DEF RememberedIds, RememberedLayers
    <3>3. m \in CommandType(Names)
      BY <2>6 DEF CommandType
    <3> QED
      BY <3>2, <3>3 DEF C, Logged
  <2>8. t[n] = timeline[n] /\ SubSeq(t, 1, n) = SubSeq(timeline, 1, n)
    <3>1. n \in Nat /\ n + 1 \in Nat /\ n + 1 <= Len(timeline) /\ Len(timeline) \in Nat
      BY <1>3, <2>1
    <3>2. \A i \in 1 .. (n + 1) : t[i] = timeline[i]
      BY <1>7, <3>1, SubSeqProperties DEF t
    <3>3. /\ SubSeq(t, 1, n) \in Seq(V) /\ Len(SubSeq(t, 1, n)) = n
          /\ \A i \in 1 .. n : SubSeq(t, 1, n)[i] = t[i]
      BY <1>12, <3>1, SubSeqProperties
    <3>4. /\ SubSeq(timeline, 1, n) \in Seq(V) /\ Len(SubSeq(timeline, 1, n)) = n
          /\ \A i \in 1 .. n : SubSeq(timeline, 1, n)[i] = timeline[i]
      BY <1>7, <3>1, SubSeqProperties
    <3>5. \A i \in 1 .. n : i \in 1 .. (n + 1)
      BY <3>1
    <3>6. \A i \in 1 .. n : SubSeq(t, 1, n)[i] = SubSeq(timeline, 1, n)[i]
      BY <3>2, <3>3, <3>4, <3>5
    <3>7. n \in 1 .. n
      BY <2>1
    <3> DEFINE x == SubSeq(t, 1, n)
               y == SubSeq(timeline, 1, n)
    <3>8. x \in Seq(V) /\ y \in Seq(V) /\ Len(x) = Len(y) /\ \A i \in 1 .. Len(x) : x[i] = y[i]
      BY <3>3, <3>4, <3>6
    <3> HIDE DEF x, y
    <3>9. x = y
      BY <3>8, SeqEqual
    <3> QED
      BY <3>2, <3>5, <3>7, <3>9 DEF x, y
  <2>9. /\ Chained(a, line) /\ a \in Seq(C) /\ Len(a) = n /\ line \in Seq(V)
        /\ Len(line) = n + 1 /\ line[n + 1] = Content(e)
    <3>1. Links(Names, m, t[Len(s)], Content(e)) /\ Len(s) > 0
      BY <1>1, <1>12, <2>1, <2>5, <2>6, <2>8
    <3>2. /\ Chained([s EXCEPT ![Len(s)] = m], Append(SubSeq(t, 1, Len(s)), Content(e)))
          /\ [s EXCEPT ![Len(s)] = m] \in Seq(C) /\ Len([s EXCEPT ![Len(s)] = m]) = Len(s)
          /\ Append(SubSeq(t, 1, Len(s)), Content(e)) \in Seq(V)
          /\ Len(Append(SubSeq(t, 1, Len(s)), Content(e))) = Len(s) + 1
          /\ Append(SubSeq(t, 1, Len(s)), Content(e))[Len(s) + 1] = Content(e)
      <4> DEFINE v == Content(e)
      <4>1. /\ s \in Seq(C) /\ t \in Seq(V) /\ Chained(s, t) /\ Len(s) > 0 /\ m \in C
            /\ v \in V /\ Links(Names, m, t[Len(s)], v)
        BY <1>8, <1>12, <2>7, <3>1
      <4> HIDE DEF v
      <4>2. /\ Chained([s EXCEPT ![Len(s)] = m], Append(SubSeq(t, 1, Len(s)), v))
            /\ [s EXCEPT ![Len(s)] = m] \in Seq(C) /\ Len([s EXCEPT ![Len(s)] = m]) = Len(s)
            /\ Append(SubSeq(t, 1, Len(s)), v) \in Seq(V)
            /\ Len(Append(SubSeq(t, 1, Len(s)), v)) = Len(s) + 1
            /\ Append(SubSeq(t, 1, Len(s)), v)[Len(s) + 1] = v
        BY ONLY <4>1, ChainReplace
      <4> QED
        BY <4>2 DEF v
    <3> QED
      BY <1>12, <2>8, <3>2
  <2>10. Appended(C, log', a)
    BY <1>7, <2>1, <2>2, <2>7, AbsorbedLog DEF s
  <2> HIDE DEF a, line
  <2>11. OnChain(e, log', timeline')
    BY <1>5, <1>6, <1>10, <2>2, <2>9, <2>10, PrunedChain
  <2> QED
    BY <1>1, <1>5, <2>11 DEF f
<1>14. CASE ~merges
  <2> DEFINE a == Append(s, f)
             line == Append(t, Content(e))
  <2>1. /\ log' = Push(log, f, 1)
        /\ timeline' = SubSeq(line, Len(line) - Len(log'.entries), Len(line))
    BY <1>1, <1>2, <1>14 DEF t
  <2>2. Links(Names, f, t[Len(s) + 1], Content(e))
    BY <1>4, <1>12
  <2>3. /\ Chained(a, line) /\ a \in Seq(C) /\ line \in Seq(V)
        /\ line[Len(t) + 1] = Content(e)
    BY <1>8, <1>9, <1>12, <2>2, ChainAppend
  <2>4. Len(a) = n + 1
    BY <1>3, <1>9, <1>12, AppendProperties
  <2>5. Appended(C, log', a)
    BY <1>7, <1>9, <2>1, PushedLog DEF s
  <2>6. line[Len(a) + 1] = Content(e)
    BY <1>12, <2>3, <2>4
  <2> HIDE DEF a, line
  <2>7. OnChain(e, log', timeline')
    BY <1>5, <1>6, <1>10, <2>1, <2>3, <2>5, <2>6, PrunedChain
  <2> QED
    BY <1>1, <1>5, <2>7 DEF f
<1> QED
  BY <1>13, <1>14
-----------------------------------------------------------------------------
(* The commands that the editor makes are fresh *)

\* The first execution of a create takes the next id.
LEMMA CreateFilled ==
  ASSUME NEW N, NEW d \in DocumentType(N), NEW x \in Int, NEW width \in Int,
         NEW c, c = Filled(CreateObject(NewObject(x, width)), d)
  PROVE  /\ c \in CreateCommand /\ c.kind = "create" /\ c.id = d.nextId
         /\ c.object \in ObjectType /\ c.object.layer = DefaultLayer
<1> DEFINE o == NewObject(x, width)
<1>1. o = [id |-> 0, layer |-> 1, x |-> x, width |-> width] /\ o \in ObjectType
  BY DEF NewObject, NoId, DefaultLayer, ObjectType
<1>2. o.id = NoId /\ o.layer = DefaultLayer /\ c = Filled(CreateObject(o), d)
  BY <1>1 DEF NoId, DefaultLayer
<1> HIDE DEF o
<1> QED
  BY <1>1, <1>2, FilledCreate

\* A new object, executed for the first time.
LEMMA CreateIsFresh ==
  ASSUME NEW N, NEW d \in DocumentType(N), d.nextId # 0, d.nextId # UIntMax,
         NEW x \in Int, NEW width \in Int,
         NEW c, c = Filled(CreateObject(NewObject(x, width)), d), Redoable(c, d)
  PROVE  Fresh(N, c, d)
<1>1. c \in CreateCommand /\ c.kind = "create" /\ c.id = d.nextId
  BY CreateFilled
<1>2. c \notin SetCommand(N) /\ c \in CommandType(N)
  BY <1>1, NotSet DEF CommandType
<1>3. Passable(c, d)
  BY <1>1 DEF Passable, RememberedIds, RememberedLayers, CanPass
<1> QED
  BY <1>1, <1>2, <1>3 DEF Fresh, Fits, NoId

\* A drag that has ended.
LEMMA MoveIsFresh ==
  ASSUME NEW N, NEW d \in DocumentType(N), NEW ids \in Seq(Nat), NEW delta \in Int,
         NEW c, c = Filled(MoveObjects(ids, delta), d), Redoable(c, d)
  PROVE  Fresh(N, c, d)
<1>1. c = [kind |-> "move", ids |-> ids, delta |-> delta]
  BY DEF MoveObjects, Filled
<1>2. c \in MoveCommand /\ c.kind = "move" /\ c.delta = delta
  BY <1>1 DEF MoveCommand
<1>3. c \in SetCommand(N) /\ c \in CommandType(N)
  BY <1>2 DEF SetCommand, CommandType
<1>4. Fitting(N, c, d.layers, RedoValue(c)) /\ Fitting(N, c, d.layers, UndoValue(c))
  BY <1>2 DEF Fitting, RedoValue, UndoValue
<1>5. Current(c, d)
  BY <1>2 DEF Current
<1> QED
  BY <1>2, <1>3, <1>4, <1>5 DEF Fresh, Fits

\* What is pasted gets the next ids.
LEMMA PasteIsFresh ==
  ASSUME NEW N, NEW d \in DocumentType(N), d.nextId # 0, NEW objects \in Seq(ObjectType),
         d.nextId + Len(objects) - 1 < UIntMax, NEW delta \in Int, NEW layer \in Nat,
         NEW c, c = Filled(PasteObjects(d, objects, delta, layer), d), Redoable(c, d)
  PROVE  Fresh(N, c, d)
<1> DEFINE copy(i) == [objects[i] EXCEPT !.id = d.nextId + i - 1, !.layer = layer, !.x = @ + delta]
           s == [i \in DOMAIN objects |-> copy(i)]
<1>1. c = [kind |-> "paste", layer |-> layer, objects |-> s]
  BY DEF PasteObjects, Filled
<1>2. d.nextId \in Nat /\ Len(objects) \in Nat /\ DOMAIN objects = 1 .. Len(objects)
  BY DocumentIs, LenProperties
<1>3. ASSUME NEW i \in 1 .. Len(objects)
      PROVE  copy(i) \in ObjectType /\ copy(i).id = d.nextId + i - 1
  <2>1. objects[i] \in ObjectType
    BY <1>3, ElementOfSeq
  <2> DEFINE n == d.nextId + i - 1
             a == objects[i]
             v == a.x + delta
  <2>2. n \in Nat
    BY <1>2, <1>3
  <2>3. v \in Int
    BY <2>1 DEF ObjectType
  <2>4. copy(i) = [[[a EXCEPT !.id = n] EXCEPT !.layer = layer] EXCEPT !.x = v]
    BY <2>1 DEF ObjectType
  <2>5. a \in [id : Nat, layer : Nat, x : Int, width : Int]
    BY <2>1 DEF ObjectType
  <2> HIDE DEF n, v, a, copy
  <2>7. [[[a EXCEPT !.id = n] EXCEPT !.layer = layer] EXCEPT !.x = v]
          = [id |-> n, layer |-> layer, x |-> v, width |-> a.width]
    <3>1. a = [id |-> a.id, layer |-> a.layer, x |-> a.x, width |-> a.width]
      BY <2>5
    <3> DEFINE b == [a EXCEPT !.id = n]
               e == [b EXCEPT !.layer = layer]
    <3>2. b = [id |-> n, layer |-> a.layer, x |-> a.x, width |-> a.width]
      BY <3>1
    <3> HIDE DEF b
    <3>3. e = [id |-> n, layer |-> layer, x |-> a.x, width |-> a.width]
      BY <3>2
    <3> HIDE DEF e
    <3>4. [e EXCEPT !.x = v] = [id |-> n, layer |-> layer, x |-> v, width |-> a.width]
      BY <3>3
    <3> QED
      BY <3>4 DEF b, e
  <2>8. copy(i) = [id |-> n, layer |-> layer, x |-> v, width |-> a.width] /\ a.width \in Int
    BY <2>4, <2>5, <2>7
  <2>6. copy(i) \in ObjectType /\ copy(i).id = n
    BY <2>2, <2>3, <2>8 DEF ObjectType
  <2> QED
    BY <2>6 DEF n
<1> HIDE DEF copy
<1>4. s \in Seq(ObjectType) /\ Len(s) = Len(objects) /\ DOMAIN s = 1 .. Len(objects)
  <2>1. s \in [1 .. Len(objects) -> ObjectType]
    BY <1>2, <1>3
  <2> QED
    BY <1>2, <2>1, IsASeq, LenProperties
<1>5. \A i \in 1 .. Len(objects) : s[i].id = d.nextId + i - 1
  BY <1>2, <1>3
<1> HIDE DEF s
<1>6. Distinct(s)
  BY <1>2, <1>4, <1>5 DEF Distinct
<1>7. NoId \notin IdsOf(s)
  <2>1. \A i \in 1 .. Len(s) : s[i].id # 0
    BY <1>2, <1>4, <1>5
  <2>2. \A id \in IdsOf(s) : \E i \in 1 .. Len(s) : s[i].id = id
    BY <1>4, IdsOfIs
  <2> QED
    BY <2>1, <2>2 DEF NoId
<1>8. c \in PasteCommand /\ c.kind = "paste" /\ c.objects = s
  BY <1>1, <1>4 DEF PasteCommand, Objects
<1>9. c \notin SetCommand(N) /\ c \in CommandType(N)
  BY <1>8, NotSet DEF CommandType
<1>10. Passable(c, d)
  <2>1. ASSUME NEW id \in IdsOf(s) PROVE CanPass(d.nextId, id)
    <3>1. PICK i \in 1 .. Len(s) : s[i].id = id
      BY <1>4, IdsOfIs
    <3>2. id = d.nextId + i - 1 /\ i <= Len(objects) /\ i \in Nat
      BY <1>4, <1>5, <3>1
    <3>3. UIntMax \in Int
      BY IdAssumption DEF UIntMax
    <3> QED
      BY <1>2, <3>2, <3>3 DEF CanPass
  <2> QED
    BY <1>8, <2>1 DEF Passable, RememberedIds, RememberedLayers
<1> QED
  BY <1>6, <1>7, <1>8, <1>9, <1>10 DEF Fresh, Fits

\* The inspector's edit of a property.
LEMMA PropertyIsFresh ==
  ASSUME NEW N, NEW d \in DocumentType(N), NEW id \in ObjectIds(d), NEW key \in {"x", "width"},
         NEW value \in Int,
         NEW c, c = Filled(SetProperty(d, id, key, value), d), Redoable(c, d)
  PROVE  Fresh(N, c, d)
<1> DEFINE s == d.objects
           old == s[IndexOf(s, id)][key]
<1>1. s \in Seq(ObjectType) /\ id \in IdsOf(s)
  BY DocumentIs, QueriesAre DEF Objects
<1>2. c = [kind |-> "property", id |-> id, key |-> key, before |-> old, after |-> value]
  BY QueriesAre DEF SetProperty, Filled
<1>3. id \in Nat
  BY <1>1, IdsAreNat
<1>4. old \in Int
  <2>1. IndexOf(s, id) \in 1 .. Len(s)
    BY <1>1, IndexOfFinds
  <2>2. s[IndexOf(s, id)] \in ObjectType
    BY <1>1, <2>1, ElementOfSeq
  <2> QED
    BY <2>2 DEF ObjectType
<1> HIDE DEF old
<1>5. /\ c \in PropertyCommand /\ c.kind = "property" /\ c.id = id /\ c.key = key
      /\ c.before = old /\ c.after = value
  BY <1>2, <1>3, <1>4 DEF PropertyCommand
<1>6. c \in SetCommand(N) /\ c \in CommandType(N)
  BY <1>5 DEF SetCommand, CommandType
<1>7. Fitting(N, c, d.layers, RedoValue(c)) /\ Fitting(N, c, d.layers, UndoValue(c))
  BY <1>4, <1>5 DEF Fitting, RedoValue, UndoValue
<1>8. Current(c, d)
  BY <1>5 DEF Current, old
<1> QED
  BY <1>5, <1>6, <1>7, <1>8 DEF Fresh, Fits

\* Another layer becomes the active one.
LEMMA ActivationIsFresh ==
  ASSUME NEW N, NEW d \in DocumentType(N), NEW layer \in LayerIds(d),
         NEW c, c = Filled(ActivateLayer(d, layer), d), Redoable(c, d)
  PROVE  Fresh(N, c, d)
<1>1. layer \in Nat /\ d.active \in Nat
  BY IdsAreNat, DocumentIs, QueriesAre
<1>2. c = [kind |-> "active", before |-> d.active, after |-> layer]
  BY DEF ActivateLayer, Filled
<1>3. /\ c \in ActiveCommand /\ c.kind = "active"
      /\ c.before = d.active /\ c.after = layer
  BY <1>1, <1>2 DEF ActiveCommand
<1>4. c \in SetCommand(N) /\ c \in CommandType(N)
  BY <1>3 DEF SetCommand, CommandType
<1>5. Fitting(N, c, d.layers, RedoValue(c)) /\ Fitting(N, c, d.layers, UndoValue(c))
  BY <1>1, <1>3 DEF Fitting, RedoValue, UndoValue
<1>6. Current(c, d)
  BY <1>3 DEF Current
<1> QED
  BY <1>3, <1>4, <1>5, <1>6 DEF Fresh, Fits

\* A layer moves to another place.
LEMMA ReorderingIsFresh ==
  ASSUME NEW N, NEW d \in DocumentType(N), NEW layer \in LayerIds(d), NEW index \in DOMAIN d.layers,
         NEW c, c = Filled(ReorderLayer(d, layer, index), d), Redoable(c, d)
  PROVE  Fresh(N, c, d)
<1> DEFINE s == d.layers
           old == IndexOf(s, layer)
<1>1. s \in Seq(LayerType(N)) /\ layer \in IdsOf(s) /\ layer \in Nat
  BY DocumentIs, QueriesAre, IdsAreNat DEF Layers
<1>2. Len(s) \in Nat /\ index \in 1 .. Len(s) /\ old \in 1 .. Len(s)
  BY <1>1, LenProperties, IndexOfFinds
<1>3. c = [kind |-> "moveLayer", layer |-> layer, before |-> old, after |-> index]
  BY QueriesAre DEF ReorderLayer, Filled
<1> HIDE DEF old
<1>4. /\ c \in MoveLayerCommand /\ c.kind = "moveLayer" /\ c.layer = layer
      /\ c.before = old /\ c.after = index
  BY <1>1, <1>2, <1>3 DEF MoveLayerCommand
<1>5. c \in SetCommand(N) /\ c \in CommandType(N)
  BY <1>4 DEF SetCommand, CommandType
<1>6. Fitting(N, c, d.layers, RedoValue(c)) /\ Fitting(N, c, d.layers, UndoValue(c))
  BY <1>2, <1>4 DEF Fitting, RedoValue, UndoValue
<1>7. Current(c, d)
  BY <1>4 DEF Current, old
<1> QED
  BY <1>4, <1>5, <1>6, <1>7 DEF Fresh, Fits

\* A new layer takes the next layer id.
LEMMA AddedLayerId ==
  ASSUME NEW name, NEW d, NEW c, c = Filled(AddLayer(name), d)
  PROVE  c.layer.id = d.nextLayer
<1> DEFINE n == d.nextLayer
           m == Len(d.layers) + 1
           a == d.active
<1>1. AddLayer(name)
        = [kind |-> "addLayer",
           layer |-> [id |-> 0, name |-> name, visible |-> TRUE, locked |-> FALSE],
           index |-> 0, previous |-> 0]
  BY DEF AddLayer, NewLayer, NoId
<1>2. c = [AddLayer(name) EXCEPT !.layer.id = n, !.index = m, !.previous = a]
  BY <1>1 DEF Filled
<1> HIDE DEF n, m, a
<1>3. c.layer = [AddLayer(name).layer EXCEPT !.id = n]
  BY <1>1, <1>2
<1> QED
  BY <1>1, <1>3 DEF n

\* It is past the one of the active layer.
LEMMA LayerIsFresh ==
  ASSUME NEW N, NEW d \in DocumentType(N), Whole(d), Counted(d), d.nextLayer # UIntMax,
         NEW name \in N, NEW c, c = Filled(AddLayer(name), d), Redoable(c, d)
  PROVE  Fresh(N, c, d)
<1> DEFINE p == AddLayer(name)
           blank == [id |-> 0, name |-> name, visible |-> TRUE, locked |-> FALSE]
           n == d.nextLayer
           layer == [blank EXCEPT !.id = n]
           m == Len(d.layers) + 1
           a == d.active
<1>1. d.layers \in Seq(LayerType(N)) /\ Len(d.layers) \in Nat /\ a \in Nat /\ n \in Nat
  BY DocumentIs, LenProperties DEF Layers
<1>2. n # 0
  <2>1. a \in IdsOf(d.layers)
    BY WholeIs DEF WholeParts
  <2>2. a < n
    BY <2>1 DEF Counted
  <2> QED
    BY <1>1, <2>2
<1>3. p = [kind |-> "addLayer", layer |-> blank, index |-> 0, previous |-> 0]
  BY DEF AddLayer, NewLayer, NoId
<1>4. c = [p EXCEPT !.layer.id = n, !.index = m, !.previous = a]
  BY <1>3 DEF Filled
<1>5. layer = [id |-> n, name |-> name, visible |-> TRUE, locked |-> FALSE]
  <2> DEFINE yes == TRUE
             no == FALSE
  <2>1. blank = [id |-> 0, name |-> name, visible |-> yes, locked |-> no]
    OBVIOUS
  <2> HIDE DEF n, blank, yes, no
  <2>2. layer = [id |-> n, name |-> name, visible |-> yes, locked |-> no]
    BY <2>1
  <2> QED
    BY <2>2 DEF yes, no
<1>6. layer \in LayerType(N) /\ layer.id = n
  BY <1>1, <1>5 DEF LayerType
<1>7. c = [kind |-> "addLayer", layer |-> layer, index |-> m, previous |-> a]
  <2>1. c = [[[p EXCEPT !.layer = [p.layer EXCEPT !.id = n]] EXCEPT !.index = m] EXCEPT !.previous = a]
    BY <1>4
  <2> HIDE DEF p, n, m, a, blank
  <2>2. [p.layer EXCEPT !.id = n] = layer
    BY <1>3 DEF n
  <2> HIDE DEF layer
  <2>3. c = [[[p EXCEPT !.layer = layer] EXCEPT !.index = m] EXCEPT !.previous = a]
    BY <2>1, <2>2
  <2> QED
    BY <1>3, <2>3
<1> HIDE DEF layer, m, n, a
<1>8. m \in Nat \ {0}
  BY <1>1 DEF m
<1>9. /\ c \in AddLayerCommand(N) /\ c.kind = "addLayer" /\ c.layer = layer
      /\ c.index = m /\ c.previous = a
  BY <1>1, <1>6, <1>7, <1>8 DEF AddLayerCommand
<1>10. c \notin SetCommand(N) /\ c \in CommandType(N)
  BY <1>9, NotSet DEF CommandType
<1>11. Passable(c, d)
  BY <1>6, <1>9 DEF Passable, RememberedIds, RememberedLayers, CanPass, n
<1> QED
  BY <1>2, <1>6, <1>9, <1>10, <1>11 DEF Fresh, Fits, NoId, m, a
-----------------------------------------------------------------------------
(* The inductive invariant *)

Gestures == [kind : {"none", "drag", "draw"}, ids : Seq(Nat), delta : Int]

IInv ==
  /\ OnChain(document, log, timeline)
  /\ selection \in Seq(Nat)
  /\ clipboard \in Seq(ObjectType)
  /\ gesture \in Gestures

\* The commands that the actions make, and the ids there are for them.
MakesObjects(command) ==
  \/ /\ document.nextId # UIntMax
     /\ \E x, width \in Int : command = CreateObject(NewObject(x, width))
  \/ \E ids \in Seq(Nat) : command = DeleteSelection(document, ids)
  \/ \E ids \in Seq(Nat), delta \in Int : command = MoveObjects(ids, delta)
  \/ /\ document.nextId + Len(clipboard) - 1 < UIntMax
     /\ \E delta \in Int :
          command = PasteObjects(document, clipboard, delta, document.active)
  \/ \E id \in ObjectIds(document), key \in {"x", "width"}, value \in Int :
       command = SetProperty(document, id, key, value)

MakesLayers(command) ==
  \/ \E layer \in LayerIds(document) : command = ActivateLayer(document, layer)
  \/ \E layer \in LayerIds(document), attribute \in LayerAttributes :
       \E value \in AttributeValues(Names, attribute) :
         command = ChangeLayer(document, layer, attribute, value)
  \/ \E layer \in LayerIds(document), index \in DOMAIN document.layers :
       command = ReorderLayer(document, layer, index)
  \/ /\ document.nextLayer # UIntMax
     /\ \E name \in Names : command = AddLayer(name)

Makes(command) == MakesObjects(command) \/ MakesLayers(command)

Edits == \E command : Makes(command) /\ Execute(command)

\* A command that is made, and accepted, is fresh.
LEMMA MadeIsFresh ==
  ASSUME IInv, NEW command, Makes(command), Accepts(command)
  PROVE  Fresh(Names, Filled(command, document), document)
<1> DEFINE c == Filled(command, document)
           d == document
           f == Fresh(Names, c, d)
<1>1. Redoable(c, d)
  BY DEF Accepts
<1>2. d \in DocumentType(Names) /\ Whole(d) /\ Counted(d) /\ d.nextId # 0
  BY OnChainIs DEF IInv, OnChain
<1>3. clipboard \in Seq(ObjectType) /\ d.active \in Nat
  BY <1>2, DocumentIs DEF IInv
<1>4. c = Filled(command, d)
  OBVIOUS
<1> HIDE DEF c, d, f
<1>5. CASE MakesObjects(command)
  <2>1. ASSUME d.nextId # UIntMax, NEW x \in Int, NEW width \in Int,
               command = CreateObject(NewObject(x, width))
        PROVE  f
    BY <1>1, <1>2, <1>4, <2>1, CreateIsFresh DEF f
  <2>2. ASSUME NEW ids, command = DeleteSelection(d, ids) PROVE f
    BY <1>2, <1>4, <2>2, DeleteIsFresh DEF f
  <2>3. ASSUME NEW ids \in Seq(Nat), NEW delta \in Int, command = MoveObjects(ids, delta)
        PROVE  f
    BY <1>1, <1>2, <1>4, <2>3, MoveIsFresh DEF f
  <2>4. ASSUME d.nextId + Len(clipboard) - 1 < UIntMax, NEW delta \in Int,
               command = PasteObjects(d, clipboard, delta, d.active)
        PROVE  f
    BY <1>1, <1>2, <1>3, <1>4, <2>4, PasteIsFresh DEF f
  <2>5. ASSUME NEW id \in ObjectIds(d), NEW key \in {"x", "width"}, NEW value \in Int,
               command = SetProperty(d, id, key, value)
        PROVE  f
    BY <1>1, <1>2, <1>4, <2>5, PropertyIsFresh DEF f
  <2> QED
    BY <1>5, <2>1, <2>2, <2>3, <2>4, <2>5 DEF MakesObjects, f, c, d
<1>6. CASE MakesLayers(command)
  <2>1. ASSUME NEW layer \in LayerIds(d), command = ActivateLayer(d, layer) PROVE f
    BY <1>1, <1>2, <1>4, <2>1, ActivationIsFresh DEF f
  <2>2. ASSUME NEW layer \in LayerIds(d), NEW attribute \in LayerAttributes,
               NEW value \in AttributeValues(Names, attribute),
               command = ChangeLayer(d, layer, attribute, value)
        PROVE  f
    BY <1>1, <1>2, <1>4, <2>2, AttributeIsFresh DEF f
  <2>3. ASSUME NEW layer \in LayerIds(d), NEW index \in DOMAIN d.layers,
               command = ReorderLayer(d, layer, index)
        PROVE  f
    BY <1>1, <1>2, <1>4, <2>3, ReorderingIsFresh DEF f
  <2>4. ASSUME d.nextLayer # UIntMax, NEW name \in Names, command = AddLayer(name) PROVE f
    BY <1>1, <1>2, <1>4, <2>4, LayerIsFresh DEF f
  <2> QED
    BY <1>6, <2>1, <2>2, <2>3, <2>4 DEF MakesLayers, f, c, d
<1> QED
  BY <1>5, <1>6 DEF Makes, f, c, d

\* Every edit keeps the chain.
LEMMA EditKeepsChain ==
  ASSUME IInv, Edits
  PROVE  OnChain(document', log', timeline') /\ Advance(document, document')
<1>1. PICK command : Makes(command) /\ Execute(command)
  BY DEF Edits
<1>2. Accepts(command)
  BY <1>1 DEF Execute
<1>3. Fresh(Names, Filled(command, document), document)
  BY <1>1, <1>2, MadeIsFresh
<1> QED
  BY <1>1, <1>3, ExecuteKeeps DEF IInv

\* What the log and the document agree on depends on the document's content and counters.
LEMMA ChainOf ==
  ASSUME NEW d, NEW l, NEW line, OnChain(d, l, line),
         NEW e \in DocumentType(Names), d.nextId <= e.nextId, d.nextLayer <= e.nextLayer,
         NEW m, \A C : Shaped(l, C) => Shaped(m, C), m.entries = l.entries,
         line[m.cursor + 1] = Content(e)
  PROVE  OnChain(e, m, line)
<1>1. d \in DocumentType(Names) /\ d.nextId # 0
  BY DEF OnChain
<1>2. d.nextId \in Nat /\ e.nextId \in Nat /\ d.nextLayer \in Nat /\ e.nextLayer \in Nat
  BY <1>1, DocumentIs
<1>3. e.nextId # 0
  BY <1>1, <1>2
<1> DEFINE C == Logged(d.nextId, d.nextLayer)
           D == Logged(e.nextId, e.nextLayer)
           V == Seen(d.nextId, d.nextLayer)
           W == Seen(e.nextId, e.nextLayer)
<1>4. C \subseteq D /\ V \subseteq W
  BY <1>2, LoggedGrows
<1>5. Shaped(m, C) /\ line \in Seq(V) /\ Chained(m.entries, line)
  BY DEF OnChain
<1>6. /\ D = Logged(e.nextId, e.nextLayer) /\ W = Seen(e.nextId, e.nextLayer)
  OBVIOUS
<1> HIDE DEF C, D, V, W
<1>7. Shaped(m, D) /\ line \in Seq(W)
  BY <1>4, <1>5, SeqGrows DEF Shaped
<1> QED
  BY <1>3, <1>5, <1>6, <1>7 DEF OnChain

\* What the log remembers is behind the counters.
LEMMA LoggedPasses ==
  ASSUME NEW d \in DocumentType(Names), NEW c \in Logged(d.nextId, d.nextLayer)
  PROVE  Passable(c, d)
<1>1. d.nextId \in Nat /\ d.nextLayer \in Nat
  BY DocumentIs
<1>2. ASSUME NEW id \in RememberedIds(c) PROVE CanPass(d.nextId, id)
  <2>1. id \in 1 .. (d.nextId - 1)
    BY <1>2 DEF Logged
  <2> QED
    BY <1>1, <2>1 DEF CanPass
<1>3. ASSUME NEW id \in RememberedLayers(c) PROVE CanPass(d.nextLayer, id)
  <2>1. id \in 1 .. (d.nextLayer - 1)
    BY <1>3 DEF Logged
  <2> QED
    BY <1>1, <2>1 DEF CanPass
<1> QED
  BY <1>2, <1>3 DEF Passable

\* The command that an undo is about can be undone, and takes the document back.
LEMMA UndoKeepsChain ==
  ASSUME OnChain(document, log, timeline), CanUndo(log)
  PROVE  /\ Undoable(log.entries[log.cursor], document)
         /\ OnChain(Undone(log.entries[log.cursor], document), StepBack(log), timeline)
         /\ Advance(document, Undone(log.entries[log.cursor], document))
<1> DEFINE n == log.cursor
           c == log.entries[n]
           d == document
           C == Logged(d.nextId, d.nextLayer)
<1>1. /\ n \in 0 .. Len(log.entries) /\ Len(log.entries) \in Nat
      /\ Len(timeline) = Len(log.entries) + 1
      /\ d \in DocumentType(Names)
  BY OnChainIs DEF OnChain
<1>2. n > 0 /\ n \in 1 .. Len(log.entries)
  BY <1>1 DEF CanUndo
<1>3. Shaped(log, C) /\ Chained(log.entries, timeline) /\ timeline[n + 1] = Content(d)
  BY DEF OnChain
<1>4. Links(Names, c, timeline[n], timeline[n + 1])
  BY <1>2, <1>3 DEF Chained
<1>5. c \in CommandType(Names) /\ Passable(c, d)
  <2>1. log.entries \in Seq(C)
    BY <1>3 DEF Shaped
  <2>2. c \in C
    BY <1>2, <2>1, ElementOfSeq
  <2>3. Passable(c, d)
    BY <1>1, <2>2, LoggedPasses
  <2> QED
    BY <2>2, <2>3 DEF Logged
<1> HIDE DEF c, n
<1>6. /\ Undoable(c, d) /\ Undone(c, d) \in DocumentType(Names)
      /\ Advance(d, Undone(c, d)) /\ Content(Undone(c, d)) = timeline[n]
  BY <1>1, <1>3, <1>4, <1>5, LinkUndoes
<1>7. /\ \A S : Shaped(log, S) => Shaped(StepBack(log), S)
      /\ StepBack(log).entries = log.entries
      /\ StepBack(log).cursor = n - 1
  BY <1>2, <1>3, SteppedLog DEF n
<1>8. timeline[StepBack(log).cursor + 1] = Content(Undone(c, d))
  BY <1>1, <1>6, <1>7
<1>9. OnChain(Undone(c, d), StepBack(log), timeline)
  <2>1. d.nextId <= Undone(c, d).nextId /\ d.nextLayer <= Undone(c, d).nextLayer
    BY <1>6 DEF Advance
  <2> QED
    BY <1>6, <1>7, <1>8, <2>1, ChainOf
<1> QED
  BY <1>6, <1>9 DEF c, n

\* And so can the command that a redo is about.
LEMMA RedoKeepsChain ==
  ASSUME OnChain(document, log, timeline), CanRedo(log)
  PROVE  /\ Redoable(log.entries[log.cursor + 1], document)
         /\ OnChain(Redone(log.entries[log.cursor + 1], document), StepForward(log), timeline)
         /\ Advance(document, Redone(log.entries[log.cursor + 1], document))
<1> DEFINE n == log.cursor
           c == log.entries[n + 1]
           d == document
           C == Logged(d.nextId, d.nextLayer)
<1>1. /\ n \in 0 .. Len(log.entries) /\ Len(log.entries) \in Nat
      /\ Len(timeline) = Len(log.entries) + 1
      /\ d \in DocumentType(Names)
  BY OnChainIs DEF OnChain
<1>2. n < Len(log.entries) /\ n + 1 \in 1 .. Len(log.entries)
  BY <1>1 DEF CanRedo
<1>3. Shaped(log, C) /\ Chained(log.entries, timeline) /\ timeline[n + 1] = Content(d)
  BY DEF OnChain
<1>4. Links(Names, c, timeline[n + 1], timeline[(n + 1) + 1])
  BY <1>2, <1>3 DEF Chained
<1>5. c \in CommandType(Names) /\ Passable(c, d)
  <2>1. log.entries \in Seq(C)
    BY <1>3 DEF Shaped
  <2>2. c \in C
    BY <1>2, <2>1, ElementOfSeq
  <2>3. Passable(c, d)
    BY <1>1, <2>2, LoggedPasses
  <2> QED
    BY <2>2, <2>3 DEF Logged
<1> HIDE DEF c, n
<1>6. /\ Redoable(c, d) /\ Redone(c, d) \in DocumentType(Names)
      /\ Advance(d, Redone(c, d)) /\ Content(Redone(c, d)) = timeline[(n + 1) + 1]
  BY <1>1, <1>3, <1>4, <1>5, LinkRedoes
<1>7. /\ \A S : Shaped(log, S) => Shaped(StepForward(log), S)
      /\ StepForward(log).entries = log.entries
      /\ StepForward(log).cursor = n + 1
  BY <1>2, <1>3, SteppedLog DEF n
<1>8. timeline[StepForward(log).cursor + 1] = Content(Redone(c, d))
  BY <1>1, <1>6, <1>7
<1>9. OnChain(Redone(c, d), StepForward(log), timeline)
  <2>1. d.nextId <= Redone(c, d).nextId /\ d.nextLayer <= Redone(c, d).nextLayer
    BY <1>6 DEF Advance
  <2> QED
    BY <1>6, <1>7, <1>8, <2>1, ChainOf
<1> QED
  BY <1>6, <1>9 DEF c, n
-----------------------------------------------------------------------------
(* Documents to start from *)

\* A log without entries, around any document that is whole.
LEMMA StartsChain ==
  ASSUME NEW d \in DocumentType(Names), Whole(d), Counted(d), d.nextId # 0
  PROVE  OnChain(d, InitLog(Budget), <<Content(d)>>)
<1> DEFINE l == InitLog(Budget)
           C == Logged(d.nextId, d.nextLayer)
           V == Seen(d.nextId, d.nextLayer)
           v == Content(d)
<1>1. v \in V
  BY DEF Seen, Under, Counted
<1>2. l.entries = << >> /\ l.cursor = 0 /\ DOMAIN l = LogFields
  BY DEF InitLog, LogFields
<1> HIDE DEF l, v, C, V
<1>3. << >> \in Seq(C) /\ Len(<< >>) = 0
  OBVIOUS
<1>4. Shaped(l, C)
  BY <1>2, <1>3 DEF Shaped
<1>5. <<v>> \in Seq(V) /\ Len(<<v>>) = 1 /\ <<v>>[1] = v
  BY <1>1
<1>6. Chained(l.entries, <<v>>) /\ <<v>>[l.cursor + 1] = v
  BY <1>2, <1>3, <1>5 DEF Chained
<1> QED
  BY <1>4, <1>5, <1>6 DEF OnChain, l, v, C, V

\* The document that New starts from.
LEMMA NewDocumentStarts ==
  /\ NewDocument \in DocumentType(Names)
  /\ Whole(NewDocument) /\ Counted(NewDocument) /\ NewDocument.nextId # 0
  /\ ~NewDocument.revised
<1>1. DefaultName \in Names
  BY DEF Names
<1> QED
  BY <1>1, NewDocumentIs

\* What Open makes of a file.
LEMMA LoadedStarts ==
  ASSUME NEW file \in Files
  PROVE  /\ Loaded(file) \in DocumentType(Names)
         /\ Whole(Loaded(file)) /\ Counted(Loaded(file)) /\ Loaded(file).nextId # 0
         /\ ~Loaded(file).revised
<1> DEFINE a == Past(file.nextId, Max({NoId} \union ObjectIds(file)))
           b == Following(Max(LayerIds(file)))
           none == FALSE
           d == Loaded(file)
           ids == {NoId} \union ObjectIds(file)
<1>1. file \in DocumentType(Names) /\ Whole(file)
  BY FilesAssumption
<1>2. /\ file = Doc(file.objects, file.layers, file.active, file.nextId, file.nextLayer, file.revised)
      /\ file.objects \in Objects /\ file.layers \in Layers(Names)
      /\ file.active \in Nat /\ file.nextId \in Nat
      /\ IdsOf(file.objects) \subseteq Nat /\ IdsOf(file.layers) \subseteq Nat
  BY <1>1, DocumentIs, IdsAreNat
<1>3. d = Doc(file.objects, file.layers, file.active, a, b, none)
  <2> DEFINE x == file.nextId
             fo == file.objects
             fl == file.layers
             fa == file.active
             fn == file.nextLayer
             fr == file.revised
             e == [file EXCEPT !.nextId = a]
             f == [e EXCEPT !.nextLayer = b]
  <2>1. d = [f EXCEPT !.revised = none]
    BY DEF Loaded
  <2>2. file = Doc(fo, fl, fa, x, fn, fr)
    BY <1>2
  <2> HIDE DEF d, none, b, a, fo, fl, fa, x, fn, fr
  <2>3. e = Doc(fo, fl, fa, a, fn, fr)
    BY <2>2 DEF Doc
  <2> HIDE DEF e
  <2>4. f = Doc(fo, fl, fa, a, b, fr)
    BY <2>3 DEF Doc
  <2> HIDE DEF f
  <2>5. [f EXCEPT !.revised = none] = Doc(fo, fl, fa, a, b, none)
    BY <2>4 DEF Doc
  <2> QED
    BY <2>1, <2>5 DEF fo, fl, fa
<1>4. ObjectIds(file) = IdsOf(file.objects) /\ LayerIds(file) = IdsOf(file.layers)
  BY QueriesAre
<1>5. a \in Nat /\ a # 0 /\ \A id \in IdsOf(file.objects) : id < a
  <2>1. Max(ids) \in Nat /\ Max(ids) \in ids /\ \A id \in IdsOf(file.objects) : id <= Max(ids)
    BY <1>2, <1>4, LargestOrNone DEF Objects
  <2>4. Max(ids) # UIntMax
    <3>1. UIntMax > 0 /\ UIntMax \in Int
      BY IdAssumption DEF UIntMax
    <3>2. CASE Max(ids) = NoId
      BY <3>1, <3>2 DEF NoId
    <3>3. CASE Max(ids) \in ObjectIds(file)
      <4>1. Max(ids) < UIntMax
        BY <3>3, FilesAssumption
      <4> QED
        BY <2>1, <3>1, <4>1
    <3> QED
      BY <2>1, <3>2, <3>3
  <2>2. a \in Nat /\ Max(ids) < a
    BY <1>2, <2>1, <2>4, PastGrows DEF CanPass
  <2> HIDE DEF a, ids
  <2>3. ASSUME NEW id \in IdsOf(file.objects) PROVE id < a
    <3>1. id \in Nat /\ id <= Max(ids)
      BY <1>2, <2>1
    <3> QED
      BY <2>1, <2>2, <3>1
  <2> QED
    BY <2>1, <2>2, <2>3
<1>6. b \in Nat /\ \A id \in IdsOf(file.layers) : id < b
  <2> DEFINE m == Max(IdsOf(file.layers))
  <2>1. file.layers \in Seq(LayerType(Names)) /\ Len(file.layers) \in Nat
    BY <1>2, LenProperties DEF Layers
  <2>2. Len(file.layers) > 0
    <3>1. file.active \in IdsOf(file.layers)
      BY <1>1, WholeIs DEF WholeParts
    <3>2. \E i \in 1 .. Len(file.layers) : file.layers[i].id = file.active
      BY <2>1, <3>1, IdsOfIs
    <3> QED
      BY <2>1, <3>2
  <2>3. m \in IdsOf(file.layers) /\ \A id \in IdsOf(file.layers) : id <= m
    BY <1>2, <2>1, <2>2, LargestId
  <2>4. b = m + 1
    <3>1. m \in Nat /\ m = Max(LayerIds(file))
      BY <1>2, <1>4, <2>3
    <3>2. m < UIntMax
      BY <1>4, <2>3, FilesAssumption
    <3>3. m + 1 # IdLimit
      BY <3>1, <3>2, IdAssumption DEF UIntMax
    <3> HIDE DEF m
    <3> QED
      BY <3>1, <3>3 DEF Following
  <2> HIDE DEF m, b
  <2> QED
    BY <1>2, <2>3, <2>4
<1> HIDE DEF a, b, d
<1>7. none \in BOOLEAN
  OBVIOUS
<1> HIDE DEF none
<1>8. d \in DocumentType(Names)
  BY <1>2, <1>3, <1>5, <1>6, <1>7, DocTyped
<1>9. /\ d.objects = file.objects /\ d.layers = file.layers /\ d.active = file.active
      /\ d.nextId = a /\ d.nextLayer = b /\ d.revised = none
  BY <1>3, DocIs
<1>10. Whole(d)
  BY <1>1, <1>9, WholeIs
<1>11. Counted(d)
  BY <1>5, <1>6, <1>9 DEF Counted
<1> QED
  BY <1>5, <1>8, <1>9, <1>10, <1>11 DEF d, none
-----------------------------------------------------------------------------
(* The steps of the session *)

\* No id comes twice.
Unrepeated(ids) == \A i, j \in DOMAIN ids : ids[i] = ids[j] => i = j

\* A selection of elements repeats none.
LEMMA ElementsUnrepeated ==
  ASSUME NEW S, NEW s \in Seq(S), NEW positions \in SUBSET (1 .. Len(s)), Unrepeated(s)
  PROVE  Unrepeated(Elements(s, positions))
<1> DEFINE g == Ascending(positions, Len(s))
           e == Elements(s, positions)
<1>1. positions \cap (1 .. Len(s)) = positions
  OBVIOUS
<1>2. Lists(g, positions) /\ e = Picked(s, g)
  BY <1>1, ElementsIs
<1> HIDE DEF g, e
<1>3. /\ Picked(s, g) \in Seq(S) /\ Len(Picked(s, g)) = Len(g)
      /\ \A i \in 1 .. Len(g) : g[i] \in 1 .. Len(s) /\ Picked(s, g)[i] = s[g[i]]
  BY <1>2, PickedIs
<1>4. /\ Len(g) \in Nat /\ \A i \in 1 .. Len(g) : g[i] \in Nat
      /\ \A i, j \in 1 .. Len(g) : i < j => g[i] < g[j]
  BY <1>2, ListsMembers
<1>5. e \in Seq(S) /\ Len(e) = Len(g) /\ DOMAIN e = 1 .. Len(g)
  BY <1>2, <1>3, LenProperties
<1>6. ASSUME NEW i \in 1 .. Len(g), NEW j \in 1 .. Len(g), e[i] = e[j]
      PROVE  i = j
  <2>1. DOMAIN s = 1 .. Len(s)
    BY LenProperties
  <2>2. s[g[i]] = s[g[j]] /\ g[i] \in DOMAIN s /\ g[j] \in DOMAIN s
    BY <1>2, <1>3, <1>6, <2>1
  <2>3. g[i] = g[j]
    BY <2>2 DEF Unrepeated
  <2>4. ~(i < j) /\ ~(j < i)
    BY <1>4, <2>3
  <2> QED
    BY <1>4, <2>4
<1> QED
  BY <1>5, <1>6 DEF Unrepeated, e

\* What is left of a selection can be edited.
LEMMA PrunedIs ==
  ASSUME NEW ids \in Seq(Nat), NEW doc
  PROVE  /\ Pruned(ids, doc) \in Seq(Nat)
         /\ ToSet(Pruned(ids, doc)) \subseteq ToSet(ids)
         /\ \A id \in ToSet(Pruned(ids, doc)) : IsEditable(id, doc)
         /\ Unrepeated(ids) => Unrepeated(Pruned(ids, doc))
<1> DEFINE positions == {i \in DOMAIN ids : IsEditable(ids[i], doc)}
           e == Elements(ids, positions)
<1>1. positions \in SUBSET (1 .. Len(ids))
  BY LenProperties
<1>2. \A p \in positions : IsEditable(ids[p], doc)
  OBVIOUS
<1>3. e = Pruned(ids, doc)
  BY DEF Pruned
<1> HIDE DEF positions
<1>4. /\ e \in Seq(Nat) /\ ToSet(e) \subseteq ToSet(ids)
      /\ \A i \in 1 .. Len(e) : \E p \in positions : e[i] = ids[p]
  BY <1>1, ElementsMembers
<1>5. Unrepeated(ids) => Unrepeated(e)
  BY <1>1, ElementsUnrepeated
<1> HIDE DEF e
<1>6. \A id \in ToSet(e) : \E i \in 1 .. Len(e) : e[i] = id
  BY <1>4, LenProperties DEF ToSet
<1>7. \A id \in ToSet(e) : IsEditable(id, doc)
  BY <1>2, <1>4, <1>6
<1> QED
  BY <1>3, <1>4, <1>5, <1>7

\* The session starts on a chain.
LEMMA InitKeeps ==
  ASSUME Init
  PROVE  IInv
<1>1. OnChain(document, log, timeline)
  BY NewDocumentStarts, StartsChain DEF Init
<1>2. selection \in Seq(Nat) /\ clipboard \in Seq(ObjectType)
  BY DEF Init
<1>3. << >> \in Seq(Nat)
  OBVIOUS
<1>4. gesture \in Gestures
  BY <1>3 DEF Init, NoGesture, Gestures
<1> QED
  BY <1>1, <1>2, <1>4 DEF IInv

\* An object that can be edited is there, and its id is a number.
LEMMA EditableIds ==
  ASSUME NEW d \in DocumentType(Names)
  PROVE  /\ ObjectIds(d) \subseteq Nat
         /\ LayerIds(d) \subseteq Nat
         /\ \A id : IsEditable(id, d) => id \in ObjectIds(d)
  BY QueriesAre, IdsAreNat DEF IsEditable

\* The bounds leave ids over.
LEMMA IdsAreLeft ==
  ASSUME NEW n \in Nat
  PROVE  /\ n <= MaxId => n < UIntMax /\ n # UIntMax
         /\ n <= MaxLayers => n < UIntMax /\ n # UIntMax
<1>1. MaxId \in Nat /\ MaxLayers \in Nat /\ MaxId + 1 < IdLimit /\ MaxLayers + 1 < IdLimit
  BY BoundsAssumption
<1>2. IdLimit \in Nat
  BY IdAssumption
<1> QED
  BY <1>1, <1>2 DEF UIntMax

\* The counters of the document.
LEMMA CountersAre ==
  ASSUME IInv
  PROVE  document.nextId \in Nat /\ document.nextLayer \in Nat /\ Len(clipboard) \in Nat
<1>1. document \in DocumentType(Names) /\ clipboard \in Seq(ObjectType)
  BY DEF IInv, OnChain
<1> QED
  BY <1>1, DocumentIs, LenProperties

\* A panel action edits.
LEMMA PanelEdits ==
  ASSUME IInv, PanelAction
  PROVE  Edits
<1>1. CASE \E id \in ObjectIds(document), key \in Keys :
             \E value \in (IF key = "x" THEN Positions ELSE Widths) : EditProperty(id, key, value)
  <2>1. PICK id \in ObjectIds(document), key \in Keys :
          \E value \in (IF key = "x" THEN Positions ELSE Widths) : EditProperty(id, key, value)
    BY <1>1
  <2>2. PICK value \in (IF key = "x" THEN Positions ELSE Widths) : EditProperty(id, key, value)
    BY <2>1
  <2>3. key \in {"x", "width"} /\ value \in Int
    BY <2>2, BoundsAssumption
  <2>4. MakesObjects(SetProperty(document, id, key, value))
    BY <2>3 DEF MakesObjects
  <2> QED
    BY <2>2, <2>4 DEF Edits, Makes, EditProperty
<1>2. CASE \E name \in LayerNames : CreateLayer(name)
  <2>1. PICK name \in LayerNames : CreateLayer(name)
    BY <1>2
  <2>2. document.nextLayer # UIntMax
    BY <2>1, CountersAre, IdsAreLeft DEF CreateLayer
  <2>3. MakesLayers(AddLayer(name))
    BY <2>2 DEF MakesLayers, Names
  <2> QED
    BY <2>1, <2>3 DEF Edits, Makes, CreateLayer
<1>3. ASSUME NEW layer \in LayerIds(document), ActivateLayerAction(layer) PROVE Edits
  BY <1>3 DEF Edits, Makes, MakesLayers, ActivateLayerAction
<1>4. ASSUME NEW layer \in LayerIds(document), NEW visible \in BOOLEAN, ShowLayer(layer, visible)
      PROVE  Edits
  <2>1. "visible" \in LayerAttributes /\ visible \in AttributeValues(Names, "visible")
    BY DEF LayerAttributes, AttributeValues
  <2> HIDE DEF LayerAttributes
  <2>2. MakesLayers(ChangeLayer(document, layer, "visible", visible))
    BY <2>1 DEF MakesLayers
  <2> QED
    BY <1>4, <2>2 DEF Edits, Makes, ShowLayer
<1>5. ASSUME NEW layer \in LayerIds(document), NEW locked \in BOOLEAN, LockLayer(layer, locked)
      PROVE  Edits
  <2>1. "locked" \in LayerAttributes /\ locked \in AttributeValues(Names, "locked")
    BY DEF LayerAttributes, AttributeValues
  <2>2. MakesLayers(ChangeLayer(document, layer, "locked", locked))
    BY <2>1 DEF MakesLayers
  <2> QED
    BY <1>5, <2>2 DEF Edits, Makes, LockLayer
<1>6. ASSUME NEW layer \in LayerIds(document), NEW name \in LayerNames, RenameLayer(layer, name)
      PROVE  Edits
  <2>1. "name" \in LayerAttributes /\ name \in AttributeValues(Names, "name")
    BY DEF LayerAttributes, AttributeValues, Names
  <2>2. MakesLayers(ChangeLayer(document, layer, "name", name))
    BY <2>1 DEF MakesLayers
  <2> QED
    BY <1>6, <2>2 DEF Edits, Makes, RenameLayer
<1>7. ASSUME NEW layer \in LayerIds(document), NEW index \in DOMAIN document.layers,
             MoveLayerAction(layer, index)
      PROVE  Edits
  BY <1>7 DEF Edits, Makes, MakesLayers, MoveLayerAction
<1> QED
  BY <1>1, <1>2, <1>3, <1>4, <1>5, <1>6, <1>7 DEF PanelAction

\* A release either edits or leaves the document alone.
LEMMA ReleasesEdit ==
  ASSUME IInv
  PROVE  /\ ReleaseDrag => Edits \/ UNCHANGED <<document, log, timeline>>
         /\ \A x \in Origins, width \in Widths :
              ReleaseDraw(x, width) => Edits \/ UNCHANGED <<document, log, timeline>>
<1>1. ASSUME ReleaseDrag, ~UNCHANGED <<document, log, timeline>> PROVE Edits
  <2>1. Execute(MoveObjects(gesture.ids, gesture.delta))
    BY <1>1 DEF ReleaseDrag
  <2>2. gesture.ids \in Seq(Nat) /\ gesture.delta \in Int
    BY DEF IInv, Gestures
  <2>3. MakesObjects(MoveObjects(gesture.ids, gesture.delta))
    BY <2>2 DEF MakesObjects
  <2> QED
    BY <2>1, <2>3 DEF Edits, Makes
<1>2. ASSUME NEW x \in Origins, NEW width \in Widths, ReleaseDraw(x, width),
             ~UNCHANGED <<document, log, timeline>>
      PROVE  Edits
  <2>1. Execute(CreateObject(NewObject(x, width))) /\ document.nextId <= MaxId
    BY <1>2 DEF ReleaseDraw
  <2>2. x \in Int /\ width \in Int /\ document.nextId # UIntMax
    BY <2>1, BoundsAssumption, CountersAre, IdsAreLeft
  <2>3. MakesObjects(CreateObject(NewObject(x, width)))
    BY <2>2 DEF MakesObjects
  <2> QED
    BY <2>1, <2>3 DEF Edits, Makes
<1> QED
  BY <1>1, <1>2

\* What a step does to the document: it edits, travels, starts over or saves.
LEMMA StepKinds ==
  ASSUME IInv, [Next]_vars
  PROVE  Edits \/ Travel \/ StartFresh \/ Save \/ UNCHANGED <<document, log, timeline>>
<1> DEFINE Quiet == UNCHANGED <<document, log, timeline>>
           Kinds == Edits \/ Travel \/ StartFresh \/ Save \/ Quiet
<1>1. selection \in Seq(Nat) /\ clipboard \in Seq(ObjectType)
  BY DEF IInv
<1>2. CASE UNCHANGED vars
  BY <1>2 DEF vars
<1>3. CASE PanelAction
  BY <1>3, PanelEdits
<1>4. CASE CommandAction
  <2>1. CASE Delete
    <3>1. MakesObjects(DeleteSelection(document, Pruned(selection, document)))
      BY <1>1, PrunedIs DEF MakesObjects
    <3> QED
      BY <2>1, <3>1 DEF Edits, Makes, Delete
  <2>2. CASE SelectAll
    BY <2>2 DEF SelectAll
  <2>3. CASE Copy
    BY <2>3 DEF Copy
  <2>4. ASSUME NEW delta \in Deltas, Paste(delta) PROVE Edits
    <3>1. delta \in Int
      BY BoundsAssumption
    <3>4. document.nextId + Len(clipboard) - 1 < UIntMax
      <4>1. document.nextId + Len(clipboard) - 1 <= MaxId
        BY <2>4 DEF Paste
      <4> QED
        BY <4>1, CountersAre, BoundsAssumption, IdAssumption DEF UIntMax
    <3>2. MakesObjects(PasteObjects(document, clipboard, delta, document.active))
      BY <3>1, <3>4 DEF MakesObjects
    <3>3. Execute(PasteObjects(document, clipboard, delta, document.active))
      BY <2>4 DEF Paste
    <3> QED
      BY <3>2, <3>3 DEF Edits, Makes
  <2>5. CASE Cut
    <3>1. MakesObjects(DeleteSelection(document, Pruned(selection, document)))
      BY <1>1, PrunedIs DEF MakesObjects
    <3>2. Execute(DeleteSelection(document, Pruned(selection, document)))
      BY <2>5 DEF Cut
    <3> QED
      BY <3>1, <3>2 DEF Edits, Makes
  <2> QED
    BY <1>4, <2>1, <2>2, <2>3, <2>4, <2>5 DEF CommandAction
<1>5. CASE PointerAction
  <2>1. ASSUME NEW id, NEW shift, PressOnObject(id, shift) PROVE Quiet
    BY <2>1 DEF PressOnObject
  <2>2. ASSUME PressOnNothing \/ PressToDraw \/ PressOtherButton \/ Escape PROVE Quiet
    BY <2>2 DEF PressOnNothing, PressToDraw, PressOtherButton, Escape
  <2>3. ASSUME NEW delta, PointerMove(delta) PROVE Quiet
    BY <2>3 DEF PointerMove
  <2>4. ASSUME NEW next, SwitchTool(next) PROVE Quiet
    BY <2>4 DEF SwitchTool
  <2> QED
    BY <1>5, <2>1, <2>2, <2>3, <2>4, ReleasesEdit DEF PointerAction
<1>6. CASE ScriptAction
  <2>1. PICK x \in Origins, width \in Widths : ScriptAdd(x, width)
    BY <1>6 DEF ScriptAction
  <2>2. x \in Int /\ width \in Int /\ document.nextId # UIntMax
    BY <2>1, BoundsAssumption, CountersAre, IdsAreLeft DEF ScriptAdd
  <2>3. MakesObjects(CreateObject(NewObject(x, width)))
    BY <2>2 DEF MakesObjects
  <2> QED
    BY <2>1, <2>3 DEF Edits, Makes, ScriptAdd
<1> QED
  BY <1>2, <1>3, <1>4, <1>5, <1>6 DEF Next

\* Every step keeps the chain.
LEMMA ChainKept ==
  ASSUME IInv, [Next]_vars
  PROVE  OnChain(document', log', timeline')
<1>1. OnChain(document, log, timeline)
  BY DEF IInv
<1>2. CASE Edits
  BY <1>2, EditKeepsChain
<1>3. CASE Travel
  <2>1. CASE Undo \/ ScriptUndo
    <3>1. CanUndo(log) /\ document' = Undone(log.entries[log.cursor], document)
          /\ log' = StepBack(log) /\ timeline' = timeline
      BY <2>1 DEF Undo, ScriptUndo
    <3> QED
      BY <1>1, <3>1, UndoKeepsChain
  <2>2. CASE Redo \/ ScriptRedo
    <3>1. CanRedo(log) /\ document' = Redone(log.entries[log.cursor + 1], document)
          /\ log' = StepForward(log) /\ timeline' = timeline
      BY <2>2 DEF Redo, ScriptRedo
    <3> QED
      BY <1>1, <3>1, RedoKeepsChain
  <2> QED
    BY <1>3, <2>1, <2>2 DEF Travel
<1>4. CASE StartFresh
  <2>1. ASSUME NEW d \in DocumentType(Names), Whole(d), Counted(d), d.nextId # 0, StartOver(d)
        PROVE  OnChain(document', log', timeline')
    BY <2>1, StartsChain DEF StartOver
  <2>2. CASE New
    BY <2>1, <2>2, NewDocumentStarts DEF New
  <2>3. ASSUME NEW file \in Files, Load(file)
        PROVE  OnChain(document', log', timeline')
    BY <2>1, <2>3, LoadedStarts DEF Load
  <2> QED
    BY <1>4, <2>2, <2>3 DEF StartFresh
<1>5. CASE Save
  <2> DEFINE d == document
             none == FALSE
             e == [d EXCEPT !.revised = none]
  <2>1. document' = e /\ log' = log /\ timeline' = timeline
    BY <1>5 DEF Save
  <2>2. d \in DocumentType(Names) /\ timeline[log.cursor + 1] = Content(d)
    BY <1>1 DEF OnChain
  <2>3. none \in BOOLEAN
    OBVIOUS
  <2> HIDE DEF none, d
  <2>4. e \in DocumentType(Names) /\ e.nextId = d.nextId /\ e.nextLayer = d.nextLayer
        /\ e.objects = d.objects /\ e.layers = d.layers /\ e.active = d.active
    BY <2>2, <2>3 DEF DocumentType
  <2> HIDE DEF e
  <2>5. Content(e) = Content(d) /\ d.nextId <= e.nextId /\ d.nextLayer <= e.nextLayer
    BY <2>2, <2>4, ContentIs, DocumentIs
  <2>6. OnChain(e, log, timeline)
    <3>1. OnChain(d, log, timeline) /\ timeline[log.cursor + 1] = Content(e)
          /\ \A C : Shaped(log, C) => Shaped(log, C)
      BY <1>1, <2>2, <2>5 DEF d
    <3> QED
      BY <2>4, <2>5, <3>1, ChainOf
  <2> QED
    BY <2>1, <2>6
<1>6. CASE UNCHANGED <<document, log, timeline>>
  BY <1>1, <1>6
<1> QED
  BY <1>2, <1>3, <1>4, <1>5, <1>6, StepKinds

\* The copies on the clipboard are objects.
LEMMA SnapshotsTyped ==
  ASSUME document \in DocumentType(Names), NEW ids \in Seq(Nat),
         ToSet(ids) \subseteq ObjectIds(document)
  PROVE  Snapshots(ids) \in Seq(ObjectType)
<1> DEFINE s == document.objects
           copy(i) == [Object(document, ids[i]) EXCEPT !.id = NoId, !.layer = NoId]
<1>1. s \in Seq(ObjectType) /\ Len(ids) \in Nat /\ DOMAIN ids = 1 .. Len(ids)
  BY DocumentIs, LenProperties DEF Objects
<1>2. ASSUME NEW i \in 1 .. Len(ids) PROVE copy(i) \in ObjectType
  <2>1. ids[i] \in IdsOf(s)
    BY <1>1, QueriesAre DEF ToSet
  <2>2. Object(document, ids[i]) = s[IndexOf(s, ids[i])] /\ IndexOf(s, ids[i]) \in 1 .. Len(s)
    BY <1>1, <2>1, QueriesAre, IndexOfFinds
  <2>3. Object(document, ids[i]) \in ObjectType
    BY <1>1, <2>2, ElementOfSeq
  <2> DEFINE o == Object(document, ids[i])
             z == 0
  <2>4. copy(i) = Placed(o, z, z) /\ o \in ObjectType /\ z \in Nat
    BY <2>3 DEF Placed, NoId
  <2> HIDE DEF o, z, copy
  <2> QED
    BY <2>4, PlacedIs
<1>3. Snapshots(ids) = [i \in 1 .. Len(ids) |-> copy(i)]
  BY <1>1 DEF Snapshots
<1> HIDE DEF copy
<1>4. [i \in 1 .. Len(ids) |-> copy(i)] \in [1 .. Len(ids) -> ObjectType]
  BY <1>2
<1> QED
  BY <1>1, <1>3, <1>4, IsASeq

IdsInOrder(s) == [i \in DOMAIN s |-> s[i].id]

\* The ids that a paste selects.
LEMMA PastedIds ==
  ASSUME NEW N, NEW d \in DocumentType(N), NEW objects \in Seq(ObjectType),
         NEW delta \in Int, NEW layer \in Nat, NEW ids,
         ids = IdsInOrder(PasteObjects(d, objects, delta, layer).objects)
  PROVE  /\ ids \in Seq(Nat)
         /\ Len(ids) = Len(objects)
         /\ \A i \in 1 .. Len(objects) : ids[i] = d.nextId + i - 1
<1> DEFINE copy(i) == [objects[i] EXCEPT !.id = d.nextId + i - 1, !.layer = layer, !.x = @ + delta]
           s == [i \in DOMAIN objects |-> copy(i)]
<1>1. PasteObjects(d, objects, delta, layer).objects = s
  BY DEF PasteObjects
<1>2. d.nextId \in Nat /\ Len(objects) \in Nat /\ DOMAIN objects = 1 .. Len(objects)
  BY DocumentIs, LenProperties
<1>3. ASSUME NEW i \in 1 .. Len(objects)
      PROVE  copy(i).id = d.nextId + i - 1
  <2>1. objects[i] \in ObjectType
    BY <1>3, ElementOfSeq
  <2> QED
    BY <2>1 DEF ObjectType
<1> HIDE DEF copy
<1>4. ids = [i \in 1 .. Len(objects) |-> d.nextId + i - 1]
  BY <1>1, <1>2, <1>3 DEF IdsInOrder
<1>5. ids \in [1 .. Len(objects) -> Nat] /\ DOMAIN ids = 1 .. Len(objects)
  BY <1>2, <1>4
<1>6. ids \in Seq(Nat)
  BY <1>2, <1>5, IsASeq
<1>7. Len(ids) = Len(objects)
  BY <1>2, <1>5, <1>6, LenProperties
<1> QED
  BY <1>4, <1>6, <1>7

\* Every step keeps the types of what the session holds.
LEMMA SessionKept ==
  ASSUME IInv, [Next]_vars
  PROVE  selection' \in Seq(Nat) /\ clipboard' \in Seq(ObjectType) /\ gesture' \in Gestures
<1> DEFINE Goal == /\ selection' \in Seq(Nat) /\ clipboard' \in Seq(ObjectType)
                   /\ gesture' \in Gestures
<1>1. /\ selection \in Seq(Nat) /\ clipboard \in Seq(ObjectType) /\ gesture \in Gestures
      /\ document \in DocumentType(Names)
  BY DEF IInv, OnChain
<1>2. \A ids \in Seq(Nat) : \A doc : Pruned(ids, doc) \in Seq(Nat)
  BY PrunedIs
<1>3. << >> \in Seq(Nat) /\ << >> \in Seq(ObjectType)
  OBVIOUS
<1>4. NoGesture \in Gestures
  BY <1>3 DEF NoGesture, Gestures
<1>5. \A ids \in Seq(Nat) : Gesture("drag", ids) \in Gestures /\ Gesture("draw", ids) \in Gestures
  BY DEF Gesture, Gestures
<1>6. ObjectIds(document) \subseteq Nat
  BY <1>1, EditableIds
<1> HIDE DEF Gestures
<1>7. CASE UNCHANGED vars
  BY <1>1, <1>7 DEF vars, session, pointer
<1>8. CASE PanelAction
  <2>1. selection' = selection \/ selection' = Pruned(selection, document')
    <3>1. \A id, key, value : EditProperty(id, key, value) => selection' = selection
      BY DEF EditProperty
    <3>2. \A layer : ActivateLayerAction(layer) => selection' = Pruned(selection, document')
      BY DEF ActivateLayerAction
    <3>3. \A layer, visible : ShowLayer(layer, visible) => selection' = selection
      BY DEF ShowLayer
    <3>4. \A layer, locked : LockLayer(layer, locked) => selection' = Pruned(selection, document')
      BY DEF LockLayer
    <3>5. \A layer, name : RenameLayer(layer, name) => selection' = selection
      BY DEF RenameLayer
    <3>6. \A layer, index : MoveLayerAction(layer, index) => selection' = selection
      BY DEF MoveLayerAction
    <3>7. \A name : CreateLayer(name) => selection' = selection
      BY DEF CreateLayer
    <3> QED
      BY <1>8, <3>1, <3>2, <3>3, <3>4, <3>5, <3>6, <3>7 DEF PanelAction
  <2>2. clipboard' = clipboard /\ gesture' = gesture
    BY <1>8 DEF PanelAction, Panel, pointer
  <2> QED
    BY <1>1, <1>2, <2>1, <2>2
<1>9. CASE CommandAction
  <2>1. CASE Delete
    BY <1>1, <1>3, <2>1 DEF Delete, pointer
  <2>2. CASE SelectAll
    <3> DEFINE s == document.objects
               ids == [i \in DOMAIN s |-> s[i].id]
    <3>1. s \in Seq(ObjectType) /\ Len(s) \in Nat /\ DOMAIN s = 1 .. Len(s)
      BY <1>1, DocumentIs, LenProperties DEF Objects
    <3>2. ASSUME NEW i \in 1 .. Len(s) PROVE s[i].id \in Nat
      <4>1. s[i] \in ObjectType
        BY <3>1, ElementOfSeq
      <4> QED
        BY <4>1 DEF ObjectType
    <3>3. ids \in [1 .. Len(s) -> Nat]
      BY <3>1, <3>2
    <3>4. ids \in Seq(Nat)
      BY <3>1, <3>3, IsASeq
    <3>5. selection' = Pruned(ids, document) /\ clipboard' = clipboard /\ gesture' = gesture
      BY <2>2 DEF SelectAll, pointer
    <3> HIDE DEF ids
    <3> QED
      BY <1>1, <1>2, <3>4, <3>5
  <2>3. CASE Copy
    <3>1. Snapshots(selection) \in Seq(ObjectType)
      BY <1>1, <2>3, SnapshotsTyped DEF Copy
    <3> QED
      BY <1>1, <2>3, <3>1 DEF Copy, pointer
  <2>4. ASSUME NEW delta \in Deltas, Paste(delta) PROVE Goal
    <3>1. delta \in Int /\ document.active \in Nat
      BY <1>1, BoundsAssumption, DocumentIs
    <3>2. selection' \in Seq(Nat)
      <4>1. selection' = IdsInOrder(PasteObjects(document, clipboard, delta, document.active).objects)
        BY <2>4 DEF Paste, IdsInOrder
      <4> QED
        BY <1>1, <3>1, <4>1, PastedIds
    <3> QED
      BY <1>1, <2>4, <3>2 DEF Paste, pointer
  <2>5. CASE Cut
    <3>1. /\ clipboard' = Snapshots(Pruned(selection, document))
          /\ selection' = << >> /\ gesture' = gesture
      BY <2>5 DEF Cut, pointer
    <3>2. \A id \in ToSet(Pruned(selection, document)) : id \in ObjectIds(document)
      BY <1>1, PrunedIs, EditableIds
    <3>3. clipboard' \in Seq(ObjectType)
      BY <1>1, <1>2, <3>1, <3>2, SnapshotsTyped
    <3> QED
      BY <1>1, <1>3, <3>1, <3>3
  <2>6. CASE Save
    BY <1>1, <2>6 DEF Save, pointer
  <2> QED
    BY <1>9, <2>1, <2>2, <2>3, <2>4, <2>5, <2>6 DEF CommandAction
<1>10. CASE PointerAction
  <2>1. ASSUME NEW id \in ObjectIds(document), NEW shift \in BOOLEAN, PressOnObject(id, shift)
        PROVE  Goal
    <3>1. Without(selection, id) \in Seq(Nat)
      BY <1>1, ElementsIs DEF Without
    <3>2. id \in Nat
      BY <1>6
    <3>3. <<id>> \in Seq(Nat) /\ Append(selection, id) \in Seq(Nat)
      BY <1>1, <3>2
    <3>4. selection' \in Seq(Nat)
      <4>1. \/ selection' = <<id>> \/ selection' = Without(selection, id)
            \/ selection' = Append(selection, id)
        BY <2>1 DEF PressOnObject
      <4> QED
        BY <3>1, <3>3, <4>1
    <3>5. gesture' = Gesture("drag", selection') \/ gesture' = NoGesture
      BY <2>1 DEF PressOnObject
    <3>6. clipboard' = clipboard
      BY <2>1 DEF PressOnObject
    <3> QED
      BY <1>1, <1>4, <1>5, <3>4, <3>5, <3>6
  <2>2. CASE PressOnNothing
    BY <1>1, <1>3, <2>2 DEF PressOnNothing, pointer
  <2>3. CASE PressToDraw
    BY <1>1, <1>3, <1>5, <2>3 DEF PressToDraw, session
  <2>4. CASE PressOtherButton
    BY <1>1, <1>4, <2>4 DEF PressOtherButton, session
  <2>5. ASSUME NEW delta \in Deltas \union {0}, PointerMove(delta) PROVE Goal
    <3>1. delta \in Int
      BY BoundsAssumption
    <3>2. [gesture EXCEPT !.delta = delta] \in Gestures
      BY <1>1, <3>1 DEF Gestures
    <3> QED
      BY <1>1, <2>5, <3>2 DEF PointerMove, session
  <2>6. CASE ReleaseDrag
    BY <1>1, <1>4, <2>6 DEF ReleaseDrag
  <2>7. ASSUME NEW x, NEW width, ReleaseDraw(x, width) PROVE Goal
    <3>1. selection' = <<document.nextId>> \/ selection' = selection
      BY <2>7 DEF ReleaseDraw
    <3>2. document.nextId \in Nat
      BY <1>1, DocumentIs
    <3>3. <<document.nextId>> \in Seq(Nat)
      BY <3>2
    <3>4. clipboard' = clipboard /\ gesture' = NoGesture
      BY <2>7 DEF ReleaseDraw
    <3> QED
      BY <1>1, <1>4, <3>1, <3>3, <3>4
  <2>8. CASE Escape
    BY <1>1, <1>3, <1>4, <2>8 DEF Escape
  <2>9. ASSUME NEW next, SwitchTool(next) PROVE Goal
    BY <1>1, <1>4, <2>9 DEF SwitchTool, session
  <2> QED
    BY <1>10, <2>1, <2>2, <2>3, <2>4, <2>5, <2>6, <2>7, <2>8, <2>9 DEF PointerAction
<1>11. CASE ScriptAction
  BY <1>1, <1>11 DEF ScriptAction, ScriptAdd, session, pointer
<1>12. CASE Travel
  BY <1>1, <1>2, <1>12 DEF Travel, Undo, Redo, ScriptUndo, ScriptRedo, session, pointer
<1>13. CASE StartFresh
  BY <1>1, <1>3, <1>4, <1>13 DEF StartFresh, New, Load, StartOver
<1> QED
  BY <1>7, <1>8, <1>9, <1>10, <1>11, <1>12, <1>13 DEF Next

\* The invariant is inductive.
LEMMA IInvHolds == Spec => []IInv
<1>1. Init => IInv
  BY InitKeeps
<1>2. IInv /\ [Next]_vars => IInv'
  <2> SUFFICES ASSUME IInv, [Next]_vars PROVE IInv'
    OBVIOUS
  <2>1. OnChain(document', log', timeline')
    BY ChainKept
  <2>2. selection' \in Seq(Nat) /\ clipboard' \in Seq(ObjectType) /\ gesture' \in Gestures
    BY SessionKept
  <2> QED
    BY <2>1, <2>2 DEF IInv
<1> QED
  BY <1>1, <1>2, PTL DEF Spec
-----------------------------------------------------------------------------
(* What follows for the document and for undo *)

\* Undo and redo return to what the user saw (workspace_edit_undo, workspace_edit_redo).
THEOREM UndoReturnsAlways == Spec => []UndoReturns
<1>1. IInv => UndoReturns
  BY OnChainIs DEF IInv, OnChain, UndoReturns
<1> QED
  BY <1>1, IInvHolds, PTL

\* An undo or a redo that the log offers is never refused by the command.
THEOREM StepsAreNeverStuck == Spec => []StepsNeverStuck
<1>1. IInv => StepsNeverStuck
  BY UndoKeepsChain, RedoKeepsChain DEF IInv, StepsNeverStuck
<1> QED
  BY <1>1, IInvHolds, PTL

\* As many ids as elements, when no two share one.
LEMMA DistinctCount ==
  ASSUME NEW S, NEW s \in Seq(S), Distinct(s)
  PROVE  Cardinality(IdsOf(s)) = Len(s)
<1> DEFINE n == Len(s)
           T == IdsOf(s)
           f == [i \in 1 .. n |-> s[i].id]
<1>1. n \in Nat /\ DOMAIN s = 1 .. n
  BY LenProperties
<1>2. f \in [1 .. n -> T]
  BY IdsOfIs
<1>3. \A t \in T : \E i \in 1 .. n : f[i] = t
  BY IdsOfIs
<1>4. \A i, j \in 1 .. n : f[i] = f[j] => i = j
  BY <1>1 DEF Distinct
<1> HIDE DEF f, T, n
<1>5. f \in Bijection(1 .. n, T)
  BY <1>2, <1>3, <1>4, Fun_IsBij
<1>6. ExistsBijection(1 .. n, T)
  BY <1>5, Fun_ExistsBij
<1>7. Cardinality(T) = n
  BY <1>1, <1>6, FS_CountingElements
<1> QED
  BY <1>7 DEF T, n

\* The document is in one piece, and no id is handed out while it is in use or logged
\* (document_append_object, document_insert_layer, document_next_object_id).
THEOREM DocumentIsWellFormed == Spec => []WellFormed
<1>1. ASSUME IInv PROVE WellFormed
  <2> DEFINE d == document
             a == d.nextId
             b == d.nextLayer
             C == Logged(a, b)
  <2>1. d \in DocumentType(Names) /\ Whole(d) /\ Counted(d) /\ Shaped(log, C)
    BY <1>1, OnChainIs DEF IInv, OnChain
  <2>2. /\ d.objects \in Seq(ObjectType) /\ d.layers \in Seq(LayerType(Names))
        /\ a \in Nat /\ b \in Nat /\ IdsOf(d.objects) \subseteq Nat /\ IdsOf(d.layers) \subseteq Nat
    BY <2>1, DocumentIs, IdsAreNat DEF Objects, Layers
  <2>3. WholeParts(d.objects, d.layers, d.active)
    BY <2>1, WholeIs
  <2>4. ObjectIds(d) = IdsOf(d.objects) /\ LayerIds(d) = IdsOf(d.layers)
    BY QueriesAre
  <2>5. /\ Cardinality(ObjectIds(d)) = Len(d.objects)
        /\ Cardinality(LayerIds(d)) = Len(d.layers)
    BY <2>2, <2>3, <2>4, DistinctCount DEF WholeParts
  <2>6. /\ \A object \in ToSet(d.objects) : object.layer \in LayerIds(d)
        /\ d.active \in LayerIds(d)
    BY <2>3, <2>4 DEF WholeParts
  <2>7. ASSUME NEW id \in ObjectIds(d) PROVE id \in 1 .. (a - 1)
    <3>1. id \in Nat /\ id < a /\ id # 0
      BY <2>1, <2>2, <2>3, <2>4 DEF Counted, WholeParts, NoId
    <3> QED
      BY <2>2, <3>1
  <2>8. ASSUME NEW id \in LayerIds(d) PROVE id \in 1 .. (b - 1)
    <3>1. id \in Nat /\ id < b /\ id # 0
      BY <2>1, <2>2, <2>3, <2>4 DEF Counted, WholeParts, NoId
    <3> QED
      BY <2>2, <3>1
  <2> HIDE DEF C
  <2>9. ASSUME NEW i \in DOMAIN log.entries
        PROVE  /\ log.entries[i] \in CommandType(Names)
               /\ \A id \in RememberedIds(log.entries[i]) : id \in 1 .. (a - 1)
               /\ \A id \in RememberedLayers(log.entries[i]) : id \in 1 .. (b - 1)
    <3>1. log.entries \in Seq(C) /\ i \in 1 .. Len(log.entries)
      BY <2>1, LenProperties DEF Shaped
    <3>2. log.entries[i] \in C
      BY <3>1, ElementOfSeq
    <3> QED
      BY <3>2 DEF C, Logged
  <2>10. ASSUME NEW id \in LoggedIds PROVE id \in 1 .. (a - 1)
    <3>1. PICK i \in DOMAIN log.entries :
            id \in CASE log.entries[i].kind = "create" -> {log.entries[i].id}
                     [] log.entries[i].kind \in {"delete", "paste"} -> SnapshotIds(log.entries[i])
                     [] OTHER -> {}
      BY <2>10 DEF LoggedIds
    <3>2. id \in RememberedIds(log.entries[i])
      BY <3>1 DEF RememberedIds, SnapshotIds, IdsOf
    <3> QED
      BY <2>9, <3>2
  <2>11. ASSUME NEW id \in LoggedLayerIds PROVE id \in 1 .. (b - 1)
    <3>1. PICK i \in DOMAIN log.entries :
            log.entries[i].kind = "addLayer" /\ id = log.entries[i].layer.id
      BY <2>11 DEF LoggedLayerIds
    <3>2. id \in RememberedLayers(log.entries[i])
      BY <3>1 DEF RememberedLayers
    <3> QED
      BY <2>9, <3>2
  <2> QED
    BY <2>5, <2>6, <2>7, <2>8, <2>10, <2>11 DEF WellFormed
<1> QED
  BY <1>1, IInvHolds, PTL
-----------------------------------------------------------------------------
(* The dirty flag *)

\* Nothing but a save and a new document clears the mark.
LEMMA DocumentAdvances ==
  ASSUME IInv, [Next]_vars
  PROVE  Save \/ StartFresh \/ Advance(document, document')
<1>1. OnChain(document, log, timeline) /\ document \in DocumentType(Names)
  BY DEF IInv, OnChain
<1>2. CASE Edits
  BY <1>2, EditKeepsChain
<1>3. CASE Travel
  <2>1. CASE Undo \/ ScriptUndo
    <3>1. CanUndo(log) /\ document' = Undone(log.entries[log.cursor], document)
      BY <2>1 DEF Undo, ScriptUndo
    <3> QED
      BY <1>1, <3>1, UndoKeepsChain
  <2>2. CASE Redo \/ ScriptRedo
    <3>1. CanRedo(log) /\ document' = Redone(log.entries[log.cursor + 1], document)
      BY <2>2 DEF Redo, ScriptRedo
    <3> QED
      BY <1>1, <3>1, RedoKeepsChain
  <2> QED
    BY <1>3, <2>1, <2>2 DEF Travel
<1>4. CASE UNCHANGED <<document, log, timeline>>
  BY <1>1, <1>4, AdvanceReflexive
<1> QED
  BY <1>2, <1>3, <1>4, StepKinds

\* In a build without the script tool the flag says whether the document was touched.
Flagged == tool \in {"select", "shape"} /\ dirty = document.revised

\* Every call keeps the flag so.
LEMMA FlagKept ==
  ASSUME ~Scripting, IInv, Flagged, [Next]_vars
  PROVE  Flagged'
<1>1. Tools = {"select", "shape"}
  BY DEF Tools
<1>2. tool # "script" /\ tool \in {"select", "shape"} /\ dirty = document.revised
  BY DEF Flagged
<1>3. ASSUME tool' = tool, SyncDirty \/ UNCHANGED <<document, dirty>> PROVE Flagged'
  BY <1>2, <1>3 DEF Flagged, SyncDirty
<1>4. CASE UNCHANGED vars
  BY <1>3, <1>4 DEF vars, session, pointer
<1>5. CASE PanelAction
  <2>1. SyncDirty
    BY <1>5 DEF PanelAction, EditProperty, CreateLayer, ActivateLayerAction, ShowLayer, LockLayer,
                RenameLayer, MoveLayerAction
  <2> QED
    BY <1>3, <1>5, <2>1 DEF PanelAction, Panel, pointer
<1>6. CASE CommandAction
  <2>1. CASE Delete
    BY <1>3, <2>1 DEF Delete, pointer
  <2>2. CASE SelectAll
    BY <1>3, <2>2 DEF SelectAll, pointer
  <2>3. CASE Copy
    BY <1>3, <2>3 DEF Copy, pointer
  <2>4. ASSUME NEW delta, Paste(delta) PROVE Flagged'
    BY <1>3, <2>4 DEF Paste, pointer
  <2>5. CASE Cut
    BY <1>3, <2>5 DEF Cut, pointer
  <2>6. CASE Save
    <3>1. document \in DocumentType(Names)
      BY DEF IInv, OnChain
    <3>2. document' = [document EXCEPT !.revised = FALSE] /\ dirty' = FALSE /\ tool' = tool
      BY <2>6 DEF Save, pointer
    <3>3. document'.revised = FALSE
      BY <3>1, <3>2 DEF DocumentType
    <3> QED
      BY <1>2, <3>2, <3>3 DEF Flagged
  <2> QED
    BY <1>6, <2>1, <2>2, <2>3, <2>4, <2>5, <2>6 DEF CommandAction
<1>7. CASE PointerAction
  <2>1. ASSUME NEW id, NEW shift, PressOnObject(id, shift) PROVE Flagged'
    BY <1>3, <2>1 DEF PressOnObject
  <2>2. ASSUME PressOnNothing \/ PressToDraw \/ PressOtherButton \/ Escape PROVE Flagged'
    BY <1>3, <2>2 DEF PressOnNothing, PressToDraw, PressOtherButton, Escape, pointer, session
  <2>3. ASSUME NEW delta, PointerMove(delta) PROVE Flagged'
    BY <1>3, <2>3 DEF PointerMove, session
  <2>4. CASE ReleaseDrag
    <3>1. CASE gesture.delta # 0
      BY <1>3, <2>4, <3>1 DEF ReleaseDrag
    <3>2. CASE ~(gesture.delta # 0)
      BY <1>3, <2>4, <3>2 DEF ReleaseDrag
    <3> QED
      BY <3>1, <3>2
  <2>5. ASSUME NEW x, NEW width, ReleaseDraw(x, width) PROVE Flagged'
    BY <1>3, <2>5 DEF ReleaseDraw
  <2>6. ASSUME NEW next \in Tools, SwitchTool(next) PROVE Flagged'
    BY <1>1, <1>2, <2>6 DEF SwitchTool, session, Flagged
  <2> QED
    BY <1>7, <2>1, <2>2, <2>3, <2>4, <2>5, <2>6 DEF PointerAction
<1>8. CASE ScriptAction
  BY <1>2, <1>8 DEF ScriptAction, ScriptAdd
<1>9. CASE Travel
  <2>1. Undo \/ Redo
    BY <1>2, <1>9 DEF Travel, ScriptUndo, ScriptRedo
  <2> QED
    BY <1>3, <2>1 DEF Undo, Redo, pointer
<1>10. CASE StartFresh
  <2>1. ASSUME NEW d, ~d.revised, d.revised \in BOOLEAN, StartOver(d) PROVE Flagged'
    BY <2>1 DEF StartOver, Flagged
  <2>2. CASE New
    <3>1. NewDocument.revised \in BOOLEAN
      BY NewDocumentStarts, DocumentIs
    <3> QED
      BY <2>1, <2>2, <3>1, NewDocumentStarts DEF New
  <2>3. ASSUME NEW file \in Files, Load(file) PROVE Flagged'
    <3>1. Loaded(file).revised \in BOOLEAN
      BY LoadedStarts, DocumentIs
    <3> QED
      BY <2>1, <2>3, <3>1, LoadedStarts DEF Load
  <2> QED
    BY <1>10, <2>2, <2>3 DEF StartFresh
<1> QED
  BY <1>4, <1>5, <1>6, <1>7, <1>8, <1>9, <1>10 DEF Next

\* Without the script tool, every step that changes what the user sees marks the document
\* (workspace_refresh_dirty_state), and only a save or a new document clears the mark.
THEOREM DirtyTracksEveryEdit ==
  ASSUME ~Scripting
  PROVE  Spec => DirtyTracksContent
<1>1. Init => IInv /\ Flagged
  <2>1. NewDocument.revised = FALSE
    BY NewDocumentStarts, DocumentIs
  <2> QED
    BY <2>1, InitKeeps DEF Init, Flagged
<1>2. IInv /\ Flagged /\ [Next]_vars => IInv' /\ Flagged'
  <2> SUFFICES ASSUME IInv, Flagged, [Next]_vars PROVE IInv' /\ Flagged'
    OBVIOUS
  <2>1. OnChain(document', log', timeline')
    BY ChainKept
  <2>2. selection' \in Seq(Nat) /\ clipboard' \in Seq(ObjectType) /\ gesture' \in Gestures
    BY SessionKept
  <2>3. Flagged'
    BY FlagKept
  <2> QED
    BY <2>1, <2>2, <2>3 DEF IInv
<1> DEFINE Marks == \/ Save
                    \/ StartFresh
                    \/ /\ dirty => dirty'
                       /\ Content(document') # Content(document) => dirty'
<1>3. IInv /\ Flagged /\ IInv' /\ Flagged' /\ [Next]_vars => [Marks]_vars
  <2> SUFFICES ASSUME IInv, Flagged, Flagged', [Next]_vars, ~Save, ~StartFresh
               PROVE  /\ dirty => dirty'
                      /\ Content(document') # Content(document) => dirty'
    OBVIOUS
  <2>1. Advance(document, document')
    BY DocumentAdvances
  <2>2. dirty = document.revised /\ dirty' = document'.revised
    BY DEF Flagged
  <2> QED
    BY <2>1, <2>2, Zenon DEF Advance
<1> QED
  BY <1>1, <1>2, <1>3, PTL DEF Spec, DirtyTracksContent
-----------------------------------------------------------------------------
(* Locks: the objects on a layer, and what may be edited *)

On(s, layer) == Elements(s, {i \in DOMAIN s : s[i].layer = layer})

\* Nothing on the layer changes when the others do.
LEMMA OnSame ==
  ASSUME NEW s \in Objects, NEW t \in Objects, Len(t) = Len(s), NEW layer,
         \A i \in 1 .. Len(s) : /\ t[i].layer = layer <=> s[i].layer = layer
                                /\ s[i].layer = layer => t[i] = s[i]
  PROVE  On(t, layer) = On(s, layer)
<1> DEFINE P == {i \in DOMAIN s : s[i].layer = layer}
           g == Ascending(P, Len(s))
<1>1. /\ s \in Seq(ObjectType) /\ t \in Seq(ObjectType) /\ Len(s) \in Nat
      /\ DOMAIN s = 1 .. Len(s) /\ DOMAIN t = 1 .. Len(s)
  BY LenProperties DEF Objects
<1>2. {i \in DOMAIN t : t[i].layer = layer} = P
  BY <1>1
<1>3. P \in SUBSET (1 .. Len(s)) /\ P \cap (1 .. Len(s)) = P
  BY <1>1
<1>4. \A i \in P : t[i] = s[i]
  BY <1>1
<1> HIDE DEF P
<1>5. Lists(g, P) /\ Elements(s, P) = Picked(s, g)
  BY <1>1, <1>3, ElementsIs
<1>6. Elements(t, P) = Picked(t, g)
  BY <1>1, <1>3, ElementsIs
<1> HIDE DEF g
<1>7. \A i \in 1 .. Len(g) : g[i] \in P
  BY <1>5, ListsMembers
<1>8. Picked(t, g) = Picked(s, g)
  <2>1. DOMAIN g = 1 .. Len(g)
    BY <1>5, ListsMembers
  <2> QED
    BY <1>4, <1>7, <2>1 DEF Picked
<1> QED
  BY <1>2, <1>5, <1>6, <1>8 DEF On, P

\* Nothing on the layer changes when an object is added to another.
LEMMA OnAppend ==
  ASSUME NEW s \in Objects, NEW e \in ObjectType, NEW layer, e.layer # layer
  PROVE  On(Append(s, e), layer) = On(s, layer)
<1> DEFINE P == {i \in DOMAIN s : s[i].layer = layer}
           t == Append(s, e)
           n == Len(s)
           g == Ascending(P, n)
           h == Ascending(P, Len(t))
<1>1. s \in Seq(ObjectType) /\ n \in Nat /\ DOMAIN s = 1 .. n
  BY LenProperties DEF Objects
<1>2. /\ t \in Seq(ObjectType) /\ Len(t) = n + 1 /\ DOMAIN t = 1 .. (n + 1)
      /\ \A i \in 1 .. n : t[i] = s[i]
      /\ t[n + 1] = e
  BY <1>1, AppendProperties, LenProperties
<1> HIDE DEF t, n
<1>3. {i \in DOMAIN t : t[i].layer = layer} = P
  BY <1>1, <1>2
<1>4. P \in SUBSET (1 .. n) /\ P \cap (1 .. Len(s)) = P /\ P \cap (1 .. Len(t)) = P
  BY <1>1, <1>2 DEF n
<1> HIDE DEF P
<1>5. Lists(g, P) /\ Elements(s, P) = Picked(s, g)
  BY <1>1, <1>4, ElementsIs DEF n
<1>6. Lists(h, P) /\ Elements(t, P) = Picked(t, h)
  BY <1>2, <1>4, ElementsIs
<1> HIDE DEF g, h
<1>7. h = g
  BY <1>5, <1>6, ListsUnique
<1>8. \A i \in 1 .. Len(g) : g[i] \in P
  BY <1>5, ListsMembers
<1>9. Picked(t, g) = Picked(s, g)
  <2>1. DOMAIN g = 1 .. Len(g)
    BY <1>5, ListsMembers
  <2> QED
    BY <1>2, <1>4, <1>8, <2>1 DEF Picked
<1> QED
  BY <1>3, <1>5, <1>6, <1>7, <1>9 DEF On, P, t

\* An object that is added to the layer comes last on it.
LEMMA OnAppended ==
  ASSUME NEW s \in Objects, NEW e \in ObjectType
  PROVE  On(Append(s, e), e.layer) = Append(On(s, e.layer), e)
<1> DEFINE layer == e.layer
           t == Append(s, e)
           n == Len(s)
           P == {i \in DOMAIN s : s[i].layer = layer}
           Q == P \union {n + 1}
           g == Ascending(P, n)
           h == Append(g, n + 1)
           k == Ascending(Q, n + 1)
<1>1. s \in Seq(ObjectType) /\ n \in Nat /\ DOMAIN s = 1 .. n
  BY LenProperties DEF Objects
<1>2. /\ t \in Seq(ObjectType) /\ Len(t) = n + 1 /\ DOMAIN t = 1 .. (n + 1)
      /\ \A i \in 1 .. n : t[i] = s[i]
      /\ t[n + 1] = e
  BY <1>1, AppendProperties, LenProperties
<1> HIDE DEF t
<1>3. {i \in DOMAIN t : t[i].layer = layer} = Q
  BY <1>1, <1>2
<1>4. P \in SUBSET (1 .. n) /\ P \cap (1 .. n) = P /\ Q \cap (1 .. (n + 1)) = Q
  BY <1>1
<1>5. \A i \in P : i < n + 1
  BY <1>1
<1> HIDE DEF P
<1>6. Lists(g, P) /\ Elements(s, P) = Picked(s, g)
  BY <1>1, <1>4, ElementsIs
<1>7. Lists(h, Q)
  <2> HIDE DEF g
  <2> QED
    BY <1>1, <1>5, <1>6, ListsAppend
<1>8. Lists(k, Q) /\ Elements(t, Q) = Picked(t, k)
  BY <1>2, <1>4, ElementsIs
<1> HIDE DEF k, Q
<1>9. k = h
  BY <1>7, <1>8, ListsUnique
<1>10. /\ g \in Seq(Nat) /\ Len(g) \in Nat /\ DOMAIN g = 1 .. Len(g)
       /\ \A i \in 1 .. Len(g) : g[i] \in P
  BY <1>6, ListsMembers
<1> HIDE DEF g
<1>11. /\ Len(h) = Len(g) + 1 /\ DOMAIN h = 1 .. (Len(g) + 1)
       /\ \A i \in 1 .. Len(g) : h[i] = g[i]
       /\ h[Len(g) + 1] = n + 1
  BY <1>1, <1>10, AppendProperties, LenProperties
<1> HIDE DEF h
<1>12. Picked(t, h) = Append(Picked(s, g), e)
  <2> DEFINE p == Picked(s, g)
             q == Picked(t, h)
             r == Append(p, e)
             m == Len(g)
  <2>1. /\ p \in Seq(ObjectType) /\ Len(p) = m
        /\ \A i \in 1 .. m : p[i] = s[g[i]]
    BY <1>1, <1>4, <1>6, PickedIs
  <2>2. q = [i \in 1 .. (m + 1) |-> t[h[i]]]
    BY <1>11 DEF Picked
  <2> HIDE DEF p, q
  <2>3. /\ r \in Seq(ObjectType) /\ Len(r) = m + 1 /\ DOMAIN r = 1 .. (m + 1)
        /\ \A i \in 1 .. m : r[i] = p[i]
        /\ r[m + 1] = e
    BY <2>1, AppendProperties, LenProperties
  <2> HIDE DEF r, m
  <2>4. m \in Nat /\ \A i \in 1 .. (m + 1) : i \in 1 .. m \/ i = m + 1
    BY <1>10 DEF m
  <2>5. ASSUME NEW i \in 1 .. (m + 1) PROVE t[h[i]] = r[i]
    <3>1. CASE i \in 1 .. m
      <4>1. h[i] = g[i] /\ g[i] \in 1 .. n
        BY <1>4, <1>10, <1>11, <3>1 DEF m
      <4> QED
        BY <1>2, <2>1, <2>3, <3>1, <4>1
    <3>2. CASE i = m + 1
      BY <1>2, <1>11, <2>3, <3>2 DEF m
    <3> QED
      BY <2>4, <3>1, <3>2
  <2>6. r = [i \in 1 .. (m + 1) |-> r[i]]
    BY <2>3
  <2>7. q = r
    BY <2>2, <2>5, <2>6
  <2> QED
    BY <2>7 DEF p, q, r
<1> QED
  BY <1>3, <1>6, <1>8, <1>9, <1>12 DEF On, P, t, layer

\* Nothing on the layer changes when objects on others are removed.
LEMMA OnElements ==
  ASSUME NEW s \in Objects, NEW layer, NEW Q \in SUBSET (1 .. Len(s)),
         \A i \in 1 .. Len(s) : s[i].layer = layer => i \in Q
  PROVE  On(Elements(s, Q), layer) = On(s, layer)
<1> DEFINE P == {i \in DOMAIN s : s[i].layer = layer}
           g == Ascending(Q, Len(s))
           t == Elements(s, Q)
           R == {i \in DOMAIN t : t[i].layer = layer}
           h == Ascending(R, Len(t))
           k == [i \in 1 .. Len(h) |-> g[h[i]]]
           f == Ascending(P, Len(s))
<1>1. s \in Seq(ObjectType) /\ Len(s) \in Nat /\ DOMAIN s = 1 .. Len(s)
  BY LenProperties DEF Objects
<1>2. P \in SUBSET (1 .. Len(s)) /\ P \cap (1 .. Len(s)) = P /\ P \subseteq Q
      /\ Q \cap (1 .. Len(s)) = Q
  BY <1>1
<1>3. \A i \in 1 .. Len(s) : i \in P <=> s[i].layer = layer
  BY <1>1
<1> HIDE DEF P
<1>4. Lists(g, Q) /\ t = Picked(s, g) /\ t \in Seq(ObjectType)
  BY <1>1, <1>2, ElementsIs
<1>5. Lists(f, P) /\ Elements(s, P) = Picked(s, f)
  BY <1>1, <1>2, ElementsIs
<1> HIDE DEF g, f, t
<1>6. Len(t) = Len(g) /\ \A i \in 1 .. Len(g) : g[i] \in 1 .. Len(s) /\ t[i] = s[g[i]]
  BY <1>1, <1>4, PickedIs
<1>7. /\ Len(g) \in Nat /\ \A i \in 1 .. Len(g) : g[i] \in Q /\ g[i] \in Nat
      /\ \A p \in Q : \E i \in 1 .. Len(g) : g[i] = p
      /\ \A i, j \in 1 .. Len(g) : i < j => g[i] < g[j]
  BY <1>4, ListsMembers
<1>8. DOMAIN t = 1 .. Len(g)
  BY <1>4, <1>6, LenProperties
<1>9. R \in SUBSET (1 .. Len(t)) /\ R \cap (1 .. Len(t)) = R
  BY <1>6, <1>8
<1>10. \A i \in 1 .. Len(g) : i \in R <=> g[i] \in P
  BY <1>3, <1>6, <1>8
<1> HIDE DEF R
<1>11. Lists(h, R) /\ Elements(t, R) = Picked(t, h)
  BY <1>4, <1>9, ElementsIs
<1> HIDE DEF h
<1>12. /\ Len(h) \in Nat /\ DOMAIN h = 1 .. Len(h)
       /\ \A i \in 1 .. Len(h) : h[i] \in R
       /\ \A p \in R : \E i \in 1 .. Len(h) : h[i] = p
       /\ \A i, j \in 1 .. Len(h) : i < j => h[i] < h[j]
  BY <1>11, ListsMembers
<1>13. \A i \in 1 .. Len(h) : h[i] \in 1 .. Len(g) /\ g[h[i]] \in P /\ g[h[i]] \in Nat
  BY <1>6, <1>7, <1>9, <1>10, <1>12
<1>14. k \in Seq(Nat) /\ Len(k) = Len(h) /\ DOMAIN k = 1 .. Len(h)
  <2>1. k \in [1 .. Len(h) -> Nat]
    BY <1>13
  <2>2. k \in Seq(Nat)
    BY <1>12, <2>1, IsASeq
  <2> QED
    BY <1>12, <2>1, <2>2, LenProperties
<1>15. \A i \in 1 .. Len(h) : k[i] = g[h[i]]
  OBVIOUS
<1> HIDE DEF k
<1>16. Lists(k, P)
  <2>1. \A i \in 1 .. Len(k) : k[i] \in P
    BY <1>13, <1>14, <1>15
  <2>2. ASSUME NEW p \in P PROVE \E i \in 1 .. Len(k) : k[i] = p
    <3>1. PICK j \in 1 .. Len(g) : g[j] = p
      BY <1>2, <1>7
    <3>2. j \in R
      BY <1>10, <3>1
    <3>3. PICK i \in 1 .. Len(h) : h[i] = j
      BY <1>12, <3>2
    <3> QED
      BY <1>14, <1>15, <3>1, <3>3
  <2>3. ASSUME NEW i \in 1 .. Len(k), NEW j \in 1 .. Len(k), i < j PROVE k[i] < k[j]
    <3>1. i \in 1 .. Len(h) /\ j \in 1 .. Len(h)
      BY <1>14
    <3>2. h[i] < h[j] /\ h[i] \in 1 .. Len(g) /\ h[j] \in 1 .. Len(g)
      BY <1>12, <1>13, <2>3, <3>1
    <3>3. g[h[i]] < g[h[j]]
      BY <1>7, <3>2
    <3> QED
      BY <1>15, <3>1, <3>3
  <2> QED
    BY <1>14, <2>1, <2>2, <2>3, ListsBy
<1>17. k = f
  BY <1>5, <1>16, ListsUnique
<1>18. Picked(t, h) = Picked(s, k)
  <2>1. Picked(t, h) = [i \in 1 .. Len(h) |-> t[h[i]]]
    BY <1>12 DEF Picked
  <2>2. Picked(s, k) = [i \in 1 .. Len(h) |-> s[k[i]]]
    BY <1>14 DEF Picked
  <2>3. \A i \in 1 .. Len(h) : t[h[i]] = s[k[i]]
    BY <1>6, <1>13, <1>15
  <2> QED
    BY <2>1, <2>2, <2>3
<1> QED
  BY <1>5, <1>11, <1>17, <1>18 DEF On, P, R, t

\* An object that may be selected: it is on a layer that is not locked, or there is no
\* layer 1.
Open(objects, layers, id) ==
  \E o \in ToSet(objects), y \in ToSet(layers) :
    o.id = id /\ y.id = o.layer /\ (DefaultLayer \in IdsOf(layers) => ~y.locked)

\* In a document that is whole, the lookups find what has the id.
LEMMA Finds ==
  ASSUME NEW N, NEW d \in DocumentType(N), Whole(d)
  PROVE  /\ \A o \in ToSet(d.objects) : o.id \in ObjectIds(d) /\ Object(d, o.id) = o
         /\ \A y \in ToSet(d.layers) : y.id \in LayerIds(d) /\ Layer(d, y.id) = y
         /\ \A id \in ObjectIds(d) : Object(d, id) \in ToSet(d.objects) /\ Object(d, id).id = id
         /\ \A id \in LayerIds(d) : Layer(d, id) \in ToSet(d.layers) /\ Layer(d, id).id = id
<1> DEFINE s == d.objects
           t == d.layers
<1>1. s \in Seq(ObjectType) /\ t \in Seq(LayerType(N)) /\ Distinct(s) /\ Distinct(t)
  BY DocumentIs, WholeIs DEF Objects, Layers, WholeParts
<1>2. DOMAIN s = 1 .. Len(s) /\ DOMAIN t = 1 .. Len(t)
  BY <1>1, LenProperties
<1>3. ObjectIds(d) = IdsOf(s) /\ LayerIds(d) = IdsOf(t)
  BY QueriesAre
<1>4. \A id : Object(d, id) = s[IndexOf(s, id)] /\ Layer(d, id) = t[IndexOf(t, id)]
  BY QueriesAre
<1> HIDE DEF s, t
<1>5. ASSUME NEW o \in ToSet(s) PROVE o.id \in IdsOf(s) /\ s[IndexOf(s, o.id)] = o
  <2>1. PICK i \in 1 .. Len(s) : s[i] = o
    BY <1>2 DEF ToSet
  <2>2. IndexOf(s, o.id) = i
    BY <1>1, <2>1, IndexOfIs
  <2> QED
    BY <1>1, <2>1, <2>2, IdsOfIs
<1>6. ASSUME NEW y \in ToSet(t) PROVE y.id \in IdsOf(t) /\ t[IndexOf(t, y.id)] = y
  <2>1. PICK i \in 1 .. Len(t) : t[i] = y
    BY <1>2 DEF ToSet
  <2>2. IndexOf(t, y.id) = i
    BY <1>1, <2>1, IndexOfIs
  <2> QED
    BY <1>1, <2>1, <2>2, IdsOfIs
<1>7. \A id \in IdsOf(s) : s[IndexOf(s, id)] \in ToSet(s) /\ s[IndexOf(s, id)].id = id
  BY <1>1, <1>2, IndexOfFinds DEF ToSet
<1>8. \A id \in IdsOf(t) : t[IndexOf(t, id)] \in ToSet(t) /\ t[IndexOf(t, id)].id = id
  BY <1>1, <1>2, IndexOfFinds DEF ToSet
<1> QED
  BY <1>3, <1>4, <1>5, <1>6, <1>7, <1>8 DEF s, t

\* What the lookups say of such an object.
LEMMA EditableIs ==
  ASSUME NEW N, NEW d \in DocumentType(N), Whole(d), NEW id
  PROVE  /\ IsEditable(id, d) => Open(d.objects, d.layers, id)
         /\ Open(d.objects, d.layers, id) =>
              id \in ObjectIds(d) /\ (DefaultLayer \in LayerIds(d) => ~ObjectIsLocked(d, id))
<1> DEFINE o == Object(d, id)
           y == Layer(d, o.layer)
<1>1. \A e \in ToSet(d.objects) : e.layer \in LayerIds(d)
  BY WholeIs, QueriesAre DEF WholeParts
<1>2. ASSUME IsEditable(id, d) PROVE Open(d.objects, d.layers, id)
  <2>1. id \in ObjectIds(d)
    BY <1>2 DEF IsEditable
  <2>2. o \in ToSet(d.objects) /\ o.id = id
    BY <2>1, Finds
  <2>3. y \in ToSet(d.layers) /\ y.id = o.layer
    BY <1>1, <2>2, Finds
  <2>4. ~y.locked
    BY <1>1, <1>2, <2>1, <2>2 DEF IsEditable, ObjectIsLocked, LayerIsLocked
  <2> QED
    BY <2>2, <2>3, <2>4 DEF Open
<1>3. ASSUME Open(d.objects, d.layers, id)
      PROVE  id \in ObjectIds(d) /\ (DefaultLayer \in LayerIds(d) => ~ObjectIsLocked(d, id))
  <2>1. PICK e \in ToSet(d.objects), z \in ToSet(d.layers) :
          e.id = id /\ z.id = e.layer /\ (DefaultLayer \in LayerIds(d) => ~z.locked)
    BY <1>3, QueriesAre DEF Open
  <2>2. id \in ObjectIds(d) /\ o = e
    BY <2>1, Finds
  <2>3. y = z
    BY <2>1, <2>2, Finds
  <2> QED
    BY <2>1, <2>2, <2>3 DEF ObjectIsLocked, LayerIsLocked
<1> QED
  BY <1>2, <1>3

\* What is on a locked layer may not be edited.
LEMMA OnLocked ==
  ASSUME NEW N, NEW d \in DocumentType(N), Whole(d), NEW layer \in LayerIds(d),
         Layer(d, layer).locked, NEW o \in ToSet(d.objects), o.layer = layer
  PROVE  ObjectIsLocked(d, o.id)
  BY Finds DEF ObjectIsLocked, LayerIsLocked

\* A move that is allowed leaves a locked layer alone.
LEMMA MoveSpares ==
  ASSUME NEW N, NEW d \in DocumentType(N), Whole(d), NEW layer \in LayerIds(d),
         Layer(d, layer).locked, NEW ids, NEW delta \in Int, Editable(ids, d)
  PROVE  On(MovedBy(d.objects, ids, delta), layer) = On(d.objects, layer)
<1> DEFINE s == d.objects
           t == MovedBy(s, ids, delta)
<1>1. s \in Objects /\ s \in Seq(ObjectType) /\ DOMAIN s = 1 .. Len(s)
  BY DocumentIs, LenProperties DEF Objects
<1>2. t \in Objects /\ Len(t) = Len(s) /\ \A i \in 1 .. Len(s) : t[i] = Shifted(s[i], ids, delta)
  BY <1>1, MovedByIs
<1> HIDE DEF t
<1>3. ASSUME NEW i \in 1 .. Len(s)
      PROVE  /\ t[i].layer = layer <=> s[i].layer = layer
             /\ s[i].layer = layer => t[i] = s[i]
  <2>1. s[i] \in ObjectType /\ s[i] \in ToSet(s)
    BY <1>1, ElementOfSeq DEF ToSet
  <2>2. t[i] = Shifted(s[i], ids, delta) /\ Shifted(s[i], ids, delta).layer = s[i].layer
    BY <1>2, <2>1, ShiftedIs, ShiftedKeeps
  <2>3. ASSUME s[i].layer = layer PROVE t[i] = s[i]
    <3>1. ObjectIsLocked(d, s[i].id)
      BY <2>1, <2>3, OnLocked
    <3>2. s[i].id \notin ids
      BY <3>1 DEF Editable
    <3> QED
      BY <2>2, <3>2 DEF Shifted
  <2> QED
    BY <2>2, <2>3
<1> HIDE DEF s
<1> QED
  BY <1>1, <1>2, <1>3, OnSame DEF t, s

\* So does an edit of a property.
LEMMA PropertySpares ==
  ASSUME NEW N, NEW d \in DocumentType(N), Whole(d), NEW layer \in LayerIds(d),
         Layer(d, layer).locked, NEW id \in ObjectIds(d), ~ObjectIsLocked(d, id),
         NEW key \in {"x", "width"}, NEW v \in Int
  PROVE  On(WithValue(d.objects, id, key, v), layer) = On(d.objects, layer)
<1> DEFINE s == d.objects
           k == IndexOf(s, id)
           e == Updated(s[k], key, v)
           t == WithValue(s, id, key, v)
<1>1. s \in Objects /\ s \in Seq(ObjectType) /\ DOMAIN s = 1 .. Len(s)
  BY DocumentIs, LenProperties DEF Objects
<1>2. k \in 1 .. Len(s) /\ s[k].id = id /\ s[k] \in ObjectType /\ s[k] \in ToSet(s)
  BY <1>1, QueriesAre, IndexOfFinds, ElementOfSeq DEF ToSet
<1>3. e \in ObjectType /\ e.layer = s[k].layer
  BY <1>2, UpdatedObject
<1>4. s[k].layer # layer
  BY <1>2, OnLocked
<1>5. t = Replaced(s, k, e)
  BY DEF WithValue
<1> HIDE DEF t, e, k
<1>6. /\ Replaced(s, k, e) \in Seq(ObjectType) /\ Len(Replaced(s, k, e)) = Len(s)
      /\ Replaced(s, k, e)[k] = e
      /\ \A j \in 1 .. Len(s) : j # k => Replaced(s, k, e)[j] = s[j]
  <2>1. s \in Seq(ObjectType) /\ k \in 1 .. Len(s) /\ e \in ObjectType
    BY <1>1, <1>2, <1>3
  <2> HIDE DEF s
  <2> QED
    BY ONLY <2>1, ReplacedIs
<1>7. ASSUME NEW i \in 1 .. Len(s)
      PROVE  /\ t[i].layer = layer <=> s[i].layer = layer
             /\ s[i].layer = layer => t[i] = s[i]
  BY <1>3, <1>4, <1>5, <1>6
<1>8. t \in Objects /\ Len(t) = Len(s)
  BY <1>5, <1>6 DEF Objects
<1> HIDE DEF s
<1> QED
  BY <1>1, <1>7, <1>8, OnSame DEF t, s

\* So does a deletion.
LEMMA DeleteSpares ==
  ASSUME NEW N, NEW d \in DocumentType(N), Whole(d), NEW layer \in LayerIds(d),
         Layer(d, layer).locked, NEW c \in DeleteCommand, Deletes(c, d.objects),
         Editable(SnapshotIds(c), d)
  PROVE  On(DeleteExecuted(c, d).objects, layer) = On(d.objects, layer)
<1> DEFINE s == d.objects
           m == Len(s)
           n == Len(c.objects)
           Q == Left(c, m, n)
           e == Deletions(c, d)[n]
<1>1. s \in Objects /\ s \in Seq(ObjectType) /\ DOMAIN s = 1 .. m
  BY DocumentIs, LenProperties DEF Objects
<1>2. PICK positions \in SUBSET (1 .. m) : Lists(c.indices, positions)
  BY DEF Deletes
<1>3. c.objects = Picked(s, c.indices)
  BY DEF Deletes
<1>4. DeleteExecuted(c, d) = e /\ Holds(N, d, e, Q)
  BY <1>2, <1>3, DeletionsLeave
<1>5. e.objects = Elements(s, Q)
  BY <1>4 DEF Holds
<1>6. Q \in SUBSET (1 .. m)
  BY DEF Left
<1>7. /\ c.objects \in Seq(ObjectType) /\ n = Len(c.indices)
      /\ \A i \in 1 .. Len(c.indices) : c.indices[i] \in 1 .. m /\ c.objects[i] = s[c.indices[i]]
  <2>1. c.objects \in Seq(ObjectType) /\ n = Len(c.indices)
    BY DeleteIs DEF Objects
  <2>2. \A i \in 1 .. Len(c.indices) :
          c.indices[i] \in 1 .. m /\ Picked(s, c.indices)[i] = s[c.indices[i]]
    BY <1>1, <1>2, PickedIs
  <2> QED
    BY <1>3, <2>1, <2>2
<1>8. ASSUME NEW p \in 1 .. m, s[p].layer = layer PROVE p \in Q
  <2>1. ObjectIsLocked(d, s[p].id)
    BY <1>1, <1>8, OnLocked DEF ToSet
  <2>2. ASSUME NEW k \in 1 .. n, c.indices[k] = p PROVE FALSE
    <3>1. c.objects[k] = s[p]
      BY <1>7, <2>2
    <3>2. c.objects[k].id \in SnapshotIds(c)
      <4>1. DOMAIN c.objects = 1 .. n
        BY <1>7, LenProperties
      <4> QED
        BY <2>2, <4>1 DEF SnapshotIds, ToSet
    <3> QED
      BY <2>1, <3>1, <3>2 DEF Editable
  <2> QED
    BY <2>2 DEF Left
<1> HIDE DEF Q, e, s, m
<1>9. On(Elements(s, Q), layer) = On(s, layer)
  <2>1. s \in Objects /\ Q \in SUBSET (1 .. Len(s))
        /\ \A i \in 1 .. Len(s) : s[i].layer = layer => i \in Q
    BY <1>1, <1>6, <1>8 DEF m
  <2> QED
    BY ONLY <2>1, OnElements
<1> QED
  BY <1>4, <1>5, <1>9 DEF s

\* What is pasted is on the layer it was pasted to, and the other layers are left alone.
AddedTo(N, c, d, m, i) ==
  /\ m[i] \in DocumentType(N)
  /\ m[i].layers = d.layers /\ m[i].active = d.active
  /\ \A layer : layer # c.layer => On(m[i].objects, layer) = On(d.objects, layer)
  /\ \A j \in 1 .. i : \E o \in ToSet(m[i].objects) : o.id = c.objects[j].id /\ o.layer = c.layer

\* One more object.
LEMMA AddedNext ==
  ASSUME NEW N, NEW c \in PasteCommand, NEW d \in DocumentType(N), c.layer \in LayerIds(d),
         NEW m, NEW i \in 1 .. Len(c.objects), AddedTo(N, c, d, m, i - 1),
         m[i] = AppendObject(m[i - 1], c.objects[i], c.objects[i].id, c.layer)
  PROVE  AddedTo(N, c, d, m, i)
<1> DEFINE b == m[i - 1]
           o == c.objects[i]
           id == o.id
           l == c.layer
           p == Placed(o, id, LayerFor(b.layers, b.active, l))
<1>1. /\ b \in DocumentType(N) /\ b.layers = d.layers /\ b.active = d.active
      /\ b.objects \in Objects /\ b.objects \in Seq(ObjectType)
  BY DocumentIs DEF AddedTo, Objects
<1>2. o \in ObjectType /\ id \in Nat /\ l \in Nat
  <2>1. c.objects \in Seq(ObjectType) /\ l \in Nat
    BY PasteIs DEF Objects
  <2>2. o \in ObjectType
    BY <2>1, ElementOfSeq
  <2> QED
    BY <2>1, <2>2 DEF ObjectType
<1>3. m[i] = AppendObject(b, o, id, l)
  OBVIOUS
<1>4. l \in IdsOf(d.layers) /\ d.layers \in Layers(N) /\ d.active \in Nat
  BY QueriesAre, DocumentIs
<1>5. LayerFor(b.layers, b.active, l) = l
  BY <1>1, <1>4 DEF LayerFor
<1> HIDE DEF b, o, id, l
<1>6. /\ m[i] = Doc(Append(b.objects, p), b.layers, b.active, Past(b.nextId, id), b.nextLayer, TRUE)
      /\ m[i] \in DocumentType(N)
  BY <1>1, <1>2, <1>3, AppendObjectIs
<1>7. p \in ObjectType /\ p.id = id /\ p.layer = l
  BY <1>2, <1>5, PlacedIs
<1> HIDE DEF p
<1>8. /\ m[i].objects = Append(b.objects, p) /\ m[i].layers = d.layers /\ m[i].active = d.active
  BY <1>1, <1>6 DEF Doc
<1>9. ASSUME NEW layer, layer # l PROVE On(m[i].objects, layer) = On(d.objects, layer)
  <2>1. On(b.objects, layer) = On(d.objects, layer)
    BY <1>9 DEF AddedTo, b, l
  <2>2. On(Append(b.objects, p), layer) = On(b.objects, layer)
    BY <1>1, <1>7, <1>9, OnAppend
  <2> QED
    BY <1>8, <2>1, <2>2
<1>10. p \in ToSet(Append(b.objects, p)) /\ ToSet(b.objects) \subseteq ToSet(Append(b.objects, p))
  <2> DEFINE s == b.objects
             t == Append(s, p)
             n == Len(s)
  <2>1. n \in Nat /\ DOMAIN s = 1 .. n
    BY <1>1, LenProperties
  <2>2. /\ t \in Seq(ObjectType) /\ Len(t) = n + 1 /\ DOMAIN t = 1 .. (n + 1)
        /\ \A k \in 1 .. n : t[k] = s[k]
        /\ t[n + 1] = p
    BY <1>1, <1>7, AppendProperties, LenProperties
  <2> HIDE DEF t, n, s
  <2>3. n + 1 \in DOMAIN t /\ \A k \in DOMAIN s : k \in DOMAIN t
    BY <2>1, <2>2
  <2> QED
    BY <2>1, <2>2, <2>3 DEF ToSet, t, s
<1>11. ASSUME NEW j \in 1 .. i
       PROVE  \E e \in ToSet(m[i].objects) : e.id = c.objects[j].id /\ e.layer = l
  <2>1. CASE j = i
    BY <1>7, <1>8, <1>10, <2>1 DEF id, o
  <2>2. CASE j # i
    <3>1. j \in 1 .. (i - 1)
      BY <2>2
    <3>2. PICK e \in ToSet(b.objects) : e.id = c.objects[j].id /\ e.layer = l
      BY <3>1 DEF AddedTo, b, l
    <3> QED
      BY <1>8, <1>10, <3>2
  <2> QED
    BY <2>1, <2>2
<1> QED
  BY <1>6, <1>8, <1>9, <1>11 DEF AddedTo, l

\* All of them.
LEMMA PasteAdds ==
  ASSUME NEW N, NEW c \in PasteCommand, NEW d \in DocumentType(N), c.layer \in LayerIds(d)
  PROVE  /\ \A layer : layer # c.layer => On(PasteExecuted(c, d).objects, layer) = On(d.objects, layer)
         /\ PasteExecuted(c, d).layers = d.layers
         /\ \A j \in 1 .. Len(c.objects) :
              \E o \in ToSet(PasteExecuted(c, d).objects) :
                o.id = c.objects[j].id /\ o.layer = c.layer
<1> DEFINE n == Len(c.objects)
           m == Additions(c, d)
           P == {i \in 0 .. n : AddedTo(N, c, d, m, i)}
<1>1. c.objects \in Objects /\ c.layer \in Nat /\ n \in Nat
  BY PasteIs
<1>2. /\ PasteExecuted(c, d) = m[n] /\ m[0] = d
      /\ \A i \in 1 .. n : m[i] = AppendObject(m[i - 1], c.objects[i], c.objects[i].id, c.layer)
  BY <1>1, AdditionsDef
<1> HIDE DEF m
<1>3. AddedTo(N, c, d, m, 0)
  BY <1>2 DEF AddedTo
<1>4. ASSUME NEW i \in 1 .. n, AddedTo(N, c, d, m, i - 1) PROVE AddedTo(N, c, d, m, i)
  BY <1>2, <1>4, AddedNext
<1>5. AddedTo(N, c, d, m, n)
  <2> HIDE DEF n
  <2>1. 0 \in P
    BY <1>1, <1>3
  <2>2. ASSUME NEW i \in 1 .. n, i - 1 \in P PROVE i \in P
    BY <1>1, <1>4, <2>2
  <2>3. \A i \in P : AddedTo(N, c, d, m, i)
    OBVIOUS
  <2> HIDE DEF P
  <2>4. n \in Nat /\ 0 \in P /\ \A i \in 1 .. n : i - 1 \in P => i \in P
    BY <1>1, <2>1, <2>2
  <2>5. \A i \in 0 .. n : i \in P
    BY ONLY <2>4, IntervalInduction
  <2> QED
    BY <1>1, <2>3, <2>5
<1> QED
  BY <1>2, <1>5 DEF AddedTo

\* The layer that a new object finds.
NewLayerOf(d) == LayerFor(d.layers, d.active, DefaultLayer)

\* A new object is the last on that layer, and the other layers are left alone.
LEMMA CreateAdds ==
  ASSUME NEW N, NEW d \in DocumentType(N), Whole(d),
         NEW c \in CreateCommand, c.kind = "create", c.id = d.nextId,
         c.object.layer = DefaultLayer
  PROVE  /\ \A layer : layer # NewLayerOf(d) =>
                        On(Redone(c, d).objects, layer) = On(d.objects, layer)
         /\ Redone(c, d).layers = d.layers
         /\ \E o \in ToSet(Redone(c, d).objects) :
              /\ o.id = d.nextId /\ o.layer = NewLayerOf(d)
              /\ On(Redone(c, d).objects, NewLayerOf(d)) = Append(On(d.objects, NewLayerOf(d)), o)
<1> DEFINE o == c.object
           id == d.nextId
           z == o.layer
           l == NewLayerOf(d)
           p == Placed(o, id, LayerFor(d.layers, d.active, z))
           e == Redone(c, d)
           s == d.objects
           t == Append(s, p)
<1>1. /\ c.kind = "create" /\ c.id = id
      /\ o \in ObjectType /\ z = DefaultLayer
  BY CreateIs
<1>2. /\ id \in Nat /\ s \in Objects /\ s \in Seq(ObjectType) /\ d.layers \in Layers(N)
      /\ d.active \in Nat
  BY DocumentIs DEF Objects
<1>4. z \in Nat
  BY <1>1 DEF DefaultLayer
<1>3. l \in Nat
  BY <1>1, <1>2, <1>4, LayerForIs DEF NewLayerOf
<1>5. e = AppendObject(d, o, id, z)
  BY <1>1, RedoneByKind
<1>6. LayerFor(d.layers, d.active, z) = l
  BY <1>1 DEF NewLayerOf
<1> HIDE DEF e, o, id, z, l
<1>7. e = Doc(t, d.layers, d.active, Past(d.nextId, id), d.nextLayer, TRUE)
  <2>1. d \in DocumentType(N) /\ o \in ObjectType /\ id \in Nat /\ z \in Nat
    BY <1>1, <1>2, <1>4
  <2>2. AppendObject(d, o, id, z) = Doc(t, d.layers, d.active, Past(d.nextId, id), d.nextLayer, TRUE)
    BY ONLY <2>1, AppendObjectIs
  <2> QED
    BY <1>5, <2>2
<1>8. p \in ObjectType /\ p.id = id /\ p.layer = l
  BY <1>1, <1>2, <1>3, <1>6, PlacedIs, ZenonT(30)
<1> HIDE DEF p
<1>9. e.objects = t /\ e.layers = d.layers
  BY <1>7 DEF Doc
<1>10. p \in ToSet(t)
  <2> DEFINE n == Len(s)
  <2>1. n \in Nat
    BY <1>2, LenProperties
  <2>2. t \in Seq(ObjectType) /\ Len(t) = n + 1 /\ DOMAIN t = 1 .. (n + 1) /\ t[n + 1] = p
    BY <1>2, <1>8, AppendProperties, LenProperties
  <2> HIDE DEF t, n, s
  <2>3. n + 1 \in DOMAIN t
    BY <2>1, <2>2
  <2> QED
    BY <2>2, <2>3 DEF ToSet
<1>11. \A layer : layer # l => On(t, layer) = On(s, layer)
  BY <1>2, <1>8, OnAppend
<1>12. On(t, l) = Append(On(s, l), p)
  <2>1. On(t, p.layer) = Append(On(s, p.layer), p)
    BY <1>2, <1>8, OnAppended
  <2> QED
    BY <1>8, <2>1
<1> QED
  BY <1>8, <1>9, <1>10, <1>11, <1>12 DEF e, l, id

\* What a command that sets something makes of the content.
LEMMA SetShows ==
  ASSUME NEW N, NEW d \in DocumentType(N), NEW c \in SetCommand(N), Fresh(N, c, d)
  PROVE  Content(Redone(c, d)) = ViewSet(c, d.objects, d.layers, d.active, RedoValue(c))
<1>1. Redoable(c, d) /\ Fitting(N, c, d.layers, RedoValue(c))
  BY DEF Fresh, Fits
<1>2. Redone(c, d) = ValueSet(c, d, RedoValue(c)) /\ Settable(c, d, RedoValue(c))
  BY <1>1, SetsValue
<1> QED
  BY <1>1, <1>2, ValueSetIs

\* A move shows the objects moved.
LEMMA MoveShows ==
  ASSUME NEW N, NEW d \in DocumentType(N), NEW ids \in Seq(Nat), NEW delta \in Int,
         NEW c, c = Filled(MoveObjects(ids, delta), d), Redoable(c, d)
  PROVE  /\ Redone(c, d).objects = MovedBy(d.objects, ToSet(ids), delta)
         /\ Redone(c, d).layers = d.layers
<1> DEFINE e == Redone(c, d)
<1>1. Fresh(N, c, d)
  BY MoveIsFresh
<1>2. c = [kind |-> "move", ids |-> ids, delta |-> delta]
  BY DEF MoveObjects, Filled
<1>3. c \in MoveCommand /\ c.kind = "move" /\ c.delta = delta /\ c.ids = ids
  BY <1>2 DEF MoveCommand
<1>4. c \in SetCommand(N)
  BY <1>3 DEF SetCommand
<1>5. RedoValue(c) = delta
  BY <1>3 DEF RedoValue
<1>6. ViewSet(c, d.objects, d.layers, d.active, delta)
        = View(MovedBy(d.objects, ToSet(ids), delta), d.layers, d.active)
  BY <1>3 DEF ViewSet
<1>7. Content(e) = View(MovedBy(d.objects, ToSet(ids), delta), d.layers, d.active)
  BY <1>1, <1>4, <1>5, <1>6, SetShows
<1> HIDE DEF e
<1> QED
  BY <1>7 DEF Content, View, e

\* An edit of a property shows the property set.
LEMMA PropertyShows ==
  ASSUME NEW N, NEW d \in DocumentType(N), NEW id \in ObjectIds(d), NEW key \in {"x", "width"},
         NEW value \in Int,
         NEW c, c = Filled(SetProperty(d, id, key, value), d), Redoable(c, d)
  PROVE  /\ Redone(c, d).objects = WithValue(d.objects, id, key, value)
         /\ Redone(c, d).layers = d.layers
<1> DEFINE e == Redone(c, d)
           old == Object(d, id)[key]
<1>1. Fresh(N, c, d)
  BY PropertyIsFresh
<1>2. c = [kind |-> "property", id |-> id, key |-> key, before |-> old, after |-> value]
  BY DEF SetProperty, Filled
<1>3. c.kind = "property" /\ c.id = id /\ c.key = key /\ c.after = value
  BY <1>2
<1>4. c \in SetCommand(N)
  BY <1>1, <1>3, CommandIs DEF Fresh
<1>5. RedoValue(c) = value
  BY <1>3 DEF RedoValue
<1>6. ViewSet(c, d.objects, d.layers, d.active, value)
        = View(WithValue(d.objects, id, key, value), d.layers, d.active)
  BY <1>3 DEF ViewSet
<1>7. Content(e) = View(WithValue(d.objects, id, key, value), d.layers, d.active)
  BY <1>1, <1>4, <1>5, <1>6, SetShows
<1> HIDE DEF e
<1> QED
  BY <1>7 DEF Content, View, e

\* Making a layer the active one changes nothing else.
LEMMA ActivationShows ==
  ASSUME NEW N, NEW d \in DocumentType(N), NEW layer \in LayerIds(d),
         NEW c, c = Filled(ActivateLayer(d, layer), d), Redoable(c, d)
  PROVE  Redone(c, d).objects = d.objects /\ Redone(c, d).layers = d.layers
<1> DEFINE e == Redone(c, d)
<1>1. Fresh(N, c, d)
  BY ActivationIsFresh
<1>2. c = [kind |-> "active", before |-> d.active, after |-> layer]
  BY DEF ActivateLayer, Filled
<1>3. c.kind = "active" /\ c.after = layer
  BY <1>2
<1>4. c \in SetCommand(N)
  BY <1>1, <1>3, CommandIs DEF Fresh
<1>5. RedoValue(c) = layer
  BY <1>3 DEF RedoValue
<1>6. ViewSet(c, d.objects, d.layers, d.active, layer) = View(d.objects, d.layers, layer)
  BY <1>3 DEF ViewSet
<1>7. Content(e) = View(d.objects, d.layers, layer)
  BY <1>1, <1>4, <1>5, <1>6, SetShows
<1> HIDE DEF e
<1> QED
  BY <1>7 DEF Content, View, e

\* An edit of a layer shows its attribute set.
LEMMA AttributeShows ==
  ASSUME NEW N, NEW d \in DocumentType(N), NEW layer \in LayerIds(d),
         NEW attribute \in LayerAttributes, NEW value \in AttributeValues(N, attribute),
         NEW c, c = Filled(ChangeLayer(d, layer, attribute, value), d), Redoable(c, d)
  PROVE  /\ Redone(c, d).objects = d.objects
         /\ Redone(c, d).layers = WithValue(d.layers, layer, attribute, value)
<1> DEFINE e == Redone(c, d)
           old == Layer(d, layer)[attribute]
<1>1. Fresh(N, c, d)
  BY AttributeIsFresh
<1>2. c = [kind |-> "attribute", layer |-> layer, attribute |-> attribute,
           before |-> old, after |-> value]
  BY DEF ChangeLayer, Filled
<1>3. c.kind = "attribute" /\ c.layer = layer /\ c.attribute = attribute /\ c.after = value
  BY <1>2
<1>4. c \in SetCommand(N)
  BY <1>1, <1>3, CommandIs DEF Fresh
<1>5. RedoValue(c) = value
  BY <1>3 DEF RedoValue
<1>6. ViewSet(c, d.objects, d.layers, d.active, value)
        = View(d.objects, WithValue(d.layers, layer, attribute, value), d.active)
  BY <1>3 DEF ViewSet
<1>7. Content(e) = View(d.objects, WithValue(d.layers, layer, attribute, value), d.active)
  BY <1>1, <1>4, <1>5, <1>6, SetShows
<1> HIDE DEF e
<1> QED
  BY <1>7 DEF Content, View, e

\* A layer that is moved in the panel takes its objects along.
LEMMA ReorderingShows ==
  ASSUME NEW N, NEW d \in DocumentType(N), NEW layer \in LayerIds(d), NEW index \in DOMAIN d.layers,
         NEW c, c = Filled(ReorderLayer(d, layer, index), d), Redoable(c, d)
  PROVE  /\ Redone(c, d).objects = d.objects
         /\ Redone(c, d).layers = Reordered(d.layers, layer, index)
<1> DEFINE e == Redone(c, d)
           old == LayerIndex(d, layer)
<1>1. Fresh(N, c, d)
  BY ReorderingIsFresh
<1>2. c = [kind |-> "moveLayer", layer |-> layer, before |-> old, after |-> index]
  BY DEF ReorderLayer, Filled
<1>3. c.kind = "moveLayer" /\ c.layer = layer /\ c.after = index
  BY <1>2
<1>4. c \in SetCommand(N)
  BY <1>1, <1>3, CommandIs DEF Fresh
<1>5. RedoValue(c) = index
  BY <1>3 DEF RedoValue
<1>6. ViewSet(c, d.objects, d.layers, d.active, index)
        = View(d.objects, Reordered(d.layers, layer, index), d.active)
  BY <1>3 DEF ViewSet
<1>7. Content(e) = View(d.objects, Reordered(d.layers, layer, index), d.active)
  BY <1>1, <1>4, <1>5, <1>6, SetShows
<1> HIDE DEF e
<1> QED
  BY <1>7 DEF Content, View, e

\* A new layer comes after the others.
LEMMA LayerShows ==
  ASSUME NEW N, NEW d \in DocumentType(N), Whole(d), Counted(d), d.nextLayer # UIntMax,
         NEW name \in N, NEW c, c = Filled(AddLayer(name), d), Redoable(c, d)
  PROVE  /\ Redone(c, d).objects = d.objects
         /\ ToSet(d.layers) \subseteq ToSet(Redone(c, d).layers)
         /\ DefaultLayer \in IdsOf(Redone(c, d).layers) => DefaultLayer \in IdsOf(d.layers)
<1> DEFINE e == Redone(c, d)
           id == c.layer.id
           m == InsertLayer(d, c.layer, c.index)
<1>1. Fresh(N, c, d)
  BY LayerIsFresh
<1>2. c.kind = "addLayer"
  BY DEF AddLayer, Filled
<1>3. c \in AddLayerCommand(N) /\ c.index = Len(d.layers) + 1
  <2>1. c \in CommandType(N) /\ c.index = Len(d.layers) + 1
    BY <1>1, <1>2 DEF Fresh
  <2>2. c \notin SetCommand(N)
    BY <1>2, SetCommandIs
  <2> QED
    BY <1>2, <2>1, <2>2, CommandIs
<1>4. c.layer \in LayerType(N) /\ c.index \in Nat \ {0} /\ id \in Nat
  BY <1>3, AddLayerIs
<1>5. d.layers \in Seq(LayerType(N)) /\ Len(d.layers) \in Nat
  BY DocumentIs, LenProperties DEF Layers
<1>6. e = SetActiveLayer(m, id)
  BY <1>2, RedoneByKind
<1>7. /\ m = Doc(d.objects, InsertAt(d.layers, Len(d.layers) + 1, c.layer), d.active, d.nextId,
                 Past(d.nextLayer, id), TRUE)
      /\ m \in DocumentType(N)
  <2> DEFINE k == Len(d.layers) + 1
  <2>1. m = InsertLayer(d, c.layer, k) /\ k \in Nat \ {0} /\ k > Len(d.layers)
    BY <1>3, <1>5
  <2> HIDE DEF k, m
  <2>2. (IF k > Len(d.layers) THEN Len(d.layers) + 1 ELSE k) = k
    BY <2>1 DEF k
  <2>3. /\ m = Doc(d.objects,
                   InsertAt(d.layers, IF k > Len(d.layers) THEN Len(d.layers) + 1 ELSE k, c.layer),
                   d.active, d.nextId, Past(d.nextLayer, id), TRUE)
        /\ m \in DocumentType(N)
    BY <1>4, <2>1, InsertLayerIs
  <2> QED
    BY <2>2, <2>3 DEF k
<1>8. Content(e) = View(m.objects, m.layers, id)
  <2>1. m \in DocumentType(N) /\ id \in Nat /\ e = SetActiveLayer(m, id)
    BY <1>4, <1>6, <1>7
  <2> HIDE DEF m, e, id
  <2> QED
    BY <2>1, SetActiveLayerIs
<1> HIDE DEF m, e
<1>9. m.objects = d.objects /\ m.layers = InsertAt(d.layers, Len(d.layers) + 1, c.layer)
  BY <1>7 DEF Doc
<1>10. e.objects = d.objects /\ e.layers = InsertAt(d.layers, Len(d.layers) + 1, c.layer)
  BY <1>8, <1>9 DEF Content, View
<1>11. ToSet(InsertAt(d.layers, Len(d.layers) + 1, c.layer)) = ToSet(d.layers) \union {c.layer}
  <2>1. Len(d.layers) + 1 \in 1 .. (Len(d.layers) + 1)
    BY <1>5
  <2> QED
    BY <1>4, <1>5, <2>1, InsertMembers
<1>12. c.layer.id # DefaultLayer
  <2>1. d.active \in IdsOf(d.layers) /\ d.active # 0 /\ d.active \in Nat /\ d.nextLayer \in Nat
    BY DocumentIs, WholeIs DEF WholeParts, NoId
  <2>2. d.active < d.nextLayer
    BY <2>1 DEF Counted
  <2>3. d.nextLayer # 1
    BY <2>1, <2>2
  <2>4. c.layer.id = d.nextLayer
    BY AddedLayerId
  <2> QED
    BY <2>3, <2>4 DEF DefaultLayer
<1>13. ASSUME DefaultLayer \in IdsOf(e.layers) PROVE DefaultLayer \in IdsOf(d.layers)
  BY <1>10, <1>11, <1>12, <1>13 DEF IdsOf
<1> QED
  BY <1>10, <1>11, <1>13 DEF e

\* Deleting shows what is left.
LEMMA DeletionSpares ==
  ASSUME NEW N, NEW d \in DocumentType(N), Whole(d), NEW layer \in LayerIds(d),
         Layer(d, layer).locked, NEW ids, NEW c, c = Filled(DeleteSelection(d, ids), d),
         Allowed(DeleteSelection(d, ids), d)
  PROVE  On(Redone(c, d).objects, layer) = On(d.objects, layer)
<1>1. c = DeleteSelection(d, ids) /\ c.kind = "delete"
  BY DEF DeleteSelection, Filled
<1>2. Fresh(N, c, d)
  BY DeleteIsFresh
<1>3. c \in DeleteCommand /\ Deletes(c, d.objects)
  <2>1. c \in CommandType(N) /\ Deletes(c, d.objects)
    BY <1>1, <1>2 DEF Fresh
  <2>2. c \notin SetCommand(N)
    BY <1>1, SetCommandIs
  <2> QED
    BY <1>1, <2>1, <2>2, CommandIs
<1>4. Editable(SnapshotIds(c), d)
  BY <1>1 DEF Allowed, DeleteAllowed
<1>5. Redone(c, d) = DeleteExecuted(c, d)
  BY <1>1, RedoneByKind
<1> QED
  BY <1>3, <1>4, <1>5, DeleteSpares

\* What is created goes to layer 1, which is not locked, or to the active layer when there
\* is no layer 1.
LEMMA CreationFits ==
  ASSUME NEW d, NEW x, NEW width, Whole(d), Allowed(CreateObject(NewObject(x, width)), d)
  PROVE  /\ NewLayerOf(d) \in LayerIds(d)
         /\ DefaultLayer \in LayerIds(d) => ~Layer(d, NewLayerOf(d)).locked
         /\ DefaultLayer \notin LayerIds(d) => NewLayerOf(d) = d.active
<1> DEFINE c == CreateObject(NewObject(x, width))
<1>1. c.kind = "create" /\ c.object.layer = DefaultLayer
  BY DEF CreateObject, NewObject
<1>2. CreateAllowed(c, d)
  BY <1>1 DEF Allowed
<1>3. ~LayerIsLocked(d, DefaultLayer)
  <2>1. DefaultLayer # NoId
    BY DEF DefaultLayer, NoId
  <2> QED
    BY <1>1, <1>2, <2>1 DEF CreateAllowed
<1>4. d.active \in IdsOf(d.layers) /\ LayerIds(d) = IdsOf(d.layers)
  BY WholeIs, QueriesAre DEF WholeParts
<1>5. CASE DefaultLayer \in LayerIds(d)
  <2>1. NewLayerOf(d) = DefaultLayer
    BY <1>4, <1>5 DEF NewLayerOf, LayerFor
  <2> QED
    BY <1>3, <1>5, <2>1 DEF LayerIsLocked
<1>6. CASE DefaultLayer \notin LayerIds(d)
  BY <1>4, <1>6 DEF NewLayerOf, LayerFor
<1> QED
  BY <1>5, <1>6

\* A paste goes to the active layer, which exists and is not locked.
LEMMA PasteFits ==
  ASSUME NEW N, NEW d \in DocumentType(N), Whole(d), NEW objects \in Seq(ObjectType),
         NEW delta \in Int, NEW c, c = Filled(PasteObjects(d, objects, delta, d.active), d),
         Redoable(c, d), Counted(d), d.nextId # 0, d.nextId + Len(objects) - 1 < UIntMax,
         Allowed(PasteObjects(d, objects, delta, d.active), d)
  PROVE  /\ c = PasteObjects(d, objects, delta, d.active)
         /\ c.kind = "paste" /\ c \in PasteCommand /\ c.layer = d.active
         /\ d.active \in LayerIds(d) /\ ~Layer(d, d.active).locked
<1>1. /\ c = PasteObjects(d, objects, delta, d.active)
      /\ c.kind = "paste" /\ c.layer = d.active
  BY DEF PasteObjects, Filled
<1>2. Fresh(N, c, d)
  BY PasteIsFresh, DocumentIs
<1>3. c \in PasteCommand
  <2>1. c \notin SetCommand(N)
    BY <1>1, SetCommandIs
  <2> QED
    BY <1>1, <1>2, <2>1, CommandIs DEF Fresh
<1>4. PasteAllowed(c, d)
  BY <1>1 DEF Allowed
<1>5. ~LayerIsLocked(d, d.active)
  BY <1>1, <1>4 DEF PasteAllowed
<1>6. d.active \in LayerIds(d)
  BY WholeIs, QueriesAre DEF WholeParts
<1> QED
  BY <1>1, <1>3, <1>5, <1>6 DEF LayerIsLocked

\* One object more is on the active layer, in a document without layer 1.
Fell(d, e, layer) ==
  /\ DefaultLayer \notin LayerIds(d)
  /\ layer = d.active
  /\ \E object \in ToSet(e.objects) :
       On(e.objects, layer) = Append(On(d.objects, layer), object)

\* What an edit does to the objects on a locked layer: nothing, or one more falls on it.
LEMMA EditsSpare ==
  ASSUME IInv, Edits, NEW layer \in LayerIds(document), Layer(document, layer).locked
  PROVE  \/ On(document'.objects, layer) = On(document.objects, layer)
         \/ Fell(document, document', layer)
<1> DEFINE d == document
           Goal == On(document'.objects, layer) = On(d.objects, layer)
           Falls == Fell(d, document', layer)
<1>1. PICK command : Makes(command) /\ Execute(command)
  BY DEF Edits
<1> DEFINE c == Filled(command, d)
<1>2. Allowed(command, d) /\ Redoable(c, d) /\ document' = Redone(c, d)
  BY <1>1 DEF Execute, Accepts
<1>3. d \in DocumentType(Names) /\ Whole(d) /\ Counted(d) /\ d.nextId # 0
  BY OnChainIs DEF IInv, OnChain
<1>4. clipboard \in Seq(ObjectType) /\ d.active \in Nat
  BY <1>3, DocumentIs DEF IInv
<1>5. c = Filled(command, d)
  OBVIOUS
<1> HIDE DEF c
<1>6. CASE MakesObjects(command)
  <2>1. ASSUME NEW x \in Int, NEW width \in Int, command = CreateObject(NewObject(x, width))
        PROVE  Goal \/ Falls
    <3> DEFINE l == NewLayerOf(d)
    <3>1. /\ DefaultLayer \in LayerIds(d) => ~Layer(d, l).locked
          /\ DefaultLayer \notin LayerIds(d) => l = d.active
      BY <1>2, <1>3, <2>1, CreationFits
    <3>2. /\ c \in CreateCommand /\ c.kind = "create" /\ c.id = d.nextId
          /\ c.object.layer = DefaultLayer
      BY <1>3, <1>5, <2>1, CreateFilled
    <3>3. /\ layer # l => Goal
          /\ \E o \in ToSet(document'.objects) :
               On(document'.objects, l) = Append(On(d.objects, l), o)
      BY <1>2, <1>3, <3>2, CreateAdds
    <3> HIDE DEF l
    <3>4. CASE layer # l
      BY <3>3, <3>4
    <3>5. CASE layer = l
      BY <3>1, <3>3, <3>5 DEF Fell
    <3> QED
      BY <3>4, <3>5
  <2>2. ASSUME NEW ids, command = DeleteSelection(d, ids) PROVE Goal
    BY <1>2, <1>3, <1>5, <2>2, DeletionSpares
  <2>3. ASSUME NEW ids \in Seq(Nat), NEW delta \in Int, command = MoveObjects(ids, delta)
        PROVE  Goal
    <3>1. command.kind = "move" /\ command.ids = ids
      BY <2>3 DEF MoveObjects
    <3>2. Editable(ToSet(ids), d)
      BY <1>2, <3>1 DEF Allowed, MoveAllowed
    <3>3. Redone(c, d).objects = MovedBy(d.objects, ToSet(ids), delta)
      BY <1>2, <1>3, <1>5, <2>3, MoveShows
    <3> QED
      BY <1>2, <1>3, <3>2, <3>3, MoveSpares
  <2>4. ASSUME d.nextId + Len(clipboard) - 1 < UIntMax, NEW delta \in Int,
               command = PasteObjects(d, clipboard, delta, d.active)
        PROVE  Goal
    <3>1. /\ c.kind = "paste" /\ c \in PasteCommand /\ c.layer = d.active
          /\ d.active \in LayerIds(d) /\ ~Layer(d, d.active).locked
      BY <1>2, <1>3, <1>4, <1>5, <2>4, PasteFits
    <3>2. layer # c.layer
      BY <3>1
    <3>3. Redone(c, d) = PasteExecuted(c, d)
      BY <3>1, RedoneByKind
    <3> QED
      BY <1>2, <1>3, <3>1, <3>2, <3>3, PasteAdds
  <2>5. ASSUME NEW id \in ObjectIds(d), NEW key \in {"x", "width"}, NEW value \in Int,
               command = SetProperty(d, id, key, value)
        PROVE  Goal
    <3>1. command.kind = "property" /\ command.id = id
      BY <2>5 DEF SetProperty
    <3>2. ~ObjectIsLocked(d, id)
      BY <1>2, <3>1 DEF Allowed, PropertyAllowed, Editable
    <3>3. Redone(c, d).objects = WithValue(d.objects, id, key, value)
      BY <1>2, <1>3, <1>5, <2>5, PropertyShows
    <3> QED
      BY <1>2, <1>3, <3>2, <3>3, PropertySpares
  <2> QED
    BY <1>6, <2>1, <2>2, <2>3, <2>4, <2>5 DEF MakesObjects
<1>7. CASE MakesLayers(command)
  <2>1. ASSUME NEW y \in LayerIds(d), command = ActivateLayer(d, y) PROVE Goal
    BY <1>2, <1>3, <1>5, <2>1, ActivationShows
  <2>2. ASSUME NEW y \in LayerIds(d), NEW attribute \in LayerAttributes,
               NEW value \in AttributeValues(Names, attribute),
               command = ChangeLayer(d, y, attribute, value)
        PROVE  Goal
    BY <1>2, <1>3, <1>5, <2>2, AttributeShows
  <2>3. ASSUME NEW y \in LayerIds(d), NEW index \in DOMAIN d.layers,
               command = ReorderLayer(d, y, index)
        PROVE  Goal
    BY <1>2, <1>3, <1>5, <2>3, ReorderingShows
  <2>4. ASSUME d.nextLayer # UIntMax, NEW name \in Names, command = AddLayer(name) PROVE Goal
    BY <1>2, <1>3, <1>5, <2>4, LayerShows
  <2> QED
    BY <1>7, <2>1, <2>2, <2>3, <2>4 DEF MakesLayers
<1> QED
  BY <1>1, <1>6, <1>7 DEF Makes

(***************************************************************************)
(* Locked layers: command_check_execute and the way the tools and menus    *)
(* build their commands leave the objects of a locked layer as they are,   *)
(* but for an object that is drawn, or added by a script, in a document    *)
(* without layer 1.                                                        *)
(***************************************************************************)
THEOREM LocksHold == Spec => LockedUntouched
<1> DEFINE Spared == \A layer \in LayerIds(document) :
                       Layer(document, layer).locked =>
                         \/ ObjectsOn(document', layer) = ObjectsOn(document, layer)
                         \/ FellThrough(layer)
<1>1. /\ \A doc, layer : ObjectsOn(doc, layer) = On(doc.objects, layer)
      /\ \A layer : FellThrough(layer) <=> Fell(document, document', layer)
  BY DEF ObjectsOn, On, FellThrough, Fell
<1>2. IInv /\ [Next]_vars => [Spared \/ Travel \/ StartFresh]_vars
  <2> SUFFICES ASSUME IInv, [Next]_vars PROVE Spared \/ Travel \/ StartFresh
    OBVIOUS
  <2>1. CASE Edits
    BY <1>1, <2>1, EditsSpare
  <2>2. CASE Save
    <3>1. document'.objects = document.objects
      <4>1. document \in DocumentType(Names)
        BY DEF IInv, OnChain
      <4> QED
        BY <2>2, <4>1 DEF Save, DocumentType
    <3> QED
      BY <1>1, <3>1
  <2>3. CASE UNCHANGED <<document, log, timeline>>
    BY <2>3
  <2> QED
    BY <2>1, <2>2, <2>3, StepKinds
<1> QED
  BY <1>2, IInvHolds, PTL DEF Spec, LockedUntouched
-----------------------------------------------------------------------------
(* The selection *)

\* No object is selected twice, and all of them can be edited.
Live(ids, d) ==
  /\ Unrepeated(ids)
  /\ \A id \in ToSet(ids) : Open(d.objects, d.layers, id)

\* What can be edited in one document can be edited in the other.
StaysOpen(d, e) ==
  \A id : Open(d.objects, d.layers, id) => Open(e.objects, e.layers, id)

\* Nothing, or one object that can be edited, may be selected.
LEMMA SmallSelections ==
  ASSUME NEW d, NEW id \in Nat
  PROVE  /\ Live(<< >>, d)
         /\ Open(d.objects, d.layers, id) => Live(<<id>>, d)
<1>1. DOMAIN << >> = {} /\ DOMAIN <<id>> = {1} /\ <<id>>[1] = id
  OBVIOUS
<1> DEFINE none == << >>
           one == <<id>>
<1>2. DOMAIN none = {} /\ DOMAIN one = {1} /\ one[1] = id
  BY <1>1
<1> HIDE DEF none, one
<1>3. Unrepeated(none) /\ Unrepeated(one)
  BY <1>2 DEF Unrepeated
<1>4. ToSet(none) = {} /\ ToSet(one) = {id}
  BY <1>2 DEF ToSet
<1>5. Live(none, d) /\ (Open(d.objects, d.layers, id) => Live(one, d))
  BY <1>3, <1>4 DEF Live
<1> QED
  BY <1>5 DEF none, one

\* So may what is left of a selection.
LEMMA PrunedSelection ==
  ASSUME NEW N, NEW d \in DocumentType(N), Whole(d), NEW ids \in Seq(Nat), Unrepeated(ids)
  PROVE  Live(Pruned(ids, d), d)
<1>1. /\ Unrepeated(Pruned(ids, d))
      /\ \A id \in ToSet(Pruned(ids, d)) : IsEditable(id, d)
  BY PrunedIs
<1> QED
  BY <1>1, EditableIs DEF Live

\* And one object less, or one more.
LEMMA ToggledSelection ==
  ASSUME NEW d, NEW ids \in Seq(Nat), Live(ids, d), NEW id \in Nat
  PROVE  /\ Live(Without(ids, id), d)
         /\ id \notin ToSet(ids) /\ Open(d.objects, d.layers, id) => Live(Append(ids, id), d)
<1> DEFINE n == Len(ids)
           positions == {i \in DOMAIN ids : ids[i] # id}
           less == Elements(ids, positions)
           more == Append(ids, id)
<1>1. n \in Nat /\ DOMAIN ids = 1 .. n
  BY LenProperties
<1>2. Unrepeated(ids) /\ \A i \in ToSet(ids) : Open(d.objects, d.layers, i)
  BY DEF Live
<1>3. Live(less, d)
  <2>1. positions \in SUBSET (1 .. n)
    BY <1>1
  <2> HIDE DEF positions
  <2>2. Unrepeated(less)
    BY <1>2, <2>1, ElementsUnrepeated
  <2>3. ToSet(less) \subseteq ToSet(ids)
    BY <2>1, ElementsMembers
  <2> QED
    BY <1>2, <2>2, <2>3 DEF Live
<1>4. ASSUME id \notin ToSet(ids), Open(d.objects, d.layers, id) PROVE Live(more, d)
  <2>1. /\ more \in Seq(Nat) /\ DOMAIN more = 1 .. (n + 1)
        /\ \A i \in 1 .. n : more[i] = ids[i]
        /\ more[n + 1] = id
    BY <1>1, AppendProperties, LenProperties
  <2> HIDE DEF more, n
  <2>2. ASSUME NEW i \in 1 .. n PROVE more[i] = ids[i] /\ ids[i] \in ToSet(ids) /\ ids[i] # id
    BY <1>1, <1>4, <2>1 DEF ToSet
  <2>3. ASSUME NEW i \in DOMAIN more PROVE i \in 1 .. n \/ i = n + 1
    BY <1>1, <2>1
  <2>4. ASSUME NEW i \in DOMAIN more, NEW j \in DOMAIN more, more[i] = more[j] PROVE i = j
    <3>1. CASE i \in 1 .. n /\ j \in 1 .. n
      BY <1>1, <1>2, <2>2, <2>4, <3>1 DEF Unrepeated
    <3>2. CASE i \in 1 .. n /\ j = n + 1
      BY <2>1, <2>2, <2>4, <3>2
    <3>3. CASE i = n + 1 /\ j \in 1 .. n
      BY <2>1, <2>2, <2>4, <3>3
    <3> QED
      BY <2>3, <3>1, <3>2, <3>3
  <2>5. ASSUME NEW k \in ToSet(more) PROVE Open(d.objects, d.layers, k)
    <3>1. PICK i \in DOMAIN more : more[i] = k
      BY DEF ToSet
    <3>2. CASE i \in 1 .. n
      BY <1>2, <2>2, <3>1, <3>2
    <3>3. CASE i = n + 1
      BY <1>4, <2>1, <3>1, <3>3
    <3> QED
      BY <2>3, <3>1, <3>2, <3>3
  <2> QED
    BY <2>4, <2>5 DEF Live, Unrepeated
<1> HIDE DEF less, more, positions
<1> QED
  BY <1>3, <1>4 DEF Without, less, more, positions

\* A selection follows a document in which its objects stay open.
LEMMA KeptSelection ==
  ASSUME NEW d, NEW e, NEW ids, Live(ids, d), StaysOpen(d, e)
  PROVE  Live(ids, e)
  BY DEF Live, StaysOpen

\* It is enough that the objects keep their ids and their layers.
LEMMA ObjectsStayOpen ==
  ASSUME NEW s \in Objects, NEW t \in Objects, Len(t) = Len(s),
         \A i \in 1 .. Len(s) : t[i].id = s[i].id /\ t[i].layer = s[i].layer,
         NEW layers, NEW id, Open(s, layers, id)
  PROVE  Open(t, layers, id)
<1>1. DOMAIN s = 1 .. Len(s) /\ DOMAIN t = 1 .. Len(s)
  BY LenProperties DEF Objects
<1>2. PICK o \in ToSet(s), y \in ToSet(layers) :
        o.id = id /\ y.id = o.layer /\ (DefaultLayer \in IdsOf(layers) => ~y.locked)
  BY DEF Open
<1>3. PICK i \in 1 .. Len(s) : s[i] = o
  BY <1>1, <1>2 DEF ToSet
<1>4. t[i] \in ToSet(t) /\ t[i].id = id /\ y.id = t[i].layer
  BY <1>1, <1>2, <1>3 DEF ToSet
<1> QED
  BY <1>2, <1>4 DEF Open

\* Or that each layer has one with its id and its lock, and layer 1 does not come in.
LEMMA LayersStayOpen ==
  ASSUME NEW layers, NEW others, DefaultLayer \in IdsOf(others) => DefaultLayer \in IdsOf(layers),
         \A y \in ToSet(layers) : \E z \in ToSet(others) : z.id = y.id /\ z.locked = y.locked,
         NEW objects, NEW id, Open(objects, layers, id)
  PROVE  Open(objects, others, id)
<1>1. PICK o \in ToSet(objects), y \in ToSet(layers) :
        o.id = id /\ y.id = o.layer /\ (DefaultLayer \in IdsOf(layers) => ~y.locked)
  BY DEF Open
<1>2. PICK z \in ToSet(others) : z.id = y.id /\ z.locked = y.locked
  BY <1>1
<1> QED
  BY <1>1, <1>2 DEF Open

\* Removing an element leaves the others.
LEMMA RemoveLeaves ==
  ASSUME NEW S, NEW s \in Seq(S), NEW i \in 1 .. Len(s), NEW j \in 1 .. Len(s), j # i
  PROVE  s[j] \in ToSet(RemoveAt(s, i))
<1> DEFINE t == RemoveAt(s, i)
           n == Len(s)
<1>1. n \in Nat
  BY LenProperties
<1>2. /\ t \in Seq(S) /\ Len(t) = n - 1
      /\ \A k \in 1 .. (n - 1) : t[k] = IF k < i THEN s[k] ELSE s[k + 1]
  BY RemoveAtIs
<1>3. DOMAIN t = 1 .. (n - 1)
  BY <1>2, LenProperties
<1> HIDE DEF t, n
<1>4. i \in 1 .. n /\ j \in 1 .. n
  BY DEF n
<1>5. CASE j < i
  <2>1. j \in 1 .. (n - 1)
    BY <1>1, <1>4, <1>5
  <2>2. t[j] = s[j]
    BY <1>2, <1>5, <2>1
  <2> QED
    BY <1>3, <2>1, <2>2 DEF ToSet, t
<1>6. CASE i < j
  <2> DEFINE k == j - 1
  <2>1. k \in 1 .. (n - 1) /\ ~(k < i) /\ k + 1 = j
    BY <1>1, <1>4, <1>6
  <2> HIDE DEF k
  <2>2. t[k] = s[j]
    BY <1>2, <2>1
  <2> QED
    BY <1>3, <2>1, <2>2 DEF ToSet, t
<1> QED
  BY <1>1, <1>4, <1>5, <1>6

\* Layers that change places are all there.
LEMMA ReorderedLayers ==
  ASSUME NEW N, NEW s \in Layers(N), NEW id \in IdsOf(s), NEW index \in 1 .. Len(s)
  PROVE  ToSet(s) \subseteq ToSet(Reordered(s, id, index))
<1> DEFINE k == IndexOf(s, id)
           e == s[k]
           r == RemoveAt(s, k)
           t == Reordered(s, id, index)
<1>1. s \in Seq(LayerType(N)) /\ Len(s) \in Nat /\ DOMAIN s = 1 .. Len(s)
  BY LenProperties DEF Layers
<1>2. k \in 1 .. Len(s)
  BY <1>1, IndexOfFinds
<1>3. e \in LayerType(N)
  BY <1>1, <1>2, ElementOfSeq
<1>4. t = InsertAt(r, index, e)
  BY DEF Reordered
<1> HIDE DEF k, t
<1>5. r \in Seq(LayerType(N)) /\ Len(r) = Len(s) - 1
  BY <1>1, <1>2, RemoveAtIs
<1>6. index \in 1 .. (Len(r) + 1)
  BY <1>1, <1>5
<1>7. \A j \in 1 .. Len(s) : j # k => s[j] \in ToSet(r)
  BY <1>1, <1>2, RemoveLeaves
<1> HIDE DEF r, e
<1>8. ToSet(t) = ToSet(r) \union {e}
  BY <1>3, <1>4, <1>5, <1>6, InsertMembers
<1>9. \A j \in 1 .. Len(s) : s[j] \in ToSet(t)
  BY <1>7, <1>8 DEF e
<1> QED
  BY <1>1, <1>9 DEF ToSet, t

\* Hiding and renaming do not touch a lock.
LEMMA UnlockedLayers ==
  ASSUME NEW N, NEW s \in Layers(N), NEW id \in IdsOf(s), NEW key \in {"visible", "name"},
         NEW v \in AttributeValues(N, key), NEW y \in ToSet(s)
  PROVE  \E z \in ToSet(WithValue(s, id, key, v)) : z.id = y.id /\ z.locked = y.locked
<1> DEFINE k == IndexOf(s, id)
           e == Updated(s[k], key, v)
           t == Replaced(s, k, e)
<1>1. s \in Seq(LayerType(N)) /\ Len(s) \in Nat /\ DOMAIN s = 1 .. Len(s)
  BY LenProperties DEF Layers
<1>2. k \in 1 .. Len(s)
  BY <1>1, IndexOfFinds
<1>3. s[k] \in LayerType(N)
  BY <1>1, <1>2, ElementOfSeq
<1>4. key \in LayerAttributes
  BY DEF LayerAttributes
<1>5. e \in LayerType(N) /\ e.id = s[k].id
  BY <1>3, <1>4, UpdatedLayer
<1>6. e.locked = s[k].locked
  <2>1. key # "locked"
    OBVIOUS
  <2> QED
    BY <1>3, <2>1 DEF Updated, LayerType
<1>7. t = WithValue(s, id, key, v)
  BY DEF WithValue
<1> HIDE DEF e, t, k
<1>8. /\ Replaced(s, k, e) \in Seq(LayerType(N)) /\ Len(Replaced(s, k, e)) = Len(s)
      /\ Replaced(s, k, e)[k] = e
      /\ \A j \in 1 .. Len(s) : j # k => Replaced(s, k, e)[j] = s[j]
  <2>1. s \in Seq(LayerType(N)) /\ k \in 1 .. Len(s) /\ e \in LayerType(N)
    BY <1>1, <1>2, <1>5
  <2> QED
    BY ONLY <2>1, ReplacedIs
<1>9. DOMAIN t = 1 .. Len(s)
  BY <1>8, LenProperties DEF t
<1>10. PICK j \in 1 .. Len(s) : s[j] = y
  BY <1>1 DEF ToSet
<1>11. t[j] \in ToSet(t)
  BY <1>9 DEF ToSet
<1>12. t[j].id = y.id /\ t[j].locked = y.locked
  <2>1. CASE j = k
    BY <1>5, <1>6, <1>8, <1>10, <2>1 DEF t
  <2>2. CASE j # k
    BY <1>8, <1>10, <2>2 DEF t
  <2> QED
    BY <2>1, <2>2
<1> QED
  BY <1>7, <1>11, <1>12

\* A move leaves every object on its layer.
LEMMA MoveStaysOpen ==
  ASSUME NEW N, NEW d \in DocumentType(N), NEW ids \in Seq(Nat), NEW delta \in Int,
         NEW c, c = Filled(MoveObjects(ids, delta), d), Redoable(c, d)
  PROVE  StaysOpen(d, Redone(c, d))
<1> DEFINE s == d.objects
           e == Redone(c, d)
           t == MovedBy(s, ToSet(ids), delta)
<1>1. e.objects = t /\ e.layers = d.layers
  BY MoveShows
<1>2. s \in Objects /\ s \in Seq(ObjectType)
  BY DocumentIs DEF Objects
<1>3. t \in Objects /\ Len(t) = Len(s) /\ \A i \in 1 .. Len(s) : t[i] = Shifted(s[i], ToSet(ids), delta)
  BY <1>2, MovedByIs
<1> HIDE DEF t, e
<1>4. \A i \in 1 .. Len(s) : t[i].id = s[i].id /\ t[i].layer = s[i].layer
  BY <1>2, <1>3, ElementOfSeq, ShiftedKeeps
<1> HIDE DEF s
<1>5. \A id : Open(s, d.layers, id) => Open(t, d.layers, id)
  BY <1>2, <1>3, <1>4, ObjectsStayOpen
<1> QED
  BY <1>1, <1>5 DEF StaysOpen, s, e

\* So does an edit of a property.
LEMMA PropertyStaysOpen ==
  ASSUME NEW N, NEW d \in DocumentType(N), NEW id \in ObjectIds(d), NEW key \in {"x", "width"},
         NEW value \in Int,
         NEW c, c = Filled(SetProperty(d, id, key, value), d), Redoable(c, d)
  PROVE  StaysOpen(d, Redone(c, d))
<1> DEFINE s == d.objects
           e == Redone(c, d)
           k == IndexOf(s, id)
           o == Updated(s[k], key, value)
           t == WithValue(s, id, key, value)
<1>1. e.objects = t /\ e.layers = d.layers
  BY PropertyShows
<1>2. s \in Objects /\ s \in Seq(ObjectType)
  BY DocumentIs DEF Objects
<1>3. k \in 1 .. Len(s) /\ s[k] \in ObjectType
  BY <1>2, QueriesAre, IndexOfFinds, ElementOfSeq
<1>4. o \in ObjectType /\ o.id = s[k].id /\ o.layer = s[k].layer
  BY <1>3, UpdatedObject
<1>5. t = Replaced(s, k, o)
  BY DEF WithValue
<1> HIDE DEF t, e, k, o
<1>6. /\ Replaced(s, k, o) \in Seq(ObjectType) /\ Len(Replaced(s, k, o)) = Len(s)
      /\ Replaced(s, k, o)[k] = o
      /\ \A j \in 1 .. Len(s) : j # k => Replaced(s, k, o)[j] = s[j]
  <2>1. s \in Seq(ObjectType) /\ k \in 1 .. Len(s) /\ o \in ObjectType
    BY <1>2, <1>3, <1>4
  <2> HIDE DEF s
  <2> QED
    BY ONLY <2>1, ReplacedIs
<1>7. \A i \in 1 .. Len(s) : t[i].id = s[i].id /\ t[i].layer = s[i].layer
  BY <1>4, <1>5, <1>6
<1>8. t \in Objects /\ Len(t) = Len(s)
  BY <1>5, <1>6 DEF Objects
<1> HIDE DEF s
<1>9. \A i : Open(s, d.layers, i) => Open(t, d.layers, i)
  BY <1>2, <1>7, <1>8, ObjectsStayOpen
<1> QED
  BY <1>1, <1>9 DEF StaysOpen, s, e

\* Of the calls on layers, only the one that locks closes anything.
LEMMA AttributeStaysOpen ==
  ASSUME NEW N, NEW d \in DocumentType(N), Whole(d), NEW layer \in LayerIds(d),
         NEW key \in {"visible", "name"}, NEW value \in AttributeValues(N, key),
         NEW c, c = Filled(ChangeLayer(d, layer, key, value), d), Redoable(c, d)
  PROVE  StaysOpen(d, Redone(c, d))
<1> DEFINE e == Redone(c, d)
           t == WithValue(d.layers, layer, key, value)
<1>1. key \in LayerAttributes
  BY DEF LayerAttributes
<1>2. e.objects = d.objects /\ e.layers = t
  BY <1>1, AttributeShows
<1>3. d.layers \in Layers(N) /\ layer \in IdsOf(d.layers)
  BY DocumentIs, QueriesAre
<1>4. \A y \in ToSet(d.layers) : \E z \in ToSet(t) : z.id = y.id /\ z.locked = y.locked
  BY <1>3, UnlockedLayers
<1>6. IdsOf(t) = IdsOf(d.layers)
  <2>1. Distinct(d.layers)
    BY WholeIs DEF WholeParts
  <2> QED
    BY <1>1, <1>3, <2>1, LayerWithValue
<1> HIDE DEF e, t
<1>5. \A id : Open(d.objects, d.layers, id) => Open(d.objects, t, id)
  BY <1>4, <1>6, LayersStayOpen
<1> QED
  BY <1>2, <1>5 DEF StaysOpen, e

\* An object that can be edited still can be when a layer has moved.
LEMMA ReorderingStaysOpen ==
  ASSUME NEW N, NEW d \in DocumentType(N), Whole(d), NEW layer \in LayerIds(d),
         NEW index \in DOMAIN d.layers, NEW c, c = Filled(ReorderLayer(d, layer, index), d), Redoable(c, d)
  PROVE  StaysOpen(d, Redone(c, d))
<1> DEFINE e == Redone(c, d)
           t == Reordered(d.layers, layer, index)
<1>1. e.objects = d.objects /\ e.layers = t
  BY ReorderingShows
<1>2. d.layers \in Layers(N) /\ layer \in IdsOf(d.layers) /\ index \in 1 .. Len(d.layers)
  BY DocumentIs, QueriesAre, LenProperties DEF Layers
<1>3. ToSet(d.layers) \subseteq ToSet(t)
  BY <1>2, ReorderedLayers
<1>6. IdsOf(t) = IdsOf(d.layers)
  <2>1. Distinct(d.layers)
    BY WholeIs DEF WholeParts
  <2> QED
    BY <1>2, <2>1, ReorderedIs
<1> HIDE DEF e, t
<1>4. \A y \in ToSet(d.layers) : \E z \in ToSet(t) : z.id = y.id /\ z.locked = y.locked
  BY <1>3
<1>5. \A id : Open(d.objects, d.layers, id) => Open(d.objects, t, id)
  BY <1>4, <1>6, LayersStayOpen
<1> QED
  BY <1>1, <1>5 DEF StaysOpen, e

\* And when a layer was added.
LEMMA LayerStaysOpen ==
  ASSUME NEW N, NEW d \in DocumentType(N), Whole(d), Counted(d), d.nextLayer # UIntMax,
         NEW name \in N, NEW c, c = Filled(AddLayer(name), d), Redoable(c, d)
  PROVE  StaysOpen(d, Redone(c, d))
<1> DEFINE e == Redone(c, d)
           t == e.layers
<1>1. /\ e.objects = d.objects /\ ToSet(d.layers) \subseteq ToSet(t)
      /\ DefaultLayer \in IdsOf(t) => DefaultLayer \in IdsOf(d.layers)
  BY LayerShows
<1> HIDE DEF e
<1>2. \A y \in ToSet(d.layers) : \E z \in ToSet(t) : z.id = y.id /\ z.locked = y.locked
  BY <1>1
<1>3. \A id : Open(d.objects, d.layers, id) => Open(d.objects, t, id)
  BY <1>1, <1>2, LayersStayOpen
<1> QED
  BY <1>1, <1>3 DEF StaysOpen, e

\* What a paste selects.
LEMMA PastedSelection ==
  ASSUME NEW N, NEW d \in DocumentType(N), Whole(d), Counted(d), d.nextId # 0,
         NEW objects \in Seq(ObjectType), NEW delta \in Int,
         d.nextId + Len(objects) - 1 < UIntMax,
         NEW c, c = Filled(PasteObjects(d, objects, delta, d.active), d), Redoable(c, d),
         Allowed(PasteObjects(d, objects, delta, d.active), d),
         NEW ids, ids = IdsInOrder(PasteObjects(d, objects, delta, d.active).objects)
  PROVE  Live(ids, Redone(c, d))
<1> DEFINE e == Redone(c, d)
           l == d.active
           n == Len(objects)
<1>1. l \in Nat /\ d.nextId \in Nat /\ n \in Nat
  BY DocumentIs, LenProperties
<1>2. /\ c = PasteObjects(d, objects, delta, l)
      /\ c.kind = "paste" /\ c \in PasteCommand /\ c.layer = l
      /\ l \in LayerIds(d) /\ ~Layer(d, l).locked
  BY PasteFits
<1>3. ids \in Seq(Nat) /\ Len(ids) = n /\ \A i \in 1 .. n : ids[i] = d.nextId + i - 1
  BY <1>1, PastedIds
<1>4. DOMAIN ids = 1 .. n
  BY <1>3, LenProperties
<1>5. e = PasteExecuted(c, d)
  BY <1>2, RedoneByKind
<1>6. /\ e.layers = d.layers
      /\ \A j \in 1 .. Len(c.objects) :
           \E o \in ToSet(e.objects) : o.id = c.objects[j].id /\ o.layer = l
  BY <1>2, <1>5, PasteAdds
<1> HIDE DEF e
<1>7. DOMAIN ids = DOMAIN c.objects /\ \A i \in DOMAIN ids : ids[i] = c.objects[i].id
  BY <1>2 DEF IdsInOrder
<1>8. DOMAIN c.objects = 1 .. Len(c.objects)
  BY <1>2, PasteIs, LenProperties DEF Objects
<1>9. Layer(d, l) \in ToSet(d.layers) /\ Layer(d, l).id = l
  BY <1>2, Finds
<1> HIDE DEF l, n
<1>10. ASSUME NEW id \in ToSet(ids) PROVE Open(e.objects, e.layers, id)
  <2>1. PICK i \in DOMAIN ids : ids[i] = id
    BY DEF ToSet
  <2>2. PICK o \in ToSet(e.objects) : o.id = id /\ o.layer = l
    BY <1>6, <1>7, <1>8, <2>1
  <2> QED
    BY <1>2, <1>6, <1>9, <2>2 DEF Open
<1>11. ASSUME NEW i \in DOMAIN ids, NEW j \in DOMAIN ids, ids[i] = ids[j] PROVE i = j
  <2> DEFINE m == d.nextId
  <2>1. i \in 1 .. n /\ j \in 1 .. n /\ m \in Nat
    BY <1>1, <1>4
  <2>2. ids[i] = m + i - 1 /\ ids[j] = m + j - 1
    BY <1>3, <2>1
  <2>3. i \in Nat /\ j \in Nat
    BY ONLY <1>1, <2>1
  <2>4. m + i - 1 = m + j - 1
    BY ONLY <1>11, <2>2
  <2> HIDE DEF m
  <2> QED
    BY ONLY <2>1, <2>3, <2>4
<1> QED
  BY <1>10, <1>11 DEF Live, Unrepeated, e

\* And what a drawing selects.
LEMMA DrawnSelection ==
  ASSUME NEW N, NEW d \in DocumentType(N), Whole(d), NEW x \in Int, NEW width \in Int,
         NEW c, c = Filled(CreateObject(NewObject(x, width)), d),
         Allowed(CreateObject(NewObject(x, width)), d)
  PROVE  Live(<<d.nextId>>, Redone(c, d))
<1> DEFINE e == Redone(c, d)
           l == NewLayerOf(d)
           id == d.nextId
<1>1. /\ c \in CreateCommand /\ c.kind = "create" /\ c.id = d.nextId
      /\ c.object.layer = DefaultLayer
  BY CreateFilled
<1>2. l \in LayerIds(d) /\ (DefaultLayer \in IdsOf(d.layers) => ~Layer(d, l).locked)
  BY CreationFits, QueriesAre
<1>3. /\ e.layers = d.layers
      /\ \E o \in ToSet(e.objects) : o.id = id /\ o.layer = l
  BY <1>1, CreateAdds
<1>4. Layer(d, l) \in ToSet(d.layers) /\ Layer(d, l).id = l
  BY <1>2, Finds
<1>5. id \in Nat
  BY DocumentIs
<1> HIDE DEF e, l, id
<1>6. Open(e.objects, e.layers, id)
  BY <1>2, <1>3, <1>4 DEF Open
<1>7. Live(<<id>>, e)
  BY <1>5, <1>6, SmallSelections
<1> QED
  BY <1>7 DEF e, id

\* A panel action keeps the selection live: the one that locks prunes it.
LEMMA PanelSelection ==
  ASSUME IInv, Live(selection, document), PanelAction, Whole(document'),
         document' \in DocumentType(Names)
  PROVE  Live(selection', document')
<1> DEFINE d == document
           e == document'
           Goal == Live(selection', e)
<1>1. d \in DocumentType(Names) /\ Whole(d) /\ Counted(d) /\ selection \in Seq(Nat)
  BY OnChainIs DEF IInv, OnChain
<1>2. ASSUME StaysOpen(d, e), selection' = selection PROVE Goal
  BY <1>2, KeptSelection
<1>3. ASSUME selection' = Pruned(selection, e) PROVE Goal
  <2>1. Unrepeated(selection)
    BY DEF Live
  <2> QED
    BY <1>1, <1>3, <2>1, PrunedSelection
<1>4. ASSUME NEW command, Execute(command)
      PROVE  e = Redone(Filled(command, d), d) /\ Redoable(Filled(command, d), d)
  BY <1>4 DEF Execute, Accepts
<1> HIDE DEF d, e
<1>5. ASSUME NEW name \in Names, CreateLayer(name) PROVE Goal
  <2>1. Execute(AddLayer(name)) /\ selection' = selection
    BY <1>5 DEF CreateLayer
  <2>3. d.nextLayer # UIntMax
    BY <1>5, CountersAre, IdsAreLeft DEF CreateLayer, d
  <2>2. StaysOpen(d, e)
    BY <1>1, <1>4, <2>1, <2>3, LayerStaysOpen
  <2> QED
    BY <1>2, <2>1, <2>2
<1>6. ASSUME NEW layer, ActivateLayerAction(layer) PROVE Goal
  BY <1>3, <1>6 DEF ActivateLayerAction, e
<1>7. ASSUME NEW layer, NEW locked, LockLayer(layer, locked) PROVE Goal
  BY <1>3, <1>7 DEF LockLayer, e
<1>8. ASSUME NEW layer \in LayerIds(d), NEW visible \in BOOLEAN, ShowLayer(layer, visible)
      PROVE  Goal
  <2>1. Execute(ChangeLayer(d, layer, "visible", visible)) /\ selection' = selection
    BY <1>8 DEF ShowLayer, d
  <2>2. "visible" \in {"visible", "name"} /\ visible \in AttributeValues(Names, "visible")
    BY DEF AttributeValues
  <2>3. StaysOpen(d, e)
    BY <1>1, <1>4, <2>1, <2>2, AttributeStaysOpen
  <2> QED
    BY <1>2, <2>1, <2>3
<1>9. ASSUME NEW layer \in LayerIds(d), NEW name \in Names, RenameLayer(layer, name)
       PROVE  Goal
  <2>1. Execute(ChangeLayer(d, layer, "name", name)) /\ selection' = selection
    BY <1>9 DEF RenameLayer, d
  <2>2. "name" \in {"visible", "name"} /\ name \in AttributeValues(Names, "name")
    BY DEF AttributeValues
  <2>3. StaysOpen(d, e)
    BY <1>1, <1>4, <2>1, <2>2, AttributeStaysOpen
  <2> QED
    BY <1>2, <2>1, <2>3
<1>10. ASSUME NEW layer \in LayerIds(d), NEW index \in DOMAIN d.layers,
              MoveLayerAction(layer, index)
       PROVE  Goal
  <2>1. Execute(ReorderLayer(d, layer, index)) /\ selection' = selection
    BY <1>10 DEF MoveLayerAction, d
  <2>2. StaysOpen(d, e)
    BY <1>1, <1>4, <2>1, ReorderingStaysOpen
  <2> QED
    BY <1>2, <2>1, <2>2
<1>11. CASE \E id \in ObjectIds(d), key \in Keys :
              \E value \in (IF key = "x" THEN Positions ELSE Widths) : EditProperty(id, key, value)
  <2>1. PICK id \in ObjectIds(d), key \in Keys :
          \E value \in (IF key = "x" THEN Positions ELSE Widths) : EditProperty(id, key, value)
    BY <1>11
  <2>2. key \in {"x", "width"} /\ \A value \in (IF key = "x" THEN Positions ELSE Widths) : value \in Int
    BY BoundsAssumption
  <2>3. PICK value \in Int : EditProperty(id, key, value)
    BY <2>1, <2>2
  <2>4. Execute(SetProperty(d, id, key, value)) /\ selection' = selection
    BY <2>3 DEF EditProperty, d
  <2>5. StaysOpen(d, e)
    BY <1>1, <1>4, <2>2, <2>3, <2>4, PropertyStaysOpen
  <2> QED
    BY <1>2, <2>4, <2>5 DEF e
<1>12. \A name \in LayerNames : name \in Names
  BY DEF Names
<1> QED
  BY <1>5, <1>6, <1>7, <1>8, <1>9, <1>10, <1>11, <1>12 DEF PanelAction, d, e

\* So does a menu or a key.
LEMMA CommandSelection ==
  ASSUME IInv, Live(selection, document), CommandAction
  PROVE  Live(selection', document')
<1> DEFINE d == document
           e == document'
           Goal == Live(selection', e)
<1>1. /\ d \in DocumentType(Names) /\ Whole(d) /\ Counted(d) /\ d.nextId # 0
      /\ selection \in Seq(Nat) /\ clipboard \in Seq(ObjectType)
  BY OnChainIs DEF IInv, OnChain
<1>2. ASSUME selection' = << >> PROVE Goal
  <2>1. 0 \in Nat
    OBVIOUS
  <2> QED
    BY <1>2, <2>1, SmallSelections
<1>3. CASE Delete \/ Cut
  BY <1>2, <1>3 DEF Delete, Cut
<1>4. CASE SelectAll
  <2> DEFINE s == d.objects
             ids == [i \in DOMAIN s |-> s[i].id]
  <2>1. s \in Seq(ObjectType) /\ Len(s) \in Nat /\ DOMAIN s = 1 .. Len(s) /\ Distinct(s)
    BY <1>1, DocumentIs, WholeIs, LenProperties DEF Objects, WholeParts
  <2>2. ASSUME NEW i \in 1 .. Len(s) PROVE s[i].id \in Nat
    <3>1. s[i] \in ObjectType
      BY <2>1, ElementOfSeq
    <3> QED
      BY <3>1 DEF ObjectType
  <2>3. ids \in [1 .. Len(s) -> Nat]
    BY <2>1, <2>2
  <2>4. ids \in Seq(Nat)
    BY <2>1, <2>3, IsASeq
  <2>5. Unrepeated(ids)
    BY <2>1 DEF Unrepeated, Distinct
  <2>6. selection' = Pruned(ids, d) /\ e = d
    BY <1>4 DEF SelectAll
  <2> HIDE DEF ids
  <2> QED
    BY <1>1, <2>4, <2>5, <2>6, PrunedSelection
<1>5. CASE Copy
  BY <1>5 DEF Copy
<1>6. ASSUME NEW delta \in Deltas, Paste(delta) PROVE Goal
  <2> DEFINE command == PasteObjects(d, clipboard, delta, d.active)
             c == Filled(command, d)
             ids == IdsInOrder(command.objects)
  <2>1. delta \in Int
    BY BoundsAssumption
  <2>2. /\ Execute(command)
        /\ selection' = IdsInOrder(command.objects)
    BY <1>6 DEF Paste, IdsInOrder
  <2>3. Allowed(command, d) /\ Redoable(c, d) /\ e = Redone(c, d)
    BY <2>2 DEF Execute, Accepts
  <2>4. c = Filled(command, d) /\ ids = IdsInOrder(command.objects)
    OBVIOUS
  <2>6. d.nextId + Len(clipboard) - 1 < UIntMax
    <3>1. d.nextId + Len(clipboard) - 1 <= MaxId
      BY <1>6 DEF Paste
    <3> QED
      BY <3>1, CountersAre, BoundsAssumption, IdAssumption DEF UIntMax
  <2> HIDE DEF c, ids, d, e
  <2>5. Live(ids, Redone(c, d))
    BY <1>1, <2>1, <2>3, <2>4, <2>6, PastedSelection
  <2> QED
    BY <2>2, <2>3, <2>4, <2>5
<1>7. CASE Save
  <2>1. e.objects = d.objects /\ e.layers = d.layers /\ selection' = selection
    BY <1>1, <1>7 DEF Save, DocumentType
  <2> QED
    BY <2>1 DEF Live
<1> QED
  BY <1>3, <1>4, <1>5, <1>6, <1>7 DEF CommandAction

\* And so does the pointer.
LEMMA PointerSelection ==
  ASSUME IInv, Live(selection, document), PointerAction
  PROVE  Live(selection', document')
<1> DEFINE d == document
           e == document'
           Goal == Live(selection', e)
<1>1. /\ d \in DocumentType(Names) /\ Whole(d) /\ selection \in Seq(Nat)
      /\ gesture \in Gestures
  BY OnChainIs DEF IInv, OnChain
<1>2. Live(<< >>, d)
  <2>1. 0 \in Nat
    OBVIOUS
  <2> QED
    BY <2>1, SmallSelections
<1>3. ASSUME NEW id \in ObjectIds(d), NEW shift, PressOnObject(id, shift) PROVE Goal
  <2>1. id \in Nat
    BY <1>1, EditableIds
  <2>2. Open(d.objects, d.layers, id)
    <3>1. IsEditable(id, d)
      BY <1>3 DEF PressOnObject, IsEditable
    <3> QED
      BY <1>1, <3>1, EditableIs
  <2>3. /\ Live(<<id>>, d) /\ Live(Without(selection, id), d)
        /\ id \notin ToSet(selection) => Live(Append(selection, id), d)
    BY <1>1, <2>1, <2>2, SmallSelections, ToggledSelection
  <2>4. e = d
    BY <1>3 DEF PressOnObject
  <2>5. \/ selection' = <<id>> \/ selection' = Without(selection, id)
        \/ id \notin ToSet(selection) /\ selection' = Append(selection, id)
    BY <1>3 DEF PressOnObject
  <2> QED
    BY <2>3, <2>4, <2>5
<1>4. CASE PressOnNothing
  BY <1>2, <1>4 DEF PressOnNothing
<1>5. CASE PressToDraw \/ PressOtherButton
  BY <1>5 DEF PressToDraw, PressOtherButton, session
<1>6. ASSUME NEW delta, PointerMove(delta) PROVE Goal
  BY <1>6 DEF PointerMove, session
<1>7. CASE ReleaseDrag
  <2> DEFINE ids == gesture.ids
             delta == gesture.delta
             command == MoveObjects(ids, delta)
             c == Filled(command, d)
  <2>1. ids \in Seq(Nat) /\ delta \in Int
    BY <1>1 DEF Gestures
  <2>2. selection' = selection
    BY <1>7 DEF ReleaseDrag
  <2>3. CASE Execute(command)
    <3>1. Redoable(c, d) /\ e = Redone(c, d) /\ c = Filled(command, d)
      BY <2>3 DEF Execute, Accepts
    <3> HIDE DEF c, ids, delta, d, e
    <3>2. StaysOpen(d, Redone(c, d))
      BY <1>1, <2>1, <3>1, MoveStaysOpen
    <3> QED
      BY <2>2, <3>1, <3>2, KeptSelection DEF d, e
  <2>4. CASE e = d
    BY <2>2, <2>4
  <2> QED
    BY <1>7, <2>3, <2>4 DEF ReleaseDrag
<1>8. ASSUME NEW x \in Origins, NEW width \in Widths, ReleaseDraw(x, width) PROVE Goal
  <2> DEFINE command == CreateObject(NewObject(x, width))
             c == Filled(command, d)
  <2>1. x \in Int /\ width \in Int
    BY BoundsAssumption
  <2>2. CASE Execute(command) /\ selection' = <<d.nextId>>
    <3>1. Allowed(command, d) /\ e = Redone(c, d) /\ c = Filled(command, d)
      BY <2>2 DEF Execute, Accepts
    <3> HIDE DEF c, d, e
    <3>2. Live(<<d.nextId>>, Redone(c, d))
      BY <1>1, <2>1, <3>1, DrawnSelection
    <3> QED
      BY <2>2, <3>1, <3>2
  <2>3. CASE e = d /\ selection' = selection
    BY <2>3
  <2> QED
    BY <1>8, <2>2, <2>3 DEF ReleaseDraw
<1>9. CASE Escape
  BY <1>2, <1>9 DEF Escape
<1>10. ASSUME NEW next, SwitchTool(next) PROVE Goal
  BY <1>10 DEF SwitchTool, session
<1> QED
  BY <1>3, <1>4, <1>5, <1>6, <1>7, <1>8, <1>9, <1>10 DEF PointerAction

\* Every step keeps it live, and only the script tool could do otherwise.
LEMMA SelectionKept ==
  ASSUME IInv, tool # "script", Live(selection, document), [Next]_vars
  PROVE  Live(selection', document')
<1>1. OnChain(document', log', timeline') /\ selection \in Seq(Nat) /\ Unrepeated(selection)
  BY ChainKept DEF IInv, Live
<1>2. document' \in DocumentType(Names) /\ Whole(document')
  BY <1>1, OnChainIs DEF OnChain
<1>3. CASE UNCHANGED vars
  BY <1>3 DEF vars, session
<1>4. CASE PanelAction
  BY <1>2, <1>4, PanelSelection
<1>5. CASE Travel
  <2>1. selection' = Pruned(selection, document')
    BY <1>5 DEF Travel, Undo, Redo, ScriptUndo, ScriptRedo
  <2> QED
    BY <1>1, <1>2, <2>1, PrunedSelection
<1>6. CASE StartFresh
  <2>1. selection' = << >>
    BY <1>6 DEF StartFresh, New, Load, StartOver
  <2>2. 0 \in Nat
    OBVIOUS
  <2> QED
    BY <2>1, <2>2, SmallSelections
<1>7. CASE ScriptAction
  BY <1>7 DEF ScriptAction, ScriptAdd
<1> QED
  BY <1>3, <1>4, <1>5, <1>6, <1>7, CommandSelection, PointerSelection DEF Next

\* A selection that repeats nothing has as many members as places.
LEMMA UnrepeatedCount ==
  ASSUME NEW S, NEW s \in Seq(S), Unrepeated(s)
  PROVE  Cardinality(ToSet(s)) = Len(s)
<1> DEFINE n == Len(s)
           T == ToSet(s)
<1>1. n \in Nat /\ DOMAIN s = 1 .. n /\ s \in [1 .. n -> S]
  BY LenProperties
<1>2. s \in [1 .. n -> T] /\ \A t \in T : \E i \in 1 .. n : s[i] = t
  BY <1>1 DEF ToSet
<1>3. \A i, j \in 1 .. n : s[i] = s[j] => i = j
  BY <1>1 DEF Unrepeated
<1> HIDE DEF T, n
<1>4. s \in Bijection(1 .. n, T)
  BY <1>2, <1>3, Fun_IsBij
<1>5. ExistsBijection(1 .. n, T)
  BY <1>4, Fun_ExistsBij
<1>6. Cardinality(T) = n
  BY <1>1, <1>5, FS_CountingElements
<1> QED
  BY <1>6 DEF T, n

(***************************************************************************)
(* In a build without the script tool, what is selected exists, once, and  *)
(* may be edited unless layer 1 is missing: workspace_prune_selection and  *)
(* the calls that replace the selection are made wherever an object may    *)
(* vanish or a layer be locked.                                            *)
(***************************************************************************)
THEOREM SelectionStaysLive ==
  ASSUME ~Scripting
  PROVE  Spec => []SelectionLive
<1> DEFINE I == IInv /\ Flagged /\ Live(selection, document)
<1>1. Init => I
  <2> SUFFICES ASSUME Init PROVE I
    OBVIOUS
  <2>1. NewDocument.revised = FALSE
    BY NewDocumentStarts, DocumentIs
  <2>2. IInv /\ Flagged
    BY <2>1, InitKeeps DEF Init, Flagged
  <2>3. selection = << >> /\ 0 \in Nat
    BY DEF Init
  <2> QED
    BY <2>2, <2>3, SmallSelections
<1>2. I /\ [Next]_vars => I'
  <2> SUFFICES ASSUME I, [Next]_vars PROVE I'
    OBVIOUS
  <2>1. OnChain(document', log', timeline')
    BY ChainKept
  <2>2. selection' \in Seq(Nat) /\ clipboard' \in Seq(ObjectType) /\ gesture' \in Gestures
    BY SessionKept
  <2>3. Flagged'
    BY FlagKept
  <2>4. tool # "script"
    BY DEF Flagged
  <2>5. Live(selection', document')
    BY <2>4, SelectionKept
  <2> QED
    BY <2>1, <2>2, <2>3, <2>5 DEF IInv
<1>3. I => SelectionLive
  <2> SUFFICES ASSUME I PROVE SelectionLive
    OBVIOUS
  <2>1. document \in DocumentType(Names) /\ Whole(document) /\ selection \in Seq(Nat)
    BY OnChainIs DEF IInv, OnChain
  <2>2. /\ Unrepeated(selection) /\ ToSet(selection) \subseteq ObjectIds(document)
        /\ DefaultLayer \in LayerIds(document) =>
             \A id \in ToSet(selection) : ~ObjectIsLocked(document, id)
    BY <2>1, EditableIs DEF Live
  <2> QED
    BY <2>1, <2>2, UnrepeatedCount DEF SelectionLive
<1> QED
  BY <1>1, <1>2, <1>3, PTL DEF Spec
=============================================================================
