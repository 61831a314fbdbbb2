--------------------------- MODULE CommandsProofs ---------------------------
(***************************************************************************)
(* What TLAPS proves of the document operators and of the commands: that   *)
(* they keep a document whole, that what they make of it depends on what   *)
(* the user sees of it and on nothing else, and that the undo of a new     *)
(* command takes the document back to where it was.                        *)
(***************************************************************************)
EXTENDS Commands, Induction, FiniteSetTheorems, SequenceTheorems, TLAPS
-----------------------------------------------------------------------------
(* Sequences *)

\* Removing an element moves those behind it up by one.
LEMMA RemoveAtIs ==
  ASSUME NEW S, NEW s \in Seq(S), NEW i \in 1 .. Len(s)
  PROVE  /\ RemoveAt(s, i) \in Seq(S)
         /\ Len(RemoveAt(s, i)) = Len(s) - 1
         /\ \A j \in 1 .. (Len(s) - 1) :
              RemoveAt(s, i)[j] = IF j < i THEN s[j] ELSE s[j + 1]
<1> DEFINE a == SubSeq(s, 1, i - 1)
           b == SubSeq(s, i + 1, Len(s))
<1>1. Len(s) \in Nat /\ i \in Nat /\ i <= Len(s)
  BY LenProperties
<1>2. /\ a \in Seq(S) /\ Len(a) = i - 1
      /\ \A j \in 1 .. Len(a) : a[j] = s[j]
  BY <1>1, SubSeqProperties
<1>3. /\ b \in Seq(S) /\ Len(b) = Len(s) - i
      /\ \A j \in 1 .. Len(b) : b[j] = s[i + j]
  BY <1>1, SubSeqProperties
<1>4. RemoveAt(s, i) = a \o b
  BY DEF RemoveAt
<1> HIDE DEF a, b
<1>5. /\ a \o b \in Seq(S) /\ Len(a \o b) = Len(a) + Len(b)
      /\ \A j \in 1 .. Len(a) + Len(b) :
           (a \o b)[j] = IF j <= Len(a) THEN a[j] ELSE b[j - Len(a)]
  BY <1>2, <1>3, ConcatProperties
<1>6. ASSUME NEW j \in 1 .. (Len(s) - 1)
      PROVE  (a \o b)[j] = IF j < i THEN s[j] ELSE s[j + 1]
  <2>1. CASE j < i
    BY <2>1, <1>1, <1>2, <1>3, <1>5
  <2>2. CASE ~ (j < i)
    <3>1. (a \o b)[j] = b[j - (i - 1)]
      BY <2>2, <1>1, <1>2, <1>3, <1>5
    <3>2. j - (i - 1) \in 1 .. Len(b) /\ i + (j - (i - 1)) = j + 1
      BY <2>2, <1>1, <1>3
    <3> QED
      BY <2>2, <3>1, <3>2, <1>3
  <2> QED
    BY <2>1, <2>2
<1> QED
  BY <1>1, <1>2, <1>3, <1>4, <1>5, <1>6

\* Inserting an element moves those from its position on down by one.
LEMMA InsertAtIs ==
  ASSUME NEW S, NEW s \in Seq(S), NEW e \in S, NEW i \in 1 .. (Len(s) + 1)
  PROVE  /\ InsertAt(s, i, e) \in Seq(S)
         /\ Len(InsertAt(s, i, e)) = Len(s) + 1
         /\ \A j \in 1 .. (i - 1) : InsertAt(s, i, e)[j] = s[j]
         /\ InsertAt(s, i, e)[i] = e
         /\ \A j \in i .. Len(s) : InsertAt(s, i, e)[j + 1] = s[j]
<1> DEFINE a == SubSeq(s, 1, i - 1)
           b == SubSeq(s, i, Len(s))
<1>1. Len(s) \in Nat /\ i \in Nat /\ i <= Len(s) + 1
  BY LenProperties
<1>2. /\ a \in Seq(S) /\ Len(a) = i - 1
      /\ \A j \in 1 .. Len(a) : a[j] = s[j]
  BY <1>1, SubSeqProperties
<1>3. /\ b \in Seq(S) /\ Len(b) = Len(s) - i + 1
      /\ \A j \in 1 .. Len(b) : b[j] = s[i + j - 1]
  BY <1>1, SubSeqProperties
<1>4. InsertAt(s, i, e) = (a \o <<e>>) \o b
  BY DEF InsertAt
<1> HIDE DEF a, b
<1> DEFINE c == a \o <<e>>
<1>5. <<e>> \in Seq(S) /\ Len(<<e>>) = 1 /\ <<e>>[1] = e
  OBVIOUS
<1>6. /\ c \in Seq(S) /\ Len(c) = i
      /\ \A j \in 1 .. i : c[j] = IF j < i THEN s[j] ELSE e
  <2>1. /\ c \in Seq(S) /\ Len(c) = Len(a) + 1
        /\ \A j \in 1 .. Len(a) + 1 :
             c[j] = IF j <= Len(a) THEN a[j] ELSE <<e>>[j - Len(a)]
    BY <1>2, <1>5, ConcatProperties
  <2> HIDE DEF c
  <2>2. ASSUME NEW j \in 1 .. i
        PROVE  c[j] = IF j < i THEN s[j] ELSE e
    <3>1. CASE j < i
      BY <2>1, <3>1, <1>1, <1>2
    <3>2. CASE j = i
      <4>1. c[j] = <<e>>[j - Len(a)] /\ j - Len(a) = 1
        BY <2>1, <3>2, <1>1, <1>2
      <4> QED
        BY <4>1, <3>2, <1>5
    <3> QED
      BY <3>1, <3>2, <1>1
  <2> QED
    BY <2>1, <2>2, <1>1, <1>2
<1> HIDE DEF c
<1>7. /\ c \o b \in Seq(S) /\ Len(c \o b) = Len(s) + 1
      /\ \A j \in 1 .. (Len(s) + 1) :
           (c \o b)[j] = IF j <= i THEN c[j] ELSE b[j - i]
  <2>1. /\ c \o b \in Seq(S) /\ Len(c \o b) = Len(c) + Len(b)
        /\ \A j \in 1 .. Len(c) + Len(b) :
             (c \o b)[j] = IF j <= Len(c) THEN c[j] ELSE b[j - Len(c)]
    BY <1>3, <1>6, ConcatProperties
  <2> QED
    BY <2>1, <1>1, <1>3, <1>6
<1>8. ASSUME NEW j \in 1 .. (i - 1)
      PROVE  (c \o b)[j] = s[j]
  BY <1>1, <1>6, <1>7
<1>9. (c \o b)[i] = e
  BY <1>1, <1>6, <1>7
<1>10. ASSUME NEW j \in i .. Len(s)
       PROVE  (c \o b)[j + 1] = s[j]
  <2>1. (c \o b)[j + 1] = b[j + 1 - i]
    BY <1>1, <1>7
  <2>2. j + 1 - i \in 1 .. Len(b) /\ i + (j + 1 - i) - 1 = j
    BY <1>1, <1>3
  <2> QED
    BY <2>1, <2>2, <1>1, <1>3
<1> QED
  BY <1>4, <1>7, <1>8, <1>9, <1>10 DEF c

\* What was inserted is removed again.
LEMMA RemoveInserted ==
  ASSUME NEW S, NEW s \in Seq(S), NEW e \in S, NEW i \in 1 .. (Len(s) + 1)
  PROVE  RemoveAt(InsertAt(s, i, e), i) = s
<1> DEFINE t == InsertAt(s, i, e)
           r == RemoveAt(t, i)
<1>1. Len(s) \in Nat /\ i \in Nat
  BY LenProperties
<1>2. /\ t \in Seq(S) /\ Len(t) = Len(s) + 1
      /\ \A j \in 1 .. (i - 1) : t[j] = s[j]
      /\ \A j \in i .. Len(s) : t[j + 1] = s[j]
  BY InsertAtIs
<1> HIDE DEF t
<1>3. /\ r \in Seq(S) /\ Len(r) = Len(t) - 1
      /\ \A j \in 1 .. (Len(t) - 1) : r[j] = IF j < i THEN t[j] ELSE t[j + 1]
  BY <1>2, RemoveAtIs
<1> HIDE DEF r
<1>4. ASSUME NEW j \in 1 .. Len(s)
      PROVE  r[j] = s[j]
  BY <1>1, <1>2, <1>3
<1>5. r = s
  BY <1>1, <1>2, <1>3, <1>4, SeqEqual
<1> QED
  BY <1>5 DEF r, t

\* What was removed is inserted again.
LEMMA InsertRemoved ==
  ASSUME NEW S, NEW s \in Seq(S), NEW i \in 1 .. Len(s)
  PROVE  InsertAt(RemoveAt(s, i), i, s[i]) = s
<1> DEFINE t == RemoveAt(s, i)
           r == InsertAt(t, i, s[i])
<1>1. Len(s) \in Nat /\ i \in Nat /\ s[i] \in S
  BY LenProperties, ElementOfSeq
<1>2. /\ t \in Seq(S) /\ Len(t) = Len(s) - 1
      /\ \A j \in 1 .. (Len(s) - 1) : t[j] = IF j < i THEN s[j] ELSE s[j + 1]
  BY RemoveAtIs
<1> HIDE DEF t
<1>3. /\ r \in Seq(S) /\ Len(r) = Len(t) + 1
      /\ \A j \in 1 .. (i - 1) : r[j] = t[j]
      /\ r[i] = s[i]
      /\ \A j \in i .. Len(t) : r[j + 1] = t[j]
  <2>1. i \in 1 .. (Len(t) + 1) /\ s[i] \in S /\ t \in Seq(S)
    BY <1>1, <1>2
  <2> QED
    BY <2>1, InsertAtIs
<1> HIDE DEF r
<1>4. ASSUME NEW j \in 1 .. Len(s)
      PROVE  r[j] = s[j]
  <2>1. CASE j > i
    <3>1. j - 1 \in i .. Len(t) /\ r[(j - 1) + 1] = t[j - 1] /\ t[j - 1] = s[(j - 1) + 1]
      BY <2>1, <1>1, <1>2, <1>3
    <3> QED
      BY <3>1
  <2> QED
    BY <2>1, <1>1, <1>2, <1>3
<1>5. r = s
  BY <1>1, <1>2, <1>3, <1>4, SeqEqual
<1> QED
  BY <1>5 DEF r, t

\* An element is appended by inserting it at the end.
LEMMA AppendInserts ==
  ASSUME NEW S, NEW s \in Seq(S), NEW e \in S
  PROVE  InsertAt(s, Len(s) + 1, e) = Append(s, e)
<1> DEFINE t == InsertAt(s, Len(s) + 1, e)
           a == Append(s, e)
<1>1. Len(s) \in Nat
  BY LenProperties
<1>2. /\ t \in Seq(S) /\ Len(t) = Len(s) + 1
      /\ \A j \in 1 .. Len(s) : t[j] = s[j]
      /\ t[Len(s) + 1] = e
  BY <1>1, InsertAtIs
<1>3. /\ a \in Seq(S) /\ Len(a) = Len(s) + 1
      /\ \A j \in 1 .. Len(s) : a[j] = s[j]
      /\ a[Len(s) + 1] = e
  BY AppendProperties
<1> HIDE DEF t, a
<1>4. ASSUME NEW j \in 1 .. Len(t)
      PROVE  t[j] = a[j]
  BY <1>1, <1>2, <1>3
<1>5. t = a
  BY <1>1, <1>2, <1>3, <1>4, SeqEqual
<1> QED
  BY <1>5 DEF t, a
-----------------------------------------------------------------------------
(* Positions in their order *)

\* The sequence lists the numbers of a set in their order.
Lists(g, positions) ==
  /\ g \in Seq(Nat)
  /\ \A i, j \in DOMAIN g : i < j => g[i] < g[j]
  /\ {g[i] : i \in DOMAIN g} = positions

\* What it means to list a set.
LEMMA ListsMembers ==
  ASSUME NEW g, NEW positions, Lists(g, positions)
  PROVE  /\ g \in Seq(Nat) /\ Len(g) \in Nat /\ DOMAIN g = 1 .. Len(g)
         /\ \A i \in 1 .. Len(g) : g[i] \in positions /\ g[i] \in Nat
         /\ \A p \in positions : \E i \in 1 .. Len(g) : g[i] = p
         /\ \A i, j \in 1 .. Len(g) : i < j => g[i] < g[j]
<1>1. g \in Seq(Nat) /\ Len(g) \in Nat /\ DOMAIN g = 1 .. Len(g)
  BY LenProperties DEF Lists
<1>2. \A i \in 1 .. Len(g) : g[i] \in Nat
  BY <1>1, ElementOfSeq
<1>3. {g[i] : i \in 1 .. Len(g)} = positions
  BY <1>1 DEF Lists
<1>4. \A i, j \in 1 .. Len(g) : i < j => g[i] < g[j]
  BY <1>1 DEF Lists
<1>5. ASSUME NEW p \in positions PROVE \E i \in 1 .. Len(g) : g[i] = p
  BY <1>3
<1>6. ASSUME NEW i \in 1 .. Len(g) PROVE g[i] \in positions
  BY <1>3
<1> QED
  BY <1>1, <1>2, <1>4, <1>5, <1>6

\* The other way round.
LEMMA ListsBy ==
  ASSUME NEW g \in Seq(Nat), NEW positions,
         \A i \in 1 .. Len(g) : g[i] \in positions,
         \A p \in positions : \E i \in 1 .. Len(g) : g[i] = p,
         \A i, j \in 1 .. Len(g) : i < j => g[i] < g[j]
  PROVE  Lists(g, positions)
<1>1. DOMAIN g = 1 .. Len(g)
  BY LenProperties
<1>2. {g[i] : i \in 1 .. Len(g)} = positions
  OBVIOUS
<1> QED
  BY <1>1, <1>2 DEF Lists

\* A list of numbers in their order grows by one that is larger than all of them.
LEMMA ListsAppend ==
  ASSUME NEW g, NEW positions, Lists(g, positions), NEW n \in Nat,
         \A i \in positions : i < n
  PROVE  Lists(Append(g, n), positions \union {n})
<1> DEFINE h == Append(g, n)
<1>1. /\ g \in Seq(Nat) /\ Len(g) \in Nat
      /\ \A i \in 1 .. Len(g) : g[i] \in positions /\ g[i] \in Nat
      /\ \A p \in positions : \E i \in 1 .. Len(g) : g[i] = p
      /\ \A i, j \in 1 .. Len(g) : i < j => g[i] < g[j]
  BY ListsMembers
<1>2. /\ h \in Seq(Nat) /\ Len(h) = Len(g) + 1 /\ h[Len(g) + 1] = n
      /\ \A i \in 1 .. Len(g) : h[i] = g[i]
  BY <1>1, AppendProperties
<1> HIDE DEF h
<1>3. ASSUME NEW i \in 1 .. Len(h), NEW j \in 1 .. Len(h), i < j
      PROVE  h[i] < h[j]
  <2>1. i \in 1 .. Len(g) /\ h[i] = g[i] /\ g[i] \in positions
    BY <1>1, <1>2, <1>3
  <2>2. CASE j = Len(g) + 1
    BY <2>1, <2>2, <1>2
  <2>3. CASE j # Len(g) + 1
    <3>1. j \in 1 .. Len(g) /\ h[j] = g[j]
      BY <2>3, <1>1, <1>2
    <3> QED
      BY <2>1, <3>1, <1>1, <1>3
  <2> QED
    BY <2>2, <2>3
<1>4. ASSUME NEW i \in 1 .. Len(h)
      PROVE  h[i] \in positions \union {n}
  BY <1>1, <1>2
<1>5. ASSUME NEW p \in positions \union {n}
      PROVE  \E i \in 1 .. Len(h) : h[i] = p
  <2>1. CASE p \in positions
    <3>1. PICK i \in 1 .. Len(g) : g[i] = p
      BY <2>1, <1>1
    <3> QED
      BY <3>1, <1>1, <1>2
  <2>2. CASE p = n
    BY <2>2, <1>1, <1>2
  <2> QED
    BY <2>1, <2>2
<1>6. Lists(h, positions \union {n})
  BY <1>2, <1>3, <1>4, <1>5, ListsBy
<1> QED
  BY <1>6 DEF h

\* The lists that Ascending makes on its way to n.
Listed(positions, n) ==
  LET listed[i \in 0 .. n] ==
        IF i = 0 THEN << >>
        ELSE IF i \in positions THEN Append(listed[i - 1], i) ELSE listed[i - 1]
  IN  listed

\* The recursive definition is a function, and its values are what it says.
LEMMA ListedDef ==
  ASSUME NEW positions, NEW n \in Nat
  PROVE  /\ Ascending(positions, n) = Listed(positions, n)[n]
         /\ Listed(positions, n) \in [0 .. n -> Seq(Nat)]
         /\ Listed(positions, n)[0] = << >>
         /\ \A i \in 1 .. n :
              Listed(positions, n)[i] = IF i \in positions
                                        THEN Append(Listed(positions, n)[i - 1], i)
                                        ELSE Listed(positions, n)[i - 1]
<1> DEFINE Lines == Seq(Nat)
           none == << >>
           step == [p \in Lines \X (1 .. n) |-> IF p[2] \in positions THEN Append(p[1], p[2]) ELSE p[1]]
<1>1. none \in Lines
  OBVIOUS
<1>2. ASSUME NEW s \in Lines, NEW i \in 1 .. n
      PROVE  /\ (IF i \in positions THEN Append(s, i) ELSE s) \in Lines
             /\ step[<<s, i>>] = IF i \in positions THEN Append(s, i) ELSE s
  <2>1. i \in Nat /\ Append(s, i) \in Lines
    BY AppendProperties
  <2> QED
    BY <2>1
<1>3. step \in [Lines \X (1 .. n) -> Lines]
  <2>1. ASSUME NEW p \in Lines \X (1 .. n)
        PROVE  (IF p[2] \in positions THEN Append(p[1], p[2]) ELSE p[1]) \in Lines
    <3>1. p[1] \in Lines /\ p[2] \in 1 .. n
      OBVIOUS
    <3> HIDE DEF Lines
    <3> QED
      BY <3>1, <1>2
  <2> HIDE DEF Lines
  <2> QED
    BY <2>1
<1> HIDE DEF step, Lines, none
<1>t. n \in Nat /\ none \in Lines /\ step \in [Lines \X (1 .. n) -> Lines]
  BY <1>1, <1>3
<1>4. PICK g \in [0 .. n -> Lines] : g[0] = none /\ \A i \in 1 .. n : g[i] = step[<<g[i - 1], i>>]
  BY <1>t, PrimitiveRecursion
<1>5. ASSUME NEW i \in 1 .. n
      PROVE  g[i] = IF i \in positions THEN Append(g[i - 1], i) ELSE g[i - 1]
  <2>1. i - 1 \in 0 .. n
    OBVIOUS
  <2>2. g[i - 1] \in Lines
    BY <2>1, <1>4
  <2> QED
    BY <2>2, <1>2, <1>4
<1> DEFINE Defines(made) == made = [i \in 0 .. n |->
                                IF i = 0 THEN << >>
                                ELSE IF i \in positions THEN Append(made[i - 1], i) ELSE made[i - 1]]
           r == CHOOSE made : Defines(made)
<1>6. Defines(g)
  <2>1. ASSUME NEW i \in 0 .. n
        PROVE  g[i] = IF i = 0 THEN << >>
                      ELSE IF i \in positions THEN Append(g[i - 1], i) ELSE g[i - 1]
    <3>1. CASE i = 0
      BY <3>1, <1>4 DEF none
    <3>2. CASE i # 0
      <4>1. i \in 1 .. n
        BY <3>2
      <4> QED
        BY <4>1, <3>2, <1>5
    <3> QED
      BY <3>1, <3>2
  <2> QED
    BY <1>4, <2>1
<1> HIDE DEF Defines
<1>7. Defines(r)
  BY <1>6
<1>8. Listed(positions, n) = r /\ Ascending(positions, n) = r[n]
  BY Zenon DEF Listed, Ascending, Defines
<1>9. r = [i \in 0 .. n |->
             IF i = 0 THEN << >>
             ELSE IF i \in positions THEN Append(r[i - 1], i) ELSE r[i - 1]]
  BY <1>7 DEF Defines
<1> HIDE DEF r
<1>10. r[0] = << >>
  BY <1>9
<1>11. ASSUME NEW i \in 1 .. n
       PROVE  r[i] = IF i \in positions THEN Append(r[i - 1], i) ELSE r[i - 1]
  <2>1. i \in 0 .. n /\ i # 0
    OBVIOUS
  <2> QED
    BY <2>1, <1>9
<1> DEFINE T == {i \in 0 .. n : r[i] \in Lines}
<1>12. 0 \in T
  BY <1>1, <1>10 DEF none
<1>13. ASSUME NEW i \in 1 .. n, i - 1 \in T
       PROVE  i \in T
  <2>1. r[i - 1] \in Lines
    BY <1>13
  <2>2. (IF i \in positions THEN Append(r[i - 1], i) ELSE r[i - 1]) \in Lines
    BY <2>1, <1>2
  <2> QED
    BY <2>2, <1>11
<1> HIDE DEF T
<1>14. \A i \in 0 .. n : i \in T
  BY <1>12, <1>13, IntervalInduction
<1>15. r \in [0 .. n -> Lines]
  BY <1>9, <1>14 DEF T
<1> QED
  BY <1>8, <1>10, <1>11, <1>15 DEF Lines

\* Ascending lists the members of the set up to n.
LEMMA AscendingLists ==
  ASSUME NEW positions, NEW n \in Nat
  PROVE  Lists(Ascending(positions, n), positions \cap (1 .. n))
<1> DEFINE g == Listed(positions, n)
<1>1. /\ Ascending(positions, n) = g[n]
      /\ g[0] = << >>
      /\ \A i \in 1 .. n :
           g[i] = IF i \in positions THEN Append(g[i - 1], i) ELSE g[i - 1]
  BY ListedDef
<1>t. g \in [0 .. n -> Seq(Nat)]
  BY ListedDef
<1> HIDE DEF g
<1> DEFINE Upto(i) == positions \cap (1 .. i)
           T == {i \in 0 .. n : Lists(g[i], Upto(i))}
<1>2. 0 \in T
  <2>1. << >> \in Seq(Nat) /\ Len(<< >>) = 0 /\ Upto(0) = {}
    OBVIOUS
  <2>2. Lists(<< >>, Upto(0))
    <3> HIDE DEF Upto
    <3> DEFINE none == << >>
    <3>1. none \in Seq(Nat) /\ Len(none) = 0
      OBVIOUS
    <3> HIDE DEF none
    <3>2. Lists(none, {})
      BY <3>1, LenProperties DEF Lists
    <3> QED
      BY <3>2, <2>1 DEF none
  <2> QED
    BY <1>1, <2>2
<1>3. ASSUME NEW i \in 1 .. n, i - 1 \in T
      PROVE  i \in T
  <2>1. Lists(g[i - 1], Upto(i - 1)) /\ i \in Nat /\ \A k \in Upto(i - 1) : k < i
    BY <1>3
  <2>2. CASE i \in positions
    <3>1. Lists(Append(g[i - 1], i), Upto(i - 1) \union {i})
      BY <2>1, ListsAppend
    <3>2. Upto(i - 1) \union {i} = Upto(i)
      BY <2>2
    <3>3. g[i] = Append(g[i - 1], i)
      BY <2>2, <1>1
    <3>4. Lists(g[i], Upto(i))
      BY <3>1, <3>2, <3>3
    <3> HIDE DEF Upto
    <3> QED
      BY <3>4
  <2>3. CASE i \notin positions
    <3>1. Upto(i - 1) = Upto(i)
      BY <2>3
    <3>2. g[i] = g[i - 1]
      BY <2>3, <1>1
    <3>3. Lists(g[i], Upto(i))
      BY <3>1, <3>2, <2>1
    <3> HIDE DEF Upto
    <3> QED
      BY <3>3
  <2> QED
    BY <2>2, <2>3
<1> HIDE DEF T
<1>4. \A i \in 0 .. n : i \in T
  BY <1>2, <1>3, IntervalInduction
<1>5. n \in 0 .. n
  OBVIOUS
<1>6. Lists(g[n], Upto(n))
  BY <1>4, <1>5 DEF T
<1> QED
  BY <1>1, <1>6

\* There is one list of a set of numbers in their order.
LEMMA ListsUnique ==
  ASSUME NEW g, NEW h, NEW positions, Lists(g, positions), Lists(h, positions)
  PROVE  g = h
<1> DEFINE Ordered(a, b) ==
             /\ Len(a) \in Nat /\ Len(b) \in Nat
             /\ \A i \in 1 .. Len(a) : a[i] \in Nat /\ \E k \in 1 .. Len(b) : b[k] = a[i]
             /\ \A i \in 1 .. Len(b) : b[i] \in Nat
             /\ \A i, j \in 1 .. Len(a) : i < j => a[i] < a[j]
             /\ \A i, j \in 1 .. Len(b) : i < j => b[i] < b[j]
<1>1. /\ g \in Seq(Nat) /\ Len(g) \in Nat
      /\ \A i \in 1 .. Len(g) : g[i] \in positions /\ g[i] \in Nat
      /\ \A p \in positions : \E i \in 1 .. Len(g) : g[i] = p
      /\ \A i, j \in 1 .. Len(g) : i < j => g[i] < g[j]
  BY ListsMembers
<1>h. /\ h \in Seq(Nat) /\ Len(h) \in Nat
      /\ \A i \in 1 .. Len(h) : h[i] \in positions /\ h[i] \in Nat
      /\ \A p \in positions : \E i \in 1 .. Len(h) : h[i] = p
      /\ \A i, j \in 1 .. Len(h) : i < j => h[i] < h[j]
  BY ListsMembers
<1>o. Ordered(g, h) /\ Ordered(h, g)
  BY <1>1, <1>h
<1>2. ASSUME NEW a, NEW b, Ordered(a, b),
             NEW i \in 1 .. Len(a), \A j \in 1 .. (i - 1) : j <= Len(b) /\ a[j] = b[j]
      PROVE  i <= Len(b) /\ b[i] <= a[i]
  <2>1. PICK k \in 1 .. Len(b) : b[k] = a[i]
    BY <1>2
  <2>2. ASSUME k < i PROVE FALSE
    <3>1. k \in 1 .. (i - 1) /\ a[k] = b[k] /\ k \in 1 .. Len(a)
      BY <2>2, <1>2
    <3>2. a[k] < a[i]
      BY <3>1, <2>2, <1>2
    <3> QED
      BY <3>1, <3>2, <2>1, <1>2
  <2>3. k \in Nat /\ i \in Nat /\ k >= i
    BY <2>2
  <2>4. i <= Len(b) /\ i \in 1 .. Len(b)
    BY <2>3, <1>2
  <2>5. CASE k = i
    BY <2>1, <2>4, <2>5, <1>2
  <2>6. CASE k # i
    <3>1. b[i] < b[k]
      BY <2>3, <2>4, <2>6, <1>2
    <3> QED
      BY <3>1, <2>1, <2>4, <1>2
  <2> QED
    BY <2>5, <2>6
<1> HIDE DEF Ordered
<1> DEFINE Agree(a, b, m) == \A j \in 1 .. m : j <= Len(a) => j <= Len(b) /\ a[j] = b[j]
           T == {m \in 0 .. (Len(g) + Len(h)) : Agree(g, h, m) /\ Agree(h, g, m)}
<1>3. 0 \in T
  BY <1>1
<1>4. ASSUME NEW m \in 1 .. (Len(g) + Len(h)), m - 1 \in T
      PROVE  m \in T
  <2>1. Agree(g, h, m - 1) /\ Agree(h, g, m - 1) /\ m \in Nat
    BY <1>4
  <2>2. ASSUME m <= Len(g)
        PROVE  m <= Len(h) /\ h[m] <= g[m]
    <3>1. m \in 1 .. Len(g) /\ \A j \in 1 .. (m - 1) : j <= Len(h) /\ g[j] = h[j]
      BY <2>1, <2>2, <1>1
    <3> QED
      BY <3>1, <1>o, <1>2
  <2>3. ASSUME m <= Len(h)
        PROVE  m <= Len(g) /\ g[m] <= h[m]
    <3>1. m \in 1 .. Len(h) /\ \A j \in 1 .. (m - 1) : j <= Len(g) /\ h[j] = g[j]
      BY <2>1, <2>3, <1>h
    <3> QED
      BY <3>1, <1>o, <1>2
  <2>4. m <= Len(g) \/ m <= Len(h) => m <= Len(g) /\ m <= Len(h) /\ g[m] = h[m]
    <3>1. SUFFICES ASSUME m <= Len(g) \/ m <= Len(h)
                   PROVE  m <= Len(g) /\ m <= Len(h) /\ g[m] = h[m]
      OBVIOUS
    <3>2. m <= Len(g) /\ m <= Len(h) /\ h[m] <= g[m] /\ g[m] <= h[m]
      BY <3>1, <2>2, <2>3
    <3>3. g[m] \in Nat /\ h[m] \in Nat
      BY <3>2, <2>1, <1>1, <1>h
    <3> QED
      BY <3>2, <3>3
  <2>5. \A j \in 1 .. m : j \in 1 .. (m - 1) \/ j = m
    BY <2>1
  <2>6. Agree(g, h, m) /\ Agree(h, g, m)
    BY <2>1, <2>4, <2>5
  <2> HIDE DEF Agree
  <2> QED
    BY <2>6
<1> HIDE DEF T
<1> DEFINE both == Len(g) + Len(h)
<1>5. \A m \in 0 .. both : m \in T
  <2>1. both \in Nat
    BY <1>1, <1>h
  <2> HIDE DEF both
  <2> QED
    BY <2>1, <1>3, <1>4, IntervalInduction DEF both
<1>6. Agree(g, h, both) /\ Agree(h, g, both)
  <2>1. both \in 0 .. both
    BY <1>1, <1>h
  <2> QED
    BY <2>1, <1>5 DEF T
<1>7. \A j \in 1 .. Len(g) : j <= Len(h) /\ g[j] = h[j]
  BY <1>1, <1>h, <1>6
<1>8. \A j \in 1 .. Len(h) : j <= Len(g)
  BY <1>1, <1>h, <1>6
<1>9. Len(g) <= Len(h) /\ Len(h) <= Len(g)
  <2>1. CASE Len(g) > 0 /\ Len(h) > 0
    BY <2>1, <1>1, <1>h, <1>7, <1>8
  <2>2. CASE Len(g) = 0
    BY <2>2, <1>1, <1>h, <1>8
  <2>3. CASE Len(h) = 0
    BY <2>3, <1>1, <1>h, <1>7
  <2> QED
    BY <2>1, <2>2, <2>3, <1>1, <1>h
<1>10. Len(g) = Len(h)
  BY <1>1, <1>h, <1>9
<1> QED
  BY <1>1, <1>h, <1>7, <1>10, SeqEqual

\* The identity lists the numbers up to n.
LEMMA ListsAll ==
  ASSUME NEW n \in Nat
  PROVE  Lists([i \in 1 .. n |-> i], 1 .. n)
<1> DEFINE g == [i \in 1 .. n |-> i]
<1>1. g \in Seq(Nat) /\ Len(g) = n /\ \A i \in 1 .. n : g[i] = i
  OBVIOUS
<1> HIDE DEF g
<1>2. Lists(g, 1 .. n)
  BY <1>1, ListsBy
<1> QED
  BY <1>2 DEF g

\* Removing a position from a list.
LEMMA ListsRemove ==
  ASSUME NEW g, NEW positions, Lists(g, positions), NEW q \in 1 .. Len(g)
  PROVE  Lists(RemoveAt(g, q), positions \ {g[q]})
<1> DEFINE h == RemoveAt(g, q)
<1>1. /\ g \in Seq(Nat) /\ Len(g) \in Nat
      /\ \A i \in 1 .. Len(g) : g[i] \in positions /\ g[i] \in Nat
      /\ \A p \in positions : \E i \in 1 .. Len(g) : g[i] = p
      /\ \A i, j \in 1 .. Len(g) : i < j => g[i] < g[j]
  BY ListsMembers
<1>2. /\ h \in Seq(Nat) /\ Len(h) = Len(g) - 1
      /\ \A j \in 1 .. (Len(g) - 1) : h[j] = IF j < q THEN g[j] ELSE g[j + 1]
  BY <1>1, RemoveAtIs
<1> HIDE DEF h
<1> DEFINE at(j) == IF j < q THEN j ELSE j + 1
<1>3. ASSUME NEW j \in 1 .. Len(h)
      PROVE  at(j) \in 1 .. Len(g) /\ at(j) # q /\ h[j] = g[at(j)]
  <2>1. j \in 1 .. (Len(g) - 1) /\ h[j] = IF j < q THEN g[j] ELSE g[j + 1]
    BY <1>1, <1>2
  <2>2. CASE j < q
    BY <2>1, <2>2, <1>1
  <2>3. CASE ~ (j < q)
    BY <2>1, <2>3, <1>1
  <2> QED
    BY <2>2, <2>3
<1>4. ASSUME NEW i \in 1 .. Len(g), i # q
      PROVE  g[i] # g[q]
  <2>1. i < q \/ q < i
    BY <1>4, <1>1
  <2>2. g[i] < g[q] \/ g[q] < g[i]
    BY <2>1, <1>1
  <2> QED
    BY <2>2, <1>1
<1>5. ASSUME NEW i \in 1 .. Len(h), NEW j \in 1 .. Len(h), i < j
      PROVE  h[i] < h[j]
  <2>1. at(i) < at(j)
    BY <1>5, <1>1, <1>2, SMTT(30)
  <2> HIDE DEF at
  <2> QED
    BY <2>1, <1>1, <1>3
<1>6. ASSUME NEW i \in 1 .. Len(h)
      PROVE  h[i] \in positions \ {g[q]}
  <2> HIDE DEF at
  <2> QED
    BY <1>1, <1>3, <1>4
<1>7. ASSUME NEW p \in positions \ {g[q]}
      PROVE  \E i \in 1 .. Len(h) : h[i] = p
  <2>1. PICK i \in 1 .. Len(g) : g[i] = p /\ i # q
    BY <1>1, <1>7
  <2>2. CASE i < q
    <3>1. i \in 1 .. Len(h) /\ h[i] = g[i]
      BY <2>1, <2>2, <1>1, <1>2, SMTT(30)
    <3> QED
      BY <2>1, <3>1
  <2>3. CASE i > q
    <3>1. i - 1 \in 1 .. Len(h) /\ h[i - 1] = g[(i - 1) + 1]
      BY <2>1, <2>3, <1>1, <1>2
    <3> QED
      BY <2>1, <3>1
  <2> QED
    BY <2>1, <2>2, <2>3, <1>1
<1>8. Lists(h, positions \ {g[q]})
  BY <1>2, <1>5, <1>6, <1>7, ListsBy
<1> QED
  BY <1>8 DEF h

\* A list that has all positions before p has them at its beginning.
LEMMA ListsPrefix ==
  ASSUME NEW g, NEW positions, Lists(g, positions), 0 \notin positions,
         NEW p \in Nat \ {0}, 1 .. (p - 1) \subseteq positions
  PROVE  p - 1 <= Len(g) /\ \A i \in 1 .. (p - 1) : g[i] = i
<1>1. /\ g \in Seq(Nat) /\ Len(g) \in Nat
      /\ \A i \in 1 .. Len(g) : g[i] \in positions /\ g[i] \in Nat
      /\ \A k \in positions : \E i \in 1 .. Len(g) : g[i] = k
      /\ \A i, j \in 1 .. Len(g) : i < j => g[i] < g[j]
  BY ListsMembers
<1> DEFINE n == p - 1
           T == {m \in 0 .. n : m <= Len(g) /\ \A i \in 1 .. m : g[i] = i}
<1>2. n \in Nat /\ 0 \in T
  BY <1>1
<1>3. ASSUME NEW m \in 1 .. n, m - 1 \in T
      PROVE  m \in T
  <2>1. m - 1 <= Len(g) /\ \A i \in 1 .. (m - 1) : g[i] = i
    BY <1>3
  <2>2. PICK k \in 1 .. Len(g) : g[k] = m
    BY <1>1
  <2>3. k >= m
    BY <2>1, <2>2
  <2>4. m <= Len(g) /\ m \in 1 .. Len(g)
    BY <2>3, <1>1
  <2>5. g[m] >= m
    <3>1. CASE m = 1
      BY <3>1, <2>4, <1>1
    <3>2. CASE m # 1
      <4>1. m - 1 \in 1 .. Len(g) /\ g[m - 1] = m - 1 /\ m - 1 < m
        BY <3>2, <2>1, <2>4, <1>1
      <4>2. g[m - 1] < g[m] /\ g[m] \in Nat
        BY <4>1, <2>4, <1>1
      <4> QED
        BY <4>1, <4>2
    <3> QED
      BY <3>1, <3>2
  <2>6. g[m] = m
    <3>1. CASE k = m
      BY <3>1, <2>2
    <3>2. CASE k # m
      <4>1. g[m] < g[k] /\ g[m] \in Nat
        BY <3>2, <2>3, <2>4, <1>1
      <4> QED
        BY <4>1, <2>2, <2>5
    <3> QED
      BY <3>1, <3>2
  <2>7. \A i \in 1 .. m : i \in 1 .. (m - 1) \/ i = m
    OBVIOUS
  <2> QED
    BY <2>1, <2>4, <2>6, <2>7
<1>4. \A m \in 0 .. n : m \in T
  <2> HIDE DEF T, n
  <2> QED
    BY <1>2, <1>3, IntervalInduction
<1> QED
  BY <1>2, <1>4

\* Inserting the position that is missing first.
LEMMA ListsInsert ==
  ASSUME NEW g, NEW positions, Lists(g, positions), 0 \notin positions,
         NEW p \in Nat \ {0}, p \notin positions, 1 .. (p - 1) \subseteq positions
  PROVE  /\ p \in 1 .. (Len(g) + 1)
         /\ Lists(InsertAt(g, p, p), positions \union {p})
<1> DEFINE h == InsertAt(g, p, p)
<1>1. /\ g \in Seq(Nat) /\ Len(g) \in Nat
      /\ \A i \in 1 .. Len(g) : g[i] \in positions /\ g[i] \in Nat
      /\ \A k \in positions : \E i \in 1 .. Len(g) : g[i] = k
      /\ \A i, j \in 1 .. Len(g) : i < j => g[i] < g[j]
  BY ListsMembers
<1>2. p - 1 <= Len(g) /\ \A i \in 1 .. (p - 1) : g[i] = i
  BY ListsPrefix
<1>3. p \in 1 .. (Len(g) + 1) /\ p \in Nat
  BY <1>1, <1>2
<1>4. /\ h \in Seq(Nat) /\ Len(h) = Len(g) + 1
      /\ \A j \in 1 .. (p - 1) : h[j] = g[j]
      /\ h[p] = p
      /\ \A j \in p .. Len(g) : h[j + 1] = g[j]
  <2> DEFINE N == Nat
  <2>1. g \in Seq(N) /\ p \in N /\ p \in 1 .. (Len(g) + 1)
    BY <1>1, <1>3
  <2>2. N = Nat
    OBVIOUS
  <2> HIDE DEF N, h
  <2>3. InsertAt(g, p, p) = h
    BY DEF h
  <2>4. /\ h \in Seq(N) /\ Len(h) = Len(g) + 1
        /\ \A j \in 1 .. (p - 1) : h[j] = g[j]
        /\ h[p] = p
        /\ \A j \in p .. Len(g) : h[j + 1] = g[j]
    BY <2>1, <2>3, InsertAtIs
  <2> QED
    BY <2>2, <2>4
<1> HIDE DEF h
<1>5. ASSUME NEW j \in p .. Len(g)
      PROVE  g[j] > p
  <2>1. j \in 1 .. Len(g) /\ g[j] \in Nat /\ g[j] # p /\ g[j] # 0
    BY <1>1, <1>3
  <2>2. ASSUME g[j] < p PROVE FALSE
    <3>1. g[j] \in 1 .. (p - 1)
      BY <2>1, <2>2
    <3>2. g[g[j]] = g[j] /\ g[j] \in 1 .. Len(g) /\ g[j] < j
      BY <3>1, <1>2, <1>1, SMTT(30)
    <3>3. g[g[j]] < g[j]
      BY <3>2, <2>1, <1>1
    <3> QED
      BY <3>2, <3>3, <2>1
  <2> QED
    BY <2>1, <2>2
<1>6. ASSUME NEW i \in 1 .. Len(h)
      PROVE  \/ i < p /\ h[i] = i /\ i \in 1 .. Len(g) /\ g[i] = i
             \/ i = p /\ h[i] = p
             \/ /\ i > p /\ i - 1 \in p .. Len(g) /\ i - 1 \in 1 .. Len(g)
                /\ h[i] = g[i - 1] /\ h[i] > p /\ h[i] \in Nat
  <2>1. CASE i < p
    BY <2>1, <1>2, <1>3, <1>4
  <2>2. CASE i = p
    BY <2>2, <1>4
  <2>3. CASE i > p
    <3>1. i - 1 \in p .. Len(g) /\ i - 1 \in 1 .. Len(g)
      BY <2>3, <1>1, <1>3, <1>4
    <3>2. h[(i - 1) + 1] = g[i - 1] /\ g[i - 1] > p /\ g[i - 1] \in Nat
      BY <3>1, <1>1, <1>4, <1>5
    <3> QED
      BY <2>3, <3>1, <3>2
  <2> QED
    BY <2>1, <2>2, <2>3, <1>3
<1>7. ASSUME NEW i \in 1 .. Len(h), NEW j \in 1 .. Len(h), i < j
      PROVE  h[i] < h[j]
  <2>1. CASE i > p
    <3>1. j > p /\ h[i] = g[i - 1] /\ h[j] = g[j - 1]
      BY <2>1, <1>6, <1>7, <1>3
    <3>2. i - 1 \in 1 .. Len(g) /\ j - 1 \in 1 .. Len(g) /\ i - 1 < j - 1
      BY <2>1, <1>7, <1>1, <1>3, <1>4
    <3> QED
      BY <3>1, <3>2, <1>1
  <2>2. CASE i <= p
    <3>1. h[i] = i
      BY <2>2, <1>6, <1>3
    <3>2. CASE j <= p
      BY <3>1, <3>2, <1>6, <1>7, <1>3
    <3>3. CASE j > p
      <4>1. h[j] > p /\ h[j] \in Nat
        BY <3>3, <1>6, <1>3
      <4> QED
        BY <2>2, <3>1, <4>1, <1>3
    <3> QED
      BY <3>2, <3>3, <1>3
  <2> QED
    BY <2>1, <2>2, <1>3
<1>8. ASSUME NEW i \in 1 .. Len(h)
      PROVE  h[i] \in positions \union {p}
  <2>1. CASE i < p
    <3>1. h[i] = g[i] /\ i \in 1 .. Len(g)
      BY <2>1, <1>6, <1>3
    <3> QED
      BY <3>1, <1>1
  <2>2. CASE i = p
    BY <2>2, <1>4
  <2>3. CASE i > p
    <3>1. h[i] = g[i - 1] /\ i - 1 \in 1 .. Len(g)
      BY <2>3, <1>6, <1>3
    <3> QED
      BY <3>1, <1>1
  <2> QED
    BY <2>1, <2>2, <2>3, <1>3
<1>9. ASSUME NEW k \in positions \union {p}
      PROVE  \E i \in 1 .. Len(h) : h[i] = k
  <2>1. CASE k = p
    BY <2>1, <1>3, <1>4
  <2>2. CASE k # p
    <3>1. PICK i \in 1 .. Len(g) : g[i] = k
      BY <2>2, <1>1
    <3>2. CASE i < p
      BY <3>1, <3>2, <1>1, <1>3, <1>4, SMTT(30)
    <3>3. CASE i >= p
      <4>1. i + 1 \in 1 .. Len(h) /\ h[i + 1] = g[i]
        BY <3>1, <3>3, <1>1, <1>3, <1>4
      <4> QED
        BY <3>1, <4>1
    <3> QED
      BY <3>1, <3>2, <3>3, <1>3
  <2> QED
    BY <2>1, <2>2
<1>10. Lists(h, positions \union {p})
  BY <1>4, <1>7, <1>8, <1>9, ListsBy
<1> QED
  BY <1>3, <1>10 DEF h

\* The elements of a sequence at listed positions.
Picked(s, g) == [i \in DOMAIN g |-> s[g[i]]]

\* The elements picked from a sequence by a list of positions, one by one.
LEMMA PickedIs ==
  ASSUME NEW S, NEW s \in Seq(S), NEW g, NEW positions \in SUBSET (1 .. Len(s)),
         Lists(g, positions)
  PROVE  /\ Picked(s, g) \in Seq(S)
         /\ Len(Picked(s, g)) = Len(g)
         /\ \A i \in 1 .. Len(g) : g[i] \in 1 .. Len(s) /\ Picked(s, g)[i] = s[g[i]]
<1>1. /\ Len(g) \in Nat /\ DOMAIN g = 1 .. Len(g)
      /\ \A i \in 1 .. Len(g) : g[i] \in positions
  BY ListsMembers
<1>2. \A i \in 1 .. Len(g) : s[g[i]] \in S
  BY <1>1, ElementOfSeq
<1> DEFINE n == Len(g)
           at(i) == s[g[i]]
           picked == [i \in 1 .. n |-> at(i)]
<1>3. Picked(s, g) = picked
  BY <1>1 DEF Picked
<1>4. n \in Nat /\ \A i \in 1 .. n : at(i) \in S
  BY <1>1, <1>2
<1> HIDE DEF at, n
<1>5. picked \in Seq(S) /\ Len(picked) = n /\ \A i \in 1 .. n : picked[i] = at(i)
  BY <1>4
<1> QED
  BY <1>1, <1>3, <1>5 DEF at, n

\* Elements picks the positions that are in the set.
LEMMA ElementsIs ==
  ASSUME NEW S, NEW s \in Seq(S), NEW positions
  PROVE  /\ Lists(Ascending(positions, Len(s)), positions \cap (1 .. Len(s)))
         /\ Elements(s, positions) = Picked(s, Ascending(positions, Len(s)))
         /\ Elements(s, positions) \in Seq(S)
<1>1. Len(s) \in Nat
  BY LenProperties
<1>2. Lists(Ascending(positions, Len(s)), positions \cap (1 .. Len(s)))
  BY <1>1, AscendingLists
<1>3. Elements(s, positions) = Picked(s, Ascending(positions, Len(s)))
  BY DEF Elements, Picked
<1>4. positions \cap (1 .. Len(s)) \in SUBSET (1 .. Len(s))
  OBVIOUS
<1> QED
  BY <1>2, <1>3, <1>4, PickedIs

\* All positions pick the whole sequence.
LEMMA PickedAll ==
  ASSUME NEW S, NEW s \in Seq(S), NEW g, Lists(g, 1 .. Len(s))
  PROVE  Picked(s, g) = s
<1>1. Len(s) \in Nat /\ DOMAIN s = 1 .. Len(s) /\ s \in [1 .. Len(s) -> S]
  BY LenProperties
<1>2. g = [i \in 1 .. Len(s) |-> i]
  BY <1>1, ListsAll, ListsUnique
<1>3. Picked(s, g) = [i \in 1 .. Len(s) |-> s[i]]
  BY <1>2 DEF Picked
<1> QED
  BY <1>1, <1>3

\* Removing from what was picked is picking without.
LEMMA PickedRemove ==
  ASSUME NEW S, NEW s \in Seq(S), NEW g, NEW positions \in SUBSET (1 .. Len(s)),
         Lists(g, positions), NEW q \in 1 .. Len(g)
  PROVE  RemoveAt(Picked(s, g), q) = Picked(s, RemoveAt(g, q))
<1> DEFINE a == Picked(s, g)
           h == RemoveAt(g, q)
           b == Picked(s, h)
           r == RemoveAt(a, q)
           rest == positions \ {g[q]}
<1>1. Lists(h, rest) /\ rest \in SUBSET (1 .. Len(s))
  BY ListsRemove
<1>2. /\ a \in Seq(S) /\ Len(a) = Len(g)
      /\ \A i \in 1 .. Len(g) : a[i] = s[g[i]]
  BY PickedIs
<1>g. g \in Seq(Nat) /\ Len(g) \in Nat
  BY ListsMembers
<1>3. /\ h \in Seq(Nat) /\ Len(h) = Len(g) - 1
      /\ \A j \in 1 .. (Len(g) - 1) : h[j] = IF j < q THEN g[j] ELSE g[j + 1]
  BY <1>g, RemoveAtIs
<1> HIDE DEF h, a, rest
<1>4. /\ b \in Seq(S) /\ Len(b) = Len(h)
      /\ \A i \in 1 .. Len(h) : b[i] = s[h[i]]
  BY <1>1, PickedIs
<1>5. /\ r \in Seq(S) /\ Len(r) = Len(a) - 1
      /\ \A j \in 1 .. (Len(a) - 1) : r[j] = IF j < q THEN a[j] ELSE a[j + 1]
  BY <1>2, RemoveAtIs
<1> HIDE DEF b, r
<1>6. ASSUME NEW j \in 1 .. Len(r)
      PROVE  r[j] = b[j]
  <2>1. j \in 1 .. (Len(g) - 1) /\ b[j] = s[h[j]]
    BY <1>2, <1>3, <1>4, <1>5, <1>g
  <2>2. CASE j < q
    <3>1. r[j] = a[j] /\ h[j] = g[j] /\ j \in 1 .. Len(g)
      BY <2>1, <2>2, <1>2, <1>3, <1>5, <1>g
    <3> QED
      BY <2>1, <3>1, <1>2
  <2>3. CASE ~ (j < q)
    <3>1. r[j] = a[j + 1] /\ h[j] = g[j + 1] /\ j + 1 \in 1 .. Len(g)
      BY <2>1, <2>3, <1>2, <1>3, <1>5, <1>g
    <3> QED
      BY <2>1, <3>1, <1>2
  <2> QED
    BY <2>2, <2>3
<1>7. r = b
  BY <1>2, <1>3, <1>4, <1>5, <1>6, SeqEqual
<1> QED
  BY <1>7 DEF r, b, a, h

\* Inserting into what was picked is picking one more.
LEMMA PickedInsert ==
  ASSUME NEW S, NEW s \in Seq(S), NEW g, NEW positions \in SUBSET (1 .. Len(s)),
         Lists(g, positions), NEW p \in 1 .. Len(s), p \notin positions,
         1 .. (p - 1) \subseteq positions
  PROVE  InsertAt(Picked(s, g), p, s[p]) = Picked(s, InsertAt(g, p, p))
<1> DEFINE a == Picked(s, g)
           h == InsertAt(g, p, p)
           b == Picked(s, h)
           r == InsertAt(a, p, s[p])
           more == positions \union {p}
<1>0. p \in Nat \ {0} /\ 0 \notin positions /\ s[p] \in S
  BY ElementOfSeq
<1>1. Lists(h, more) /\ more \in SUBSET (1 .. Len(s)) /\ p \in 1 .. (Len(g) + 1)
  BY <1>0, ListsInsert
<1>2. /\ a \in Seq(S) /\ Len(a) = Len(g)
      /\ \A i \in 1 .. Len(g) : a[i] = s[g[i]]
  BY PickedIs
<1>g. g \in Seq(Nat) /\ Len(g) \in Nat
  BY ListsMembers
<1>3. /\ h \in Seq(Nat) /\ Len(h) = Len(g) + 1
      /\ \A j \in 1 .. (p - 1) : h[j] = g[j]
      /\ h[p] = p
      /\ \A j \in p .. Len(g) : h[j + 1] = g[j]
  <2> DEFINE N == Nat
  <2>1. g \in Seq(N) /\ p \in N /\ p \in 1 .. (Len(g) + 1)
    BY <1>0, <1>1, <1>g
  <2>2. N = Nat
    OBVIOUS
  <2> HIDE DEF N, h
  <2>3. InsertAt(g, p, p) = h
    BY DEF h
  <2>4. /\ h \in Seq(N) /\ Len(h) = Len(g) + 1
        /\ \A j \in 1 .. (p - 1) : h[j] = g[j]
        /\ h[p] = p
        /\ \A j \in p .. Len(g) : h[j + 1] = g[j]
    BY <2>1, <2>3, InsertAtIs
  <2> QED
    BY <2>2, <2>4
<1> HIDE DEF h, a, more
<1>4. /\ b \in Seq(S) /\ Len(b) = Len(h)
      /\ \A i \in 1 .. Len(h) : b[i] = s[h[i]]
  BY <1>1, PickedIs
<1>t. a \in Seq(S) /\ s[p] \in S /\ p \in 1 .. (Len(a) + 1)
  BY <1>0, <1>1, <1>2
<1>5. /\ r \in Seq(S) /\ Len(r) = Len(a) + 1
      /\ \A j \in 1 .. (p - 1) : r[j] = a[j]
      /\ r[p] = s[p]
      /\ \A j \in p .. Len(a) : r[j + 1] = a[j]
  BY <1>t, InsertAtIs
<1> HIDE DEF b, r
<1>6. ASSUME NEW j \in 1 .. Len(r)
      PROVE  r[j] = b[j]
  <2>0. j \in 1 .. Len(h) /\ b[j] = s[h[j]]
    BY <1>2, <1>3, <1>4, <1>5
  <2>1. CASE j < p
    <3>1. j \in 1 .. (p - 1) /\ j \in 1 .. Len(g)
      BY <2>1, <1>0, <1>1, <1>g
    <3> QED
      BY <2>0, <3>1, <1>2, <1>3, <1>5
  <2>2. CASE j = p
    BY <2>0, <2>2, <1>3, <1>5
  <2>3. CASE j > p
    <3>1. j - 1 \in p .. Len(g) /\ j - 1 \in 1 .. Len(g)
      BY <2>0, <2>3, <1>0, <1>1, <1>2, <1>3, <1>5, <1>g
    <3>2. r[(j - 1) + 1] = a[j - 1] /\ h[(j - 1) + 1] = g[j - 1]
      BY <3>1, <1>2, <1>3, <1>5
    <3> QED
      BY <2>0, <3>1, <3>2, <1>2
  <2> QED
    BY <2>1, <2>2, <2>3, <1>0
<1>7. r = b
  BY <1>2, <1>3, <1>4, <1>5, <1>6, SeqEqual
<1> QED
  BY <1>7 DEF r, b, a, h
-----------------------------------------------------------------------------
(* Elements with ids: the objects and the layers *)

\* The ids of the objects, or of the layers.
IdsOf(s) == {e.id : e \in ToSet(s)}

\* Where the first one with an id is.
IndexOf(s, id) == SelectInSeq(s, LAMBDA e : e.id = id)

\* No two have the same id.
Distinct(s) == \A i, j \in DOMAIN s : s[i].id = s[j].id => i = j

\* The ids are those of the positions.
LEMMA IdsOfIs ==
  ASSUME NEW S, NEW s \in Seq(S)
  PROVE  /\ \A i \in 1 .. Len(s) : s[i].id \in IdsOf(s)
         /\ \A id \in IdsOf(s) : \E i \in 1 .. Len(s) : s[i].id = id
<1>1. DOMAIN s = 1 .. Len(s)
  BY LenProperties
<1>2. ToSet(s) = {s[i] : i \in 1 .. Len(s)}
  BY <1>1 DEF ToSet
<1> QED
  BY <1>2 DEF IdsOf

\* An id that is there is found where it is.
LEMMA IndexOfIs ==
  ASSUME NEW S, NEW s \in Seq(S), Distinct(s), NEW i \in 1 .. Len(s), NEW id, s[i].id = id
  PROVE  IndexOf(s, id) = i
<1>1. DOMAIN s = 1 .. Len(s) /\ Len(s) \in Nat
  BY LenProperties
<1> DEFINE I == {j \in 1 .. Len(s) : s[j].id = id}
<1>2. I = {i}
  BY <1>1 DEF Distinct
<1>3. IndexOf(s, id) = IF I # {} THEN Min(I) ELSE 0
  BY DEF IndexOf, SelectInSeq
<1> HIDE DEF I
<1>4. IndexOf(s, id) = Min({i})
  BY <1>2, <1>3
<1>5. Min({i}) = i
  BY DEF Min
<1> QED
  BY <1>4, <1>5

\* The position of an id.
LEMMA IndexOfFinds ==
  ASSUME NEW S, NEW s \in Seq(S), NEW id \in IdsOf(s)
  PROVE  IndexOf(s, id) \in 1 .. Len(s) /\ s[IndexOf(s, id)].id = id
<1>1. DOMAIN s = 1 .. Len(s) /\ Len(s) \in Nat
  BY LenProperties
<1> DEFINE I == {j \in 1 .. Len(s) : s[j].id = id}
<1>2. I # {} /\ I \in SUBSET Nat
  BY IdsOfIs
<1>3. IndexOf(s, id) = IF I # {} THEN Min(I) ELSE 0
  BY <1>1 DEF IndexOf, SelectInSeq
<1>4. \A j \in I : j \in 1 .. Len(s) /\ s[j].id = id
  OBVIOUS
<1> HIDE DEF I
<1>5. PICK m \in I : \A j \in I : m <= j
  BY <1>2, LeastElement
<1>6. Min(I) \in I
  BY <1>5 DEF Min
<1> QED
  BY <1>2, <1>3, <1>4, <1>6

\* What is inserted joins the others.
LEMMA InsertMembers ==
  ASSUME NEW S, NEW s \in Seq(S), NEW e \in S, NEW i \in 1 .. (Len(s) + 1)
  PROVE  ToSet(InsertAt(s, i, e)) = ToSet(s) \union {e}
<1> DEFINE t == InsertAt(s, i, e)
<1>1. DOMAIN s = 1 .. Len(s) /\ Len(s) \in Nat
  BY LenProperties
<1>2. /\ t \in Seq(S) /\ Len(t) = Len(s) + 1
      /\ \A j \in 1 .. (i - 1) : t[j] = s[j]
      /\ t[i] = e
      /\ \A j \in i .. Len(s) : t[j + 1] = s[j]
  BY InsertAtIs
<1> HIDE DEF t
<1>3. DOMAIN t = 1 .. (Len(s) + 1)
  BY <1>2, LenProperties
<1>4. ASSUME NEW j \in DOMAIN t
      PROVE  t[j] \in ToSet(s) \union {e}
  <2>1. CASE j < i
    <3>1. j \in DOMAIN s /\ t[j] = s[j]
      BY <2>1, <1>1, <1>2, <1>3
    <3> QED
      BY <3>1 DEF ToSet
  <2>2. CASE j = i
    BY <2>2, <1>2
  <2>3. CASE j > i
    <3>1. j - 1 \in i .. Len(s) /\ j - 1 \in DOMAIN s /\ t[(j - 1) + 1] = s[j - 1]
      BY <2>3, <1>1, <1>2, <1>3
    <3>2. t[j] = s[j - 1]
      BY <3>1, <1>3
    <3> QED
      BY <3>1, <3>2 DEF ToSet
  <2> QED
    BY <2>1, <2>2, <2>3, <1>1, <1>3
<1>5. ASSUME NEW j \in DOMAIN s
      PROVE  \E k \in DOMAIN t : t[k] = s[j]
  <2>1. CASE j < i
    BY <2>1, <1>1, <1>2, <1>3
  <2>2. CASE j >= i
    <3>1. j + 1 \in DOMAIN t /\ t[j + 1] = s[j]
      BY <2>2, <1>1, <1>2, <1>3
    <3> QED
      BY <3>1
  <2> QED
    BY <2>1, <2>2, <1>1
<1>6. \E k \in DOMAIN t : t[k] = e
  BY <1>1, <1>2, <1>3
<1>7. ToSet(t) \subseteq ToSet(s) \union {e}
  BY <1>4 DEF ToSet
<1>8. ToSet(s) \union {e} \subseteq ToSet(t)
  BY <1>5, <1>6 DEF ToSet
<1> QED
  BY <1>7, <1>8 DEF t

\* A new id is as distinct as the others.
LEMMA InsertDistinct ==
  ASSUME NEW S, NEW s \in Seq(S), NEW e \in S, NEW i \in 1 .. (Len(s) + 1),
         Distinct(s), e.id \notin IdsOf(s)
  PROVE  /\ Distinct(InsertAt(s, i, e))
         /\ IdsOf(InsertAt(s, i, e)) = IdsOf(s) \union {e.id}
         /\ IndexOf(InsertAt(s, i, e), e.id) = i
<1> DEFINE t == InsertAt(s, i, e)
<1>1. DOMAIN s = 1 .. Len(s) /\ Len(s) \in Nat
  BY LenProperties
<1>2. /\ t \in Seq(S) /\ Len(t) = Len(s) + 1
      /\ \A j \in 1 .. (i - 1) : t[j] = s[j]
      /\ t[i] = e
      /\ \A j \in i .. Len(s) : t[j + 1] = s[j]
  BY InsertAtIs
<1>3. DOMAIN t = 1 .. (Len(s) + 1)
  <2> HIDE DEF t
  <2> QED
    BY <1>2, LenProperties
<1>4. ToSet(t) = ToSet(s) \union {e}
  BY InsertMembers
<1> HIDE DEF t
<1>5. ASSUME NEW j \in DOMAIN t
      PROVE  \/ j < i /\ j \in DOMAIN s /\ t[j] = s[j]
             \/ j = i /\ t[j] = e
             \/ j > i /\ j - 1 \in DOMAIN s /\ t[j] = s[j - 1]
  <2>1. CASE j < i
    BY <2>1, <1>1, <1>2, <1>3
  <2>2. CASE j = i
    BY <2>2, <1>2
  <2>3. CASE j > i
    <3>1. j - 1 \in i .. Len(s) /\ j - 1 \in DOMAIN s /\ t[(j - 1) + 1] = s[j - 1]
      BY <2>3, <1>1, <1>2, <1>3
    <3> QED
      BY <3>1, <2>3, <1>3
  <2> QED
    BY <2>1, <2>2, <2>3, <1>1, <1>3
<1>6. \A j \in DOMAIN s : s[j].id # e.id
  <2>1. \A j \in 1 .. Len(s) : s[j].id \in IdsOf(s)
    BY IdsOfIs
  <2> QED
    BY <2>1, <1>1
<1>7. ASSUME NEW j \in DOMAIN t, NEW k \in DOMAIN t, t[j].id = t[k].id
      PROVE  j = k
  <2>1. j = i <=> t[j].id = e.id
    BY <1>5, <1>6
  <2>2. k = i <=> t[k].id = e.id
    BY <1>5, <1>6
  <2>3. CASE j # i /\ k # i
    <3>1. \/ j < i /\ j \in DOMAIN s /\ t[j] = s[j]
          \/ j > i /\ j - 1 \in DOMAIN s /\ t[j] = s[j - 1]
      BY <2>3, <1>5
    <3>2. \/ k < i /\ k \in DOMAIN s /\ t[k] = s[k]
          \/ k > i /\ k - 1 \in DOMAIN s /\ t[k] = s[k - 1]
      BY <2>3, <1>5
    <3>3. \A a, b \in DOMAIN s : s[a].id = s[b].id => a = b
      BY DEF Distinct
    <3> QED
      BY <3>1, <3>2, <3>3, <1>7, <1>1, <1>3, SMTT(30)
  <2> QED
    BY <2>1, <2>2, <2>3, <1>7
<1>8. Distinct(t)
  BY <1>7 DEF Distinct
<1>9. IdsOf(t) = IdsOf(s) \union {e.id}
  BY <1>4 DEF IdsOf
<1>10. IndexOf(t, e.id) = i
  <2>1. i \in 1 .. Len(t) /\ t[i].id = e.id
    BY <1>1, <1>2
  <2> QED
    BY <2>1, <1>2, <1>8, IndexOfIs
<1> QED
  BY <1>8, <1>9, <1>10 DEF t

\* Removing one leaves the others distinct.
LEMMA RemoveDistinct ==
  ASSUME NEW S, NEW s \in Seq(S), NEW i \in 1 .. Len(s), Distinct(s)
  PROVE  /\ Distinct(RemoveAt(s, i))
         /\ ToSet(RemoveAt(s, i)) \subseteq ToSet(s)
         /\ IdsOf(RemoveAt(s, i)) = IdsOf(s) \ {s[i].id}
<1> DEFINE t == RemoveAt(s, i)
<1>1. DOMAIN s = 1 .. Len(s) /\ Len(s) \in Nat
  BY LenProperties
<1>2. /\ t \in Seq(S) /\ Len(t) = Len(s) - 1
      /\ \A j \in 1 .. (Len(s) - 1) : t[j] = IF j < i THEN s[j] ELSE s[j + 1]
  BY RemoveAtIs
<1> HIDE DEF t
<1>3. DOMAIN t = 1 .. (Len(s) - 1)
  BY <1>2, LenProperties
<1> DEFINE at(j) == IF j < i THEN j ELSE j + 1
<1>4. ASSUME NEW j \in DOMAIN t
      PROVE  at(j) \in DOMAIN s /\ at(j) # i /\ t[j] = s[at(j)]
  BY <1>1, <1>2, <1>3
<1>5. ASSUME NEW j \in DOMAIN t, NEW k \in DOMAIN t, at(j) = at(k)
      PROVE  j = k
  BY <1>1, <1>3, <1>5
<1>6. ASSUME NEW j \in DOMAIN s, j # i
      PROVE  \E k \in DOMAIN t : t[k] = s[j]
  <2>1. CASE j < i
    BY <2>1, <1>1, <1>2, <1>3
  <2>2. CASE j > i
    <3>1. j - 1 \in DOMAIN t /\ ~ (j - 1 < i) /\ t[j - 1] = s[(j - 1) + 1]
      BY <2>2, <1>1, <1>2, <1>3
    <3>2. t[j - 1] = s[j]
      BY <3>1, <1>1
    <3> QED
      BY <3>1, <3>2
  <2> QED
    BY <2>1, <2>2, <1>1, <1>6
<1> HIDE DEF at
<1>7. \A j, k \in DOMAIN s : s[j].id = s[k].id => j = k
  BY DEF Distinct
<1>8. Distinct(t)
  BY <1>4, <1>5, <1>7 DEF Distinct
<1>9. ToSet(t) \subseteq ToSet(s)
  BY <1>4 DEF ToSet
<1>10. IdsOf(t) \subseteq IdsOf(s) \ {s[i].id}
  <2>1. ASSUME NEW x \in IdsOf(t)
        PROVE  x \in IdsOf(s) \ {s[i].id}
    <3>1. PICK j \in DOMAIN t : t[j].id = x
      BY DEF IdsOf, ToSet
    <3>2. at(j) \in DOMAIN s /\ s[at(j)].id = x /\ at(j) # i
      BY <3>1, <1>4
    <3>3. x # s[i].id
      BY <3>2, <1>7, <1>1
    <3> QED
      BY <3>2, <3>3 DEF IdsOf, ToSet
  <2> QED
    BY <2>1
<1>11. IdsOf(s) \ {s[i].id} \subseteq IdsOf(t)
  <2>1. ASSUME NEW x \in IdsOf(s) \ {s[i].id}
        PROVE  x \in IdsOf(t)
    <3>1. PICK j \in DOMAIN s : s[j].id = x
      BY DEF IdsOf, ToSet
    <3>2. PICK k \in DOMAIN t : t[k] = s[j]
      BY <3>1, <2>1, <1>6
    <3> QED
      BY <3>1, <3>2 DEF IdsOf, ToSet
  <2> QED
    BY <2>1
<1> QED
  BY <1>8, <1>9, <1>10, <1>11 DEF t

\* What is appended joins the others at the end.
LEMMA AppendDistinct ==
  ASSUME NEW S, NEW s \in Seq(S), NEW e \in S, Distinct(s), e.id \notin IdsOf(s)
  PROVE  /\ Append(s, e) \in Seq(S)
         /\ Distinct(Append(s, e))
         /\ ToSet(Append(s, e)) = ToSet(s) \union {e}
         /\ IdsOf(Append(s, e)) = IdsOf(s) \union {e.id}
         /\ IndexOf(Append(s, e), e.id) = Len(s) + 1
         /\ RemoveAt(Append(s, e), Len(s) + 1) = s
<1>1. Len(s) + 1 \in 1 .. (Len(s) + 1)
  BY LenProperties
<1>2. InsertAt(s, Len(s) + 1, e) = Append(s, e)
  BY AppendInserts
<1>3. ToSet(InsertAt(s, Len(s) + 1, e)) = ToSet(s) \union {e}
  BY <1>1, InsertMembers
<1>4. /\ Distinct(InsertAt(s, Len(s) + 1, e))
      /\ IdsOf(InsertAt(s, Len(s) + 1, e)) = IdsOf(s) \union {e.id}
      /\ IndexOf(InsertAt(s, Len(s) + 1, e), e.id) = Len(s) + 1
  BY <1>1, InsertDistinct
<1>5. RemoveAt(InsertAt(s, Len(s) + 1, e), Len(s) + 1) = s
  BY <1>1, RemoveInserted
<1>6. Append(s, e) \in Seq(S)
  BY AppendProperties
<1> QED
  BY <1>2, <1>3, <1>4, <1>5, <1>6

\* Elements that change, but for their ids, stay distinct.
LEMMA SameIds ==
  ASSUME NEW S, NEW s \in Seq(S), NEW t \in Seq(S), Len(t) = Len(s),
         \A i \in 1 .. Len(s) : t[i].id = s[i].id
  PROVE  /\ Distinct(s) => Distinct(t)
         /\ IdsOf(t) = IdsOf(s)
<1>1. DOMAIN s = 1 .. Len(s) /\ DOMAIN t = 1 .. Len(s)
  BY LenProperties
<1>2. IdsOf(s) = {s[i].id : i \in 1 .. Len(s)}
  BY <1>1 DEF IdsOf, ToSet
<1>3. IdsOf(t) = {t[i].id : i \in 1 .. Len(s)}
  BY <1>1 DEF IdsOf, ToSet
<1>4. IdsOf(t) = IdsOf(s)
  BY <1>2, <1>3
<1>5. Distinct(s) => Distinct(t)
  BY <1>1 DEF Distinct
<1> QED
  BY <1>4, <1>5

\* The largest id of a sequence that is not empty.
LEMMA LargestId ==
  ASSUME NEW S, NEW s \in Seq(S), IdsOf(s) \subseteq Nat, Len(s) > 0
  PROVE  Max(IdsOf(s)) \in IdsOf(s) /\ \A id \in IdsOf(s) : id <= Max(IdsOf(s))
<1> DEFINE n == Len(s)
           P == {i \in 0 .. n : i = 0 \/ \E k \in 1 .. i : \A j \in 1 .. i : s[j].id <= s[k].id}
<1>1. n \in Nat /\ n > 0 /\ \A i \in 1 .. n : s[i].id \in IdsOf(s) /\ s[i].id \in Nat
  BY LenProperties, IdsOfIs
<1> HIDE DEF n
<1>2. 0 \in P
  BY <1>1
<1>3. ASSUME NEW i \in 1 .. n, i - 1 \in P PROVE i \in P
  <2>1. CASE i = 1
    <3>1. \A j \in 1 .. 1 : s[j].id <= s[1].id
      BY <1>1
    <3> QED
      BY <1>1, <2>1, <3>1
  <2>2. CASE i # 1
    <3>1. PICK k \in 1 .. (i - 1) : \A j \in 1 .. (i - 1) : s[j].id <= s[k].id
      BY <1>1, <1>3, <2>2, SMTT(30)
    <3>2. s[k].id \in Nat /\ s[i].id \in Nat /\ k \in 1 .. i /\ i \in 1 .. i
      BY <1>1, <2>2
    <3>3. CASE s[i].id <= s[k].id
      <4>1. \A j \in 1 .. i : s[j].id <= s[k].id
        BY <3>1, <3>3
      <4> QED
        BY <3>2, <4>1
    <3>4. CASE s[k].id < s[i].id
      <4>1. \A j \in 1 .. i : s[j].id <= s[i].id
        <5>1. ASSUME NEW j \in 1 .. i PROVE s[j].id <= s[i].id
          <6>1. s[j].id \in Nat
            BY <1>1, <5>1
          <6>2. CASE j = i
            BY <3>2, <6>2
          <6>3. CASE j # i
            <7>1. s[j].id <= s[k].id
              BY <3>1, <6>3
            <7> QED
              BY <3>2, <3>4, <6>1, <7>1
          <6> QED
            BY <6>2, <6>3
        <5> QED
          BY <5>1
      <4> QED
        BY <3>2, <4>1
    <3>5. s[i].id <= s[k].id \/ s[k].id < s[i].id
      BY <3>2
    <3> QED
      BY <3>3, <3>4, <3>5
  <2> QED
    BY <2>1, <2>2
<1>4. n \in P
  <2> HIDE DEF P
  <2>1. n \in Nat /\ 0 \in P /\ \A i \in 1 .. n : i - 1 \in P => i \in P
    BY <1>1, <1>2, <1>3
  <2>2. \A i \in 0 .. n : i \in P
    BY ONLY <2>1, IntervalInduction
  <2> QED
    BY <1>1, <2>2
<1>5. PICK k \in 1 .. n : \A j \in 1 .. n : s[j].id <= s[k].id
  BY <1>1, <1>4
<1> DEFINE m == s[k].id
<1>6. m \in IdsOf(s) /\ m \in Nat
  BY <1>1
<1>7. ASSUME NEW id \in IdsOf(s) PROVE id <= m
  <2>1. PICK j \in 1 .. n : s[j].id = id
    BY IdsOfIs DEF n
  <2> QED
    BY <1>5, <2>1
<1> HIDE DEF m
<1>8. \E x \in IdsOf(s) : \A y \in IdsOf(s) : x >= y
  BY <1>6, <1>7
<1> QED
  BY <1>8 DEF Max

\* The largest id of a sequence, or that of no element.
LEMMA LargestOrNone ==
  ASSUME NEW S, NEW s \in Seq(S), IdsOf(s) \subseteq Nat
  PROVE  /\ Max(IdsOf(s) \union {NoId}) \in IdsOf(s) \union {NoId}
         /\ Max(IdsOf(s) \union {NoId}) \in Nat
         /\ \A id \in IdsOf(s) : id <= Max(IdsOf(s) \union {NoId})
<1> DEFINE ids == IdsOf(s) \union {NoId}
<1>1. Len(s) \in Nat
  BY LenProperties
<1>2. CASE Len(s) = 0
  <2>1. IdsOf(s) = {}
    <3> SUFFICES ASSUME NEW id \in IdsOf(s) PROVE FALSE
      OBVIOUS
    <3>1. PICK i \in 1 .. Len(s) : s[i].id = id
      BY IdsOfIs
    <3> QED
      BY <1>2, <3>1
  <2>2. ids = {0}
    BY <2>1 DEF NoId
  <2>3. \E m \in {0} : \A y \in {0} : m >= y
    OBVIOUS
  <2>4. Max({0}) = 0
    BY <2>3 DEF Max
  <2>5. Max(ids) = 0 /\ Max(ids) \in ids
    BY <2>2, <2>4
  <2> HIDE DEF ids
  <2> QED
    BY <2>1, <2>5 DEF ids
<1>3. CASE Len(s) > 0
  <2> DEFINE m == Max(IdsOf(s))
  <2>1. m \in IdsOf(s) /\ \A id \in IdsOf(s) : id <= m
    BY <1>3, LargestId
  <2> HIDE DEF m
  <2>2. m \in ids /\ m \in Nat
    BY <2>1
  <2>3. \A id \in ids : m >= id
    BY <2>1, <2>2 DEF NoId
  <2>4. \E x \in ids : \A y \in ids : x >= y
    BY <2>2, <2>3
  <2>5. Max(ids) \in ids /\ \A y \in ids : Max(ids) >= y
    BY <2>4 DEF Max
  <2>6. ids \subseteq Nat
    BY DEF NoId
  <2>7. Max(ids) \in ids /\ Max(ids) \in Nat /\ \A id \in IdsOf(s) : id <= Max(ids)
    BY <2>5, <2>6
  <2> HIDE DEF ids
  <2> QED
    BY <2>7 DEF ids
<1>4. Len(s) = 0 \/ Len(s) > 0
  BY <1>1
<1> QED
  BY <1>2, <1>3, <1>4
-----------------------------------------------------------------------------
(* Documents by their parts *)

Objects == Seq(ObjectType)

Layers(N) == Seq(LayerType(N))

\* A document of these parts.
Doc(objects, layers, active, nextId, nextLayer, revised) ==
  [objects |-> objects, layers |-> layers, active |-> active,
   nextId |-> nextId, nextLayer |-> nextLayer, revised |-> revised]

\* The content of such a document.
View(objects, layers, active) == [objects |-> objects, layers |-> layers, active |-> active]

\* The fields of a document put together from its parts, and its content.
LEMMA DocIs ==
  ASSUME NEW objects, NEW layers, NEW active, NEW nextId, NEW nextLayer, NEW revised
  PROVE  /\ Doc(objects, layers, active, nextId, nextLayer, revised).objects = objects
         /\ Doc(objects, layers, active, nextId, nextLayer, revised).layers = layers
         /\ Doc(objects, layers, active, nextId, nextLayer, revised).active = active
         /\ Doc(objects, layers, active, nextId, nextLayer, revised).nextId = nextId
         /\ Doc(objects, layers, active, nextId, nextLayer, revised).nextLayer = nextLayer
         /\ Doc(objects, layers, active, nextId, nextLayer, revised).revised = revised
         /\ Content(Doc(objects, layers, active, nextId, nextLayer, revised))
              = View(objects, layers, active)
BY DEF Doc, Content, View

\* The parts of a document.
LEMMA DocumentIs ==
  ASSUME NEW N, NEW doc \in DocumentType(N)
  PROVE  /\ doc = Doc(doc.objects, doc.layers, doc.active, doc.nextId, doc.nextLayer, doc.revised)
         /\ doc.objects \in Objects
         /\ doc.layers \in Layers(N)
         /\ doc.active \in Nat
         /\ doc.nextId \in Nat
         /\ doc.nextLayer \in Nat
         /\ doc.revised \in BOOLEAN
BY DEF DocumentType, Doc, Objects, Layers

\* Parts that make a document.
LEMMA DocTyped ==
  ASSUME NEW N, NEW objects \in Objects, NEW layers \in Layers(N), NEW active \in Nat,
         NEW nextId \in Nat, NEW nextLayer \in Nat, NEW revised \in BOOLEAN
  PROVE  Doc(objects, layers, active, nextId, nextLayer, revised) \in DocumentType(N)
BY DEF DocumentType, Doc, Objects, Layers

\* Documents of the same content have the same objects and layers.
LEMMA ContentIs ==
  ASSUME NEW a, NEW b
  PROVE  /\ Content(a) = View(a.objects, a.layers, a.active)
         /\ Content(a) = Content(b) =>
              a.objects = b.objects /\ a.layers = b.layers /\ a.active = b.active
         /\ a.objects = b.objects /\ a.layers = b.layers /\ a.active = b.active =>
              Content(a) = Content(b)
BY DEF Content, View

\* The parts of a whole document.
WholeParts(objects, layers, active) ==
  /\ Distinct(objects)
  /\ Distinct(layers)
  /\ NoId \notin IdsOf(objects)
  /\ NoId \notin IdsOf(layers)
  /\ \A object \in ToSet(objects) : object.layer \in IdsOf(layers)
  /\ active \in IdsOf(layers)

\* Whether a document is whole depends on its objects, layers and active layer.
LEMMA WholeIs ==
  ASSUME NEW doc
  PROVE  Whole(doc) <=> WholeParts(doc.objects, doc.layers, doc.active)
<1>1. ObjectIds(doc) = IdsOf(doc.objects) /\ LayerIds(doc) = IdsOf(doc.layers)
  BY DEF ObjectIds, LayerIds, IdsOf
<1>2. ToSet(doc.objects) = {doc.objects[i] : i \in DOMAIN doc.objects}
  BY DEF ToSet
<1>3. (\A object \in ToSet(doc.objects) : object.layer \in IdsOf(doc.layers))
        <=> (\A i \in DOMAIN doc.objects : doc.objects[i].layer \in IdsOf(doc.layers))
  BY <1>2
<1> QED
  BY <1>1, <1>3 DEF Whole, WholeParts, Distinct

\* The queries by the parts.
LEMMA QueriesAre ==
  ASSUME NEW doc, NEW id
  PROVE  /\ ObjectIds(doc) = IdsOf(doc.objects)
         /\ LayerIds(doc) = IdsOf(doc.layers)
         /\ ObjectIndex(doc, id) = IndexOf(doc.objects, id)
         /\ LayerIndex(doc, id) = IndexOf(doc.layers, id)
         /\ Object(doc, id) = doc.objects[IndexOf(doc.objects, id)]
         /\ Layer(doc, id) = doc.layers[IndexOf(doc.layers, id)]
BY DEF ObjectIds, LayerIds, IdsOf, ObjectIndex, LayerIndex, IndexOf, Object, Layer

\* The layer an object is put on.
LayerFor(layers, active, id) ==
  IF id \in IdsOf(layers) THEN id ELSE IF active \in IdsOf(layers) THEN active ELSE DefaultLayer

\* document_resolve_layer_id looks at the layers and the active layer only.
LEMMA ResolvedLayerIs ==
  ASSUME NEW doc, NEW id
  PROVE  ResolvedLayer(doc, id) = LayerFor(doc.layers, doc.active, id)
BY QueriesAre DEF ResolvedLayer, LayerFor
-----------------------------------------------------------------------------
(* The operators of Document: what they make of the parts *)

\* The counters do not go back, and a change of the content is a revision.
Advance(d, e) ==
  /\ d.nextId <= e.nextId
  /\ d.nextLayer <= e.nextLayer
  /\ d.revised => e.revised
  /\ Content(e) # Content(d) => e.revised

\* A document has not gone back behind itself.
LEMMA AdvanceReflexive ==
  ASSUME NEW N, NEW d \in DocumentType(N)
  PROVE  Advance(d, d)
BY DocumentIs DEF Advance

\* Edits that only advance the counters do so one after the other as well.
LEMMA AdvanceTransitive ==
  ASSUME NEW N, NEW c \in DocumentType(N), NEW d \in DocumentType(N), NEW e \in DocumentType(N),
         Advance(c, d), Advance(d, e)
  PROVE  Advance(c, e)
<1>1. /\ c.nextId \in Nat /\ d.nextId \in Nat /\ e.nextId \in Nat
      /\ c.nextLayer \in Nat /\ d.nextLayer \in Nat /\ e.nextLayer \in Nat
  BY DocumentIs
<1>2. c.nextId <= e.nextId /\ c.nextLayer <= e.nextLayer
  BY <1>1 DEF Advance
<1>3. (c.revised => e.revised) /\ (Content(e) # Content(c) => e.revised)
  BY Zenon DEF Advance
<1> QED
  BY <1>2, <1>3 DEF Advance

\* A call that ends with document_touch.
LEMMA TouchedAdvances ==
  ASSUME NEW N, NEW d \in DocumentType(N), NEW objects \in Objects, NEW layers \in Layers(N),
         NEW active \in Nat, NEW nextId \in Nat, NEW nextLayer \in Nat,
         d.nextId <= nextId, d.nextLayer <= nextLayer
  PROVE  /\ Doc(objects, layers, active, nextId, nextLayer, TRUE) \in DocumentType(N)
         /\ Advance(d, Doc(objects, layers, active, nextId, nextLayer, TRUE))
<1>1. Doc(objects, layers, active, nextId, nextLayer, TRUE) \in DocumentType(N)
  BY DocTyped
<1> DEFINE e == Doc(objects, layers, active, nextId, nextLayer, TRUE)
<1>2. e.nextId = nextId /\ e.nextLayer = nextLayer /\ e.revised = TRUE
  BY DEF Doc
<1> HIDE DEF e
<1>3. Advance(d, e)
  <2>1. d.nextId <= e.nextId /\ d.nextLayer <= e.nextLayer
    BY <1>2
  <2> QED
    BY <1>2, <2>1 DEF Advance
<1> QED
  BY <1>1, <1>3 DEF e

\* What document_touch makes of a document.
LEMMA TouchedDoc ==
  ASSUME NEW objects, NEW layers, NEW active, NEW nextId, NEW nextLayer, NEW revised
  PROVE  Touched(Doc(objects, layers, active, nextId, nextLayer, revised))
           = Doc(objects, layers, active, nextId, nextLayer, TRUE)
<1> DEFINE new == TRUE
           doc == Doc(objects, layers, active, nextId, nextLayer, revised)
           touched == [doc EXCEPT !.revised = new]
<1>1. Touched(doc) = touched
  BY DEF Touched
<1> HIDE DEF new
<1>2. touched = Doc(objects, layers, active, nextId, nextLayer, new)
  BY DEF Doc
<1> HIDE DEF doc, touched
<1>3. Touched(doc) = Doc(objects, layers, active, nextId, nextLayer, TRUE)
  BY <1>1, <1>2, Zenon DEF new
<1> QED
  BY <1>3 DEF doc

\* What it makes of a document with other parts.
LEMMA TouchedIs ==
  ASSUME NEW N, NEW doc \in DocumentType(N), NEW x, NEW y
  PROVE  /\ Touched([doc EXCEPT !.objects = x])
              = Doc(x, doc.layers, doc.active, doc.nextId, doc.nextLayer, TRUE)
         /\ Touched([doc EXCEPT !.layers = x])
              = Doc(doc.objects, x, doc.active, doc.nextId, doc.nextLayer, TRUE)
         /\ Touched([doc EXCEPT !.active = x])
              = Doc(doc.objects, doc.layers, x, doc.nextId, doc.nextLayer, TRUE)
         /\ Touched([doc EXCEPT !.objects = x, !.nextId = y])
              = Doc(x, doc.layers, doc.active, y, doc.nextLayer, TRUE)
         /\ Touched([doc EXCEPT !.layers = x, !.nextLayer = y])
              = Doc(doc.objects, x, doc.active, doc.nextId, y, TRUE)
         /\ Touched([doc EXCEPT !.layers = x, !.active = y])
              = Doc(doc.objects, x, y, doc.nextId, doc.nextLayer, TRUE)
<1> DEFINE objects == doc.objects
           layers == doc.layers
           active == doc.active
           nextId == doc.nextId
           nextLayer == doc.nextLayer
           revised == doc.revised
<1>1. doc = Doc(objects, layers, active, nextId, nextLayer, revised)
  BY DocumentIs
<1> HIDE DEF objects, layers, active, nextId, nextLayer, revised
<1>2. Touched([doc EXCEPT !.objects = x])
        = Doc(x, layers, active, nextId, nextLayer, TRUE)
  <2> DEFINE new == [doc EXCEPT !.objects = x]
  <2>1. new = Doc(x, layers, active, nextId, nextLayer, revised)
    BY <1>1 DEF Doc
  <2> HIDE DEF new
  <2>5. Touched(new) = Doc(x, layers, active, nextId, nextLayer, TRUE)
    BY <2>1, TouchedDoc
  <2> QED
    BY <2>5 DEF new
<1>3. Touched([doc EXCEPT !.layers = x])
        = Doc(objects, x, active, nextId, nextLayer, TRUE)
  <2> DEFINE new == [doc EXCEPT !.layers = x]
  <2>1. new = Doc(objects, x, active, nextId, nextLayer, revised)
    BY <1>1 DEF Doc
  <2> HIDE DEF new
  <2>5. Touched(new) = Doc(objects, x, active, nextId, nextLayer, TRUE)
    BY <2>1, TouchedDoc
  <2> QED
    BY <2>5 DEF new
<1>4. Touched([doc EXCEPT !.active = x])
        = Doc(objects, layers, x, nextId, nextLayer, TRUE)
  <2> DEFINE new == [doc EXCEPT !.active = x]
  <2>1. new = Doc(objects, layers, x, nextId, nextLayer, revised)
    BY <1>1 DEF Doc
  <2> HIDE DEF new
  <2>5. Touched(new) = Doc(objects, layers, x, nextId, nextLayer, TRUE)
    BY <2>1, TouchedDoc
  <2> QED
    BY <2>5 DEF new
<1>5. Touched([doc EXCEPT !.objects = x, !.nextId = y])
        = Doc(x, layers, active, y, nextLayer, TRUE)
  <2> DEFINE new == [doc EXCEPT !.objects = x, !.nextId = y]
  <2> DEFINE first == [doc EXCEPT !.objects = x]
             second == [first EXCEPT !.nextId = y]
  <2>2. new = second
    OBVIOUS
  <2>3. first = Doc(x, layers, active, nextId, nextLayer, revised)
    BY <1>1 DEF Doc
  <2> HIDE DEF first, new
  <2>4. second = Doc(x, layers, active, y, nextLayer, revised)
    BY <2>3 DEF Doc
  <2> HIDE DEF second
  <2>1. new = Doc(x, layers, active, y, nextLayer, revised)
    BY <2>2, <2>4
  <2> HIDE DEF new
  <2>5. Touched(new) = Doc(x, layers, active, y, nextLayer, TRUE)
    BY <2>1, TouchedDoc
  <2> QED
    BY <2>5 DEF new
<1>6. Touched([doc EXCEPT !.layers = x, !.nextLayer = y])
        = Doc(objects, x, active, nextId, y, TRUE)
  <2> DEFINE new == [doc EXCEPT !.layers = x, !.nextLayer = y]
  <2> DEFINE first == [doc EXCEPT !.layers = x]
             second == [first EXCEPT !.nextLayer = y]
  <2>2. new = second
    OBVIOUS
  <2>3. first = Doc(objects, x, active, nextId, nextLayer, revised)
    BY <1>1 DEF Doc
  <2> HIDE DEF first, new
  <2>4. second = Doc(objects, x, active, nextId, y, revised)
    BY <2>3 DEF Doc
  <2> HIDE DEF second
  <2>1. new = Doc(objects, x, active, nextId, y, revised)
    BY <2>2, <2>4
  <2> HIDE DEF new
  <2>5. Touched(new) = Doc(objects, x, active, nextId, y, TRUE)
    BY <2>1, TouchedDoc
  <2> QED
    BY <2>5 DEF new
<1>7. Touched([doc EXCEPT !.layers = x, !.active = y])
        = Doc(objects, x, y, nextId, nextLayer, TRUE)
  <2> DEFINE new == [doc EXCEPT !.layers = x, !.active = y]
  <2> DEFINE first == [doc EXCEPT !.layers = x]
             second == [first EXCEPT !.active = y]
  <2>2. new = second
    OBVIOUS
  <2>3. first = Doc(objects, x, active, nextId, nextLayer, revised)
    BY <1>1 DEF Doc
  <2> HIDE DEF first, new
  <2>4. second = Doc(objects, x, y, nextId, nextLayer, revised)
    BY <2>3 DEF Doc
  <2> HIDE DEF second
  <2>1. new = Doc(objects, x, y, nextId, nextLayer, revised)
    BY <2>2, <2>4
  <2> HIDE DEF new
  <2>5. Touched(new) = Doc(objects, x, y, nextId, nextLayer, TRUE)
    BY <2>1, TouchedDoc
  <2> QED
    BY <2>5 DEF new
<1> QED
  BY <1>2, <1>3, <1>4, <1>5, <1>6, <1>7 DEF objects, layers, active, nextId, nextLayer

\* An id that the counter is past, or can be moved past: no id follows the largest.
CanPass(counter, id) == id < counter \/ id # UIntMax

\* A counter that is moved past an id is behind neither it nor its old value.
LEMMA PastGrows ==
  ASSUME NEW counter \in Nat, NEW id \in Nat
  PROVE  /\ Past(counter, id) \in Nat
         /\ CanPass(counter, id) => counter <= Past(counter, id) /\ id < Past(counter, id)
<1>1. IdLimit \in Nat
  BY IdAssumption
<1> QED
  BY <1>1 DEF Past, Following, UIntMax, NoId, CanPass

\* What a counter can be moved past, it still can after it has grown.
LEMMA CanPassGrows ==
  ASSUME NEW c \in Nat, NEW d \in Nat, NEW id \in Nat, c <= d, CanPass(c, id)
  PROVE  CanPass(d, id)
<1>1. CASE id < c
  BY <1>1 DEF CanPass
<1>2. CASE id # UIntMax
  BY <1>2 DEF CanPass
<1> QED
  BY <1>1, <1>2 DEF CanPass

\* An object with its id and its layer.
Placed(object, id, layer) == [object EXCEPT !.id = id, !.layer = layer]

\* An object placed under an id on a layer is an object with that id and layer.
LEMMA PlacedIs ==
  ASSUME NEW object \in ObjectType, NEW id \in Nat, NEW layer \in Nat
  PROVE  /\ Placed(object, id, layer) \in ObjectType
         /\ Placed(object, id, layer).id = id
         /\ Placed(object, id, layer).layer = layer
         /\ object.id = id /\ object.layer = layer => Placed(object, id, layer) = object
BY DEF Placed, ObjectType

\* A layer that exists is kept; else the active layer stands in for it.
LEMMA LayerForIs ==
  ASSUME NEW N, NEW layers \in Layers(N), NEW active \in Nat, NEW id \in Nat
  PROVE  /\ LayerFor(layers, active, id) \in Nat
         /\ id \in IdsOf(layers) => LayerFor(layers, active, id) = id
         /\ active \in IdsOf(layers) => LayerFor(layers, active, id) \in IdsOf(layers)
BY DEF LayerFor, DefaultLayer

\* What document_append_object makes of the parts: an object more at the end.
LEMMA AppendObjectIs ==
  ASSUME NEW N, NEW doc \in DocumentType(N), NEW object \in ObjectType,
         NEW id \in Nat, NEW layer \in Nat
  PROVE  /\ AppendObject(doc, object, id, layer)
              = Doc(Append(doc.objects, Placed(object, id, LayerFor(doc.layers, doc.active, layer))),
                    doc.layers, doc.active, Past(doc.nextId, id), doc.nextLayer, TRUE)
         /\ AppendObject(doc, object, id, layer) \in DocumentType(N)
         /\ CanPass(doc.nextId, id) => Advance(doc, AppendObject(doc, object, id, layer))
<1> DEFINE placed == Placed(object, id, LayerFor(doc.layers, doc.active, layer))
           e == Doc(Append(doc.objects, placed), doc.layers, doc.active,
                    Past(doc.nextId, id), doc.nextLayer, TRUE)
<1>1. /\ doc.objects \in Objects /\ doc.layers \in Layers(N) /\ doc.active \in Nat
      /\ doc.nextId \in Nat /\ doc.nextLayer \in Nat
  BY DocumentIs
<1>2. LayerFor(doc.layers, doc.active, layer) \in Nat
  BY <1>1, LayerForIs
<1>3. placed \in ObjectType
  BY <1>2, PlacedIs
<1> HIDE DEF placed
<1>4. Append(doc.objects, placed) \in Objects
  BY <1>1, <1>3, AppendProperties DEF Objects
<1>5. /\ Past(doc.nextId, id) \in Nat
      /\ CanPass(doc.nextId, id) => doc.nextId <= Past(doc.nextId, id)
  BY <1>1, PastGrows
<1>l. doc.nextLayer <= doc.nextLayer
  BY <1>1
<1>6. AppendObject(doc, object, id, layer) = e
  <2>1. ResolvedLayer(doc, layer) = LayerFor(doc.layers, doc.active, layer)
    BY ResolvedLayerIs
  <2>2. [object EXCEPT !.id = id, !.layer = ResolvedLayer(doc, layer)] = placed
    BY <2>1 DEF placed, Placed
  <2> DEFINE objects == Append(doc.objects, placed)
             next == Past(doc.nextId, id)
  <2>3. AppendObject(doc, object, id, layer)
          = Touched([doc EXCEPT !.objects = objects, !.nextId = next])
    BY <2>2 DEF AppendObject, DocumentType
  <2> HIDE DEF objects, next
  <2>4. Touched([doc EXCEPT !.objects = objects, !.nextId = next])
          = Doc(objects, doc.layers, doc.active, next, doc.nextLayer, TRUE)
    BY TouchedIs
  <2> QED
    BY <2>3, <2>4 DEF objects, next
<1>7. e \in DocumentType(N)
  BY <1>1, <1>4, <1>5, DocTyped
<1>8. CanPass(doc.nextId, id) => Advance(doc, e)
  BY <1>1, <1>4, <1>5, <1>l, TouchedAdvances
<1> QED
  BY <1>6, <1>7, <1>8 DEF placed

\* What document_insert_object_clone makes of the parts: an object more, at most at the end.
LEMMA InsertObjectCloneIs ==
  ASSUME NEW N, NEW doc \in DocumentType(N), NEW object \in ObjectType, NEW index \in Nat \ {0}
  PROVE  /\ InsertObjectClone(doc, object, index)
              = Doc(InsertAt(doc.objects,
                             IF index > Len(doc.objects) THEN Len(doc.objects) + 1 ELSE index,
                             Placed(object, object.id,
                                    LayerFor(doc.layers, doc.active, object.layer))),
                    doc.layers, doc.active, Past(doc.nextId, object.id), doc.nextLayer, TRUE)
         /\ InsertObjectClone(doc, object, index) \in DocumentType(N)
         /\ CanPass(doc.nextId, object.id) => Advance(doc, InsertObjectClone(doc, object, index))
<1> DEFINE placed == Placed(object, object.id, LayerFor(doc.layers, doc.active, object.layer))
           at == IF index > Len(doc.objects) THEN Len(doc.objects) + 1 ELSE index
           e == Doc(InsertAt(doc.objects, at, placed), doc.layers, doc.active,
                    Past(doc.nextId, object.id), doc.nextLayer, TRUE)
<1>1. /\ doc.objects \in Objects /\ doc.layers \in Layers(N) /\ doc.active \in Nat
      /\ doc.nextId \in Nat /\ doc.nextLayer \in Nat
      /\ object.id \in Nat /\ object.layer \in Nat
  BY DocumentIs DEF ObjectType
<1>2. LayerFor(doc.layers, doc.active, object.layer) \in Nat
  BY <1>1, LayerForIs
<1>3. placed \in ObjectType
  BY <1>1, <1>2, PlacedIs
<1>p. placed = [object EXCEPT !.layer = LayerFor(doc.layers, doc.active, @)]
  BY <1>1, <1>2 DEF Placed, ObjectType
<1> HIDE DEF placed
<1>a. at \in 1 .. (Len(doc.objects) + 1)
  <2>1. Len(doc.objects) \in Nat
    BY <1>1, LenProperties DEF Objects
  <2> QED
    BY <2>1
<1>6. InsertObjectClone(doc, object, index) = e
  <2>1. ResolvedLayer(doc, object.layer) = LayerFor(doc.layers, doc.active, object.layer)
    BY ResolvedLayerIs
  <2>2. [object EXCEPT !.layer = ResolvedLayer(doc, @)] = placed
    BY <2>1, <1>p DEF ObjectType
  <2> DEFINE objects == InsertAt(doc.objects, at, placed)
             next == Past(doc.nextId, object.id)
  <2>3. InsertObjectClone(doc, object, index)
          = Touched([doc EXCEPT !.objects = objects, !.nextId = next])
    BY <2>2 DEF InsertObjectClone, DocumentType
  <2> HIDE DEF objects, next
  <2>4. Touched([doc EXCEPT !.objects = objects, !.nextId = next])
          = Doc(objects, doc.layers, doc.active, next, doc.nextLayer, TRUE)
    BY TouchedIs
  <2> QED
    BY <2>3, <2>4 DEF objects, next
<1> HIDE DEF at
<1>4. InsertAt(doc.objects, at, placed) \in Objects
  BY <1>1, <1>3, <1>a, InsertAtIs DEF Objects
<1>5. /\ Past(doc.nextId, object.id) \in Nat
      /\ CanPass(doc.nextId, object.id) => doc.nextId <= Past(doc.nextId, object.id)
  BY <1>1, PastGrows
<1>l. doc.nextLayer <= doc.nextLayer
  BY <1>1
<1>7. e \in DocumentType(N)
  BY <1>1, <1>4, <1>5, DocTyped
<1>8. CanPass(doc.nextId, object.id) => Advance(doc, e)
  BY <1>1, <1>4, <1>5, <1>l, TouchedAdvances
<1> QED
  BY <1>6, <1>7, <1>8 DEF placed, at

\* What document_remove_object makes of the parts: the object is gone, if it was there.
LEMMA RemoveObjectIs ==
  ASSUME NEW N, NEW doc \in DocumentType(N), NEW id
  PROVE  /\ RemoveObject(doc, id)
              = IF id \in IdsOf(doc.objects)
                THEN Doc(RemoveAt(doc.objects, IndexOf(doc.objects, id)), doc.layers, doc.active,
                         doc.nextId, doc.nextLayer, TRUE)
                ELSE doc
         /\ RemoveObject(doc, id) \in DocumentType(N)
         /\ Advance(doc, RemoveObject(doc, id))
<1>1. /\ doc.objects \in Objects /\ doc.layers \in Layers(N) /\ doc.active \in Nat
      /\ doc.nextId \in Nat /\ doc.nextLayer \in Nat
      /\ doc = Doc(doc.objects, doc.layers, doc.active, doc.nextId, doc.nextLayer, doc.revised)
  BY DocumentIs
<1>2. id \in ObjectIds(doc) <=> id \in IdsOf(doc.objects)
  BY QueriesAre
<1>3. CASE id \notin IdsOf(doc.objects)
  BY <1>2, <1>3, AdvanceReflexive DEF RemoveObject
<1>4. CASE id \in IdsOf(doc.objects)
  <2> DEFINE objects == RemoveAt(doc.objects, IndexOf(doc.objects, id))
             e == Doc(objects, doc.layers, doc.active, doc.nextId, doc.nextLayer, TRUE)
  <2>1. ObjectIndex(doc, id) = IndexOf(doc.objects, id)
    BY QueriesAre
  <2>2. IndexOf(doc.objects, id) \in 1 .. Len(doc.objects)
    BY <1>1, <1>4, IndexOfFinds DEF Objects
  <2>3. objects \in Objects
    BY <1>1, <2>2, RemoveAtIs DEF Objects
  <2>4. RemoveObject(doc, id) = e
    BY <1>1, <1>2, <1>4, <2>1 DEF RemoveObject, Touched, Doc
  <2> HIDE DEF objects
  <2>5. doc.nextId <= doc.nextId /\ doc.nextLayer <= doc.nextLayer
    BY <1>1
  <2>6. e \in DocumentType(N) /\ Advance(doc, e)
    BY <1>1, <2>3, <2>5, TouchedAdvances
  <2> QED
    BY <1>4, <2>4, <2>6 DEF objects
<1> QED
  BY <1>3, <1>4
-----------------------------------------------------------------------------
(* Elements that change in place *)

\* One element of a sequence is another.
Replaced(s, i, e) == [s EXCEPT ![i] = e]

\* A sequence with one element replaced.
LEMMA ReplacedIs ==
  ASSUME NEW S, NEW s \in Seq(S), NEW i \in 1 .. Len(s), NEW e \in S
  PROVE  /\ Replaced(s, i, e) \in Seq(S)
         /\ Len(Replaced(s, i, e)) = Len(s)
         /\ Replaced(s, i, e)[i] = e
         /\ \A j \in 1 .. Len(s) : j # i => Replaced(s, i, e)[j] = s[j]
<1> DEFINE t == Replaced(s, i, e)
<1>1. Len(s) \in Nat /\ s \in [1 .. Len(s) -> S] /\ DOMAIN s = 1 .. Len(s)
  BY LenProperties
<1>2. t \in [1 .. Len(s) -> S] /\ t[i] = e /\ \A j \in 1 .. Len(s) : j # i => t[j] = s[j]
  BY <1>1 DEF Replaced
<1> HIDE DEF t
<1>3. t \in Seq(S)
  BY <1>1, <1>2, IsASeq
<1>4. Len(t) = Len(s)
  BY <1>1, <1>2, <1>3, LenProperties
<1> QED
  BY <1>2, <1>3, <1>4 DEF t

\* A later replacement hides an earlier one.
LEMMA ReplacedTwice ==
  ASSUME NEW S, NEW s \in Seq(S), NEW i \in 1 .. Len(s), NEW e \in S, NEW f \in S
  PROVE  Replaced(Replaced(s, i, e), i, f) = Replaced(s, i, f)
<1> DEFINE t == Replaced(s, i, e)
           u == Replaced(t, i, f)
           v == Replaced(s, i, f)
<1>1. /\ t \in Seq(S) /\ Len(t) = Len(s) /\ t[i] = e
      /\ \A j \in 1 .. Len(s) : j # i => t[j] = s[j]
  BY ReplacedIs
<1>2. /\ v \in Seq(S) /\ Len(v) = Len(s) /\ v[i] = f
      /\ \A j \in 1 .. Len(s) : j # i => v[j] = s[j]
  BY ReplacedIs
<1> HIDE DEF t, v
<1>3. /\ u \in Seq(S) /\ Len(u) = Len(t) /\ u[i] = f
      /\ \A j \in 1 .. Len(t) : j # i => u[j] = t[j]
  BY <1>1, ReplacedIs
<1> HIDE DEF u
<1>4. u = v
  BY <1>1, <1>2, <1>3, SeqEqual
<1> QED
  BY <1>4 DEF t, u, v

\* Replacing an element by itself changes nothing.
LEMMA ReplacedBySame ==
  ASSUME NEW S, NEW s \in Seq(S), NEW i \in 1 .. Len(s)
  PROVE  Replaced(s, i, s[i]) = s
<1>1. s \in [1 .. Len(s) -> S]
  BY LenProperties
<1> QED
  BY <1>1 DEF Replaced

\* An object or a layer with another value of a property.
Updated(e, key, value) == [e EXCEPT ![key] = value]

\* A scalar of an object, set, set again and set back.
LEMMA UpdatedObject ==
  ASSUME NEW e \in ObjectType, NEW key \in {"x", "width"}, NEW v \in Int, NEW w \in Int
  PROVE  /\ e[key] \in Int
         /\ Updated(e, key, v) \in ObjectType
         /\ Updated(e, key, v).id = e.id
         /\ Updated(e, key, v).layer = e.layer
         /\ Updated(e, key, v)[key] = v
         /\ Updated(Updated(e, key, v), key, w) = Updated(e, key, w)
         /\ Updated(e, key, e[key]) = e
<1>1. CASE key = "x"
  BY <1>1 DEF Updated, ObjectType
<1>2. CASE key = "width"
  BY <1>2 DEF Updated, ObjectType
<1> QED
  BY <1>1, <1>2

\* The values of a layer's attribute.
AttributeValues(N, attribute) == IF attribute = "name" THEN N ELSE BOOLEAN

LayerAttributes == {"visible", "locked", "name"}

\* An attribute of a layer, set, set again and set back.
LEMMA UpdatedLayer ==
  ASSUME NEW N, NEW e \in LayerType(N), NEW key \in LayerAttributes,
         NEW v \in AttributeValues(N, key), NEW w \in AttributeValues(N, key)
  PROVE  /\ e[key] \in AttributeValues(N, key)
         /\ Updated(e, key, v) \in LayerType(N)
         /\ Updated(e, key, v).id = e.id
         /\ Updated(e, key, v)[key] = v
         /\ Updated(Updated(e, key, v), key, w) = Updated(e, key, w)
         /\ Updated(e, key, e[key]) = e
<1>1. CASE key = "visible"
  BY <1>1 DEF Updated, LayerType, AttributeValues
<1>2. CASE key = "locked"
  BY <1>2 DEF Updated, LayerType, AttributeValues
<1>3. CASE key = "name"
  BY <1>3 DEF Updated, LayerType, AttributeValues
<1> QED
  BY <1>1, <1>2, <1>3 DEF LayerAttributes

\* An object that is moved if it is one of these.
Shifted(object, ids, delta) ==
  IF object.id \in ids THEN Translated(object, delta) ELSE object

\* An object moved keeps its id and layer; two moves add up, and one by 0 is none.
LEMMA ShiftedIs ==
  ASSUME NEW object \in ObjectType, NEW ids, NEW d \in Int, NEW e \in Int
  PROVE  /\ Shifted(object, ids, d) \in ObjectType
         /\ Shifted(object, ids, d).id = object.id
         /\ Shifted(object, ids, d).layer = object.layer
         /\ Shifted(Shifted(object, ids, d), ids, e) = Shifted(object, ids, d + e)
         /\ Shifted(object, ids, 0) = object
<1>1. CASE object.id \in ids
  <2> DEFINE Object0(x) == [id |-> object.id, layer |-> object.layer, x |-> x, width |-> object.width]
             a == Object0(object.x + d)
             b == Object0(object.x + (d + e))
  <2>1. object = Object0(object.x) /\ object.x \in Int
    BY DEF ObjectType
  <2>2. Shifted(object, ids, d) = a /\ Shifted(object, ids, d + e) = b
    BY <1>1, <2>1 DEF Shifted, Translated
  <2>3. a \in ObjectType /\ a.id = object.id /\ a.layer = object.layer
    BY DEF ObjectType
  <2>4. Shifted(a, ids, e) = b
    BY <1>1, <2>1 DEF Shifted, Translated
  <2>5. Shifted(object, ids, 0) = object
    BY <1>1, <2>1 DEF Shifted, Translated
  <2> QED
    BY <2>2, <2>3, <2>4, <2>5
<1>2. CASE object.id \notin ids
  BY <1>2 DEF Shifted, Translated, ObjectType
<1> QED
  BY <1>1, <1>2

\* An object moved is an object with the same id on the same layer.
LEMMA ShiftedKeeps ==
  ASSUME NEW object \in ObjectType, NEW ids, NEW d \in Int
  PROVE  /\ Shifted(object, ids, d) \in ObjectType
         /\ Shifted(object, ids, d).id = object.id
         /\ Shifted(object, ids, d).layer = object.layer
<1>1. 0 \in Int
  OBVIOUS
<1> QED
  BY <1>1, ShiftedIs

\* The objects after a move.
MovedBy(objects, ids, delta) == [i \in DOMAIN objects |-> Shifted(objects[i], ids, delta)]

\* The objects of a document after a move, one by one.
LEMMA MovedByIs ==
  ASSUME NEW s \in Objects, NEW ids, NEW d \in Int
  PROVE  /\ MovedBy(s, ids, d) \in Objects
         /\ Len(MovedBy(s, ids, d)) = Len(s)
         /\ \A i \in 1 .. Len(s) : MovedBy(s, ids, d)[i] = Shifted(s[i], ids, d)
<1> DEFINE S == ObjectType
           t == MovedBy(s, ids, d)
<1>1. Len(s) \in Nat /\ s \in [1 .. Len(s) -> S] /\ DOMAIN s = 1 .. Len(s)
  BY LenProperties DEF Objects
<1>2. \A i \in 1 .. Len(s) : Shifted(s[i], ids, d) \in S
  BY <1>1, ShiftedIs
<1> HIDE DEF S
<1>3. t \in [1 .. Len(s) -> S] /\ \A i \in 1 .. Len(s) : t[i] = Shifted(s[i], ids, d)
  BY <1>1, <1>2 DEF MovedBy
<1> HIDE DEF t
<1>4. t \in Seq(S)
  BY <1>1, <1>3, IsASeq
<1>5. Len(t) = Len(s)
  BY <1>1, <1>3, <1>4, LenProperties
<1> QED
  BY <1>3, <1>4, <1>5 DEF t, Objects, S

\* Two moves are one, and a move by nothing is none.
LEMMA MovedByTwice ==
  ASSUME NEW s \in Objects, NEW ids, NEW d \in Int, NEW e \in Int
  PROVE  /\ MovedBy(MovedBy(s, ids, d), ids, e) = MovedBy(s, ids, d + e)
         /\ MovedBy(s, ids, 0) = s
<1> DEFINE S == ObjectType
           t == MovedBy(s, ids, d)
           u == MovedBy(t, ids, e)
           v == MovedBy(s, ids, d + e)
           z == MovedBy(s, ids, 0)
<1>0. d + e \in Int /\ 0 \in Int
  OBVIOUS
<1>1. /\ t \in Objects /\ Len(t) = Len(s)
      /\ \A i \in 1 .. Len(s) : t[i] = Shifted(s[i], ids, d)
  BY MovedByIs
<1>2. /\ v \in Objects /\ Len(v) = Len(s)
      /\ \A i \in 1 .. Len(s) : v[i] = Shifted(s[i], ids, d + e)
  <2> DEFINE f == d + e
  <2>1. f \in Int
    OBVIOUS
  <2> HIDE DEF f
  <2> QED
    BY <2>1, MovedByIs DEF f
<1>3. /\ z \in Objects /\ Len(z) = Len(s)
      /\ \A i \in 1 .. Len(s) : z[i] = Shifted(s[i], ids, 0)
  BY <1>0, MovedByIs
<1> HIDE DEF t, v, z
<1>4. /\ u \in Objects /\ Len(u) = Len(t)
      /\ \A i \in 1 .. Len(t) : u[i] = Shifted(t[i], ids, e)
  BY <1>1, MovedByIs
<1> HIDE DEF u
<1>5. \A i \in 1 .. Len(s) : s[i] \in ObjectType
  BY ElementOfSeq DEF Objects
<1>6. \A i \in 1 .. Len(s) : u[i] = v[i]
  BY <1>1, <1>2, <1>4, <1>5, ShiftedIs
<1>7. \A i \in 1 .. Len(s) : z[i] = s[i]
  BY <1>3, <1>5, ShiftedIs
<1>8. u = v /\ z = s
  BY <1>1, <1>2, <1>3, <1>4, <1>6, <1>7, SeqEqual DEF Objects
<1> QED
  BY <1>8 DEF t, u, v, z
-----------------------------------------------------------------------------
(* The operators that set something *)

\* What document_translate_objects makes of the parts.
LEMMA TranslateObjectsIs ==
  ASSUME NEW N, NEW doc \in DocumentType(N), NEW ids, NEW delta \in Int
  PROVE  /\ Content(TranslateObjects(doc, ids, delta))
              = View(MovedBy(doc.objects, ids, delta), doc.layers, doc.active)
         /\ TranslateObjects(doc, ids, delta) \in DocumentType(N)
         /\ Advance(doc, TranslateObjects(doc, ids, delta))
<1> DEFINE objects == MovedBy(doc.objects, ids, delta)
           e == Doc(objects, doc.layers, doc.active, doc.nextId, doc.nextLayer, TRUE)
<1>1. /\ doc.objects \in Objects /\ doc.layers \in Layers(N) /\ doc.active \in Nat
      /\ doc.nextId \in Nat /\ doc.nextLayer \in Nat
  BY DocumentIs
<1>2. objects \in Objects
  BY <1>1, MovedByIs
<1>4. TranslateObjects(doc, ids, delta) = Touched([doc EXCEPT !.objects = objects])
  BY DEF TranslateObjects, MovedBy, Shifted
<1> HIDE DEF objects
<1>5. Touched([doc EXCEPT !.objects = objects]) = e
  BY TouchedIs
<1>6. doc.nextId <= doc.nextId /\ doc.nextLayer <= doc.nextLayer
  BY <1>1
<1>7. e \in DocumentType(N) /\ Advance(doc, e)
  BY <1>1, <1>2, <1>6, TouchedAdvances
<1>8. Content(e) = View(objects, doc.layers, doc.active)
  BY DEF Doc, Content, View
<1> QED
  BY <1>4, <1>5, <1>7, <1>8 DEF objects

\* What setting a scalar of an object makes of the parts.
LEMMA SetScalarIs ==
  ASSUME NEW N, NEW doc \in DocumentType(N), NEW id \in IdsOf(doc.objects),
         NEW key \in {"x", "width"}, NEW value \in Int
  PROVE  /\ Content(SetScalar(doc, id, key, value))
              = View(Replaced(doc.objects, IndexOf(doc.objects, id),
                              Updated(doc.objects[IndexOf(doc.objects, id)], key, value)),
                     doc.layers, doc.active)
         /\ SetScalar(doc, id, key, value) \in DocumentType(N)
         /\ Advance(doc, SetScalar(doc, id, key, value))
<1> DEFINE k == IndexOf(doc.objects, id)
           updated == Updated(doc.objects[k], key, value)
           objects == Replaced(doc.objects, k, updated)
           e == Doc(objects, doc.layers, doc.active, doc.nextId, doc.nextLayer, TRUE)
<1>1. /\ doc.objects \in Objects /\ doc.layers \in Layers(N) /\ doc.active \in Nat
      /\ doc.nextId \in Nat /\ doc.nextLayer \in Nat
  BY DocumentIs
<1>2. k \in 1 .. Len(doc.objects)
  BY <1>1, IndexOfFinds DEF Objects
<1>k. ObjectIndex(doc, id) = k
  BY QueriesAre
<1> HIDE DEF k
<1>3. doc.objects[k] \in ObjectType
  BY <1>1, <1>2, ElementOfSeq DEF Objects
<1>4. updated \in ObjectType
  BY <1>3, UpdatedObject
<1>5. SetScalar(doc, id, key, value) = Touched([doc EXCEPT !.objects = objects])
  BY <1>k DEF SetScalar, Replaced, Updated, DocumentType
<1> HIDE DEF updated
<1>6. objects \in Objects
  BY <1>1, <1>2, <1>4, ReplacedIs DEF Objects
<1> HIDE DEF objects
<1>7. Touched([doc EXCEPT !.objects = objects]) = e
  BY TouchedIs
<1>8. doc.nextId <= doc.nextId /\ doc.nextLayer <= doc.nextLayer
  BY <1>1
<1>9. e \in DocumentType(N) /\ Advance(doc, e)
  BY <1>1, <1>6, <1>8, TouchedAdvances
<1>10. Content(e) = View(objects, doc.layers, doc.active)
  BY DEF Doc, Content, View
<1> QED
  BY <1>5, <1>7, <1>9, <1>10 DEF objects, updated, k

\* What document_set_active_layer makes of the parts.
LEMMA SetActiveLayerIs ==
  ASSUME NEW N, NEW doc \in DocumentType(N), NEW id \in Nat
  PROVE  /\ Content(SetActiveLayer(doc, id)) = View(doc.objects, doc.layers, id)
         /\ SetActiveLayer(doc, id) \in DocumentType(N)
         /\ Advance(doc, SetActiveLayer(doc, id))
<1> DEFINE e == Doc(doc.objects, doc.layers, id, doc.nextId, doc.nextLayer, TRUE)
<1>1. /\ doc.objects \in Objects /\ doc.layers \in Layers(N) /\ doc.active \in Nat
      /\ doc.nextId \in Nat /\ doc.nextLayer \in Nat
  BY DocumentIs
<1>2. CASE doc.active = id
  BY <1>2, ContentIs, AdvanceReflexive DEF SetActiveLayer
<1>3. CASE doc.active # id
  <2>1. SetActiveLayer(doc, id) = Touched([doc EXCEPT !.active = id])
    BY <1>3 DEF SetActiveLayer
  <2>2. Touched([doc EXCEPT !.active = id]) = e
    BY TouchedIs
  <2>3. doc.nextId <= doc.nextId /\ doc.nextLayer <= doc.nextLayer
    BY <1>1
  <2>4. e \in DocumentType(N) /\ Advance(doc, e)
    BY <1>1, <2>3, TouchedAdvances
  <2>5. Content(e) = View(doc.objects, doc.layers, id)
    BY DEF Doc, Content, View
  <2> QED
    BY <2>1, <2>2, <2>4, <2>5
<1> QED
  BY <1>2, <1>3

\* What inserting a layer makes of the parts: a layer more, at most on top.
LEMMA InsertLayerIs ==
  ASSUME NEW N, NEW doc \in DocumentType(N), NEW layer \in LayerType(N), NEW index \in Nat \ {0}
  PROVE  /\ InsertLayer(doc, layer, index)
              = Doc(doc.objects,
                    InsertAt(doc.layers,
                             IF index > Len(doc.layers) THEN Len(doc.layers) + 1 ELSE index, layer),
                    doc.active, doc.nextId, Past(doc.nextLayer, layer.id), TRUE)
         /\ InsertLayer(doc, layer, index) \in DocumentType(N)
         /\ CanPass(doc.nextLayer, layer.id) => Advance(doc, InsertLayer(doc, layer, index))
<1> DEFINE at == IF index > Len(doc.layers) THEN Len(doc.layers) + 1 ELSE index
           layers == InsertAt(doc.layers, at, layer)
           next == Past(doc.nextLayer, layer.id)
           e == Doc(doc.objects, layers, doc.active, doc.nextId, next, TRUE)
<1>1. /\ doc.objects \in Objects /\ doc.layers \in Layers(N) /\ doc.active \in Nat
      /\ doc.nextId \in Nat /\ doc.nextLayer \in Nat
  BY DocumentIs
<1>2. at \in 1 .. (Len(doc.layers) + 1)
  <2>1. Len(doc.layers) \in Nat
    BY <1>1, LenProperties DEF Layers
  <2> QED
    BY <2>1
<1>3. InsertLayer(doc, layer, index)
        = Touched([doc EXCEPT !.layers = layers, !.nextLayer = next])
  BY DEF InsertLayer, DocumentType
<1> HIDE DEF at
<1>4. layers \in Layers(N)
  BY <1>1, <1>2, InsertAtIs DEF Layers
<1>5. layer.id \in Nat
  BY DEF LayerType
<1>6. next \in Nat /\ (CanPass(doc.nextLayer, layer.id) => doc.nextLayer <= next)
  BY <1>1, <1>5, PastGrows
<1>7. doc.nextId <= doc.nextId
  BY <1>1
<1> HIDE DEF layers, next
<1>8. Touched([doc EXCEPT !.layers = layers, !.nextLayer = next]) = e
  BY TouchedIs
<1>9. e \in DocumentType(N)
  BY <1>1, <1>4, <1>6, DocTyped
<1>10. CanPass(doc.nextLayer, layer.id) => Advance(doc, e)
  BY <1>1, <1>4, <1>6, <1>7, TouchedAdvances
<1> QED
  BY <1>3, <1>8, <1>9, <1>10 DEF layers, next, at

\* What document_delete_layer makes of the parts, when it agrees to.
LEMMA DeleteLayerIs ==
  ASSUME NEW N, NEW doc \in DocumentType(N), NEW id \in IdsOf(doc.layers), Len(doc.layers) > 1
  PROVE  /\ Content(DeleteLayer(doc, id))
              = View(doc.objects, RemoveAt(doc.layers, IndexOf(doc.layers, id)),
                     IF doc.active = id
                     THEN RemoveAt(doc.layers, IndexOf(doc.layers, id))[1].id
                     ELSE doc.active)
         /\ DeleteLayer(doc, id) \in DocumentType(N)
         /\ Advance(doc, DeleteLayer(doc, id))
<1> DEFINE k == IndexOf(doc.layers, id)
           layers == RemoveAt(doc.layers, k)
           active == IF doc.active = id THEN layers[1].id ELSE doc.active
           e == Doc(doc.objects, layers, active, doc.nextId, doc.nextLayer, TRUE)
<1>1. /\ doc.objects \in Objects /\ doc.layers \in Layers(N) /\ doc.active \in Nat
      /\ doc.nextId \in Nat /\ doc.nextLayer \in Nat /\ Len(doc.layers) \in Nat
  BY DocumentIs, LenProperties DEF Layers
<1>2. k \in 1 .. Len(doc.layers)
  BY <1>1, IndexOfFinds DEF Layers
<1>k. LayerIndex(doc, id) = k
  BY QueriesAre
<1> HIDE DEF k
<1>3. layers \in Layers(N) /\ Len(layers) = Len(doc.layers) - 1
  BY <1>1, <1>2, RemoveAtIs DEF Layers
<1>4. DeleteLayer(doc, id) = Touched([doc EXCEPT !.layers = layers, !.active = active])
  BY <1>k DEF DeleteLayer, DocumentType
<1> HIDE DEF layers
<1>5. active \in Nat
  <2>1. 1 \in 1 .. Len(layers)
    BY <1>1, <1>3
  <2>2. layers[1] \in LayerType(N)
    BY <2>1, <1>3, ElementOfSeq DEF Layers
  <2>3. layers[1].id \in Nat
    BY <2>2 DEF LayerType
  <2> QED
    BY <1>1, <2>3
<1> HIDE DEF active
<1>6. Touched([doc EXCEPT !.layers = layers, !.active = active]) = e
  BY TouchedIs
<1>7. doc.nextId <= doc.nextId /\ doc.nextLayer <= doc.nextLayer
  BY <1>1
<1>8. e \in DocumentType(N) /\ Advance(doc, e)
  BY <1>1, <1>3, <1>5, <1>7, TouchedAdvances
<1>9. Content(e) = View(doc.objects, layers, active)
  BY DEF Doc, Content, View
<1> QED
  BY <1>4, <1>6, <1>8, <1>9 DEF active, layers, k

\* What setting the name, the visibility or the lock of a layer makes of the parts.
LEMMA SetLayerAttributeIs ==
  ASSUME NEW N, NEW doc \in DocumentType(N), NEW id \in IdsOf(doc.layers),
         NEW attribute \in LayerAttributes, NEW value \in AttributeValues(N, attribute)
  PROVE  /\ Content(SetLayerAttribute(doc, id, attribute, value))
              = View(doc.objects,
                     Replaced(doc.layers, IndexOf(doc.layers, id),
                              Updated(doc.layers[IndexOf(doc.layers, id)], attribute, value)),
                     doc.active)
         /\ SetLayerAttribute(doc, id, attribute, value) \in DocumentType(N)
         /\ Advance(doc, SetLayerAttribute(doc, id, attribute, value))
<1> DEFINE k == IndexOf(doc.layers, id)
           updated == Updated(doc.layers[k], attribute, value)
           layers == Replaced(doc.layers, k, updated)
           e == Doc(doc.objects, layers, doc.active, doc.nextId, doc.nextLayer, TRUE)
<1>1. /\ doc.objects \in Objects /\ doc.layers \in Layers(N) /\ doc.active \in Nat
      /\ doc.nextId \in Nat /\ doc.nextLayer \in Nat
  BY DocumentIs
<1>2. k \in 1 .. Len(doc.layers)
  BY <1>1, IndexOfFinds DEF Layers
<1>k. LayerIndex(doc, id) = k /\ Layer(doc, id) = doc.layers[k]
  BY QueriesAre
<1> HIDE DEF k
<1>3. doc.layers[k] \in LayerType(N)
  BY <1>1, <1>2, ElementOfSeq DEF Layers
<1>4. updated \in LayerType(N)
  BY <1>3, UpdatedLayer
<1>s. layers = [doc.layers EXCEPT ![k] = updated]
  BY DEF Replaced
<1>5. CASE doc.layers[k][attribute] = value
  <2>1. updated = doc.layers[k]
    BY <1>3, <1>5, UpdatedLayer
  <2> HIDE DEF updated
  <2>2. layers = doc.layers
    BY <1>1, <1>2, <2>1, ReplacedBySame DEF Layers
  <2> HIDE DEF layers
  <2>3. SetLayerAttribute(doc, id, attribute, value) = doc
    BY <1>k, <1>5 DEF SetLayerAttribute
  <2>4. Content(doc) = View(doc.objects, layers, doc.active)
    BY <2>2, ContentIs
  <2> QED
    BY <2>3, <2>4, AdvanceReflexive DEF layers, updated, k
<1>6. CASE doc.layers[k][attribute] # value
  <2>1. SetLayerAttribute(doc, id, attribute, value) = Touched([doc EXCEPT !.layers = layers])
    BY <1>k, <1>6 DEF SetLayerAttribute, Replaced, Updated, DocumentType
  <2> HIDE DEF updated
  <2>2. layers \in Layers(N)
    BY <1>1, <1>2, <1>4, ReplacedIs DEF Layers
  <2> HIDE DEF layers
  <2>3. Touched([doc EXCEPT !.layers = layers]) = e
    BY TouchedIs
  <2>4. doc.nextId <= doc.nextId /\ doc.nextLayer <= doc.nextLayer
    BY <1>1
  <2>5. e \in DocumentType(N) /\ Advance(doc, e)
    BY <1>1, <2>2, <2>4, TouchedAdvances
  <2>6. Content(e) = View(doc.objects, layers, doc.active)
    BY DEF Doc, Content, View
  <2> QED
    BY <2>1, <2>3, <2>5, <2>6 DEF layers, updated, k
<1> QED
  BY <1>5, <1>6

\* The layers after one of them has been moved.
Reordered(layers, id, index) ==
  InsertAt(RemoveAt(layers, IndexOf(layers, id)), index, layers[IndexOf(layers, id)])

\* What document_move_layer makes of the parts.
LEMMA MoveLayerIs ==
  ASSUME NEW N, NEW doc \in DocumentType(N), NEW id \in IdsOf(doc.layers),
         NEW index \in 1 .. Len(doc.layers)
  PROVE  /\ Content(MoveLayer(doc, id, index))
              = View(doc.objects, Reordered(doc.layers, id, index), doc.active)
         /\ MoveLayer(doc, id, index) \in DocumentType(N)
         /\ Advance(doc, MoveLayer(doc, id, index))
<1> DEFINE k == IndexOf(doc.layers, id)
           moved == doc.layers[k]
           rest == RemoveAt(doc.layers, k)
           layers == InsertAt(rest, index, moved)
           e == Doc(doc.objects, layers, doc.active, doc.nextId, doc.nextLayer, TRUE)
<1>1. /\ doc.objects \in Objects /\ doc.layers \in Layers(N) /\ doc.active \in Nat
      /\ doc.nextId \in Nat /\ doc.nextLayer \in Nat /\ Len(doc.layers) \in Nat
  BY DocumentIs, LenProperties DEF Layers
<1>2. k \in 1 .. Len(doc.layers)
  BY <1>1, IndexOfFinds DEF Layers
<1>k. LayerIndex(doc, id) = k /\ Layer(doc, id) = moved
  BY QueriesAre
<1>r. Reordered(doc.layers, id, index) = layers
  BY DEF Reordered
<1> HIDE DEF k
<1>3. moved \in LayerType(N)
  BY <1>1, <1>2, ElementOfSeq DEF Layers
<1>4. rest \in Layers(N) /\ Len(rest) = Len(doc.layers) - 1
  BY <1>1, <1>2, RemoveAtIs DEF Layers
<1>5. CASE k = index
  <2>1. layers = doc.layers
    BY <1>1, <1>2, <1>5, InsertRemoved DEF Layers
  <2> HIDE DEF layers
  <2>2. MoveLayer(doc, id, index) = doc
    BY <1>k, <1>5 DEF MoveLayer
  <2>3. Content(doc) = View(doc.objects, layers, doc.active)
    BY <2>1, ContentIs
  <2> QED
    BY <1>r, <2>2, <2>3, AdvanceReflexive
<1>6. CASE k # index
  <2>1. MoveLayer(doc, id, index) = Touched([doc EXCEPT !.layers = layers])
    BY <1>k, <1>6 DEF MoveLayer, DocumentType
  <2> HIDE DEF rest, moved
  <2>2. layers \in Layers(N)
    <3>1. index \in 1 .. (Len(rest) + 1)
      BY <1>1, <1>4
    <3> QED
      BY <1>3, <1>4, <3>1, InsertAtIs DEF Layers
  <2> HIDE DEF layers
  <2>3. Touched([doc EXCEPT !.layers = layers]) = e
    BY TouchedIs
  <2>4. doc.nextId <= doc.nextId /\ doc.nextLayer <= doc.nextLayer
    BY <1>1
  <2>5. e \in DocumentType(N) /\ Advance(doc, e)
    BY <1>1, <2>2, <2>4, TouchedAdvances
  <2>6. Content(e) = View(doc.objects, layers, doc.active)
    BY DEF Doc, Content, View
  <2> QED
    BY <1>r, <2>1, <2>3, <2>5, <2>6
<1> QED
  BY <1>5, <1>6
-----------------------------------------------------------------------------
(* The loops of the delete and of the paste command.  Each is a function   *)
(* defined by recursion, and these lemmas are its equations.               *)

\* The documents that DeleteExecuted makes on its way.
Deletions(command, doc) ==
  LET made[i \in 0 .. Len(command.objects)] ==
        IF i = 0 THEN doc ELSE RemoveObject(made[i - 1], command.objects[i].id)
  IN  made

\* The loop of the deletion's execute, object by object.
LEMMA DeletionsDef ==
  ASSUME NEW N, NEW doc \in DocumentType(N), NEW command, command.objects \in Objects
  PROVE  /\ DeleteExecuted(command, doc) = Deletions(command, doc)[Len(command.objects)]
         /\ Deletions(command, doc) \in [0 .. Len(command.objects) -> DocumentType(N)]
         /\ Deletions(command, doc)[0] = doc
         /\ \A i \in 1 .. Len(command.objects) :
              Deletions(command, doc)[i] = RemoveObject(Deletions(command, doc)[i - 1], command.objects[i].id)
<1> DEFINE n == Len(command.objects)
           A == DocumentType(N)
           Step(d, i) == RemoveObject(d, command.objects[i].id)
           step == [p \in A \X (1 .. n) |-> Step(p[1], p[2])]
<1>1. n \in Nat
  BY LenProperties DEF Objects
<1>2. ASSUME NEW d \in A, NEW i \in 1 .. n
      PROVE  Step(d, i) \in A
  BY RemoveObjectIs
<1>3. doc \in A
  OBVIOUS
<1> HIDE DEF A, Step
<1>4. step \in [A \X (1 .. n) -> A]
  BY <1>2
<1>5. ASSUME NEW d \in A, NEW i \in 1 .. n
      PROVE  step[<<d, i>>] = Step(d, i)
  OBVIOUS
<1> HIDE DEF step, n
<1>6. PICK g \in [0 .. n -> A] : g[0] = doc /\ \A i \in 1 .. n : g[i] = step[<<g[i - 1], i>>]
  BY ONLY <1>1, <1>3, <1>4, PrimitiveRecursion, SMTT(30)
<1> DEFINE Defines(made) == made = [i \in 0 .. n |-> IF i = 0 THEN doc ELSE Step(made[i - 1], i)]
           r == CHOOSE made : Defines(made)
<1>7. Defines(g)
  <2>1. ASSUME NEW i \in 0 .. n
        PROVE  g[i] = IF i = 0 THEN doc ELSE Step(g[i - 1], i)
    <3>1. CASE i = 0
      BY <3>1, <1>6
    <3>2. CASE i # 0
      <4>1. i \in 1 .. n /\ i - 1 \in 0 .. n
        BY <3>2, <1>1
      <4>2. g[i - 1] \in A
        BY <4>1, <1>6
      <4>3. g[i] = Step(g[i - 1], i)
        BY <4>1, <4>2, <1>5, <1>6
      <4> QED
        BY <3>2, <4>3
    <3> QED
      BY <3>1, <3>2
  <2> QED
    BY <2>1, <1>6
<1> HIDE DEF Defines
<1>8. Defines(r)
  BY <1>7
<1>9. Deletions(command, doc) = r /\ DeleteExecuted(command, doc) = r[n]
  BY Zenon DEF Deletions, DeleteExecuted, Defines, Step, n
<1>10. r = [i \in 0 .. n |-> IF i = 0 THEN doc ELSE Step(r[i - 1], i)]
  BY <1>8 DEF Defines
<1> HIDE DEF r
<1>11. r[0] = doc
  BY <1>1, <1>10
<1>12. ASSUME NEW i \in 1 .. n
       PROVE  r[i] = Step(r[i - 1], i)
  <2>1. i \in 0 .. n /\ i # 0
    BY <1>1
  <2> QED
    BY <2>1, <1>10
<1> DEFINE Reached == {i \in 0 .. n : r[i] \in A}
<1>13. 0 \in Reached
  BY <1>1, <1>3, <1>11
<1>14. ASSUME NEW i \in 1 .. n, i - 1 \in Reached
       PROVE  i \in Reached
  BY <1>1, <1>2, <1>12, <1>14
<1> HIDE DEF Reached
<1>15. \A i \in 0 .. n : i \in Reached
  BY <1>1, <1>13, <1>14, IntervalInduction
<1>16. r \in [0 .. n -> A]
  BY <1>10, <1>15 DEF Reached
<1>17. \A i \in 1 .. n : r[i] = RemoveObject(r[i - 1], command.objects[i].id)
  BY <1>12 DEF Step, n
<1> QED
  BY <1>9, <1>11, <1>16, <1>17 DEF A, n

\* The documents that DeleteUndone makes on its way.
Restorations(command, doc) ==
  LET made[i \in 0 .. Len(command.objects)] ==
        IF i = 0 THEN doc ELSE InsertObjectClone(made[i - 1], command.objects[i], command.indices[i])
  IN  made

\* The loop of the deletion's undo, object by object.
LEMMA RestorationsDef ==
  ASSUME NEW N, NEW doc \in DocumentType(N), NEW command, command.objects \in Objects,
         command.indices \in Seq(Nat \ {0}), Len(command.indices) = Len(command.objects)
  PROVE  /\ DeleteUndone(command, doc) = Restorations(command, doc)[Len(command.objects)]
         /\ Restorations(command, doc) \in [0 .. Len(command.objects) -> DocumentType(N)]
         /\ Restorations(command, doc)[0] = doc
         /\ \A i \in 1 .. Len(command.objects) :
              Restorations(command, doc)[i] = InsertObjectClone(Restorations(command, doc)[i - 1], command.objects[i], command.indices[i])
<1> DEFINE n == Len(command.objects)
           A == DocumentType(N)
           Step(d, i) == InsertObjectClone(d, command.objects[i], command.indices[i])
           step == [p \in A \X (1 .. n) |-> Step(p[1], p[2])]
<1>1. n \in Nat
  BY LenProperties DEF Objects
<1>2. ASSUME NEW d \in A, NEW i \in 1 .. n
      PROVE  Step(d, i) \in A
  <2>1. command.objects[i] \in ObjectType
    BY <1>1, ElementOfSeq DEF Objects
  <2>2. command.indices[i] \in Nat \ {0}
    BY <1>1, ElementOfSeq
  <2> QED
    BY <2>1, <2>2, InsertObjectCloneIs
<1>3. doc \in A
  OBVIOUS
<1> HIDE DEF A, Step
<1>4. step \in [A \X (1 .. n) -> A]
  BY <1>2
<1>5. ASSUME NEW d \in A, NEW i \in 1 .. n
      PROVE  step[<<d, i>>] = Step(d, i)
  OBVIOUS
<1> HIDE DEF step, n
<1>6. PICK g \in [0 .. n -> A] : g[0] = doc /\ \A i \in 1 .. n : g[i] = step[<<g[i - 1], i>>]
  BY ONLY <1>1, <1>3, <1>4, PrimitiveRecursion, SMTT(30)
<1> DEFINE Defines(made) == made = [i \in 0 .. n |-> IF i = 0 THEN doc ELSE Step(made[i - 1], i)]
           r == CHOOSE made : Defines(made)
<1>7. Defines(g)
  <2>1. ASSUME NEW i \in 0 .. n
        PROVE  g[i] = IF i = 0 THEN doc ELSE Step(g[i - 1], i)
    <3>1. CASE i = 0
      BY <3>1, <1>6
    <3>2. CASE i # 0
      <4>1. i \in 1 .. n /\ i - 1 \in 0 .. n
        BY <3>2, <1>1
      <4>2. g[i - 1] \in A
        BY <4>1, <1>6
      <4>3. g[i] = Step(g[i - 1], i)
        BY <4>1, <4>2, <1>5, <1>6
      <4> QED
        BY <3>2, <4>3
    <3> QED
      BY <3>1, <3>2
  <2> QED
    BY <2>1, <1>6
<1> HIDE DEF Defines
<1>8. Defines(r)
  BY <1>7
<1>9. Restorations(command, doc) = r /\ DeleteUndone(command, doc) = r[n]
  BY Zenon DEF Restorations, DeleteUndone, Defines, Step, n
<1>10. r = [i \in 0 .. n |-> IF i = 0 THEN doc ELSE Step(r[i - 1], i)]
  BY <1>8 DEF Defines
<1> HIDE DEF r
<1>11. r[0] = doc
  BY <1>1, <1>10
<1>12. ASSUME NEW i \in 1 .. n
       PROVE  r[i] = Step(r[i - 1], i)
  <2>1. i \in 0 .. n /\ i # 0
    BY <1>1
  <2> QED
    BY <2>1, <1>10
<1> DEFINE Reached == {i \in 0 .. n : r[i] \in A}
<1>13. 0 \in Reached
  BY <1>1, <1>3, <1>11
<1>14. ASSUME NEW i \in 1 .. n, i - 1 \in Reached
       PROVE  i \in Reached
  BY <1>1, <1>2, <1>12, <1>14
<1> HIDE DEF Reached
<1>15. \A i \in 0 .. n : i \in Reached
  BY <1>1, <1>13, <1>14, IntervalInduction
<1>16. r \in [0 .. n -> A]
  BY <1>10, <1>15 DEF Reached
<1>17. \A i \in 1 .. n : r[i] = InsertObjectClone(r[i - 1], command.objects[i], command.indices[i])
  BY <1>12 DEF Step, n
<1> QED
  BY <1>9, <1>11, <1>16, <1>17 DEF A, n

\* The documents that PasteExecuted makes on its way.
Additions(command, doc) ==
  LET made[i \in 0 .. Len(command.objects)] ==
        IF i = 0 THEN doc ELSE AppendObject(made[i - 1], command.objects[i], command.objects[i].id, command.layer)
  IN  made

\* The loop of the paste's execute, object by object.
LEMMA AdditionsDef ==
  ASSUME NEW N, NEW doc \in DocumentType(N), NEW command, command.objects \in Objects,
         command.layer \in Nat
  PROVE  /\ PasteExecuted(command, doc) = Additions(command, doc)[Len(command.objects)]
         /\ Additions(command, doc) \in [0 .. Len(command.objects) -> DocumentType(N)]
         /\ Additions(command, doc)[0] = doc
         /\ \A i \in 1 .. Len(command.objects) :
              Additions(command, doc)[i] = AppendObject(Additions(command, doc)[i - 1], command.objects[i], command.objects[i].id, command.layer)
<1> DEFINE n == Len(command.objects)
           A == DocumentType(N)
           Step(d, i) == AppendObject(d, command.objects[i], command.objects[i].id, command.layer)
           step == [p \in A \X (1 .. n) |-> Step(p[1], p[2])]
<1>1. n \in Nat
  BY LenProperties DEF Objects
<1>2. ASSUME NEW d \in A, NEW i \in 1 .. n
      PROVE  Step(d, i) \in A
  <2>1. command.objects[i] \in ObjectType
    BY <1>1, ElementOfSeq DEF Objects
  <2>2. command.objects[i].id \in Nat
    BY <2>1 DEF ObjectType
  <2> QED
    BY <2>1, <2>2, AppendObjectIs
<1>3. doc \in A
  OBVIOUS
<1> HIDE DEF A, Step
<1>4. step \in [A \X (1 .. n) -> A]
  BY <1>2
<1>5. ASSUME NEW d \in A, NEW i \in 1 .. n
      PROVE  step[<<d, i>>] = Step(d, i)
  OBVIOUS
<1> HIDE DEF step, n
<1>6. PICK g \in [0 .. n -> A] : g[0] = doc /\ \A i \in 1 .. n : g[i] = step[<<g[i - 1], i>>]
  BY ONLY <1>1, <1>3, <1>4, PrimitiveRecursion, SMTT(30)
<1> DEFINE Defines(made) == made = [i \in 0 .. n |-> IF i = 0 THEN doc ELSE Step(made[i - 1], i)]
           r == CHOOSE made : Defines(made)
<1>7. Defines(g)
  <2>1. ASSUME NEW i \in 0 .. n
        PROVE  g[i] = IF i = 0 THEN doc ELSE Step(g[i - 1], i)
    <3>1. CASE i = 0
      BY <3>1, <1>6
    <3>2. CASE i # 0
      <4>1. i \in 1 .. n /\ i - 1 \in 0 .. n
        BY <3>2, <1>1
      <4>2. g[i - 1] \in A
        BY <4>1, <1>6
      <4>3. g[i] = Step(g[i - 1], i)
        BY <4>1, <4>2, <1>5, <1>6
      <4> QED
        BY <3>2, <4>3
    <3> QED
      BY <3>1, <3>2
  <2> QED
    BY <2>1, <1>6
<1> HIDE DEF Defines
<1>8. Defines(r)
  BY <1>7
<1>9. Additions(command, doc) = r /\ PasteExecuted(command, doc) = r[n]
  BY Zenon DEF Additions, PasteExecuted, Defines, Step, n
<1>10. r = [i \in 0 .. n |-> IF i = 0 THEN doc ELSE Step(r[i - 1], i)]
  BY <1>8 DEF Defines
<1> HIDE DEF r
<1>11. r[0] = doc
  BY <1>1, <1>10
<1>12. ASSUME NEW i \in 1 .. n
       PROVE  r[i] = Step(r[i - 1], i)
  <2>1. i \in 0 .. n /\ i # 0
    BY <1>1
  <2> QED
    BY <2>1, <1>10
<1> DEFINE Reached == {i \in 0 .. n : r[i] \in A}
<1>13. 0 \in Reached
  BY <1>1, <1>3, <1>11
<1>14. ASSUME NEW i \in 1 .. n, i - 1 \in Reached
       PROVE  i \in Reached
  BY <1>1, <1>2, <1>12, <1>14
<1> HIDE DEF Reached
<1>15. \A i \in 0 .. n : i \in Reached
  BY <1>1, <1>13, <1>14, IntervalInduction
<1>16. r \in [0 .. n -> A]
  BY <1>10, <1>15 DEF Reached
<1>17. \A i \in 1 .. n : r[i] = AppendObject(r[i - 1], command.objects[i], command.objects[i].id, command.layer)
  BY <1>12 DEF Step, n
<1> QED
  BY <1>9, <1>11, <1>16, <1>17 DEF A, n

\* The documents that PasteUndone makes on its way.
Withdrawals(command, doc) ==
  LET n == Len(command.objects)
      made[i \in 0 .. n] ==
        IF i = 0 THEN doc ELSE RemoveObject(made[i - 1], command.objects[n - i + 1].id)
  IN  made

\* The loop of the paste's undo, object by object.
LEMMA WithdrawalsDef ==
  ASSUME NEW N, NEW doc \in DocumentType(N), NEW command, command.objects \in Objects
  PROVE  /\ PasteUndone(command, doc) = Withdrawals(command, doc)[Len(command.objects)]
         /\ Withdrawals(command, doc) \in [0 .. Len(command.objects) -> DocumentType(N)]
         /\ Withdrawals(command, doc)[0] = doc
         /\ \A i \in 1 .. Len(command.objects) :
              Withdrawals(command, doc)[i] = RemoveObject(Withdrawals(command, doc)[i - 1], command.objects[Len(command.objects) - i + 1].id)
<1> DEFINE n == Len(command.objects)
           A == DocumentType(N)
           Step(d, i) == RemoveObject(d, command.objects[n - i + 1].id)
           step == [p \in A \X (1 .. n) |-> Step(p[1], p[2])]
<1>1. n \in Nat
  BY LenProperties DEF Objects
<1>2. ASSUME NEW d \in A, NEW i \in 1 .. n
      PROVE  Step(d, i) \in A
  BY RemoveObjectIs
<1>3. doc \in A
  OBVIOUS
<1> HIDE DEF A, Step
<1>4. step \in [A \X (1 .. n) -> A]
  BY <1>2
<1>5. ASSUME NEW d \in A, NEW i \in 1 .. n
      PROVE  step[<<d, i>>] = Step(d, i)
  OBVIOUS
<1> HIDE DEF step, n
<1>6. PICK g \in [0 .. n -> A] : g[0] = doc /\ \A i \in 1 .. n : g[i] = step[<<g[i - 1], i>>]
  BY ONLY <1>1, <1>3, <1>4, PrimitiveRecursion, SMTT(30)
<1> DEFINE Defines(made) == made = [i \in 0 .. n |-> IF i = 0 THEN doc ELSE Step(made[i - 1], i)]
           r == CHOOSE made : Defines(made)
<1>7. Defines(g)
  <2>1. ASSUME NEW i \in 0 .. n
        PROVE  g[i] = IF i = 0 THEN doc ELSE Step(g[i - 1], i)
    <3>1. CASE i = 0
      BY <3>1, <1>6
    <3>2. CASE i # 0
      <4>1. i \in 1 .. n /\ i - 1 \in 0 .. n
        BY <3>2, <1>1
      <4>2. g[i - 1] \in A
        BY <4>1, <1>6
      <4>3. g[i] = Step(g[i - 1], i)
        BY <4>1, <4>2, <1>5, <1>6
      <4> QED
        BY <3>2, <4>3
    <3> QED
      BY <3>1, <3>2
  <2> QED
    BY <2>1, <1>6
<1> HIDE DEF Defines
<1>8. Defines(r)
  BY <1>7
<1>9. Withdrawals(command, doc) = r /\ PasteUndone(command, doc) = r[n]
  BY Zenon DEF Withdrawals, PasteUndone, Defines, Step, n
<1>10. r = [i \in 0 .. n |-> IF i = 0 THEN doc ELSE Step(r[i - 1], i)]
  BY <1>8 DEF Defines
<1> HIDE DEF r
<1>11. r[0] = doc
  BY <1>1, <1>10
<1>12. ASSUME NEW i \in 1 .. n
       PROVE  r[i] = Step(r[i - 1], i)
  <2>1. i \in 0 .. n /\ i # 0
    BY <1>1
  <2> QED
    BY <2>1, <1>10
<1> DEFINE Reached == {i \in 0 .. n : r[i] \in A}
<1>13. 0 \in Reached
  BY <1>1, <1>3, <1>11
<1>14. ASSUME NEW i \in 1 .. n, i - 1 \in Reached
       PROVE  i \in Reached
  BY <1>1, <1>2, <1>12, <1>14
<1> HIDE DEF Reached
<1>15. \A i \in 0 .. n : i \in Reached
  BY <1>1, <1>13, <1>14, IntervalInduction
<1>16. r \in [0 .. n -> A]
  BY <1>10, <1>15 DEF Reached
<1>17. \A i \in 1 .. n : r[i] = RemoveObject(r[i - 1], command.objects[Len(command.objects) - i + 1].id)
  BY <1>12 DEF Step, n
<1> QED
  BY <1>9, <1>11, <1>16, <1>17 DEF A, n
-----------------------------------------------------------------------------
(* What an operator makes of the content depends on the content alone *)

\* Appending an object gives the same content to documents of the same content.
LEMMA SameAppend ==
  ASSUME NEW N, NEW d \in DocumentType(N), NEW e \in DocumentType(N), Content(d) = Content(e),
         NEW object \in ObjectType, NEW id \in Nat, NEW layer \in Nat
  PROVE  Content(AppendObject(d, object, id, layer)) = Content(AppendObject(e, object, id, layer))
<1>1. d.objects = e.objects /\ d.layers = e.layers /\ d.active = e.active
  BY ContentIs
<1> DEFINE joined(objects, layers, active) ==
             Append(objects, Placed(object, id, LayerFor(layers, active, layer)))
<1>2. ASSUME NEW doc \in DocumentType(N)
      PROVE  Content(AppendObject(doc, object, id, layer))
               = View(joined(doc.objects, doc.layers, doc.active), doc.layers, doc.active)
  <2>1. AppendObject(doc, object, id, layer)
          = Doc(joined(doc.objects, doc.layers, doc.active), doc.layers, doc.active,
                Past(doc.nextId, id), doc.nextLayer, TRUE)
    BY AppendObjectIs
  <2> HIDE DEF joined
  <2> QED
    BY <2>1 DEF Doc, Content, View
<1> HIDE DEF joined
<1>3. /\ Content(AppendObject(d, object, id, layer))
           = View(joined(d.objects, d.layers, d.active), d.layers, d.active)
      /\ Content(AppendObject(e, object, id, layer))
           = View(joined(e.objects, e.layers, e.active), e.layers, e.active)
  BY <1>2
<1> QED
  BY <1>1, <1>3

\* So does inserting one at its old position.
LEMMA SameInsert ==
  ASSUME NEW N, NEW d \in DocumentType(N), NEW e \in DocumentType(N), Content(d) = Content(e),
         NEW object \in ObjectType, NEW index \in Nat \ {0}
  PROVE  Content(InsertObjectClone(d, object, index)) = Content(InsertObjectClone(e, object, index))
<1>1. d.objects = e.objects /\ d.layers = e.layers /\ d.active = e.active
  BY ContentIs
<1> DEFINE at(objects) == IF index > Len(objects) THEN Len(objects) + 1 ELSE index
           placed(layers, active) == Placed(object, object.id, LayerFor(layers, active, object.layer))
<1>2. ASSUME NEW doc \in DocumentType(N)
      PROVE  Content(InsertObjectClone(doc, object, index))
               = View(InsertAt(doc.objects, at(doc.objects), placed(doc.layers, doc.active)),
                      doc.layers, doc.active)
  BY InsertObjectCloneIs DEF Doc, Content, View
<1> HIDE DEF at, placed
<1>3. /\ Content(InsertObjectClone(d, object, index))
           = View(InsertAt(d.objects, at(d.objects), placed(d.layers, d.active)), d.layers, d.active)
      /\ Content(InsertObjectClone(e, object, index))
           = View(InsertAt(e.objects, at(e.objects), placed(e.layers, e.active)), e.layers, e.active)
  BY <1>2
<1> QED
  BY <1>1, <1>3

\* So does removing one.
LEMMA SameRemove ==
  ASSUME NEW N, NEW d \in DocumentType(N), NEW e \in DocumentType(N), Content(d) = Content(e),
         NEW id
  PROVE  Content(RemoveObject(d, id)) = Content(RemoveObject(e, id))
<1>1. d.objects = e.objects /\ d.layers = e.layers /\ d.active = e.active
  BY ContentIs
<1> DEFINE rest(objects) == IF id \in IdsOf(objects)
                            THEN RemoveAt(objects, IndexOf(objects, id)) ELSE objects
<1>2. ASSUME NEW doc \in DocumentType(N)
      PROVE  Content(RemoveObject(doc, id)) = View(rest(doc.objects), doc.layers, doc.active)
  <2>1. CASE id \in IdsOf(doc.objects)
    BY <2>1, RemoveObjectIs DEF Doc, Content, View
  <2>2. CASE id \notin IdsOf(doc.objects)
    BY <2>2, RemoveObjectIs, ContentIs, ZenonT(30)
  <2> QED
    BY <2>1, <2>2
<1> HIDE DEF rest
<1>3. /\ Content(RemoveObject(d, id)) = View(rest(d.objects), d.layers, d.active)
      /\ Content(RemoveObject(e, id)) = View(rest(e.objects), e.layers, e.active)
  BY <1>2
<1> QED
  BY <1>1, <1>3


\* The deletion's loop only advances the counters.
LEMMA DeletionsAdvance ==
  ASSUME NEW N, NEW doc \in DocumentType(N), NEW command, command.objects \in Objects
  PROVE  \A i \in 0 .. Len(command.objects) : Advance(doc, Deletions(command, doc)[i])
<1> DEFINE n == Len(command.objects)
           m == Deletions(command, doc)
<1>1. n \in Nat
  BY LenProperties DEF Objects
<1>2. /\ m \in [0 .. n -> DocumentType(N)]
      /\ m[0] = doc
      /\ \A i \in 1 .. n : m[i] = RemoveObject(m[i - 1], command.objects[i].id)
  BY DeletionsDef
<1> HIDE DEF m
<1>3. ASSUME NEW d \in DocumentType(N), NEW i \in 1 .. n
      PROVE  Advance(d, RemoveObject(d, command.objects[i].id))
  BY RemoveObjectIs
<1> HIDE DEF n
<1> DEFINE Ahead == {i \in 0 .. n : Advance(doc, m[i])}
<1>4. 0 \in Ahead
  BY <1>1, <1>2, AdvanceReflexive
<1>5. ASSUME NEW i \in 1 .. n, i - 1 \in Ahead
      PROVE  i \in Ahead
  <2>1. i \in 0 .. n /\ i - 1 \in 0 .. n
    BY <1>1
  <2>2. m[i - 1] \in DocumentType(N) /\ m[i] \in DocumentType(N) /\ Advance(doc, m[i - 1])
    BY <1>2, <1>5, <2>1
  <2>3. Advance(m[i - 1], m[i])
    BY <1>2, <1>3, <2>2
  <2> QED
    BY <2>1, <2>2, <2>3, AdvanceTransitive
<1> HIDE DEF Ahead
<1>6. \A i \in 0 .. n : i \in Ahead
  BY ONLY <1>1, <1>4, <1>5, IntervalInduction
<1> QED
  BY <1>6 DEF Ahead, m, n

\* The deletion's loop depends on the content alone.
LEMMA SameDeletions ==
  ASSUME NEW N, NEW d \in DocumentType(N), NEW e \in DocumentType(N), Content(d) = Content(e),
         NEW command, command.objects \in Objects
  PROVE  \A i \in 0 .. Len(command.objects) :
           Content(Deletions(command, d)[i]) = Content(Deletions(command, e)[i])
<1> DEFINE n == Len(command.objects)
           f == Deletions(command, d)
           g == Deletions(command, e)
<1>1. n \in Nat
  BY LenProperties DEF Objects
<1>2. /\ f \in [0 .. n -> DocumentType(N)]
      /\ f[0] = d
      /\ \A i \in 1 .. n : f[i] = RemoveObject(f[i - 1], command.objects[i].id)
  BY DeletionsDef
<1>3. /\ g \in [0 .. n -> DocumentType(N)]
      /\ g[0] = e
      /\ \A i \in 1 .. n : g[i] = RemoveObject(g[i - 1], command.objects[i].id)
  BY DeletionsDef
<1> HIDE DEF f, g
<1>4. ASSUME NEW a \in DocumentType(N), NEW b \in DocumentType(N), Content(a) = Content(b),
             NEW i \in 1 .. n
      PROVE  Content(RemoveObject(a, command.objects[i].id))
               = Content(RemoveObject(b, command.objects[i].id))
  BY <1>4, SameRemove
<1> HIDE DEF n
<1> DEFINE Alike == {i \in 0 .. n : Content(f[i]) = Content(g[i])}
<1>5. 0 \in Alike
  BY <1>1, <1>2, <1>3
<1>6. ASSUME NEW i \in 1 .. n, i - 1 \in Alike
      PROVE  i \in Alike
  <2>1. i \in 0 .. n /\ i - 1 \in 0 .. n
    BY <1>1
  <2>2. /\ f[i - 1] \in DocumentType(N) /\ g[i - 1] \in DocumentType(N)
        /\ Content(f[i - 1]) = Content(g[i - 1])
    BY <1>2, <1>3, <1>6, <2>1
  <2>3. Content(f[i]) = Content(g[i])
    BY <1>2, <1>3, <1>4, <2>2
  <2> QED
    BY <2>1, <2>3
<1> HIDE DEF Alike
<1>7. \A i \in 0 .. n : i \in Alike
  BY ONLY <1>1, <1>5, <1>6, IntervalInduction
<1> QED
  BY <1>7 DEF Alike, f, g, n

\* The loop that restores only advances the counters.
LEMMA RestorationsAdvance ==
  ASSUME NEW N, NEW doc \in DocumentType(N), NEW command, command.objects \in Objects,
         command.indices \in Seq(Nat \ {0}), Len(command.indices) = Len(command.objects),
         \A i \in 1 .. Len(command.objects) : CanPass(doc.nextId, command.objects[i].id)
  PROVE  \A i \in 0 .. Len(command.objects) : Advance(doc, Restorations(command, doc)[i])
<1> DEFINE n == Len(command.objects)
           m == Restorations(command, doc)
<1>1. n \in Nat
  BY LenProperties DEF Objects
<1>2. /\ m \in [0 .. n -> DocumentType(N)]
      /\ m[0] = doc
      /\ \A i \in 1 .. n : m[i] = InsertObjectClone(m[i - 1], command.objects[i], command.indices[i])
  BY RestorationsDef
<1> HIDE DEF m
<1>3. ASSUME NEW d \in DocumentType(N), NEW i \in 1 .. n, Advance(doc, d)
      PROVE  Advance(d, InsertObjectClone(d, command.objects[i], command.indices[i]))
  <2>1. command.objects[i] \in ObjectType
    BY <1>1, ElementOfSeq DEF Objects
  <2>2. command.indices[i] \in Nat \ {0}
    BY <1>1, ElementOfSeq
  <2>3. doc.nextId \in Nat /\ d.nextId \in Nat /\ doc.nextId <= d.nextId
    BY <1>3, DocumentIs DEF Advance
  <2>4. CanPass(d.nextId, command.objects[i].id)
    BY <2>1, <2>3, CanPassGrows DEF ObjectType
  <2> QED
    BY <2>1, <2>2, <2>4, InsertObjectCloneIs
<1> HIDE DEF n
<1> DEFINE Ahead == {i \in 0 .. n : Advance(doc, m[i])}
<1>4. 0 \in Ahead
  BY <1>1, <1>2, AdvanceReflexive
<1>5. ASSUME NEW i \in 1 .. n, i - 1 \in Ahead
      PROVE  i \in Ahead
  <2>1. i \in 0 .. n /\ i - 1 \in 0 .. n
    BY <1>1
  <2>2. m[i - 1] \in DocumentType(N) /\ m[i] \in DocumentType(N) /\ Advance(doc, m[i - 1])
    BY <1>2, <1>5, <2>1
  <2>3. Advance(m[i - 1], m[i])
    BY <1>2, <1>3, <2>2
  <2> QED
    BY <2>1, <2>2, <2>3, AdvanceTransitive
<1> HIDE DEF Ahead
<1>6. \A i \in 0 .. n : i \in Ahead
  BY ONLY <1>1, <1>4, <1>5, IntervalInduction
<1> QED
  BY <1>6 DEF Ahead, m, n

\* The loop that restores depends on the content alone.
LEMMA SameRestorations ==
  ASSUME NEW N, NEW d \in DocumentType(N), NEW e \in DocumentType(N), Content(d) = Content(e),
         NEW command, command.objects \in Objects,
         command.indices \in Seq(Nat \ {0}), Len(command.indices) = Len(command.objects)
  PROVE  \A i \in 0 .. Len(command.objects) :
           Content(Restorations(command, d)[i]) = Content(Restorations(command, e)[i])
<1> DEFINE n == Len(command.objects)
           f == Restorations(command, d)
           g == Restorations(command, e)
<1>1. n \in Nat
  BY LenProperties DEF Objects
<1>2. /\ f \in [0 .. n -> DocumentType(N)]
      /\ f[0] = d
      /\ \A i \in 1 .. n : f[i] = InsertObjectClone(f[i - 1], command.objects[i], command.indices[i])
  BY RestorationsDef
<1>3. /\ g \in [0 .. n -> DocumentType(N)]
      /\ g[0] = e
      /\ \A i \in 1 .. n : g[i] = InsertObjectClone(g[i - 1], command.objects[i], command.indices[i])
  BY RestorationsDef
<1> HIDE DEF f, g
<1>4. ASSUME NEW a \in DocumentType(N), NEW b \in DocumentType(N), Content(a) = Content(b),
             NEW i \in 1 .. n
      PROVE  Content(InsertObjectClone(a, command.objects[i], command.indices[i]))
               = Content(InsertObjectClone(b, command.objects[i], command.indices[i]))
  <2>1. command.objects[i] \in ObjectType
    BY <1>1, ElementOfSeq DEF Objects
  <2>2. command.indices[i] \in Nat \ {0}
    BY <1>1, ElementOfSeq
  <2> QED
    BY <1>4, <2>1, <2>2, SameInsert
<1> HIDE DEF n
<1> DEFINE Alike == {i \in 0 .. n : Content(f[i]) = Content(g[i])}
<1>5. 0 \in Alike
  BY <1>1, <1>2, <1>3
<1>6. ASSUME NEW i \in 1 .. n, i - 1 \in Alike
      PROVE  i \in Alike
  <2>1. i \in 0 .. n /\ i - 1 \in 0 .. n
    BY <1>1
  <2>2. /\ f[i - 1] \in DocumentType(N) /\ g[i - 1] \in DocumentType(N)
        /\ Content(f[i - 1]) = Content(g[i - 1])
    BY <1>2, <1>3, <1>6, <2>1
  <2>3. Content(f[i]) = Content(g[i])
    BY <1>2, <1>3, <1>4, <2>2
  <2> QED
    BY <2>1, <2>3
<1> HIDE DEF Alike
<1>7. \A i \in 0 .. n : i \in Alike
  BY ONLY <1>1, <1>5, <1>6, IntervalInduction
<1> QED
  BY <1>7 DEF Alike, f, g, n

\* The paste's loop only advances the counters.
LEMMA AdditionsAdvance ==
  ASSUME NEW N, NEW doc \in DocumentType(N), NEW command, command.objects \in Objects,
         command.layer \in Nat,
         \A i \in 1 .. Len(command.objects) : CanPass(doc.nextId, command.objects[i].id)
  PROVE  \A i \in 0 .. Len(command.objects) : Advance(doc, Additions(command, doc)[i])
<1> DEFINE n == Len(command.objects)
           m == Additions(command, doc)
<1>1. n \in Nat
  BY LenProperties DEF Objects
<1>2. /\ m \in [0 .. n -> DocumentType(N)]
      /\ m[0] = doc
      /\ \A i \in 1 .. n : m[i] = AppendObject(m[i - 1], command.objects[i], command.objects[i].id, command.layer)
  BY AdditionsDef
<1> HIDE DEF m
<1>3. ASSUME NEW d \in DocumentType(N), NEW i \in 1 .. n, Advance(doc, d)
      PROVE  Advance(d, AppendObject(d, command.objects[i], command.objects[i].id, command.layer))
  <2>1. command.objects[i] \in ObjectType
    BY <1>1, ElementOfSeq DEF Objects
  <2>2. command.objects[i].id \in Nat
    BY <2>1 DEF ObjectType
  <2>3. doc.nextId \in Nat /\ d.nextId \in Nat /\ doc.nextId <= d.nextId
    BY <1>3, DocumentIs DEF Advance
  <2>4. CanPass(d.nextId, command.objects[i].id)
    BY <2>1, <2>3, CanPassGrows DEF ObjectType
  <2> QED
    BY <2>1, <2>2, <2>4, AppendObjectIs
<1> HIDE DEF n
<1> DEFINE Ahead == {i \in 0 .. n : Advance(doc, m[i])}
<1>4. 0 \in Ahead
  BY <1>1, <1>2, AdvanceReflexive
<1>5. ASSUME NEW i \in 1 .. n, i - 1 \in Ahead
      PROVE  i \in Ahead
  <2>1. i \in 0 .. n /\ i - 1 \in 0 .. n
    BY <1>1
  <2>2. m[i - 1] \in DocumentType(N) /\ m[i] \in DocumentType(N) /\ Advance(doc, m[i - 1])
    BY <1>2, <1>5, <2>1
  <2>3. Advance(m[i - 1], m[i])
    BY <1>2, <1>3, <2>2
  <2> QED
    BY <2>1, <2>2, <2>3, AdvanceTransitive
<1> HIDE DEF Ahead
<1>6. \A i \in 0 .. n : i \in Ahead
  BY ONLY <1>1, <1>4, <1>5, IntervalInduction
<1> QED
  BY <1>6 DEF Ahead, m, n

\* The paste's loop depends on the content alone.
LEMMA SameAdditions ==
  ASSUME NEW N, NEW d \in DocumentType(N), NEW e \in DocumentType(N), Content(d) = Content(e),
         NEW command, command.objects \in Objects,
         command.layer \in Nat
  PROVE  \A i \in 0 .. Len(command.objects) :
           Content(Additions(command, d)[i]) = Content(Additions(command, e)[i])
<1> DEFINE n == Len(command.objects)
           f == Additions(command, d)
           g == Additions(command, e)
<1>1. n \in Nat
  BY LenProperties DEF Objects
<1>2. /\ f \in [0 .. n -> DocumentType(N)]
      /\ f[0] = d
      /\ \A i \in 1 .. n : f[i] = AppendObject(f[i - 1], command.objects[i], command.objects[i].id, command.layer)
  BY AdditionsDef
<1>3. /\ g \in [0 .. n -> DocumentType(N)]
      /\ g[0] = e
      /\ \A i \in 1 .. n : g[i] = AppendObject(g[i - 1], command.objects[i], command.objects[i].id, command.layer)
  BY AdditionsDef
<1> HIDE DEF f, g
<1>4. ASSUME NEW a \in DocumentType(N), NEW b \in DocumentType(N), Content(a) = Content(b),
             NEW i \in 1 .. n
      PROVE  Content(AppendObject(a, command.objects[i], command.objects[i].id, command.layer))
               = Content(AppendObject(b, command.objects[i], command.objects[i].id, command.layer))
  <2>1. command.objects[i] \in ObjectType
    BY <1>1, ElementOfSeq DEF Objects
  <2>2. command.objects[i].id \in Nat
    BY <2>1 DEF ObjectType
  <2> QED
    BY <1>4, <2>1, <2>2, SameAppend
<1> HIDE DEF n
<1> DEFINE Alike == {i \in 0 .. n : Content(f[i]) = Content(g[i])}
<1>5. 0 \in Alike
  BY <1>1, <1>2, <1>3
<1>6. ASSUME NEW i \in 1 .. n, i - 1 \in Alike
      PROVE  i \in Alike
  <2>1. i \in 0 .. n /\ i - 1 \in 0 .. n
    BY <1>1
  <2>2. /\ f[i - 1] \in DocumentType(N) /\ g[i - 1] \in DocumentType(N)
        /\ Content(f[i - 1]) = Content(g[i - 1])
    BY <1>2, <1>3, <1>6, <2>1
  <2>3. Content(f[i]) = Content(g[i])
    BY <1>2, <1>3, <1>4, <2>2
  <2> QED
    BY <2>1, <2>3
<1> HIDE DEF Alike
<1>7. \A i \in 0 .. n : i \in Alike
  BY ONLY <1>1, <1>5, <1>6, IntervalInduction
<1> QED
  BY <1>7 DEF Alike, f, g, n

\* The loop that takes a paste back only advances the counters.
LEMMA WithdrawalsAdvance ==
  ASSUME NEW N, NEW doc \in DocumentType(N), NEW command, command.objects \in Objects
  PROVE  \A i \in 0 .. Len(command.objects) : Advance(doc, Withdrawals(command, doc)[i])
<1> DEFINE n == Len(command.objects)
           m == Withdrawals(command, doc)
<1>1. n \in Nat
  BY LenProperties DEF Objects
<1>2. /\ m \in [0 .. n -> DocumentType(N)]
      /\ m[0] = doc
      /\ \A i \in 1 .. n : m[i] = RemoveObject(m[i - 1], command.objects[Len(command.objects) - i + 1].id)
  BY WithdrawalsDef
<1> HIDE DEF m
<1>3. ASSUME NEW d \in DocumentType(N), NEW i \in 1 .. n
      PROVE  Advance(d, RemoveObject(d, command.objects[Len(command.objects) - i + 1].id))
  BY RemoveObjectIs
<1> HIDE DEF n
<1> DEFINE Ahead == {i \in 0 .. n : Advance(doc, m[i])}
<1>4. 0 \in Ahead
  BY <1>1, <1>2, AdvanceReflexive
<1>5. ASSUME NEW i \in 1 .. n, i - 1 \in Ahead
      PROVE  i \in Ahead
  <2>1. i \in 0 .. n /\ i - 1 \in 0 .. n
    BY <1>1
  <2>2. m[i - 1] \in DocumentType(N) /\ m[i] \in DocumentType(N) /\ Advance(doc, m[i - 1])
    BY <1>2, <1>5, <2>1
  <2>3. Advance(m[i - 1], m[i])
    BY <1>2, <1>3, <2>2
  <2> QED
    BY <2>1, <2>2, <2>3, AdvanceTransitive
<1> HIDE DEF Ahead
<1>6. \A i \in 0 .. n : i \in Ahead
  BY ONLY <1>1, <1>4, <1>5, IntervalInduction
<1> QED
  BY <1>6 DEF Ahead, m, n

\* The loop that takes a paste back depends on the content alone.
LEMMA SameWithdrawals ==
  ASSUME NEW N, NEW d \in DocumentType(N), NEW e \in DocumentType(N), Content(d) = Content(e),
         NEW command, command.objects \in Objects
  PROVE  \A i \in 0 .. Len(command.objects) :
           Content(Withdrawals(command, d)[i]) = Content(Withdrawals(command, e)[i])
<1> DEFINE n == Len(command.objects)
           f == Withdrawals(command, d)
           g == Withdrawals(command, e)
<1>1. n \in Nat
  BY LenProperties DEF Objects
<1>2. /\ f \in [0 .. n -> DocumentType(N)]
      /\ f[0] = d
      /\ \A i \in 1 .. n : f[i] = RemoveObject(f[i - 1], command.objects[Len(command.objects) - i + 1].id)
  BY WithdrawalsDef
<1>3. /\ g \in [0 .. n -> DocumentType(N)]
      /\ g[0] = e
      /\ \A i \in 1 .. n : g[i] = RemoveObject(g[i - 1], command.objects[Len(command.objects) - i + 1].id)
  BY WithdrawalsDef
<1> HIDE DEF f, g
<1>4. ASSUME NEW a \in DocumentType(N), NEW b \in DocumentType(N), Content(a) = Content(b),
             NEW i \in 1 .. n
      PROVE  Content(RemoveObject(a, command.objects[Len(command.objects) - i + 1].id))
               = Content(RemoveObject(b, command.objects[Len(command.objects) - i + 1].id))
  BY <1>4, SameRemove
<1> HIDE DEF n
<1> DEFINE Alike == {i \in 0 .. n : Content(f[i]) = Content(g[i])}
<1>5. 0 \in Alike
  BY <1>1, <1>2, <1>3
<1>6. ASSUME NEW i \in 1 .. n, i - 1 \in Alike
      PROVE  i \in Alike
  <2>1. i \in 0 .. n /\ i - 1 \in 0 .. n
    BY <1>1
  <2>2. /\ f[i - 1] \in DocumentType(N) /\ g[i - 1] \in DocumentType(N)
        /\ Content(f[i - 1]) = Content(g[i - 1])
    BY <1>2, <1>3, <1>6, <2>1
  <2>3. Content(f[i]) = Content(g[i])
    BY <1>2, <1>3, <1>4, <2>2
  <2> QED
    BY <2>1, <2>3
<1> HIDE DEF Alike
<1>7. \A i \in 0 .. n : i \in Alike
  BY ONLY <1>1, <1>5, <1>6, IntervalInduction
<1> QED
  BY <1>7 DEF Alike, f, g, n
-----------------------------------------------------------------------------
(* Setting a property, and setting it again *)

\* The element with an id has another value of a property.
WithValue(s, id, key, v) ==
  Replaced(s, IndexOf(s, id), Updated(s[IndexOf(s, id)], key, v))

\* The elements may have these values, and keep the later one.
Accepting(S, key, v, w) ==
  \A e \in S : /\ Updated(e, key, v) \in S /\ Updated(e, key, w) \in S
               /\ Updated(e, key, v).id = e.id
               /\ Updated(Updated(e, key, v), key, w) = Updated(e, key, w)
               /\ Updated(e, key, e[key]) = e

\* Setting a field of the element with an id: nothing else changes, the last value stands.
LEMMA WithValueIs ==
  ASSUME NEW S, NEW s \in Seq(S), Distinct(s), NEW id \in IdsOf(s), NEW key, NEW v, NEW w,
         Accepting(S, key, v, w)
  PROVE  /\ WithValue(s, id, key, v) \in Seq(S)
         /\ Len(WithValue(s, id, key, v)) = Len(s)
         /\ Distinct(WithValue(s, id, key, v))
         /\ IdsOf(WithValue(s, id, key, v)) = IdsOf(s)
         /\ WithValue(s, id, key, v)[IndexOf(s, id)] = Updated(s[IndexOf(s, id)], key, v)
         /\ \A j \in 1 .. Len(s) : j # IndexOf(s, id) => WithValue(s, id, key, v)[j] = s[j]
         /\ WithValue(WithValue(s, id, key, v), id, key, w) = WithValue(s, id, key, w)
         /\ s[IndexOf(s, id)][key] = w => WithValue(s, id, key, w) = s
<1> DEFINE k == IndexOf(s, id)
           a == Updated(s[k], key, v)
           b == Updated(s[k], key, w)
           t == Replaced(s, k, a)
<1>1. k \in 1 .. Len(s) /\ s[k].id = id
  BY IndexOfFinds
<1>w. /\ WithValue(s, id, key, v) = Replaced(s, k, a)
      /\ WithValue(s, id, key, w) = Replaced(s, k, b)
  BY DEF WithValue
<1> HIDE DEF k
<1>2. s[k] \in S
  BY <1>1, ElementOfSeq
<1>3. a \in S /\ b \in S /\ a.id = id /\ Updated(a, key, w) = b /\ Updated(s[k], key, s[k][key]) = s[k]
  BY <1>1, <1>2 DEF Accepting
<1>4. s[k][key] = w => b = s[k]
  BY <1>3
<1> HIDE DEF a, b
<1>5. /\ t \in Seq(S) /\ Len(t) = Len(s) /\ t[k] = a
      /\ \A j \in 1 .. Len(s) : j # k => t[j] = s[j]
  BY <1>1, <1>3, ReplacedIs
<1>r. Replaced(t, k, b) = Replaced(s, k, b)
  BY <1>1, <1>3, ReplacedTwice
<1> HIDE DEF t
<1>6. \A j \in 1 .. Len(s) : t[j].id = s[j].id
  BY <1>1, <1>3, <1>5
<1>7. Distinct(t) /\ IdsOf(t) = IdsOf(s)
  BY <1>5, <1>6, SameIds
<1>8. IndexOf(t, id) = k
  BY <1>1, <1>3, <1>5, <1>7, IndexOfIs
<1>9. WithValue(t, id, key, w) = Replaced(s, k, b)
  BY <1>3, <1>5, <1>8, <1>r DEF WithValue
<1>10. s[k][key] = w => Replaced(s, k, b) = s
  BY <1>1, <1>4, ReplacedBySame
<1> QED
  BY <1>w, <1>5, <1>7, <1>9, <1>10 DEF t, k, a

\* The layers the objects are on.
LayersOf(s) == {o.layer : o \in ToSet(s)}

\* A property of an object.
ScalarKeys == {"x", "width"}

\* The same of the objects of a document and their scalars: ids and layers stay.
LEMMA ObjectWithValue ==
  ASSUME NEW s \in Objects, Distinct(s), NEW id \in IdsOf(s), NEW key \in ScalarKeys,
         NEW v \in Int, NEW w \in Int
  PROVE  /\ WithValue(s, id, key, v) \in Objects
         /\ Distinct(WithValue(s, id, key, v))
         /\ IdsOf(WithValue(s, id, key, v)) = IdsOf(s)
         /\ LayersOf(WithValue(s, id, key, v)) = LayersOf(s)
         /\ WithValue(WithValue(s, id, key, v), id, key, w) = WithValue(s, id, key, w)
         /\ s[IndexOf(s, id)][key] = w => WithValue(s, id, key, w) = s
<1> DEFINE S == ObjectType
           k == IndexOf(s, id)
           t == WithValue(s, id, key, v)
<1>1. Accepting(S, key, v, w)
  BY UpdatedObject DEF Accepting, ScalarKeys
<1>2. \A e \in S : Updated(e, key, v).layer = e.layer
  BY UpdatedObject DEF ScalarKeys
<1>3. s \in Seq(S)
  BY DEF Objects
<1> HIDE DEF S
<1>4. /\ t \in Seq(S) /\ Len(t) = Len(s) /\ Distinct(t) /\ IdsOf(t) = IdsOf(s)
      /\ t[k] = Updated(s[k], key, v)
      /\ \A j \in 1 .. Len(s) : j # k => t[j] = s[j]
      /\ WithValue(t, id, key, w) = WithValue(s, id, key, w)
      /\ s[k][key] = w => WithValue(s, id, key, w) = s
  BY <1>1, <1>3, WithValueIs
<1>5. k \in 1 .. Len(s)
  BY <1>3, IndexOfFinds
<1> HIDE DEF t, k
<1>6. \A j \in 1 .. Len(s) : t[j].layer = s[j].layer
  <2>1. s[k] \in S
    BY <1>3, <1>5, ElementOfSeq
  <2>2. t[k].layer = s[k].layer
    BY <1>2, <1>4, <2>1
  <2> QED
    BY <1>4, <2>2
<1>7. DOMAIN s = 1 .. Len(s) /\ DOMAIN t = 1 .. Len(s)
  BY <1>3, <1>4, LenProperties
<1>8. LayersOf(t) = LayersOf(s)
  BY <1>6, <1>7 DEF ToSet, LayersOf
<1> QED
  BY <1>4, <1>8 DEF t, k, S, Objects

\* An attribute of a layer.
LEMMA LayerWithValue ==
  ASSUME NEW N, NEW s \in Layers(N), Distinct(s), NEW id \in IdsOf(s),
         NEW key \in LayerAttributes,
         NEW v \in AttributeValues(N, key), NEW w \in AttributeValues(N, key)
  PROVE  /\ WithValue(s, id, key, v) \in Layers(N)
         /\ Distinct(WithValue(s, id, key, v))
         /\ IdsOf(WithValue(s, id, key, v)) = IdsOf(s)
         /\ Len(WithValue(s, id, key, v)) = Len(s)
         /\ WithValue(WithValue(s, id, key, v), id, key, w) = WithValue(s, id, key, w)
         /\ s[IndexOf(s, id)][key] = w => WithValue(s, id, key, w) = s
<1> DEFINE S == LayerType(N)
<1>1. Accepting(S, key, v, w)
  BY UpdatedLayer DEF Accepting
<1>2. s \in Seq(S)
  BY DEF Layers
<1> HIDE DEF S
<1>3. /\ WithValue(s, id, key, v) \in Seq(S)
      /\ Len(WithValue(s, id, key, v)) = Len(s)
      /\ Distinct(WithValue(s, id, key, v))
      /\ IdsOf(WithValue(s, id, key, v)) = IdsOf(s)
      /\ WithValue(WithValue(s, id, key, v), id, key, w) = WithValue(s, id, key, w)
      /\ s[IndexOf(s, id)][key] = w => WithValue(s, id, key, w) = s
  BY <1>1, <1>2, WithValueIs
<1> QED
  BY <1>3 DEF S, Layers

\* The order of the layers.
LEMMA ReorderedIs ==
  ASSUME NEW N, NEW s \in Layers(N), Distinct(s), NEW id \in IdsOf(s),
         NEW v \in 1 .. Len(s), NEW w \in 1 .. Len(s)
  PROVE  /\ Reordered(s, id, v) \in Layers(N)
         /\ Distinct(Reordered(s, id, v))
         /\ IdsOf(Reordered(s, id, v)) = IdsOf(s)
         /\ Len(Reordered(s, id, v)) = Len(s)
         /\ Reordered(Reordered(s, id, v), id, w) = Reordered(s, id, w)
         /\ IndexOf(s, id) = w => Reordered(s, id, w) = s
<1> DEFINE S == LayerType(N)
           k == IndexOf(s, id)
           e == s[k]
           rest == RemoveAt(s, k)
           t == InsertAt(rest, v, e)
<1>0. s \in Seq(S)
  BY DEF Layers
<1>t. Reordered(s, id, v) = t /\ Reordered(s, id, w) = InsertAt(rest, w, e)
  BY DEF Reordered
<1> HIDE DEF S
<1>1. k \in 1 .. Len(s) /\ s[k].id = id /\ Len(s) \in Nat
  BY <1>0, IndexOfFinds, LenProperties
<1> HIDE DEF k
<1>2. e \in S /\ e.id = id
  BY <1>0, <1>1, ElementOfSeq
<1>3. rest \in Seq(S) /\ Len(rest) = Len(s) - 1
  BY <1>0, <1>1, RemoveAtIs
<1>4. Distinct(rest) /\ IdsOf(rest) = IdsOf(s) \ {id}
  BY <1>0, <1>1, RemoveDistinct
<1>s. k = w => InsertAt(rest, w, e) = s
  BY <1>0, <1>1, InsertRemoved
<1> HIDE DEF rest, e
<1>5. v \in 1 .. (Len(rest) + 1)
  BY <1>1, <1>3
<1>6. t \in Seq(S) /\ Len(t) = Len(s) /\ t[v] = e
  <2>1. t \in Seq(S) /\ Len(t) = Len(rest) + 1 /\ t[v] = e
    BY <1>2, <1>3, <1>5, InsertAtIs
  <2> QED
    BY <1>1, <1>3, <2>1
<1>7. Distinct(t) /\ IdsOf(t) = IdsOf(rest) \union {id} /\ IndexOf(t, id) = v
  <2>1. e.id \notin IdsOf(rest)
    BY <1>2, <1>4
  <2>2. Distinct(t) /\ IdsOf(t) = IdsOf(rest) \union {e.id} /\ IndexOf(t, e.id) = v
    BY <1>2, <1>3, <1>4, <1>5, <2>1, InsertDistinct
  <2> QED
    BY <1>2, <2>2
<1>8. RemoveAt(t, v) = rest
  BY <1>2, <1>3, <1>5, RemoveInserted
<1> HIDE DEF t
<1>9. Reordered(t, id, w) = InsertAt(rest, w, e)
  BY <1>6, <1>7, <1>8 DEF Reordered
<1>10. IdsOf(t) = IdsOf(s)
  BY <1>4, <1>7
<1> QED
  BY <1>t, <1>s, <1>6, <1>7, <1>9, <1>10 DEF S, k, Layers

\* The objects of a move.
LEMMA MovedIds ==
  ASSUME NEW s \in Objects, NEW ids, NEW d \in Int
  PROVE  /\ Distinct(s) => Distinct(MovedBy(s, ids, d))
         /\ IdsOf(MovedBy(s, ids, d)) = IdsOf(s)
         /\ LayersOf(MovedBy(s, ids, d)) = LayersOf(s)
<1> DEFINE t == MovedBy(s, ids, d)
<1>1. t \in Objects /\ Len(t) = Len(s) /\ \A i \in 1 .. Len(s) : t[i] = Shifted(s[i], ids, d)
  BY MovedByIs
<1> HIDE DEF t
<1>2. \A i \in 1 .. Len(s) : s[i] \in ObjectType
  BY ElementOfSeq DEF Objects
<1>3. \A i \in 1 .. Len(s) : t[i].id = s[i].id /\ t[i].layer = s[i].layer
  BY <1>1, <1>2, ShiftedKeeps
<1>4. (Distinct(s) => Distinct(t)) /\ IdsOf(t) = IdsOf(s)
  BY <1>1, <1>3, SameIds DEF Objects
<1>5. DOMAIN s = 1 .. Len(s) /\ DOMAIN t = 1 .. Len(s)
  BY <1>1, LenProperties DEF Objects
<1>6. LayersOf(t) = LayersOf(s)
  BY <1>3, <1>5 DEF ToSet, LayersOf
<1> QED
  BY <1>4, <1>6 DEF t
-----------------------------------------------------------------------------
(* The commands *)

CreateCommand == [kind : {"create"}, object : ObjectType, id : Nat]

DeleteCommand ==
  {c \in [kind : {"delete"}, objects : Objects, indices : Seq(Nat \ {0})] :
     Len(c.indices) = Len(c.objects)}

MoveCommand == [kind : {"move"}, ids : Seq(Nat), delta : Int]

PasteCommand == [kind : {"paste"}, objects : Objects, layer : Nat]

PropertyCommand ==
  [kind : {"property"}, id : Nat, key : {"x", "width"}, before : Int, after : Int]

ActiveCommand == [kind : {"active"}, before : Nat, after : Nat]

AttributeCommand(N) ==
  UNION {[kind : {"attribute"}, layer : Nat, attribute : {attribute},
          before : AttributeValues(N, attribute), after : AttributeValues(N, attribute)] :
           attribute \in LayerAttributes}

MoveLayerCommand == [kind : {"moveLayer"}, layer : Nat, before : Nat, after : Nat]

AddLayerCommand(N) ==
  [kind : {"addLayer"}, layer : LayerType(N), index : Nat \ {0}, previous : Nat]

\* The commands that set something to a value.
SetCommand(N) ==
  MoveCommand \union PropertyCommand \union ActiveCommand
    \union AttributeCommand(N) \union MoveLayerCommand

CommandType(N) ==
  CreateCommand \union DeleteCommand \union PasteCommand \union AddLayerCommand(N)
    \union SetCommand(N)

\* Setting to a value, and the values of a redo and of an undo.
ValueSet(command, doc, v) ==
  CASE command.kind = "move" -> ObjectsMoved(command, doc, v)
    [] command.kind = "property" -> PropertySet(command, doc, v)
    [] command.kind = "active" -> ActiveSet(command, doc, v)
    [] command.kind = "attribute" -> AttributeSet(command, doc, v)
    [] command.kind = "moveLayer" -> LayerMoved(command, doc, v)

RedoValue(command) == IF command.kind = "move" THEN command.delta ELSE command.after

UndoValue(command) == IF command.kind = "move" THEN -command.delta ELSE command.before

\* What setting to a value makes of the content.
ViewSet(command, objects, layers, active, v) ==
  CASE command.kind = "move" -> View(MovedBy(objects, ToSet(command.ids), v), layers, active)
    [] command.kind = "property" ->
         View(WithValue(objects, command.id, command.key, v), layers, active)
    [] command.kind = "active" -> View(objects, layers, v)
    [] command.kind = "attribute" ->
         View(objects, WithValue(layers, command.layer, command.attribute, v), active)
    [] command.kind = "moveLayer" -> View(objects, Reordered(layers, command.layer, v), active)

\* The values that fit: a layer is moved to a place that there is.
Fitting(N, command, layers, v) ==
  CASE command.kind = "move" -> v \in Int
    [] command.kind = "property" -> v \in Int
    [] command.kind = "active" -> v \in Nat
    [] command.kind = "attribute" -> v \in AttributeValues(N, command.attribute)
    [] command.kind = "moveLayer" -> v \in 1 .. Len(layers)

\* The parts of a command that sets something.
LEMMA SetCommandIs ==
  ASSUME NEW N, NEW c \in SetCommand(N)
  PROVE  \/ c.kind = "move" /\ c \in MoveCommand
         \/ c.kind = "property" /\ c \in PropertyCommand
         \/ c.kind = "active" /\ c \in ActiveCommand
         \/ /\ c.kind = "attribute" /\ c \in AttributeCommand(N)
            /\ c.layer \in Nat /\ c.attribute \in LayerAttributes
            /\ c.before \in AttributeValues(N, c.attribute)
            /\ c.after \in AttributeValues(N, c.attribute)
         \/ c.kind = "moveLayer" /\ c \in MoveLayerCommand
<1>1. CASE c \in MoveCommand \union PropertyCommand \union ActiveCommand \union MoveLayerCommand
  BY <1>1 DEF MoveCommand, PropertyCommand, ActiveCommand, MoveLayerCommand
<1>2. CASE c \in AttributeCommand(N)
  <2>1. PICK attribute \in LayerAttributes :
          c \in [kind : {"attribute"}, layer : Nat, attribute : {attribute},
                 before : AttributeValues(N, attribute), after : AttributeValues(N, attribute)]
    BY <1>2 DEF AttributeCommand
  <2> QED
    BY <1>2, <2>1
<1> QED
  BY <1>1, <1>2 DEF SetCommand

\* A redo and an undo set to their values.
LEMMA SetsValue ==
  ASSUME NEW N, NEW c \in SetCommand(N), NEW doc
  PROVE  /\ Redone(c, doc) = ValueSet(c, doc, RedoValue(c))
         /\ Undone(c, doc) = ValueSet(c, doc, UndoValue(c))
         /\ Redoable(c, doc) <=> Settable(c, doc, RedoValue(c))
         /\ Undoable(c, doc) <=> Settable(c, doc, UndoValue(c))
<1>1. \/ c.kind = "move" \/ c.kind = "property" \/ c.kind = "active"
      \/ c.kind = "attribute" \/ c.kind = "moveLayer"
  BY SetCommandIs
<1>2. CASE c.kind = "move"
  BY <1>2 DEF Redone, Undone, Redoable, Undoable, ValueSet, RedoValue, UndoValue
<1>3. CASE c.kind = "property"
  BY <1>3 DEF Redone, Undone, Redoable, Undoable, ValueSet, RedoValue, UndoValue
<1>4. CASE c.kind = "active"
  BY <1>4 DEF Redone, Undone, Redoable, Undoable, ValueSet, RedoValue, UndoValue
<1>5. CASE c.kind = "attribute"
  BY <1>5 DEF Redone, Undone, Redoable, Undoable, ValueSet, RedoValue, UndoValue
<1>6. CASE c.kind = "moveLayer"
  BY <1>6 DEF Redone, Undone, Redoable, Undoable, ValueSet, RedoValue, UndoValue
<1> QED
  BY <1>1, <1>2, <1>3, <1>4, <1>5, <1>6

\* Whether a value can be set depends on the ids.
LEMMA SettableIs ==
  ASSUME NEW N, NEW c \in SetCommand(N), NEW doc, NEW v
  PROVE  Settable(c, doc, v)
           <=> CASE c.kind = "move" -> ToSet(c.ids) \cap IdsOf(doc.objects) # {}
                 [] c.kind = "property" -> c.id \in IdsOf(doc.objects)
                 [] c.kind = "active" -> v \in IdsOf(doc.layers)
                 [] c.kind = "attribute" -> c.layer \in IdsOf(doc.layers)
                 [] c.kind = "moveLayer" -> c.layer \in IdsOf(doc.layers) /\ Len(doc.layers) > 1
BY QueriesAre DEF Settable

\* What a command that sets something makes of a document.
LEMMA ValueSetIs ==
  ASSUME NEW N, NEW c \in SetCommand(N), NEW doc \in DocumentType(N), NEW v,
         Settable(c, doc, v), Fitting(N, c, doc.layers, v)
  PROVE  /\ Content(ValueSet(c, doc, v)) = ViewSet(c, doc.objects, doc.layers, doc.active, v)
         /\ ValueSet(c, doc, v) \in DocumentType(N)
         /\ Advance(doc, ValueSet(c, doc, v))
<1>1. CASE c.kind = "move" /\ c \in MoveCommand
  <2>1. v \in Int
    BY <1>1 DEF Fitting
  <2>2. ValueSet(c, doc, v) = TranslateObjects(doc, ToSet(c.ids), v)
    BY <1>1 DEF ValueSet, ObjectsMoved
  <2>3. ViewSet(c, doc.objects, doc.layers, doc.active, v)
          = View(MovedBy(doc.objects, ToSet(c.ids), v), doc.layers, doc.active)
    BY <1>1 DEF ViewSet
  <2> QED
    BY <2>1, <2>2, <2>3, TranslateObjectsIs
<1>2. CASE c.kind = "property" /\ c \in PropertyCommand
  <2>1. v \in Int /\ c.id \in IdsOf(doc.objects)
    BY <1>2, SettableIs DEF Fitting
  <2>2. ValueSet(c, doc, v) = SetScalar(doc, c.id, c.key, v)
    BY <1>2 DEF ValueSet, PropertySet
  <2>3. ViewSet(c, doc.objects, doc.layers, doc.active, v)
          = View(WithValue(doc.objects, c.id, c.key, v), doc.layers, doc.active)
    BY <1>2 DEF ViewSet
  <2>4. c.key \in {"x", "width"}
    BY <1>2 DEF PropertyCommand
  <2> QED
    BY <2>1, <2>2, <2>3, <2>4, SetScalarIs DEF WithValue
<1>3. CASE c.kind = "active" /\ c \in ActiveCommand
  <2>1. v \in Nat
    BY <1>3 DEF Fitting
  <2>2. ValueSet(c, doc, v) = SetActiveLayer(doc, v)
    BY <1>3 DEF ValueSet, ActiveSet
  <2>3. ViewSet(c, doc.objects, doc.layers, doc.active, v) = View(doc.objects, doc.layers, v)
    BY <1>3 DEF ViewSet
  <2> QED
    BY <2>1, <2>2, <2>3, SetActiveLayerIs
<1>4. CASE c.kind = "attribute" /\ c.attribute \in LayerAttributes
  <2>1. v \in AttributeValues(N, c.attribute) /\ c.layer \in IdsOf(doc.layers)
    BY <1>4, SettableIs DEF Fitting
  <2>2. ValueSet(c, doc, v) = SetLayerAttribute(doc, c.layer, c.attribute, v)
    BY <1>4 DEF ValueSet, AttributeSet
  <2>3. ViewSet(c, doc.objects, doc.layers, doc.active, v)
          = View(doc.objects, WithValue(doc.layers, c.layer, c.attribute, v), doc.active)
    BY <1>4 DEF ViewSet
  <2> QED
    BY <1>4, <2>1, <2>2, <2>3, SetLayerAttributeIs DEF WithValue
<1>5. CASE c.kind = "moveLayer" /\ c \in MoveLayerCommand
  <2>1. v \in 1 .. Len(doc.layers) /\ c.layer \in IdsOf(doc.layers)
    BY <1>5, SettableIs DEF Fitting
  <2>2. ValueSet(c, doc, v) = MoveLayer(doc, c.layer, v)
    BY <1>5 DEF ValueSet, LayerMoved
  <2>3. ViewSet(c, doc.objects, doc.layers, doc.active, v)
          = View(doc.objects, Reordered(doc.layers, c.layer, v), doc.active)
    BY <1>5 DEF ViewSet
  <2> QED
    BY <2>1, <2>2, <2>3, MoveLayerIs
<1> QED
  BY <1>1, <1>2, <1>3, <1>4, <1>5, SetCommandIs

\* Setting keeps the document whole, and a later value takes the place of an
\* earlier one; two moves add up.
LEMMA ValueSetAgain ==
  ASSUME NEW N, NEW c \in SetCommand(N), NEW d \in DocumentType(N), Whole(d),
         NEW v, Settable(c, d, v), Fitting(N, c, d.layers, v),
         NEW w, Settable(c, d, w), Fitting(N, c, d.layers, w),
         NEW e \in DocumentType(N), Content(e) = Content(ValueSet(c, d, v))
  PROVE  /\ Whole(e)
         /\ IdsOf(e.objects) = IdsOf(d.objects)
         /\ IdsOf(e.layers) = IdsOf(d.layers)
         /\ Len(e.layers) = Len(d.layers)
         /\ Settable(c, e, w) /\ Fitting(N, c, e.layers, w)
         /\ c.kind = "move" =>
              Content(ValueSet(c, e, w)) = ViewSet(c, d.objects, d.layers, d.active, v + w)
         /\ c.kind # "move" =>
              Content(ValueSet(c, e, w)) = ViewSet(c, d.objects, d.layers, d.active, w)
<1>1. /\ d.objects \in Objects /\ d.layers \in Layers(N) /\ d.active \in Nat
      /\ e.objects \in Objects /\ e.layers \in Layers(N) /\ e.active \in Nat
  BY DocumentIs
<1>2. WholeParts(d.objects, d.layers, d.active)
  BY WholeIs
<1>3. View(e.objects, e.layers, e.active) = ViewSet(c, d.objects, d.layers, d.active, v)
  BY ValueSetIs, ContentIs
<1>4. Distinct(d.objects) /\ Distinct(d.layers)
  BY <1>2 DEF WholeParts
<1>5. ASSUME Settable(c, e, w), Fitting(N, c, e.layers, w)
      PROVE  Content(ValueSet(c, e, w)) = ViewSet(c, e.objects, e.layers, e.active, w)
  BY <1>5, ValueSetIs
<1>6. ASSUME Distinct(e.objects), IdsOf(e.objects) = IdsOf(d.objects),
             LayersOf(e.objects) = LayersOf(d.objects),
             Distinct(e.layers), IdsOf(e.layers) = IdsOf(d.layers), e.active \in IdsOf(d.layers)
      PROVE  Whole(e)
  <2>1. \A o \in ToSet(e.objects) : o.layer \in LayersOf(d.objects)
    BY <1>6 DEF LayersOf
  <2>2. \A o \in ToSet(e.objects) : o.layer \in IdsOf(e.layers)
    BY <2>1, <1>2, <1>6 DEF WholeParts, LayersOf
  <2>3. WholeParts(e.objects, e.layers, e.active)
    BY <1>2, <1>6, <2>2 DEF WholeParts
  <2> QED
    BY <2>3, WholeIs
<1>a. d.active \in IdsOf(d.layers)
  BY <1>2 DEF WholeParts
<1>7. CASE c.kind = "move" /\ c \in MoveCommand
  <2>1. v \in Int /\ w \in Int /\ ToSet(c.ids) \cap IdsOf(d.objects) # {}
    BY <1>7, SettableIs DEF Fitting
  <2>2. e.objects = MovedBy(d.objects, ToSet(c.ids), v) /\ e.layers = d.layers /\ e.active = d.active
    BY <1>3, <1>7 DEF ViewSet, View
  <2>3. /\ Distinct(e.objects) /\ IdsOf(e.objects) = IdsOf(d.objects)
        /\ LayersOf(e.objects) = LayersOf(d.objects)
    BY <1>1, <1>4, <2>1, <2>2, MovedIds
  <2>4. Settable(c, e, w) /\ Fitting(N, c, e.layers, w)
    BY <1>7, <2>1, <2>3, SettableIs DEF Fitting
  <2>5. MovedBy(e.objects, ToSet(c.ids), w) = MovedBy(d.objects, ToSet(c.ids), v + w)
    BY <1>1, <2>1, <2>2, MovedByTwice
  <2>6. ViewSet(c, e.objects, e.layers, e.active, w)
          = ViewSet(c, d.objects, d.layers, d.active, v + w)
    BY <1>7, <2>2, <2>5 DEF ViewSet
  <2>7. Whole(e)
    BY <1>4, <1>6, <1>a, <2>2, <2>3
  <2> QED
    BY <1>5, <1>7, <2>2, <2>3, <2>4, <2>6, <2>7
<1>8. CASE c.kind = "property" /\ c \in PropertyCommand
  <2>1. v \in Int /\ w \in Int /\ c.id \in IdsOf(d.objects) /\ c.key \in {"x", "width"}
    BY <1>8, SettableIs DEF Fitting, PropertyCommand
  <2>2. e.objects = WithValue(d.objects, c.id, c.key, v) /\ e.layers = d.layers /\ e.active = d.active
    BY <1>3, <1>8 DEF ViewSet, View
  <2>3. /\ Distinct(e.objects) /\ IdsOf(e.objects) = IdsOf(d.objects)
        /\ LayersOf(e.objects) = LayersOf(d.objects)
        /\ WithValue(e.objects, c.id, c.key, w) = WithValue(d.objects, c.id, c.key, w)
    <3>1. d.objects \in Objects /\ Distinct(d.objects) /\ c.key \in ScalarKeys
      BY <1>1, <1>4, <2>1 DEF ScalarKeys
    <3> DEFINE t == WithValue(d.objects, c.id, c.key, v)
    <3>2. /\ Distinct(t) /\ IdsOf(t) = IdsOf(d.objects)
          /\ LayersOf(t) = LayersOf(d.objects)
          /\ WithValue(t, c.id, c.key, w) = WithValue(d.objects, c.id, c.key, w)
      BY <3>1, <2>1, ObjectWithValue
    <3>3. e.objects = t
      BY <2>2
    <3> HIDE DEF t
    <3> QED
      BY <3>2, <3>3
  <2>4. Settable(c, e, w) /\ Fitting(N, c, e.layers, w)
    BY <1>8, <2>1, <2>3, SettableIs DEF Fitting
  <2>6. ViewSet(c, e.objects, e.layers, e.active, w)
          = ViewSet(c, d.objects, d.layers, d.active, w)
    BY <1>8, <2>2, <2>3 DEF ViewSet
  <2>7. Whole(e)
    BY <1>4, <1>6, <1>a, <2>2, <2>3
  <2> QED
    BY <1>5, <1>8, <2>2, <2>3, <2>4, <2>6, <2>7
<1>9. CASE c.kind = "active" /\ c \in ActiveCommand
  <2>1. v \in Nat /\ w \in Nat /\ v \in IdsOf(d.layers) /\ w \in IdsOf(d.layers)
    <3>1. v \in Nat /\ w \in Nat
      BY <1>9 DEF Fitting
    <3>2. v \in IdsOf(d.layers)
      BY <1>9, SettableIs
    <3>3. w \in IdsOf(d.layers)
      BY <1>9, SettableIs
    <3> QED
      BY <3>1, <3>2, <3>3
  <2>2. e.objects = d.objects /\ e.layers = d.layers /\ e.active = v
    BY <1>3, <1>9 DEF ViewSet, View
  <2>4. Settable(c, e, w) /\ Fitting(N, c, e.layers, w)
    BY <1>9, <2>1, <2>2, SettableIs DEF Fitting
  <2>6. ViewSet(c, e.objects, e.layers, e.active, w)
          = ViewSet(c, d.objects, d.layers, d.active, w)
    BY <1>9, <2>2 DEF ViewSet
  <2>7. Whole(e)
    BY <1>4, <1>6, <2>1, <2>2
  <2> QED
    BY <1>5, <1>9, <2>2, <2>4, <2>6, <2>7
<1>10. CASE c.kind = "attribute" /\ c.attribute \in LayerAttributes
  <2>1. /\ v \in AttributeValues(N, c.attribute) /\ w \in AttributeValues(N, c.attribute)
        /\ c.layer \in IdsOf(d.layers)
    BY <1>10, SettableIs DEF Fitting
  <2>2. /\ e.layers = WithValue(d.layers, c.layer, c.attribute, v)
        /\ e.objects = d.objects /\ e.active = d.active
    BY <1>3, <1>10 DEF ViewSet, View
  <2>3. /\ Distinct(e.layers) /\ IdsOf(e.layers) = IdsOf(d.layers) /\ Len(e.layers) = Len(d.layers)
        /\ WithValue(e.layers, c.layer, c.attribute, w) = WithValue(d.layers, c.layer, c.attribute, w)
    BY <1>1, <1>4, <1>10, <2>1, <2>2, LayerWithValue
  <2>4. Settable(c, e, w) /\ Fitting(N, c, e.layers, w)
    BY <1>10, <2>1, <2>3, SettableIs DEF Fitting
  <2>6. ViewSet(c, e.objects, e.layers, e.active, w)
          = ViewSet(c, d.objects, d.layers, d.active, w)
    BY <1>10, <2>2, <2>3 DEF ViewSet
  <2>7. Whole(e)
    BY <1>4, <1>6, <1>a, <2>2, <2>3
  <2> QED
    BY <1>5, <1>10, <2>2, <2>3, <2>4, <2>6, <2>7
<1>11. CASE c.kind = "moveLayer" /\ c \in MoveLayerCommand
  <2>1. /\ v \in 1 .. Len(d.layers) /\ w \in 1 .. Len(d.layers)
        /\ c.layer \in IdsOf(d.layers) /\ Len(d.layers) > 1
    <3>1. v \in 1 .. Len(d.layers) /\ w \in 1 .. Len(d.layers)
      BY <1>11 DEF Fitting
    <3>2. c.layer \in IdsOf(d.layers) /\ Len(d.layers) > 1
      BY <1>11, SettableIs
    <3> QED
      BY <3>1, <3>2
  <2>2. /\ e.layers = Reordered(d.layers, c.layer, v)
        /\ e.objects = d.objects /\ e.active = d.active
    BY <1>3, <1>11 DEF ViewSet, View
  <2>3. /\ Distinct(e.layers) /\ IdsOf(e.layers) = IdsOf(d.layers) /\ Len(e.layers) = Len(d.layers)
        /\ Reordered(e.layers, c.layer, w) = Reordered(d.layers, c.layer, w)
    BY <1>1, <1>4, <2>1, <2>2, ReorderedIs
  <2>4. Settable(c, e, w) /\ Fitting(N, c, e.layers, w)
    BY <1>11, <2>1, <2>3, SettableIs DEF Fitting
  <2>6. ViewSet(c, e.objects, e.layers, e.active, w)
          = ViewSet(c, d.objects, d.layers, d.active, w)
    BY <1>11, <2>2, <2>3 DEF ViewSet
  <2>7. Whole(e)
    BY <1>4, <1>6, <1>a, <2>2, <2>3
  <2> QED
    BY <1>5, <1>11, <2>2, <2>3, <2>4, <2>6, <2>7
<1> QED
  BY <1>7, <1>8, <1>9, <1>10, <1>11, SetCommandIs
-----------------------------------------------------------------------------
(* Redo and undo of any command *)

\* The kind says which command it is.
LEMMA CommandIs ==
  ASSUME NEW N, NEW c \in CommandType(N)
  PROVE  \/ c.kind = "create" /\ c \in CreateCommand
         \/ c.kind = "delete" /\ c \in DeleteCommand
         \/ c.kind = "paste" /\ c \in PasteCommand
         \/ c.kind = "addLayer" /\ c \in AddLayerCommand(N)
         \/ c \in SetCommand(N)
BY DEF CommandType, CreateCommand, DeleteCommand, PasteCommand, AddLayerCommand

\* The fields of a creation.
LEMMA CreateIs ==
  ASSUME NEW c \in CreateCommand
  PROVE  c.object \in ObjectType /\ c.id \in Nat /\ c.object.id \in Nat /\ c.object.layer \in Nat
BY DEF CreateCommand, ObjectType

\* The fields of a deletion: a position for every object.
LEMMA DeleteIs ==
  ASSUME NEW c \in DeleteCommand
  PROVE  /\ c.objects \in Objects /\ c.indices \in Seq(Nat \ {0})
         /\ Len(c.indices) = Len(c.objects) /\ Len(c.objects) \in Nat
<1>1. c.objects \in Objects /\ c.indices \in Seq(Nat \ {0}) /\ Len(c.indices) = Len(c.objects)
  BY DEF DeleteCommand
<1> QED
  BY <1>1, LenProperties DEF Objects

\* The fields of a paste.
LEMMA PasteIs ==
  ASSUME NEW c \in PasteCommand
  PROVE  c.objects \in Objects /\ c.layer \in Nat /\ Len(c.objects) \in Nat
<1>1. c.objects \in Objects /\ c.layer \in Nat
  BY DEF PasteCommand
<1> QED
  BY <1>1, LenProperties DEF Objects

\* The fields of a command that adds a layer.
LEMMA AddLayerIs ==
  ASSUME NEW N, NEW c \in AddLayerCommand(N)
  PROVE  /\ c.layer \in LayerType(N) /\ c.index \in Nat \ {0} /\ c.previous \in Nat
         /\ c.layer.id \in Nat
BY DEF AddLayerCommand, LayerType

\* Redo and undo by kind.
LEMMA RedoneByKind ==
  ASSUME NEW c, NEW doc
  PROVE  /\ c.kind = "create" =>
              /\ Redone(c, doc) = AppendObject(doc, c.object, c.id, c.object.layer)
              /\ Undone(c, doc) = RemoveObject(doc, c.id)
              /\ Redoable(c, doc) <=> CanAppendObject(doc, c.id, c.object.layer)
              /\ Undoable(c, doc) <=> c.id \in ObjectIds(doc)
         /\ c.kind = "delete" =>
              /\ Redone(c, doc) = DeleteExecuted(c, doc)
              /\ Undone(c, doc) = DeleteUndone(c, doc)
              /\ Redoable(c, doc)
              /\ Undoable(c, doc) <=> SnapshotIds(c) \cap ObjectIds(doc) = {}
         /\ c.kind = "paste" =>
              /\ Redone(c, doc) = PasteExecuted(c, doc)
              /\ Undone(c, doc) = PasteUndone(c, doc)
              /\ Redoable(c, doc) <=> \A id \in SnapshotIds(c) : CanAppendObject(doc, id, c.layer)
              /\ Undoable(c, doc) <=> SnapshotIds(c) \subseteq ObjectIds(doc)
         /\ c.kind = "addLayer" =>
              /\ Redone(c, doc) = SetActiveLayer(InsertLayer(doc, c.layer, c.index), c.layer.id)
              /\ Undone(c, doc) = SetActiveLayer(DeleteLayer(doc, c.layer.id), c.previous)
              /\ Redoable(c, doc) <=> c.layer.id \notin LayerIds(doc)
              /\ Undoable(c, doc) <=> /\ CanDeleteLayer(doc, c.layer.id)
                                      /\ c.previous \in LayerIds(doc)
<1>1. CASE c.kind = "create"
  BY <1>1 DEF Redone, Undone, Redoable, Undoable, CreateExecuted, CreateUndone
<1>2. CASE c.kind = "delete"
  BY <1>2 DEF Redone, Undone, Redoable, Undoable
<1>3. CASE c.kind = "paste"
  BY <1>3 DEF Redone, Undone, Redoable, Undoable
<1>4. CASE c.kind = "addLayer"
  BY <1>4 DEF Redone, Undone, Redoable, Undoable, AddLayerExecuted, AddLayerUndone
<1> QED
  BY <1>1, <1>2, <1>3, <1>4

\* The values of a command that sets something fit the layers there are.
Fits(N, c, layers) ==
  c \in SetCommand(N) =>
    Fitting(N, c, layers, RedoValue(c)) /\ Fitting(N, c, layers, UndoValue(c))

\* The ids a command in the log knows objects and layers by.
RememberedIds(c) ==
  CASE c.kind = "create" -> {c.id}
    [] c.kind \in {"delete", "paste"} -> IdsOf(c.objects)
    [] OTHER -> {}

RememberedLayers(c) == IF c.kind = "addLayer" THEN {c.layer.id} ELSE {}

\* The counters of the document can be moved past all of them.
Passable(c, doc) ==
  /\ \A id \in RememberedIds(c) : CanPass(doc.nextId, id)
  /\ \A id \in RememberedLayers(c) : CanPass(doc.nextLayer, id)

\* They can be moved past each of the objects in a command.
LEMMA PassableEach ==
  ASSUME NEW c, c.kind \in {"delete", "paste"}, c.objects \in Objects, NEW doc, Passable(c, doc)
  PROVE  \A i \in 1 .. Len(c.objects) : CanPass(doc.nextId, c.objects[i].id)
<1> SUFFICES ASSUME NEW i \in 1 .. Len(c.objects)
             PROVE  CanPass(doc.nextId, c.objects[i].id)
  OBVIOUS
<1>1. c.objects[i].id \in IdsOf(c.objects)
  BY IdsOfIs DEF Objects
<1>2. c.objects[i].id \in RememberedIds(c)
  BY <1>1 DEF RememberedIds
<1> QED
  BY <1>2 DEF Passable

\* A redo makes a document, and does not go back unless a counter is at its end.
LEMMA RedoneIs ==
  ASSUME NEW N, NEW c \in CommandType(N), NEW doc \in DocumentType(N),
         Redoable(c, doc), Fits(N, c, doc.layers)
  PROVE  /\ Redone(c, doc) \in DocumentType(N)
         /\ Passable(c, doc) => Advance(doc, Redone(c, doc))
<1>1. CASE c.kind = "create" /\ c \in CreateCommand
  <2>1. c.object \in ObjectType /\ c.id \in Nat /\ c.object.layer \in Nat
    BY <1>1, CreateIs
  <2>2. Redone(c, doc) = AppendObject(doc, c.object, c.id, c.object.layer)
    BY <1>1, RedoneByKind
  <2>3. Passable(c, doc) => CanPass(doc.nextId, c.id)
    BY <1>1 DEF Passable, RememberedIds
  <2> QED
    BY <2>1, <2>2, <2>3, AppendObjectIs
<1>2. CASE c.kind = "delete" /\ c \in DeleteCommand
  <2>1. c.objects \in Objects /\ Len(c.objects) \in 0 .. Len(c.objects)
    BY <1>2, DeleteIs
  <2>2. /\ Redone(c, doc) = Deletions(c, doc)[Len(c.objects)]
        /\ Deletions(c, doc) \in [0 .. Len(c.objects) -> DocumentType(N)]
    BY <1>2, <2>1, RedoneByKind, DeletionsDef
  <2>3. Advance(doc, Deletions(c, doc)[Len(c.objects)])
    BY <2>1, DeletionsAdvance
  <2> QED
    BY <2>1, <2>2, <2>3
<1>3. CASE c.kind = "paste" /\ c \in PasteCommand
  <2>1. c.objects \in Objects /\ Len(c.objects) \in 0 .. Len(c.objects) /\ c.layer \in Nat
    BY <1>3, PasteIs
  <2>2. /\ Redone(c, doc) = Additions(c, doc)[Len(c.objects)]
        /\ Additions(c, doc) \in [0 .. Len(c.objects) -> DocumentType(N)]
    BY <1>3, <2>1, RedoneByKind, AdditionsDef
  <2>3. ASSUME Passable(c, doc)
        PROVE  Advance(doc, Additions(c, doc)[Len(c.objects)])
    <3>1. \A i \in 1 .. Len(c.objects) : CanPass(doc.nextId, c.objects[i].id)
      BY <1>3, <2>1, <2>3, PassableEach
    <3> QED
      BY <2>1, <3>1, AdditionsAdvance
  <2> QED
    BY <2>1, <2>2, <2>3
<1>4. CASE c.kind = "addLayer" /\ c \in AddLayerCommand(N)
  <2>1. c.layer \in LayerType(N) /\ c.index \in Nat \ {0} /\ c.layer.id \in Nat
    BY <1>4, AddLayerIs
  <2> DEFINE mid == InsertLayer(doc, c.layer, c.index)
  <2>2. mid \in DocumentType(N) /\ (CanPass(doc.nextLayer, c.layer.id) => Advance(doc, mid))
    BY <2>1, InsertLayerIs
  <2>3. Redone(c, doc) = SetActiveLayer(mid, c.layer.id)
    BY <1>4, RedoneByKind
  <2> HIDE DEF mid
  <2>4. SetActiveLayer(mid, c.layer.id) \in DocumentType(N)
        /\ Advance(mid, SetActiveLayer(mid, c.layer.id))
    BY <2>1, <2>2, SetActiveLayerIs
  <2>5. Passable(c, doc) => CanPass(doc.nextLayer, c.layer.id)
    BY <1>4 DEF Passable, RememberedLayers
  <2> QED
    BY <2>2, <2>3, <2>4, <2>5, AdvanceTransitive
<1>5. CASE c \in SetCommand(N)
  <2>1. Settable(c, doc, RedoValue(c)) /\ Fitting(N, c, doc.layers, RedoValue(c))
        /\ Redone(c, doc) = ValueSet(c, doc, RedoValue(c))
    BY <1>5, SetsValue DEF Fits
  <2> QED
    BY <1>5, <2>1, ValueSetIs
<1> QED
  BY <1>1, <1>2, <1>3, <1>4, <1>5, CommandIs

\* So does an undo.
LEMMA UndoneIs ==
  ASSUME NEW N, NEW c \in CommandType(N), NEW doc \in DocumentType(N),
         Undoable(c, doc), Fits(N, c, doc.layers)
  PROVE  /\ Undone(c, doc) \in DocumentType(N)
         /\ Passable(c, doc) => Advance(doc, Undone(c, doc))
<1>1. CASE c.kind = "create" /\ c \in CreateCommand
  <2>1. Undone(c, doc) = RemoveObject(doc, c.id)
    BY <1>1, RedoneByKind
  <2> QED
    BY <2>1, RemoveObjectIs
<1>2. CASE c.kind = "delete" /\ c \in DeleteCommand
  <2>1. /\ c.objects \in Objects /\ Len(c.objects) \in 0 .. Len(c.objects)
        /\ c.indices \in Seq(Nat \ {0}) /\ Len(c.indices) = Len(c.objects)
    BY <1>2, DeleteIs
  <2>2. /\ Undone(c, doc) = Restorations(c, doc)[Len(c.objects)]
        /\ Restorations(c, doc) \in [0 .. Len(c.objects) -> DocumentType(N)]
    BY <1>2, <2>1, RedoneByKind, RestorationsDef
  <2>3. ASSUME Passable(c, doc)
        PROVE  Advance(doc, Restorations(c, doc)[Len(c.objects)])
    <3>1. \A i \in 1 .. Len(c.objects) : CanPass(doc.nextId, c.objects[i].id)
      BY <1>2, <2>1, <2>3, PassableEach
    <3> QED
      BY <2>1, <3>1, RestorationsAdvance
  <2> QED
    BY <2>1, <2>2, <2>3
<1>3. CASE c.kind = "paste" /\ c \in PasteCommand
  <2>1. c.objects \in Objects /\ Len(c.objects) \in 0 .. Len(c.objects)
    BY <1>3, PasteIs
  <2>2. /\ Undone(c, doc) = Withdrawals(c, doc)[Len(c.objects)]
        /\ Withdrawals(c, doc) \in [0 .. Len(c.objects) -> DocumentType(N)]
    BY <1>3, <2>1, RedoneByKind, WithdrawalsDef
  <2>3. Advance(doc, Withdrawals(c, doc)[Len(c.objects)])
    BY <2>1, WithdrawalsAdvance
  <2> QED
    BY <2>1, <2>2, <2>3
<1>4. CASE c.kind = "addLayer" /\ c \in AddLayerCommand(N)
  <2>1. c.layer.id \in Nat /\ c.previous \in Nat
    BY <1>4, AddLayerIs
  <2>2. c.layer.id \in IdsOf(doc.layers) /\ Len(doc.layers) > 1
    BY <1>4, RedoneByKind, QueriesAre DEF CanDeleteLayer
  <2> DEFINE mid == DeleteLayer(doc, c.layer.id)
  <2>3. mid \in DocumentType(N) /\ Advance(doc, mid)
    BY <2>2, DeleteLayerIs
  <2>4. Undone(c, doc) = SetActiveLayer(mid, c.previous)
    BY <1>4, RedoneByKind
  <2> HIDE DEF mid
  <2>5. SetActiveLayer(mid, c.previous) \in DocumentType(N)
        /\ Advance(mid, SetActiveLayer(mid, c.previous))
    BY <2>1, <2>3, SetActiveLayerIs
  <2> QED
    BY <2>3, <2>4, <2>5, AdvanceTransitive
<1>5. CASE c \in SetCommand(N)
  <2>1. Settable(c, doc, UndoValue(c)) /\ Fitting(N, c, doc.layers, UndoValue(c))
        /\ Undone(c, doc) = ValueSet(c, doc, UndoValue(c))
    BY <1>5, SetsValue DEF Fits
  <2> QED
    BY <1>5, <2>1, ValueSetIs
<1> QED
  BY <1>1, <1>2, <1>3, <1>4, <1>5, CommandIs

\* Two documents of the same content answer the queries alike.
LEMMA SameQueries ==
  ASSUME NEW d, NEW e, Content(d) = Content(e), NEW id
  PROVE  /\ d.objects = e.objects /\ d.layers = e.layers /\ d.active = e.active
         /\ ObjectIds(d) = ObjectIds(e)
         /\ LayerIds(d) = LayerIds(e)
         /\ ResolvedLayer(d, id) = ResolvedLayer(e, id)
         /\ HasObjects(d, id) = HasObjects(e, id)
<1>1. d.objects = e.objects /\ d.layers = e.layers /\ d.active = e.active
  BY ContentIs
<1>2. ObjectIds(d) = ObjectIds(e) /\ LayerIds(d) = LayerIds(e)
  BY <1>1, QueriesAre
<1>3. ResolvedLayer(d, id) = ResolvedLayer(e, id)
  BY <1>1, ResolvedLayerIs
<1>4. HasObjects(d, id) = HasObjects(e, id)
  BY <1>1 DEF HasObjects
<1> QED
  BY <1>1, <1>2, <1>3, <1>4

\* Whether a command can be redone or undone depends on the content.
LEMMA SameAble ==
  ASSUME NEW N, NEW c \in CommandType(N), NEW d, NEW e, Content(d) = Content(e)
  PROVE  /\ Redoable(c, d) <=> Redoable(c, e)
         /\ Undoable(c, d) <=> Undoable(c, e)
<1>1. /\ d.objects = e.objects /\ d.layers = e.layers
      /\ ObjectIds(d) = ObjectIds(e) /\ LayerIds(d) = LayerIds(e)
  BY SameQueries
<1>2. ASSUME NEW id, NEW layer
      PROVE  CanAppendObject(d, id, layer) <=> CanAppendObject(e, id, layer)
  <2>1. ResolvedLayer(d, layer) = ResolvedLayer(e, layer)
    BY SameQueries
  <2> QED
    BY <1>1, <2>1 DEF CanAppendObject
<1>3. ASSUME NEW id
      PROVE  CanDeleteLayer(d, id) <=> CanDeleteLayer(e, id)
  <2>1. HasObjects(d, id) <=> HasObjects(e, id)
    BY <1>1 DEF HasObjects
  <2> QED
    BY <1>1, <2>1 DEF CanDeleteLayer
<1>4. CASE c.kind = "create"
  BY <1>1, <1>2, <1>4, RedoneByKind
<1>5. CASE c.kind = "delete"
  BY <1>1, <1>5, RedoneByKind
<1>6. CASE c.kind = "paste"
  BY <1>1, <1>2, <1>6, RedoneByKind
<1>7. CASE c.kind = "addLayer"
  BY <1>1, <1>3, <1>7, RedoneByKind
<1>8. CASE c \in SetCommand(N)
  <2>1. ASSUME NEW v
        PROVE  Settable(c, d, v) <=> Settable(c, e, v)
    BY <1>1, <1>8, SettableIs
  <2> QED
    BY <1>8, <2>1, SetsValue
<1> QED
  BY <1>4, <1>5, <1>6, <1>7, <1>8, CommandIs

\* Choosing the active layer depends on the content alone.
LEMMA SameActive ==
  ASSUME NEW N, NEW d \in DocumentType(N), NEW e \in DocumentType(N), Content(d) = Content(e),
         NEW id \in Nat
  PROVE  Content(SetActiveLayer(d, id)) = Content(SetActiveLayer(e, id))
<1>1. d.objects = e.objects /\ d.layers = e.layers
  BY ContentIs
<1>2. /\ Content(SetActiveLayer(d, id)) = View(d.objects, d.layers, id)
      /\ Content(SetActiveLayer(e, id)) = View(e.objects, e.layers, id)
  BY SetActiveLayerIs
<1> QED
  BY <1>1, <1>2

\* Inserting a layer depends on the content alone.
LEMMA SameInsertLayer ==
  ASSUME NEW N, NEW d \in DocumentType(N), NEW e \in DocumentType(N), Content(d) = Content(e),
         NEW layer \in LayerType(N), NEW index \in Nat \ {0}
  PROVE  Content(InsertLayer(d, layer, index)) = Content(InsertLayer(e, layer, index))
<1>1. d.objects = e.objects /\ d.layers = e.layers /\ d.active = e.active
  BY ContentIs
<1> DEFINE joined(layers) ==
             InsertAt(layers, IF index > Len(layers) THEN Len(layers) + 1 ELSE index, layer)
<1>2. ASSUME NEW doc \in DocumentType(N)
      PROVE  Content(InsertLayer(doc, layer, index))
               = View(doc.objects, joined(doc.layers), doc.active)
  <2>1. InsertLayer(doc, layer, index)
          = Doc(doc.objects, joined(doc.layers), doc.active, doc.nextId,
                Past(doc.nextLayer, layer.id), TRUE)
    BY InsertLayerIs
  <2> HIDE DEF joined
  <2> QED
    BY <2>1 DEF Doc, Content, View
<1> HIDE DEF joined
<1>3. /\ Content(InsertLayer(d, layer, index)) = View(d.objects, joined(d.layers), d.active)
      /\ Content(InsertLayer(e, layer, index)) = View(e.objects, joined(e.layers), e.active)
  BY <1>2
<1> QED
  BY <1>1, <1>3

\* Deleting a layer depends on the content alone.
LEMMA SameDeleteLayer ==
  ASSUME NEW N, NEW d \in DocumentType(N), NEW e \in DocumentType(N), Content(d) = Content(e),
         NEW id \in IdsOf(d.layers), Len(d.layers) > 1
  PROVE  Content(DeleteLayer(d, id)) = Content(DeleteLayer(e, id))
<1>1. d.objects = e.objects /\ d.layers = e.layers /\ d.active = e.active
  BY ContentIs
<1> DEFINE rest(layers) == RemoveAt(layers, IndexOf(layers, id))
           active(layers, a) == IF a = id THEN rest(layers)[1].id ELSE a
<1>2. ASSUME NEW doc \in DocumentType(N), id \in IdsOf(doc.layers), Len(doc.layers) > 1
      PROVE  Content(DeleteLayer(doc, id))
               = View(doc.objects, rest(doc.layers), active(doc.layers, doc.active))
  BY <1>2, DeleteLayerIs
<1> HIDE DEF rest, active
<1>3. /\ Content(DeleteLayer(d, id)) = View(d.objects, rest(d.layers), active(d.layers, d.active))
      /\ Content(DeleteLayer(e, id)) = View(e.objects, rest(e.layers), active(e.layers, e.active))
  BY <1>1, <1>2
<1> QED
  BY <1>1, <1>3

\* Setting a value depends on the content alone.
LEMMA SameValueSet ==
  ASSUME NEW N, NEW c \in SetCommand(N), NEW d \in DocumentType(N), NEW e \in DocumentType(N),
         Content(d) = Content(e), NEW v, Settable(c, d, v), Fitting(N, c, d.layers, v)
  PROVE  Content(ValueSet(c, d, v)) = Content(ValueSet(c, e, v))
<1>1. d.objects = e.objects /\ d.layers = e.layers /\ d.active = e.active
  BY ContentIs
<1>2. Settable(c, e, v) /\ Fitting(N, c, e.layers, v)
  BY <1>1, SettableIs
<1>3. /\ Content(ValueSet(c, d, v)) = ViewSet(c, d.objects, d.layers, d.active, v)
      /\ Content(ValueSet(c, e, v)) = ViewSet(c, e.objects, e.layers, e.active, v)
  BY <1>2, ValueSetIs
<1> QED
  BY <1>1, <1>3

\* What a redo makes of the content depends on the content.
LEMMA SameRedone ==
  ASSUME NEW N, NEW c \in CommandType(N), NEW d \in DocumentType(N), NEW e \in DocumentType(N),
         Content(d) = Content(e), Redoable(c, d), Fits(N, c, d.layers)
  PROVE  Content(Redone(c, d)) = Content(Redone(c, e))
<1>1. CASE c.kind = "create" /\ c \in CreateCommand
  <2>1. c.object \in ObjectType /\ c.id \in Nat /\ c.object.layer \in Nat
    BY <1>1, CreateIs
  <2>2. /\ Redone(c, d) = AppendObject(d, c.object, c.id, c.object.layer)
        /\ Redone(c, e) = AppendObject(e, c.object, c.id, c.object.layer)
    BY <1>1, RedoneByKind
  <2> QED
    BY <2>1, <2>2, SameAppend
<1>2. CASE c.kind = "delete" /\ c \in DeleteCommand
  <2>1. c.objects \in Objects /\ Len(c.objects) \in 0 .. Len(c.objects)
    BY <1>2, DeleteIs
  <2>2. /\ Redone(c, d) = Deletions(c, d)[Len(c.objects)]
        /\ Redone(c, e) = Deletions(c, e)[Len(c.objects)]
    BY <1>2, <2>1, RedoneByKind, DeletionsDef
  <2> QED
    BY <2>1, <2>2, SameDeletions
<1>3. CASE c.kind = "paste" /\ c \in PasteCommand
  <2>1. c.objects \in Objects /\ Len(c.objects) \in 0 .. Len(c.objects) /\ c.layer \in Nat
    BY <1>3, PasteIs
  <2>2. /\ Redone(c, d) = Additions(c, d)[Len(c.objects)]
        /\ Redone(c, e) = Additions(c, e)[Len(c.objects)]
    BY <1>3, <2>1, RedoneByKind, AdditionsDef
  <2> QED
    BY <2>1, <2>2, SameAdditions
<1>4. CASE c.kind = "addLayer" /\ c \in AddLayerCommand(N)
  <2>1. c.layer \in LayerType(N) /\ c.index \in Nat \ {0} /\ c.layer.id \in Nat
    BY <1>4, AddLayerIs
  <2> DEFINE a == InsertLayer(d, c.layer, c.index)
             b == InsertLayer(e, c.layer, c.index)
  <2>2. a \in DocumentType(N) /\ b \in DocumentType(N)
    BY <2>1, InsertLayerIs
  <2>3. Content(a) = Content(b)
    BY <2>1, SameInsertLayer
  <2>4. Redone(c, d) = SetActiveLayer(a, c.layer.id) /\ Redone(c, e) = SetActiveLayer(b, c.layer.id)
    BY <1>4, RedoneByKind
  <2> HIDE DEF a, b
  <2> QED
    BY <2>1, <2>2, <2>3, <2>4, SameActive
<1>5. CASE c \in SetCommand(N)
  <2>1. /\ Settable(c, d, RedoValue(c)) /\ Fitting(N, c, d.layers, RedoValue(c))
        /\ Redone(c, d) = ValueSet(c, d, RedoValue(c))
        /\ Redone(c, e) = ValueSet(c, e, RedoValue(c))
    BY <1>5, SetsValue DEF Fits
  <2> QED
    BY <1>5, <2>1, SameValueSet
<1> QED
  BY <1>1, <1>2, <1>3, <1>4, <1>5, CommandIs

\* So does what an undo makes of it.
LEMMA SameUndone ==
  ASSUME NEW N, NEW c \in CommandType(N), NEW d \in DocumentType(N), NEW e \in DocumentType(N),
         Content(d) = Content(e), Undoable(c, d), Fits(N, c, d.layers)
  PROVE  Content(Undone(c, d)) = Content(Undone(c, e))
<1>1. CASE c.kind = "create" /\ c \in CreateCommand
  <2>1. Undone(c, d) = RemoveObject(d, c.id) /\ Undone(c, e) = RemoveObject(e, c.id)
    BY <1>1, RedoneByKind
  <2> QED
    BY <2>1, SameRemove
<1>2. CASE c.kind = "delete" /\ c \in DeleteCommand
  <2>1. /\ c.objects \in Objects /\ Len(c.objects) \in 0 .. Len(c.objects)
        /\ c.indices \in Seq(Nat \ {0}) /\ Len(c.indices) = Len(c.objects)
    BY <1>2, DeleteIs
  <2>2. /\ Undone(c, d) = Restorations(c, d)[Len(c.objects)]
        /\ Undone(c, e) = Restorations(c, e)[Len(c.objects)]
    BY <1>2, <2>1, RedoneByKind, RestorationsDef
  <2> QED
    BY <2>1, <2>2, SameRestorations
<1>3. CASE c.kind = "paste" /\ c \in PasteCommand
  <2>1. c.objects \in Objects /\ Len(c.objects) \in 0 .. Len(c.objects)
    BY <1>3, PasteIs
  <2>2. /\ Undone(c, d) = Withdrawals(c, d)[Len(c.objects)]
        /\ Undone(c, e) = Withdrawals(c, e)[Len(c.objects)]
    BY <1>3, <2>1, RedoneByKind, WithdrawalsDef
  <2> QED
    BY <2>1, <2>2, SameWithdrawals
<1>4. CASE c.kind = "addLayer" /\ c \in AddLayerCommand(N)
  <2>1. c.layer.id \in Nat /\ c.previous \in Nat
    BY <1>4, AddLayerIs
  <2>2. /\ c.layer.id \in IdsOf(d.layers) /\ Len(d.layers) > 1
        /\ c.layer.id \in IdsOf(e.layers) /\ Len(e.layers) > 1
    <3>1. c.layer.id \in IdsOf(d.layers) /\ Len(d.layers) > 1
      BY <1>4, RedoneByKind, QueriesAre DEF CanDeleteLayer
    <3> QED
      BY <3>1, ContentIs
  <2> DEFINE a == DeleteLayer(d, c.layer.id)
             b == DeleteLayer(e, c.layer.id)
  <2>3. a \in DocumentType(N) /\ b \in DocumentType(N)
    BY <2>2, DeleteLayerIs
  <2>4. Content(a) = Content(b)
    BY <2>2, SameDeleteLayer
  <2>5. Undone(c, d) = SetActiveLayer(a, c.previous) /\ Undone(c, e) = SetActiveLayer(b, c.previous)
    BY <1>4, RedoneByKind
  <2> HIDE DEF a, b
  <2> QED
    BY <2>1, <2>3, <2>4, <2>5, SameActive
<1>5. CASE c \in SetCommand(N)
  <2>1. /\ Settable(c, d, UndoValue(c)) /\ Fitting(N, c, d.layers, UndoValue(c))
        /\ Undone(c, d) = ValueSet(c, d, UndoValue(c))
        /\ Undone(c, e) = ValueSet(c, e, UndoValue(c))
    BY <1>5, SetsValue DEF Fits
  <2> QED
    BY <1>5, <2>1, SameValueSet
<1> QED
  BY <1>1, <1>2, <1>3, <1>4, <1>5, CommandIs
-----------------------------------------------------------------------------
(* New commands: their undo takes the document back *)

\* No id of the document is still to be handed out.
Counted(doc) ==
  /\ \A id \in IdsOf(doc.objects) : id < doc.nextId
  /\ \A id \in IdsOf(doc.layers) : id < doc.nextLayer

\* What an execution of the command on d that yields e has to leave behind.
Reversible(N, c, d, e) ==
  /\ e \in DocumentType(N)
  /\ Advance(d, e)
  /\ Whole(e)
  /\ Counted(e)
  /\ Undoable(c, e)
  /\ Fits(N, c, e.layers)
  /\ Content(Undone(c, e)) = Content(d)

\* Ids are numbers.
LEMMA IdsAreNat ==
  ASSUME NEW N, NEW d \in DocumentType(N)
  PROVE  IdsOf(d.objects) \subseteq Nat /\ IdsOf(d.layers) \subseteq Nat
<1>1. d.objects \in Seq(ObjectType) /\ d.layers \in Seq(LayerType(N))
  BY DocumentIs DEF Objects, Layers
<1>2. ASSUME NEW id \in IdsOf(d.objects) PROVE id \in Nat
  <2>1. PICK i \in 1 .. Len(d.objects) : d.objects[i].id = id
    BY <1>1, IdsOfIs
  <2>2. d.objects[i] \in ObjectType
    BY <1>1, <2>1
  <2> QED
    BY <2>1, <2>2 DEF ObjectType
<1>3. ASSUME NEW id \in IdsOf(d.layers) PROVE id \in Nat
  <2>1. PICK i \in 1 .. Len(d.layers) : d.layers[i].id = id
    BY <1>1, IdsOfIs
  <2>2. d.layers[i] \in LayerType(N)
    BY <1>1, <2>1
  <2> QED
    BY <2>1, <2>2 DEF LayerType
<1> QED
  BY <1>2, <1>3

\* A document that has no ids its predecessor lacked has none to hand out.
LEMMA CountedStill ==
  ASSUME NEW N, NEW d \in DocumentType(N), NEW e \in DocumentType(N), Counted(d), Advance(d, e),
         IdsOf(e.objects) \subseteq IdsOf(d.objects), IdsOf(e.layers) \subseteq IdsOf(d.layers)
  PROVE  Counted(e)
<1>1. /\ d.nextId \in Nat /\ e.nextId \in Nat /\ d.nextLayer \in Nat /\ e.nextLayer \in Nat
      /\ d.nextId <= e.nextId /\ d.nextLayer <= e.nextLayer
  BY DocumentIs DEF Advance
<1>2. IdsOf(d.objects) \subseteq Nat /\ IdsOf(d.layers) \subseteq Nat
  BY IdsAreNat
<1>3. ASSUME NEW id \in IdsOf(e.objects)
      PROVE  id < e.nextId
  <2>1. id \in IdsOf(d.objects) /\ id \in Nat
    BY <1>2
  <2>2. id < d.nextId
    BY <2>1 DEF Counted
  <2> QED
    BY <1>1, <2>1, <2>2
<1>4. ASSUME NEW id \in IdsOf(e.layers)
      PROVE  id < e.nextLayer
  <2>1. id \in IdsOf(d.layers) /\ id \in Nat
    BY <1>2
  <2>2. id < d.nextLayer
    BY <2>1 DEF Counted
  <2> QED
    BY <1>1, <2>1, <2>2
<1> QED
  BY <1>3, <1>4 DEF Counted

\* The value before is the one the document has.
Current(c, d) ==
  CASE c.kind = "move" -> TRUE
    [] c.kind = "property" -> d.objects[IndexOf(d.objects, c.id)][c.key] = c.before
    [] c.kind = "active" -> d.active = c.before
    [] c.kind = "attribute" -> d.layers[IndexOf(d.layers, c.layer)][c.attribute] = c.before
    [] c.kind = "moveLayer" -> IndexOf(d.layers, c.layer) = c.before

\* Setting what is current can be done, fits, and changes nothing.
LEMMA CurrentIs ==
  ASSUME NEW N, NEW c \in SetCommand(N), NEW d \in DocumentType(N), Whole(d),
         NEW v, Settable(c, d, v), Fitting(N, c, d.layers, v), Current(c, d)
  PROVE  /\ Settable(c, d, UndoValue(c))
         /\ c.kind # "move" => ViewSet(c, d.objects, d.layers, d.active, UndoValue(c)) = Content(d)
<1>1. /\ d.objects \in Objects /\ d.layers \in Layers(N) /\ d.active \in Nat
  BY DocumentIs
<1>2. /\ Distinct(d.objects) /\ Distinct(d.layers) /\ d.active \in IdsOf(d.layers)
  BY WholeIs DEF WholeParts
<1>3. Content(d) = View(d.objects, d.layers, d.active)
  BY ContentIs
<1>4. CASE c.kind = "move" /\ c \in MoveCommand
  BY <1>4, SettableIs
<1>5. CASE c.kind = "property" /\ c \in PropertyCommand
  <2>1. /\ c.id \in IdsOf(d.objects) /\ c.key \in ScalarKeys /\ c.before \in Int
        /\ UndoValue(c) = c.before
    BY <1>5, SettableIs DEF ScalarKeys, PropertyCommand, UndoValue
  <2>2. d.objects[IndexOf(d.objects, c.id)][c.key] = c.before
    BY <1>5 DEF Current
  <2>3. WithValue(d.objects, c.id, c.key, c.before) = d.objects
    BY <1>1, <1>2, <2>1, <2>2, ObjectWithValue
  <2> QED
    BY <1>3, <1>5, <2>1, <2>3, SettableIs DEF ViewSet
<1>6. CASE c.kind = "active" /\ c \in ActiveCommand
  <2>1. UndoValue(c) = d.active
    BY <1>6 DEF UndoValue, Current
  <2> QED
    BY <1>2, <1>3, <1>6, <2>1, SettableIs DEF ViewSet
<1>7. CASE /\ c.kind = "attribute" /\ c.attribute \in LayerAttributes
           /\ c.before \in AttributeValues(N, c.attribute)
  <2>1. c.layer \in IdsOf(d.layers) /\ UndoValue(c) = c.before
    BY <1>7, SettableIs DEF UndoValue
  <2>2. d.layers[IndexOf(d.layers, c.layer)][c.attribute] = c.before
    BY <1>7 DEF Current
  <2>3. WithValue(d.layers, c.layer, c.attribute, c.before) = d.layers
    BY <1>1, <1>2, <1>7, <2>1, <2>2, LayerWithValue
  <2> QED
    BY <1>3, <1>7, <2>1, <2>3, SettableIs DEF ViewSet
<1>8. CASE c.kind = "moveLayer" /\ c \in MoveLayerCommand
  <2>1. c.layer \in IdsOf(d.layers) /\ Len(d.layers) > 1 /\ UndoValue(c) = c.before
    <3>1. c.layer \in IdsOf(d.layers) /\ Len(d.layers) > 1
      BY <1>8, SettableIs
    <3> QED
      BY <1>8, <3>1 DEF UndoValue
  <2>2. IndexOf(d.layers, c.layer) = c.before /\ c.before \in 1 .. Len(d.layers)
    BY <1>1, <1>8, <2>1, IndexOfFinds DEF Current, Layers
  <2>3. Reordered(d.layers, c.layer, c.before) = d.layers
    BY <1>1, <1>2, <2>1, <2>2, ReorderedIs
  <2> QED
    BY <1>3, <1>8, <2>1, <2>3, SettableIs DEF ViewSet
<1> QED
  BY <1>4, <1>5, <1>6, <1>7, <1>8, SetCommandIs

\* A command that sets something.
LEMMA SetReverses ==
  ASSUME NEW N, NEW c \in SetCommand(N), NEW d \in DocumentType(N), Whole(d), Counted(d),
         Redoable(c, d), Fits(N, c, d.layers), Current(c, d)
  PROVE  Reversible(N, c, d, Redone(c, d))
<1> DEFINE v == RedoValue(c)
           w == UndoValue(c)
           e == Redone(c, d)
<1>1. Settable(c, d, v) /\ Fitting(N, c, d.layers, v) /\ Fitting(N, c, d.layers, w)
  BY SetsValue DEF Fits
<1>2. Settable(c, d, w)
  BY <1>1, CurrentIs
<1>3. e = ValueSet(c, d, v) /\ e \in DocumentType(N) /\ Advance(d, e)
  BY <1>1, SetsValue, ValueSetIs
<1>4. Content(e) = Content(ValueSet(c, d, v))
  BY <1>3
<1> HIDE DEF v, w, e
<1>5. /\ Whole(e)
      /\ IdsOf(e.objects) = IdsOf(d.objects)
      /\ IdsOf(e.layers) = IdsOf(d.layers)
      /\ Settable(c, e, w) /\ Fitting(N, c, e.layers, w)
      /\ c.kind = "move" =>
           Content(ValueSet(c, e, w)) = ViewSet(c, d.objects, d.layers, d.active, v + w)
      /\ c.kind # "move" =>
           Content(ValueSet(c, e, w)) = ViewSet(c, d.objects, d.layers, d.active, w)
  BY <1>1, <1>2, <1>3, <1>4, ValueSetAgain
<1>6. Fitting(N, c, e.layers, v)
  BY <1>1, <1>3, <1>4, ValueSetAgain
<1>7. Undoable(c, e) /\ Undone(c, e) = ValueSet(c, e, w)
  BY <1>5, SetsValue DEF w
<1>8. Content(ValueSet(c, e, w)) = Content(d)
  <2>1. CASE c.kind = "move"
    <3>1. v + w = 0
      <4>1. v \in Int /\ w = -v
        BY <1>1, <2>1 DEF Fitting, v, w, RedoValue, UndoValue
      <4> QED
        BY <4>1
    <3>2. d.objects \in Objects
      BY DocumentIs
    <3>3. MovedBy(d.objects, ToSet(c.ids), 0) = d.objects
      BY <3>2, MovedByTwice
    <3>4. Content(d) = View(d.objects, d.layers, d.active)
      BY ContentIs
    <3> QED
      BY <1>5, <2>1, <3>1, <3>3, <3>4 DEF ViewSet
  <2>2. CASE c.kind # "move"
    BY <1>1, <1>5, <2>2, CurrentIs DEF w
  <2> QED
    BY <2>1, <2>2
<1>9. Counted(e)
  BY <1>3, <1>5, CountedStill
<1>10. Fits(N, c, e.layers)
  BY <1>5, <1>6 DEF Fits, v, w
<1>11. Reversible(N, c, d, e)
  BY <1>3, <1>5, <1>7, <1>8, <1>9, <1>10 DEF Reversible
<1> QED
  BY <1>11 DEF e

\* The document e is d with one more object, and this can be taken back.
Extends(N, d, e, id) ==
  /\ e \in DocumentType(N)
  /\ Advance(d, e)
  /\ Whole(e)
  /\ Counted(e)
  /\ IdsOf(e.objects) = IdsOf(d.objects) \union {id}
  /\ e.layers = d.layers /\ e.active = d.active
  /\ Content(RemoveObject(e, id)) = Content(d)

\* A new object, or one of those that are pasted, goes to the end of the drawing order.
LEMMA AppendReverses ==
  ASSUME NEW N, NEW d \in DocumentType(N), Whole(d), Counted(d),
         NEW object \in ObjectType, NEW id \in Nat \ {NoId}, NEW layer \in Nat,
         id \notin IdsOf(d.objects), CanPass(d.nextId, id)
  PROVE  Extends(N, d, AppendObject(d, object, id, layer), id)
<1> DEFINE e == AppendObject(d, object, id, layer)
           l == LayerFor(d.layers, d.active, layer)
           p == Placed(object, id, l)
<1>1. /\ d.objects \in Objects /\ d.objects \in Seq(ObjectType) /\ d.layers \in Layers(N)
      /\ d.active \in Nat /\ d.nextId \in Nat /\ d.nextLayer \in Nat
  BY DocumentIs DEF Objects
<1>2. /\ Distinct(d.objects) /\ Distinct(d.layers)
      /\ NoId \notin IdsOf(d.objects) /\ NoId \notin IdsOf(d.layers)
      /\ \A o \in ToSet(d.objects) : o.layer \in IdsOf(d.layers)
      /\ d.active \in IdsOf(d.layers)
  BY WholeIs DEF WholeParts
<1>3. l \in Nat /\ l \in IdsOf(d.layers)
  BY <1>1, <1>2, LayerForIs
<1> HIDE DEF l
<1>4. p \in ObjectType /\ p.id = id /\ p.layer \in IdsOf(d.layers)
  BY <1>3, PlacedIs
<1>5. /\ e = Doc(Append(d.objects, p), d.layers, d.active, Past(d.nextId, id), d.nextLayer, TRUE)
      /\ e \in DocumentType(N)
      /\ Advance(d, e)
  BY AppendObjectIs DEF l
<1>6. /\ e.objects = Append(d.objects, p) /\ e.layers = d.layers /\ e.active = d.active
      /\ e.nextId = Past(d.nextId, id) /\ e.nextLayer = d.nextLayer
  BY <1>5 DEF Doc
<1> HIDE DEF p, e
<1>7. /\ Distinct(e.objects)
      /\ ToSet(e.objects) = ToSet(d.objects) \union {p}
      /\ IdsOf(e.objects) = IdsOf(d.objects) \union {id}
      /\ IndexOf(e.objects, id) = Len(d.objects) + 1
      /\ RemoveAt(e.objects, Len(d.objects) + 1) = d.objects
  <2>1. p.id \notin IdsOf(d.objects)
    BY <1>4
  <2>2. /\ Distinct(Append(d.objects, p))
        /\ ToSet(Append(d.objects, p)) = ToSet(d.objects) \union {p}
        /\ IdsOf(Append(d.objects, p)) = IdsOf(d.objects) \union {p.id}
        /\ IndexOf(Append(d.objects, p), p.id) = Len(d.objects) + 1
        /\ RemoveAt(Append(d.objects, p), Len(d.objects) + 1) = d.objects
    BY <1>1, <1>2, <1>4, <2>1, AppendDistinct
  <2> QED
    BY <1>4, <1>6, <2>2
<1>8. Whole(e)
  <2>1. WholeParts(e.objects, e.layers, e.active)
    BY <1>2, <1>4, <1>6, <1>7 DEF WholeParts
  <2> QED
    BY <2>1, WholeIs
<1>9. Counted(e)
  <2>1. e.nextId \in Nat /\ d.nextId <= e.nextId /\ id < e.nextId
    BY <1>1, <1>6, PastGrows
  <2>2. \A o \in IdsOf(d.objects) : o \in Nat /\ o < d.nextId
    <3>1. IdsOf(d.objects) \subseteq Nat
      BY IdsAreNat
    <3> QED
      BY <3>1 DEF Counted
  <2>3. ASSUME NEW o \in IdsOf(e.objects)
        PROVE  o < e.nextId
    <3>1. CASE o = id
      BY <2>1, <3>1
    <3>2. CASE o \in IdsOf(d.objects)
      <4>1. o \in Nat /\ o < d.nextId
        BY <2>2, <3>2
      <4> QED
        BY <1>1, <2>1, <4>1
    <3> QED
      BY <1>7, <3>1, <3>2
  <2>4. \A o \in IdsOf(e.layers) : o < e.nextLayer
    BY <1>6 DEF Counted
  <2> QED
    BY <2>3, <2>4 DEF Counted
<1>10. Content(RemoveObject(e, id)) = Content(d)
  <2>1. id \in IdsOf(e.objects)
    BY <1>7
  <2>2. RemoveObject(e, id)
          = Doc(RemoveAt(e.objects, IndexOf(e.objects, id)), e.layers, e.active,
                e.nextId, e.nextLayer, TRUE)
    BY <1>5, <2>1, RemoveObjectIs
  <2>3. RemoveObject(e, id) = Doc(d.objects, d.layers, d.active, e.nextId, e.nextLayer, TRUE)
    BY <1>6, <1>7, <2>2
  <2>4. Content(RemoveObject(e, id)) = View(d.objects, d.layers, d.active)
    BY <2>3 DEF Doc, Content, View
  <2> QED
    BY <2>4, ContentIs
<1>11. Extends(N, d, e, id)
  BY <1>5, <1>6, <1>7, <1>8, <1>9, <1>10 DEF Extends
<1> QED
  BY <1>11 DEF e

\* A new object.
LEMMA CreateReverses ==
  ASSUME NEW N, NEW c \in CreateCommand, NEW d \in DocumentType(N), Whole(d), Counted(d),
         Redoable(c, d), c.id # NoId, CanPass(d.nextId, c.id)
  PROVE  Reversible(N, c, d, Redone(c, d)) /\ c.id \in IdsOf(Redone(c, d).objects)
<1> DEFINE e == AppendObject(d, c.object, c.id, c.object.layer)
<1>1. c.kind = "create"
  BY DEF CreateCommand
<1>2. c.object \in ObjectType /\ c.id \in Nat \ {NoId} /\ c.object.layer \in Nat
  BY CreateIs
<1>3. c.id \notin IdsOf(d.objects)
  BY <1>1, RedoneByKind, QueriesAre DEF CanAppendObject
<1>4. /\ e \in DocumentType(N)
      /\ Advance(d, e)
      /\ Whole(e)
      /\ Counted(e)
      /\ IdsOf(e.objects) = IdsOf(d.objects) \union {c.id}
      /\ Content(RemoveObject(e, c.id)) = Content(d)
  <2>1. Extends(N, d, AppendObject(d, c.object, c.id, c.object.layer), c.id)
    BY <1>2, <1>3, AppendReverses
  <2> QED
    BY <2>1 DEF Extends
<1>5. Redone(c, d) = e
  BY <1>1, RedoneByKind
<1> HIDE DEF e
<1>6. Undoable(c, e) /\ Undone(c, e) = RemoveObject(e, c.id)
  BY <1>1, <1>4, RedoneByKind, QueriesAre
<1>7. Fits(N, c, e.layers)
  <2>1. c \notin SetCommand(N)
    BY <1>1, SetCommandIs
  <2> QED
    BY <2>1 DEF Fits
<1> QED
  BY <1>4, <1>5, <1>6, <1>7 DEF Reversible

\* A new layer, which is the active one.
LEMMA AddLayerReverses ==
  ASSUME NEW N, NEW c \in AddLayerCommand(N), NEW d \in DocumentType(N), Whole(d), Counted(d),
         Redoable(c, d), c.layer.id # NoId, c.index = Len(d.layers) + 1, c.previous = d.active,
         CanPass(d.nextLayer, c.layer.id)
  PROVE  Reversible(N, c, d, Redone(c, d)) /\ c.layer.id \in IdsOf(Redone(c, d).layers)
<1> DEFINE id == c.layer.id
           m == InsertLayer(d, c.layer, c.index)
           e == SetActiveLayer(m, id)
           f == DeleteLayer(e, id)
<1>1. c.kind = "addLayer"
  BY DEF AddLayerCommand
<1>2. /\ d.objects \in Objects /\ d.objects \in Seq(ObjectType)
      /\ d.layers \in Layers(N) /\ d.layers \in Seq(LayerType(N)) /\ Len(d.layers) \in Nat
      /\ d.active \in Nat /\ d.nextId \in Nat /\ d.nextLayer \in Nat
  BY DocumentIs, LenProperties DEF Objects, Layers
<1>3. /\ Distinct(d.objects) /\ Distinct(d.layers)
      /\ NoId \notin IdsOf(d.objects) /\ NoId \notin IdsOf(d.layers)
      /\ \A o \in ToSet(d.objects) : o.layer \in IdsOf(d.layers)
      /\ d.active \in IdsOf(d.layers)
  BY WholeIs DEF WholeParts
<1>4. /\ c.layer \in LayerType(N) /\ c.index \in Nat \ {0} /\ id \in Nat
      /\ Len(d.layers) + 1 \in 1 .. (Len(d.layers) + 1)
  BY <1>2, AddLayerIs
<1>5. id \notin IdsOf(d.layers)
  BY <1>1, RedoneByKind, QueriesAre
<1>6. Redone(c, d) = e
  BY <1>1, RedoneByKind
<1>7. /\ m = Doc(d.objects, InsertAt(d.layers, Len(d.layers) + 1, c.layer), d.active, d.nextId,
                 Past(d.nextLayer, id), TRUE)
      /\ m \in DocumentType(N)
      /\ Advance(d, m)
  BY <1>2, <1>4, InsertLayerIs
<1>8. /\ Content(e) = View(m.objects, m.layers, id)
      /\ e \in DocumentType(N)
      /\ Advance(m, e)
  BY <1>4, <1>7, SetActiveLayerIs
<1> HIDE DEF m, e, f
<1>9. /\ m.objects = d.objects /\ m.layers = Append(d.layers, c.layer)
      /\ m.nextLayer = Past(d.nextLayer, id)
  <2>1. InsertAt(d.layers, Len(d.layers) + 1, c.layer) = Append(d.layers, c.layer)
    BY <1>2, <1>4, AppendInserts
  <2> QED
    BY <1>7, <2>1 DEF Doc
<1>10. e.objects = d.objects /\ e.layers = Append(d.layers, c.layer) /\ e.active = id
  <2>1. Content(e) = View(e.objects, e.layers, e.active)
    BY ContentIs
  <2> QED
    BY <1>8, <1>9, <2>1 DEF View
<1>11. /\ Distinct(e.layers)
       /\ IdsOf(e.layers) = IdsOf(d.layers) \union {id}
       /\ IndexOf(e.layers, id) = Len(d.layers) + 1
       /\ RemoveAt(e.layers, Len(d.layers) + 1) = d.layers
  BY <1>2, <1>3, <1>4, <1>5, <1>10, AppendDistinct
<1>12. Whole(e)
  <2>1. WholeParts(e.objects, e.layers, e.active)
    BY <1>3, <1>10, <1>11 DEF WholeParts
  <2> QED
    BY <2>1, WholeIs
<1>13. Advance(d, e)
  BY <1>7, <1>8, AdvanceTransitive
<1>14. Counted(e)
  <2>1. /\ e.nextId \in Nat /\ e.nextLayer \in Nat /\ m.nextLayer \in Nat
        /\ m.nextLayer <= e.nextLayer /\ d.nextId <= e.nextId
    BY <1>7, <1>8, <1>13, DocumentIs DEF Advance
  <2>2. m.nextLayer = Past(d.nextLayer, id) /\ d.nextLayer <= m.nextLayer /\ id < m.nextLayer
    BY <1>2, <1>4, <1>9, PastGrows
  <2>3. ASSUME NEW o \in IdsOf(e.objects)
        PROVE  o < e.nextId
    <3>1. o \in IdsOf(d.objects)
      BY <1>10
    <3>2. o \in Nat /\ o < d.nextId
      <4>1. IdsOf(d.objects) \subseteq Nat
        BY IdsAreNat
      <4> QED
        BY <3>1, <4>1 DEF Counted
    <3> QED
      BY <1>2, <2>1, <3>2
  <2>4. ASSUME NEW o \in IdsOf(e.layers)
        PROVE  o < e.nextLayer
    <3>1. CASE o = id
      BY <1>4, <2>1, <2>2, <3>1
    <3>2. CASE o \in IdsOf(d.layers)
      <4>1. o \in Nat /\ o < d.nextLayer
        <5>1. IdsOf(d.layers) \subseteq Nat
          BY IdsAreNat
        <5> QED
          BY <3>2, <5>1 DEF Counted
      <4> QED
        BY <1>2, <2>1, <2>2, <4>1
    <3> QED
      BY <1>11, <3>1, <3>2
  <2> QED
    BY <2>3, <2>4 DEF Counted
<1>15. Len(e.layers) > 1
  <2>1. Len(d.layers) >= 1
    <3>1. PICK i \in 1 .. Len(d.layers) : d.layers[i].id = d.active
      BY <1>2, <1>3, IdsOfIs
    <3> QED
      BY <1>2, <3>1
  <2>2. Len(e.layers) = Len(d.layers) + 1
    BY <1>2, <1>4, <1>10, AppendProperties
  <2> QED
    BY <1>2, <2>1, <2>2
<1>16. Undoable(c, e) /\ Undone(c, e) = SetActiveLayer(f, d.active)
  <2>1. ~HasObjects(e, id)
    BY <1>3, <1>5, <1>10 DEF HasObjects
  <2>2. CanDeleteLayer(e, id)
    BY <1>11, <1>15, <2>1, QueriesAre DEF CanDeleteLayer
  <2>3. c.previous \in LayerIds(e)
    BY <1>3, <1>11, QueriesAre
  <2> QED
    BY <1>1, <2>2, <2>3, RedoneByKind DEF f
<1>17. Content(SetActiveLayer(f, d.active)) = Content(d)
  <2>1. id \in IdsOf(e.layers)
    BY <1>11
  <2>2. /\ Content(f) = View(e.objects, RemoveAt(e.layers, IndexOf(e.layers, id)),
                             IF e.active = id
                             THEN RemoveAt(e.layers, IndexOf(e.layers, id))[1].id
                             ELSE e.active)
        /\ f \in DocumentType(N)
    BY <1>8, <1>15, <2>1, DeleteLayerIs DEF f
  <2>3. f.objects = d.objects /\ f.layers = d.layers
    <3>1. Content(f) = View(f.objects, f.layers, f.active)
      BY ContentIs
    <3>2. RemoveAt(e.layers, IndexOf(e.layers, id)) = d.layers
      BY <1>11
    <3> QED
      BY <1>10, <2>2, <3>1, <3>2 DEF View
  <2>4. Content(SetActiveLayer(f, d.active)) = View(f.objects, f.layers, d.active)
    BY <1>2, <2>2, SetActiveLayerIs
  <2> QED
    BY <2>3, <2>4, ContentIs
<1>18. Fits(N, c, e.layers)
  <2>1. c \notin SetCommand(N)
    BY <1>1, SetCommandIs
  <2> QED
    BY <2>1 DEF Fits
<1>19. Reversible(N, c, d, e)
  BY <1>8, <1>12, <1>13, <1>14, <1>16, <1>17, <1>18 DEF Reversible
<1> QED
  BY <1>6, <1>11, <1>19

\* What is pasted up to i is at the end, and the last of it can be taken back.
Pasted(N, c, d, m, i) ==
  /\ m[i] \in DocumentType(N)
  /\ Advance(d, m[i])
  /\ Whole(m[i])
  /\ Counted(m[i])
  /\ m[i].layers = d.layers /\ m[i].active = d.active
  /\ \A j \in 1 .. Len(c.objects) : c.objects[j].id \in IdsOf(m[i].objects) <=> j <= i
  /\ i # 0 => Content(RemoveObject(m[i], c.objects[i].id)) = Content(m[i - 1])

\* One more object is pasted.
LEMMA PastedNext ==
  ASSUME NEW N, NEW c \in PasteCommand, NEW d \in DocumentType(N),
         Distinct(c.objects), NoId \notin IdsOf(c.objects),
         NEW m, NEW i \in 1 .. Len(c.objects), Pasted(N, c, d, m, i - 1),
         CanPass(d.nextId, c.objects[i].id),
         m[i] = AppendObject(m[i - 1], c.objects[i], c.objects[i].id, c.layer)
  PROVE  Pasted(N, c, d, m, i)
<1> DEFINE n == Len(c.objects)
           id == c.objects[i].id
           a == m[i - 1]
<1>1. c.objects \in Objects /\ c.objects \in Seq(ObjectType) /\ c.layer \in Nat /\ n \in Nat
  BY PasteIs DEF Objects
<1>2. c.objects[i] \in ObjectType /\ id \in Nat
  <2>1. c.objects[i] \in ObjectType
    BY <1>1, ElementOfSeq
  <2> QED
    BY <2>1 DEF ObjectType
<1>3. id # NoId
  BY <1>1, IdsOfIs
<1>4. /\ a \in DocumentType(N) /\ Advance(d, a) /\ Whole(a) /\ Counted(a)
      /\ a.layers = d.layers /\ a.active = d.active
      /\ \A j \in 1 .. n : c.objects[j].id \in IdsOf(a.objects) <=> j <= i - 1
  BY DEF Pasted
<1>5. id \notin IdsOf(a.objects)
  <2>1. i \in 1 .. n /\ ~ (i <= i - 1)
    BY <1>1
  <2> QED
    BY <1>4, <2>1
<1>p. CanPass(a.nextId, id)
  <2>1. d.nextId \in Nat /\ a.nextId \in Nat /\ d.nextId <= a.nextId
    BY <1>4, DocumentIs DEF Advance
  <2> QED
    BY <1>2, <2>1, CanPassGrows
<1>6. Extends(N, a, m[i], id)
  <2> DEFINE o == c.objects[i]
             l == c.layer
             k == id
             b == a
  <2>1. /\ o \in ObjectType /\ l \in Nat /\ k \in Nat \ {NoId} /\ k \notin IdsOf(b.objects)
        /\ b \in DocumentType(N) /\ Whole(b) /\ Counted(b) /\ CanPass(b.nextId, k)
    BY <1>1, <1>2, <1>3, <1>4, <1>5, <1>p
  <2>2. m[i] = AppendObject(b, o, k, l)
    OBVIOUS
  <2> HIDE DEF o, l, k, b
  <2>3. Extends(N, b, m[i], k)
    BY <2>1, <2>2, AppendReverses
  <2> QED
    BY <2>3 DEF k, b
<1>7. Advance(d, m[i])
  BY <1>4, <1>6, AdvanceTransitive DEF Extends
<1>8. ASSUME NEW j \in 1 .. n
      PROVE  c.objects[j].id \in IdsOf(m[i].objects) <=> j <= i
  <2>1. IdsOf(m[i].objects) = IdsOf(a.objects) \union {id}
    BY <1>6 DEF Extends
  <2>2. c.objects[j].id = id => j = i
    <3>1. i \in DOMAIN c.objects /\ j \in DOMAIN c.objects
      BY <1>1
    <3> QED
      BY <3>1 DEF Distinct
  <2>3. c.objects[j].id \in IdsOf(a.objects) <=> j <= i - 1
    BY <1>4
  <2>4. j <= i <=> j <= i - 1 \/ j = i
    BY <1>1
  <2> QED
    BY <2>1, <2>2, <2>3, <2>4
<1> QED
  BY <1>4, <1>6, <1>7, <1>8 DEF Pasted, Extends

\* New objects that are pasted.
LEMMA PasteReverses ==
  ASSUME NEW N, NEW c \in PasteCommand, NEW d \in DocumentType(N), Whole(d), Counted(d),
         Redoable(c, d), Distinct(c.objects), NoId \notin IdsOf(c.objects), Passable(c, d)
  PROVE  Reversible(N, c, d, Redone(c, d)) /\ IdsOf(c.objects) \subseteq IdsOf(Redone(c, d).objects)
<1> DEFINE n == Len(c.objects)
           m == Additions(c, d)
<1>1. c.kind = "paste"
  BY DEF PasteCommand
<1>2. c.objects \in Objects /\ c.objects \in Seq(ObjectType) /\ c.layer \in Nat /\ n \in Nat
  BY PasteIs DEF Objects
<1>3. SnapshotIds(c) = IdsOf(c.objects)
  BY DEF SnapshotIds, IdsOf
<1>4. /\ Redone(c, d) = m[n]
      /\ m \in [0 .. n -> DocumentType(N)]
      /\ m[0] = d
      /\ \A i \in 1 .. n : m[i] = AppendObject(m[i - 1], c.objects[i], c.objects[i].id, c.layer)
  BY <1>1, <1>2, AdditionsDef, RedoneByKind
<1> HIDE DEF m
<1>p. \A i \in 1 .. n : CanPass(d.nextId, c.objects[i].id)
  BY <1>1, <1>2, PassableEach
<1>5. Pasted(N, c, d, m, 0)
  <2>1. ASSUME NEW j \in 1 .. n
        PROVE  c.objects[j].id \notin IdsOf(d.objects) /\ ~ (j <= 0)
    <3>1. c.objects[j].id \in IdsOf(c.objects)
      BY <1>2, IdsOfIs
    <3>2. CanAppendObject(d, c.objects[j].id, c.layer)
      BY <1>1, <1>3, <3>1, RedoneByKind
    <3>3. c.objects[j].id \notin IdsOf(d.objects)
      BY <3>2, QueriesAre DEF CanAppendObject
    <3>4. ~ (j <= 0)
      BY <1>2
    <3> QED
      BY <3>3, <3>4
  <2>2. Advance(d, d)
    BY AdvanceReflexive
  <2> QED
    BY <1>4, <2>1, <2>2 DEF Pasted
<1> DEFINE T == {i \in 0 .. n : Pasted(N, c, d, m, i)}
<1>6. 0 \in T
  BY <1>2, <1>5
<1>7. ASSUME NEW i \in 1 .. n, i - 1 \in T
      PROVE  i \in T
  <2>1. i \in 0 .. n /\ Pasted(N, c, d, m, i - 1)
    BY <1>2, <1>7
  <2>2. m[i] = AppendObject(m[i - 1], c.objects[i], c.objects[i].id, c.layer)
    BY <1>4
  <2>3. CanPass(d.nextId, c.objects[i].id)
    BY <1>p
  <2>4. Pasted(N, c, d, m, i)
    BY <2>1, <2>2, <2>3, PastedNext
  <2> QED
    BY <2>1, <2>4
<1> HIDE DEF n, T
<1>8. \A i \in 0 .. n : i \in T
  BY ONLY <1>2, <1>6, <1>7, IntervalInduction
<1>9. \A i \in 0 .. n : Pasted(N, c, d, m, i)
  BY <1>8 DEF T
<1> DEFINE e == m[n]
           w == Withdrawals(c, e)
<1>10. /\ e \in DocumentType(N) /\ Advance(d, e) /\ Whole(e) /\ Counted(e)
       /\ \A j \in 1 .. n : c.objects[j].id \in IdsOf(e.objects)
  <2>1. n \in 0 .. n /\ \A j \in 1 .. n : j <= n
    BY <1>2
  <2> QED
    BY <1>9, <2>1 DEF Pasted, n
<1>11. IdsOf(c.objects) \subseteq IdsOf(e.objects)
  <2> SUFFICES ASSUME NEW id \in IdsOf(c.objects)
               PROVE  id \in IdsOf(e.objects)
    OBVIOUS
  <2>1. PICK j \in 1 .. n : c.objects[j].id = id
    BY <1>2, IdsOfIs DEF n
  <2> QED
    BY <1>10, <2>1
<1> HIDE DEF e
<1>12. Undoable(c, e) /\ Undone(c, e) = PasteUndone(c, e)
  BY <1>1, <1>3, <1>11, RedoneByKind, QueriesAre
<1>13. /\ PasteUndone(c, e) = w[n]
       /\ w \in [0 .. n -> DocumentType(N)]
       /\ w[0] = e
       /\ \A i \in 1 .. n : w[i] = RemoveObject(w[i - 1], c.objects[n - i + 1].id)
  BY <1>2, <1>10, WithdrawalsDef DEF n
<1> HIDE DEF w
<1> DEFINE B == {i \in 0 .. n : Content(w[i]) = Content(m[n - i])}
<1>14. 0 \in B
  <2>1. 0 \in 0 .. n /\ n - 0 = n
    BY <1>2 DEF n
  <2> QED
    BY <1>13, <2>1 DEF e
<1>15. ASSUME NEW i \in 1 .. n, i - 1 \in B
       PROVE  i \in B
  <2> DEFINE k == n - i + 1
  <2>1. /\ i \in 0 .. n /\ i - 1 \in 0 .. n /\ k \in 1 .. n /\ k \in 0 .. n
        /\ n - (i - 1) = k /\ k - 1 = n - i /\ k # 0 /\ k - 1 \in 0 .. n
    BY <1>2 DEF n
  <2>2. w[i] = RemoveObject(w[i - 1], c.objects[k].id)
    BY <1>13
  <2>3. Content(w[i - 1]) = Content(m[k])
    BY <1>15, <2>1
  <2>4. Content(RemoveObject(m[k], c.objects[k].id)) = Content(m[k - 1])
    BY <1>9, <2>1 DEF Pasted
  <2>5. w[i - 1] \in DocumentType(N) /\ m[k] \in DocumentType(N)
    BY <1>4, <1>13, <2>1 DEF n
  <2> HIDE DEF k
  <2>6. Content(RemoveObject(w[i - 1], c.objects[k].id))
          = Content(RemoveObject(m[k], c.objects[k].id))
    BY <2>3, <2>5, SameRemove
  <2>7. Content(w[i]) = Content(m[n - i])
    BY <2>1, <2>2, <2>4, <2>6
  <2> QED
    BY <2>1, <2>7
<1>16. n \in Nat
  BY <1>2 DEF n
<1> HIDE DEF B
<1>17. \A i \in 0 .. n : i \in B
  BY ONLY <1>16, <1>14, <1>15, IntervalInduction
<1>18. Content(Undone(c, e)) = Content(d)
  <2>1. n \in 0 .. n /\ n - n = 0
    BY <1>16
  <2>2. Content(w[n]) = Content(m[0])
    BY <1>17, <2>1 DEF B
  <2> QED
    BY <1>4, <1>12, <1>13, <2>2
<1>19. Fits(N, c, e.layers)
  <2>1. c \notin SetCommand(N)
    BY <1>1, SetCommandIs
  <2> QED
    BY <2>1 DEF Fits
<1>20. Reversible(N, c, d, e)
  BY <1>10, <1>12, <1>18, <1>19 DEF Reversible
<1> QED
  BY <1>4, <1>11, <1>20 DEF e, n

\* Which elements there are.
LEMMA ElementsMembers ==
  ASSUME NEW S, NEW s \in Seq(S), NEW positions \in SUBSET (1 .. Len(s))
  PROVE  /\ Elements(s, positions) \in Seq(S)
         /\ ToSet(Elements(s, positions)) \subseteq ToSet(s)
         /\ \A i \in 1 .. Len(Elements(s, positions)) :
              \E p \in positions : Elements(s, positions)[i] = s[p]
         /\ \A p \in positions :
              \E i \in 1 .. Len(Elements(s, positions)) : Elements(s, positions)[i] = s[p]
         /\ Elements(s, 1 .. Len(s)) = s
<1> DEFINE g == Ascending(positions, Len(s))
           t == Elements(s, positions)
           all == Ascending(1 .. Len(s), Len(s))
<1>1. /\ Lists(g, positions) /\ t = Picked(s, g) /\ t \in Seq(S)
  <2>1. positions \cap (1 .. Len(s)) = positions
    OBVIOUS
  <2> QED
    BY <2>1, ElementsIs
<1>2. Elements(s, 1 .. Len(s)) = s
  <2>1. Lists(all, 1 .. Len(s)) /\ Elements(s, 1 .. Len(s)) = Picked(s, all)
    <3>1. (1 .. Len(s)) \cap (1 .. Len(s)) = 1 .. Len(s)
      OBVIOUS
    <3> QED
      BY <3>1, ElementsIs
  <2> QED
    BY <2>1, PickedAll
<1> HIDE DEF g, t
<1>3. Len(t) = Len(g) /\ \A i \in 1 .. Len(g) : g[i] \in 1 .. Len(s) /\ t[i] = s[g[i]]
  BY <1>1, PickedIs
<1>4. \A i \in 1 .. Len(t) : \E p \in positions : t[i] = s[p]
  <2>1. \A i \in 1 .. Len(g) : g[i] \in positions
    BY <1>1, ListsMembers
  <2> QED
    BY <1>3, <2>1
<1>5. \A p \in positions : \E i \in 1 .. Len(t) : t[i] = s[p]
  <2> SUFFICES ASSUME NEW p \in positions
               PROVE  \E i \in 1 .. Len(t) : t[i] = s[p]
    OBVIOUS
  <2>1. PICK i \in 1 .. Len(g) : g[i] = p
    BY <1>1, ListsMembers
  <2> QED
    BY <1>3, <2>1
<1>6. ToSet(t) \subseteq ToSet(s)
  <2> SUFFICES ASSUME NEW x \in ToSet(t)
               PROVE  x \in ToSet(s)
    OBVIOUS
  <2>1. PICK i \in DOMAIN t : t[i] = x
    BY DEF ToSet
  <2>2. i \in 1 .. Len(t)
    BY <1>1, <2>1, LenProperties
  <2>3. PICK p \in positions : t[i] = s[p]
    BY <1>4, <2>2
  <2>4. p \in DOMAIN s
    BY LenProperties
  <2> QED
    BY <2>1, <2>3, <2>4 DEF ToSet
<1> QED
  BY <1>1, <1>2, <1>4, <1>5, <1>6 DEF t

\* Elements with distinct ids have distinct ids, those of their positions.
LEMMA ElementsIds ==
  ASSUME NEW S, NEW s \in Seq(S), Distinct(s), NEW positions \in SUBSET (1 .. Len(s))
  PROVE  /\ Distinct(Elements(s, positions))
         /\ IdsOf(Elements(s, positions)) \subseteq IdsOf(s)
         /\ \A p \in 1 .. Len(s) : s[p].id \in IdsOf(Elements(s, positions)) <=> p \in positions
<1> DEFINE g == Ascending(positions, Len(s))
           t == Elements(s, positions)
<1>1. /\ Lists(g, positions) /\ t = Picked(s, g) /\ t \in Seq(S)
  <2>1. positions \cap (1 .. Len(s)) = positions
    OBVIOUS
  <2> QED
    BY <2>1, ElementsIs
<1>2. /\ \A i \in 1 .. Len(t) : \E p \in positions : t[i] = s[p]
      /\ \A p \in positions : \E i \in 1 .. Len(t) : t[i] = s[p]
      /\ ToSet(t) \subseteq ToSet(s)
  BY ElementsMembers
<1> HIDE DEF g, t
<1>3. /\ Len(g) \in Nat /\ \A i, j \in 1 .. Len(g) : i < j => g[i] < g[j]
      /\ \A i \in 1 .. Len(g) : g[i] \in Nat
  BY <1>1, ListsMembers
<1>5. Len(t) = Len(g) /\ \A i \in 1 .. Len(g) : g[i] \in 1 .. Len(s) /\ t[i] = s[g[i]]
  BY <1>1, PickedIs
<1>7. Distinct(t)
  <2> SUFFICES ASSUME NEW i \in DOMAIN t, NEW j \in DOMAIN t, t[i].id = t[j].id
               PROVE  i = j
    BY DEF Distinct
  <2>1. i \in 1 .. Len(g) /\ j \in 1 .. Len(g)
    BY <1>1, <1>5, LenProperties
  <2>2. g[i] \in DOMAIN s /\ g[j] \in DOMAIN s /\ s[g[i]].id = s[g[j]].id
    BY <1>5, <2>1, LenProperties
  <2>3. g[i] = g[j]
    BY <2>2 DEF Distinct
  <2>4. ~ (i < j) /\ ~ (j < i)
    BY <1>3, <2>1, <2>3
  <2> QED
    BY <1>3, <2>1, <2>4
<1>8. IdsOf(t) \subseteq IdsOf(s)
  BY <1>2 DEF IdsOf
<1>9. ASSUME NEW p \in 1 .. Len(s), s[p].id \in IdsOf(t)
      PROVE  p \in positions
  <2>1. PICK i \in 1 .. Len(t) : t[i].id = s[p].id
    BY <1>1, <1>9, IdsOfIs
  <2>2. PICK r \in positions : t[i] = s[r]
    BY <1>2, <2>1
  <2>3. r \in DOMAIN s /\ p \in DOMAIN s /\ s[r].id = s[p].id
    BY <2>1, <2>2, LenProperties
  <2> QED
    BY <2>3 DEF Distinct
<1>10. ASSUME NEW p \in positions
       PROVE  s[p].id \in IdsOf(t)
  <2>1. PICK i \in 1 .. Len(t) : t[i] = s[p]
    BY <1>2
  <2>2. t[i].id \in IdsOf(t)
    BY <1>1, <2>1, IdsOfIs
  <2> QED
    BY <2>1, <2>2
<1> QED
  BY <1>7, <1>8, <1>9, <1>10 DEF t

\* What is left after one more element is taken out.
LEMMA ElementsRemove ==
  ASSUME NEW S, NEW s \in Seq(S), Distinct(s), NEW positions \in SUBSET (1 .. Len(s)),
         NEW p \in positions
  PROVE  /\ s[p].id \in IdsOf(Elements(s, positions))
         /\ RemoveAt(Elements(s, positions), IndexOf(Elements(s, positions), s[p].id))
              = Elements(s, positions \ {p})
<1> DEFINE g == Ascending(positions, Len(s))
           t == Elements(s, positions)
           rest == positions \ {p}
           h == Ascending(rest, Len(s))
<1>1. /\ Lists(g, positions) /\ t = Picked(s, g) /\ t \in Seq(S)
  <2>1. positions \cap (1 .. Len(s)) = positions
    OBVIOUS
  <2> QED
    BY <2>1, ElementsIs
<1>2. Lists(h, rest) /\ Elements(s, rest) = Picked(s, h)
  <2>1. rest \cap (1 .. Len(s)) = rest
    OBVIOUS
  <2> QED
    BY <2>1, ElementsIs
<1> HIDE DEF g, h, t, rest
<1>4. PICK q \in 1 .. Len(g) : g[q] = p
  BY <1>1, ListsMembers
<1>5. Len(t) = Len(g) /\ \A i \in 1 .. Len(g) : g[i] \in 1 .. Len(s) /\ t[i] = s[g[i]]
  BY <1>1, PickedIs
<1>6. t[q] = s[p] /\ q \in 1 .. Len(t)
  BY <1>4, <1>5
<1>7. Distinct(t)
  BY ElementsIds DEF t
<1>8. IndexOf(t, s[p].id) = q /\ s[p].id \in IdsOf(t)
  BY <1>1, <1>6, <1>7, IndexOfIs, IdsOfIs
<1>9. RemoveAt(t, q) = Picked(s, RemoveAt(g, q))
  BY <1>1, <1>4, PickedRemove
<1>10. RemoveAt(g, q) = h
  <2>1. Lists(RemoveAt(g, q), rest)
    BY <1>1, <1>4, ListsRemove DEF rest
  <2> QED
    BY <1>2, <2>1, ListsUnique
<1> QED
  BY <1>2, <1>8, <1>9, <1>10 DEF t, rest

\* An element whose predecessors are all there goes back to its place.
LEMMA ElementsInsert ==
  ASSUME NEW S, NEW s \in Seq(S), NEW positions \in SUBSET (1 .. Len(s)),
         NEW p \in 1 .. Len(s), p \notin positions, 1 .. (p - 1) \subseteq positions
  PROVE  /\ p \in 1 .. (Len(Elements(s, positions)) + 1)
         /\ InsertAt(Elements(s, positions), p, s[p]) = Elements(s, positions \union {p})
<1> DEFINE g == Ascending(positions, Len(s))
           t == Elements(s, positions)
           more == positions \union {p}
           h == Ascending(more, Len(s))
<1>1. /\ Lists(g, positions) /\ t = Picked(s, g) /\ t \in Seq(S)
  <2>1. positions \cap (1 .. Len(s)) = positions
    OBVIOUS
  <2> QED
    BY <2>1, ElementsIs
<1>2. Lists(h, more) /\ Elements(s, more) = Picked(s, h)
  <2>1. more \cap (1 .. Len(s)) = more
    OBVIOUS
  <2> QED
    BY <2>1, ElementsIs
<1>3. 0 \notin positions /\ p \in Nat \ {0}
  BY LenProperties
<1> HIDE DEF g, h, t, more
<1>4. p \in 1 .. (Len(g) + 1) /\ Lists(InsertAt(g, p, p), more)
  BY <1>1, <1>3, ListsInsert DEF more
<1>5. InsertAt(g, p, p) = h
  BY <1>2, <1>4, ListsUnique
<1>6. InsertAt(t, p, s[p]) = Picked(s, h)
  BY <1>1, <1>5, PickedInsert
<1>7. Len(t) = Len(g)
  BY <1>1, PickedIs
<1> QED
  BY <1>2, <1>4, <1>6, <1>7 DEF t, more

\* The positions of the objects that a delete command has left after i of its steps.
Left(c, m, i) == {p \in 1 .. m : \A k \in 1 .. i : c.indices[k] # p}

\* The positions of the objects that are there again after i steps of its undo.
Back(c, m, i) == {p \in 1 .. m : \A k \in (i + 1) .. Len(c.objects) : c.indices[k] # p}

\* The command deletes these objects of s.
Deletes(c, s) ==
  /\ \E positions \in SUBSET (1 .. Len(s)) : Lists(c.indices, positions)
  /\ c.objects = Picked(s, c.indices)

\* One step of the execution, and one of the undo.
LEMMA PositionsAre ==
  ASSUME NEW c \in DeleteCommand, NEW m \in Nat, NEW positions \in SUBSET (1 .. m),
         Lists(c.indices, positions)
  PROVE  /\ Left(c, m, 0) = 1 .. m
         /\ Left(c, m, Len(c.objects)) = Back(c, m, 0)
         /\ Back(c, m, Len(c.objects)) = 1 .. m
         /\ \A i \in 1 .. Len(c.objects) :
              /\ c.indices[i] \in Left(c, m, i - 1)
              /\ Left(c, m, i) = Left(c, m, i - 1) \ {c.indices[i]}
              /\ c.indices[i] \in (1 .. m) \ Back(c, m, i - 1)
              /\ Back(c, m, i) = Back(c, m, i - 1) \union {c.indices[i]}
              /\ 1 .. (c.indices[i] - 1) \subseteq Back(c, m, i - 1)
<1> DEFINE g == c.indices
           n == Len(c.objects)
<1>1. n \in Nat /\ Len(g) = n
  BY DeleteIs
<1>2. /\ \A i \in 1 .. n : g[i] \in 1 .. m
      /\ \A i, j \in 1 .. n : i < j => g[i] < g[j]
  BY <1>1, ListsMembers
<1>3. /\ Left(c, m, 0) = 1 .. m
      /\ Left(c, m, n) = Back(c, m, 0)
      /\ Back(c, m, n) = 1 .. m
  BY <1>1 DEF Left, Back
<1>4. ASSUME NEW i \in 1 .. n
      PROVE  /\ g[i] \in Left(c, m, i - 1)
             /\ Left(c, m, i) = Left(c, m, i - 1) \ {g[i]}
             /\ g[i] \in (1 .. m) \ Back(c, m, i - 1)
             /\ Back(c, m, i) = Back(c, m, i - 1) \union {g[i]}
             /\ 1 .. (g[i] - 1) \subseteq Back(c, m, i - 1)
  <2>1. /\ 1 .. i = (1 .. (i - 1)) \union {i}
        /\ i .. n = ((i + 1) .. n) \union {i}
        /\ (i - 1) + 1 = i
        /\ 1 .. (i - 1) \subseteq 1 .. n
        /\ (i + 1) .. n \subseteq 1 .. n
        /\ \A k \in 1 .. (i - 1) : k < i
        /\ \A k \in (i + 1) .. n : i < k
    BY <1>1
  <2>2. g[i] \in 1 .. m
    BY <1>2
  <2>3. \A k \in 1 .. n : k # i => g[k] # g[i]
    <3> SUFFICES ASSUME NEW k \in 1 .. n, k # i
                 PROVE  g[k] # g[i]
      OBVIOUS
    <3>1. k < i \/ i < k
      BY <1>1
    <3>2. g[k] < g[i] \/ g[i] < g[k]
      BY <1>2, <3>1
    <3>3. g[k] \in Nat /\ g[i] \in Nat
      BY <1>2
    <3> QED
      BY <3>2, <3>3
  <2>4. \A k \in 1 .. (i - 1) : g[k] # g[i]
    BY <1>1, <2>3
  <2>5. \A k \in (i + 1) .. n : g[k] # g[i]
    BY <1>1, <2>3
  <2>6. \A k \in i .. n : \A q \in 1 .. (g[i] - 1) : g[k] # q
    <3> SUFFICES ASSUME NEW k \in i .. n, NEW q \in 1 .. (g[i] - 1)
                 PROVE  g[k] # q
      OBVIOUS
    <3>1. k \in 1 .. n /\ g[k] \in Nat /\ g[i] \in Nat
      BY <1>1, <1>2
    <3>2. k = i \/ i < k
      BY <1>1
    <3>3. g[i] <= g[k]
      BY <1>2, <3>1, <3>2
    <3> QED
      BY <3>1, <3>3
  <2>7. 1 .. (g[i] - 1) \subseteq 1 .. m
    BY <2>2
  <2> HIDE DEF g, n
  <2>8. Left(c, m, i) = {p \in Left(c, m, i - 1) : c.indices[i] # p}
    BY <2>1 DEF Left
  <2>9. Left(c, m, i) = Left(c, m, i - 1) \ {g[i]} /\ g[i] \in Left(c, m, i - 1)
    BY <2>2, <2>4, <2>8 DEF Left, g
  <2>10. Back(c, m, i - 1) = {p \in Back(c, m, i) : c.indices[i] # p}
    BY <2>1 DEF Back, n
  <2>11. g[i] \in Back(c, m, i)
    BY <2>2, <2>5 DEF Back, g, n
  <2>12. 1 .. (g[i] - 1) \subseteq Back(c, m, i - 1)
    BY <2>1, <2>6, <2>7 DEF Back, g, n
  <2> QED
    BY <2>2, <2>9, <2>10, <2>11, <2>12 DEF g
<1> QED
  BY <1>3, <1>4

\* What a delete command has left, and what its undo has brought back.
Holds(N, d, e, positions) ==
  /\ e \in DocumentType(N)
  /\ e.objects = Elements(d.objects, positions)
  /\ e.layers = d.layers /\ e.active = d.active

\* The objects it deletes are removed one by one.
LEMMA DeletionsLeave ==
  ASSUME NEW N, NEW c \in DeleteCommand, NEW d \in DocumentType(N), Whole(d),
         NEW positions \in SUBSET (1 .. Len(d.objects)), Lists(c.indices, positions),
         c.objects = Picked(d.objects, c.indices)
  PROVE  /\ DeleteExecuted(c, d) = Deletions(c, d)[Len(c.objects)]
         /\ Holds(N, d, Deletions(c, d)[Len(c.objects)],
                  Left(c, Len(d.objects), Len(c.objects)))
<1> DEFINE n == Len(c.objects)
           s == d.objects
           m == Len(s)
           x == Deletions(c, d)
<1>1. /\ c.objects \in Objects /\ n \in Nat /\ Len(c.indices) = n
      /\ s \in Seq(ObjectType) /\ m \in Nat /\ Distinct(s)
  <2>1. s \in Seq(ObjectType)
    BY DocumentIs DEF Objects
  <2>2. Distinct(s)
    BY WholeIs DEF WholeParts
  <2> QED
    BY <2>1, <2>2, DeleteIs, LenProperties
<1>2. /\ DeleteExecuted(c, d) = x[n]
      /\ x \in [0 .. n -> DocumentType(N)]
      /\ x[0] = d
      /\ \A i \in 1 .. n : x[i] = RemoveObject(x[i - 1], c.objects[i].id)
  BY <1>1, DeletionsDef
<1>3. \A i \in 1 .. n : c.objects[i] = s[c.indices[i]]
  BY <1>1, PickedIs
<1>4. /\ Left(c, m, 0) = 1 .. m
      /\ \A i \in 1 .. n : /\ c.indices[i] \in Left(c, m, i - 1)
                           /\ Left(c, m, i) = Left(c, m, i - 1) \ {c.indices[i]}
  BY <1>1, PositionsAre
<1>5. \A i : Left(c, m, i) \in SUBSET (1 .. m)
  BY DEF Left
<1> HIDE DEF x
<1> DEFINE T == {i \in 0 .. n : Holds(N, d, x[i], Left(c, m, i))}
<1>6. 0 \in T
  <2>1. Elements(s, 1 .. m) = s
    <3>1. 1 .. m \in SUBSET (1 .. Len(s))
      OBVIOUS
    <3> QED
      BY <1>1, <3>1, ElementsMembers
  <2>2. Holds(N, d, x[0], Left(c, m, 0))
    BY <1>2, <1>4, <2>1 DEF Holds
  <2> QED
    BY <1>1, <2>2
<1>7. ASSUME NEW i \in 1 .. n, i - 1 \in T
      PROVE  i \in T
  <2> DEFINE p == c.indices[i]
             a == x[i - 1]
             L == Left(c, m, i - 1)
             k == s[p].id
  <2>1. i \in 0 .. n /\ Holds(N, d, a, L)
    BY <1>1, <1>7
  <2>2. p \in L /\ L \in SUBSET (1 .. Len(s)) /\ Left(c, m, i) = L \ {p}
    BY <1>4, <1>5
  <2>3. x[i] = RemoveObject(a, k)
    BY <1>2, <1>3
  <2>4. a \in DocumentType(N) /\ a.objects = Elements(s, L) /\ a.layers = d.layers /\ a.active = d.active
    BY <2>1 DEF Holds
  <2> HIDE DEF L, a
  <2>5. /\ k \in IdsOf(Elements(s, L))
        /\ RemoveAt(Elements(s, L), IndexOf(Elements(s, L), k)) = Elements(s, L \ {p})
    BY <1>1, <2>2, ElementsRemove
  <2> HIDE DEF k, p
  <2>6. /\ x[i] = Doc(RemoveAt(a.objects, IndexOf(a.objects, k)), a.layers, a.active,
                      a.nextId, a.nextLayer, TRUE)
        /\ x[i] \in DocumentType(N)
    BY <2>3, <2>4, <2>5, RemoveObjectIs
  <2>7. Holds(N, d, x[i], Left(c, m, i))
    BY <2>2, <2>4, <2>5, <2>6 DEF Holds, Doc
  <2> QED
    BY <2>1, <2>7
<1> HIDE DEF T
<1>8. n \in Nat
  BY <1>1
<1> HIDE DEF n
<1>9. \A i \in 0 .. n : i \in T
  BY ONLY <1>8, <1>6, <1>7, IntervalInduction
<1> QED
  BY <1>2, <1>8, <1>9 DEF T, x, n

\* And inserted one by one, each at its place.
LEMMA RestorationsReturn ==
  ASSUME NEW N, NEW c \in DeleteCommand, NEW d \in DocumentType(N), Whole(d),
         NEW positions \in SUBSET (1 .. Len(d.objects)), Lists(c.indices, positions),
         c.objects = Picked(d.objects, c.indices),
         NEW e, Holds(N, d, e, Back(c, Len(d.objects), 0))
  PROVE  Content(DeleteUndone(c, e)) = Content(d)
<1> DEFINE n == Len(c.objects)
           s == d.objects
           m == Len(s)
           x == Restorations(c, e)
<1>1. /\ c.objects \in Objects /\ n \in Nat /\ Len(c.indices) = n /\ c.indices \in Seq(Nat \ {0})
      /\ s \in Seq(ObjectType) /\ m \in Nat /\ Distinct(s)
      /\ d.layers \in Layers(N) /\ d.active \in Nat
      /\ \A o \in ToSet(s) : o.layer \in IdsOf(d.layers)
  <2>1. s \in Seq(ObjectType) /\ d.layers \in Layers(N) /\ d.active \in Nat
    BY DocumentIs DEF Objects
  <2>2. Distinct(s) /\ \A o \in ToSet(s) : o.layer \in IdsOf(d.layers)
    BY WholeIs DEF WholeParts
  <2> QED
    BY <2>1, <2>2, DeleteIs, LenProperties
<1>2. /\ DeleteUndone(c, e) = x[n]
      /\ x \in [0 .. n -> DocumentType(N)]
      /\ x[0] = e
      /\ \A i \in 1 .. n : x[i] = InsertObjectClone(x[i - 1], c.objects[i], c.indices[i])
  <2>1. e \in DocumentType(N)
    BY DEF Holds
  <2> QED
    BY <1>1, <2>1, RestorationsDef
<1>3. \A i \in 1 .. n : c.objects[i] = s[c.indices[i]]
  BY <1>1, PickedIs, SMTT(30)
<1>4. /\ Back(c, m, n) = 1 .. m
      /\ \A i \in 1 .. n : /\ c.indices[i] \in (1 .. m) \ Back(c, m, i - 1)
                           /\ Back(c, m, i) = Back(c, m, i - 1) \union {c.indices[i]}
                           /\ 1 .. (c.indices[i] - 1) \subseteq Back(c, m, i - 1)
  BY <1>1, PositionsAre
<1>5. \A i : Back(c, m, i) \in SUBSET (1 .. m)
  BY DEF Back
<1> HIDE DEF x
<1> DEFINE T == {i \in 0 .. n : Holds(N, d, x[i], Back(c, m, i))}
<1>6. 0 \in T
  BY <1>1, <1>2
<1>7. ASSUME NEW i \in 1 .. n, i - 1 \in T
      PROVE  i \in T
  <2> DEFINE p == c.indices[i]
             a == x[i - 1]
             L == Back(c, m, i - 1)
             o == s[p]
             q == IF p > Len(a.objects) THEN Len(a.objects) + 1 ELSE p
  <2>1. i \in 0 .. n /\ Holds(N, d, a, L)
    BY <1>1, <1>7
  <2>2. /\ p \in 1 .. Len(s) /\ p \notin L /\ L \in SUBSET (1 .. Len(s))
        /\ 1 .. (p - 1) \subseteq L /\ Back(c, m, i) = L \union {p}
    BY <1>4, <1>5
  <2>3. x[i] = InsertObjectClone(a, o, p)
    BY <1>2, <1>3
  <2>4. a \in DocumentType(N) /\ a.objects = Elements(s, L) /\ a.layers = d.layers /\ a.active = d.active
    BY <2>1 DEF Holds
  <2>5. o \in ObjectType /\ o \in ToSet(s) /\ p \in Nat \ {0}
    <3>1. p \in DOMAIN s
      BY <1>1, <2>2
    <3> QED
      BY <1>1, <2>2, <3>1 DEF ToSet
  <2>6. Placed(o, o.id, LayerFor(a.layers, a.active, o.layer)) = o
    <3>1. o.layer \in IdsOf(d.layers) /\ o.layer \in Nat /\ o.id \in Nat
      BY <1>1, <2>5 DEF ObjectType
    <3>2. LayerFor(a.layers, a.active, o.layer) = o.layer
      BY <2>4, <3>1 DEF LayerFor
    <3>3. o \in ObjectType
      BY <2>5
    <3> HIDE DEF o
    <3>4. Placed(o, o.id, o.layer) = o
      BY <3>1, <3>3, PlacedIs
    <3> QED
      BY <3>2, <3>4
  <2> HIDE DEF L, a
  <2>7. /\ p \in 1 .. (Len(Elements(s, L)) + 1)
        /\ InsertAt(Elements(s, L), p, o) = Elements(s, L \union {p})
    BY <1>1, <2>2, ElementsInsert, ZenonT(30)
  <2>8. q = p
    <3>1. Len(Elements(s, L)) \in Nat
      BY <1>1, <2>2, ElementsMembers, LenProperties
    <3>2. p > Len(Elements(s, L)) => p = Len(Elements(s, L)) + 1
      BY <2>7, <3>1
    <3> QED
      BY <2>4, <3>2
  <2> HIDE DEF o, p
  <2>9. /\ x[i] = Doc(InsertAt(a.objects, q, Placed(o, o.id, LayerFor(a.layers, a.active, o.layer))),
                      a.layers, a.active, Past(a.nextId, o.id), a.nextLayer, TRUE)
        /\ x[i] \in DocumentType(N)
    BY <2>3, <2>4, <2>5, InsertObjectCloneIs, ZenonT(30)
  <2> HIDE DEF q
  <2>10. x[i] = Doc(Elements(s, L \union {p}), a.layers, a.active,
                    Past(a.nextId, o.id), a.nextLayer, TRUE)
    BY <2>4, <2>6, <2>7, <2>8, <2>9
  <2>11. x[i].objects = Elements(s, L \union {p}) /\ x[i].layers = a.layers /\ x[i].active = a.active
    BY <2>10 DEF Doc
  <2>12. Holds(N, d, x[i], Back(c, m, i))
    BY <2>2, <2>4, <2>9, <2>11 DEF Holds
  <2> QED
    BY <2>1, <2>12
<1> HIDE DEF T
<1>8. n \in Nat
  BY <1>1
<1>9. Elements(s, 1 .. m) = s
  <2>1. 1 .. m \in SUBSET (1 .. Len(s))
    OBVIOUS
  <2> QED
    BY <1>1, <2>1, ElementsMembers
<1> HIDE DEF n
<1>10. \A i \in 0 .. n : i \in T
  BY ONLY <1>8, <1>6, <1>7, IntervalInduction
<1>11. Holds(N, d, x[n], 1 .. m)
  <2>1. n \in T
    BY <1>8, <1>10
  <2> QED
    BY <1>4, <2>1 DEF T
<1> QED
  BY <1>2, <1>9, <1>11, ContentIs DEF Holds

\* Objects that are deleted.
LEMMA DeleteReverses ==
  ASSUME NEW N, NEW c \in DeleteCommand, NEW d \in DocumentType(N), Whole(d), Counted(d),
         Deletes(c, d.objects)
  PROVE  Reversible(N, c, d, Redone(c, d)) /\ IdsOf(c.objects) \subseteq IdsOf(d.objects)
<1> DEFINE n == Len(c.objects)
           s == d.objects
           m == Len(s)
           e == Deletions(c, d)[n]
<1>1. c.kind = "delete"
  BY DEF DeleteCommand
<1>2. PICK positions \in SUBSET (1 .. m) : Lists(c.indices, positions)
  BY DEF Deletes
<1>3. c.objects = Picked(s, c.indices)
  BY DEF Deletes
<1>4. /\ c.objects \in Objects /\ c.objects \in Seq(ObjectType) /\ n \in Nat /\ Len(c.indices) = n
      /\ s \in Seq(ObjectType) /\ m \in Nat /\ Distinct(s)
  <2>1. s \in Seq(ObjectType)
    BY DocumentIs DEF Objects
  <2>2. Distinct(s)
    BY WholeIs DEF WholeParts
  <2> QED
    BY <2>1, <2>2, DeleteIs, LenProperties DEF Objects
<1>5. Redone(c, d) = e /\ Holds(N, d, e, Left(c, m, n))
  BY <1>1, <1>2, <1>3, DeletionsLeave, RedoneByKind
<1>6. Advance(d, e)
  <2>1. n \in 0 .. n
    BY <1>4
  <2> QED
    BY <1>4, <2>1, DeletionsAdvance
<1> HIDE DEF e
<1>7. /\ e \in DocumentType(N) /\ e.objects = Elements(s, Left(c, m, n))
      /\ e.layers = d.layers /\ e.active = d.active
  BY <1>5 DEF Holds
<1>8. Left(c, m, n) \in SUBSET (1 .. Len(s)) /\ Left(c, m, n) = Back(c, m, 0)
  BY <1>2, <1>4, PositionsAre DEF Left
<1>9. /\ Distinct(e.objects) /\ IdsOf(e.objects) \subseteq IdsOf(s)
      /\ \A p \in 1 .. Len(s) : s[p].id \in IdsOf(e.objects) <=> p \in Left(c, m, n)
      /\ ToSet(e.objects) \subseteq ToSet(s)
  BY <1>4, <1>7, <1>8, ElementsIds, ElementsMembers
<1>10. Whole(e)
  <2>1. WholeParts(s, d.layers, d.active)
    BY WholeIs
  <2>2. WholeParts(e.objects, e.layers, e.active)
    BY <1>7, <1>9, <2>1 DEF WholeParts
  <2> QED
    BY <2>2, WholeIs
<1>11. Counted(e)
  BY <1>6, <1>7, <1>9, CountedStill
<1>12. \A i \in 1 .. n : /\ c.indices[i] \in 1 .. m /\ c.objects[i] = s[c.indices[i]]
                         /\ c.indices[i] \notin Left(c, m, n)
  <2>1. \A i \in 1 .. n : c.indices[i] \in 1 .. m /\ c.objects[i] = s[c.indices[i]]
    BY <1>2, <1>3, <1>4, PickedIs
  <2> QED
    BY <2>1 DEF Left
<1>13. IdsOf(c.objects) \subseteq IdsOf(s) /\ IdsOf(c.objects) \cap IdsOf(e.objects) = {}
  <2> SUFFICES ASSUME NEW id \in IdsOf(c.objects)
               PROVE  id \in IdsOf(s) /\ id \notin IdsOf(e.objects)
    OBVIOUS
  <2>1. PICK i \in 1 .. n : c.objects[i].id = id
    BY <1>4, IdsOfIs
  <2>2. s[c.indices[i]].id \in IdsOf(s)
    BY <1>4, <1>12, IdsOfIs
  <2>3. s[c.indices[i]].id \notin IdsOf(e.objects)
    BY <1>9, <1>12
  <2> QED
    BY <1>12, <2>1, <2>2, <2>3
<1>14. Undoable(c, e) /\ Undone(c, e) = DeleteUndone(c, e)
  <2>1. SnapshotIds(c) = IdsOf(c.objects)
    BY DEF SnapshotIds, IdsOf
  <2>2. SnapshotIds(c) \cap ObjectIds(e) = {}
    BY <1>13, <2>1, QueriesAre
  <2> QED
    BY <1>1, <2>2, RedoneByKind
<1>15. Content(Undone(c, e)) = Content(d)
  <2>1. Holds(N, d, e, Back(c, Len(d.objects), 0))
    BY <1>5, <1>8
  <2>2. Content(DeleteUndone(c, e)) = Content(d)
    BY <1>2, <1>3, <2>1, RestorationsReturn
  <2> QED
    BY <1>14, <2>2
<1>16. Fits(N, c, e.layers)
  <2>1. c \notin SetCommand(N)
    BY <1>1, SetCommandIs
  <2> QED
    BY <2>1 DEF Fits
<1>17. Reversible(N, c, d, e)
  BY <1>6, <1>7, <1>10, <1>11, <1>14, <1>15, <1>16 DEF Reversible
<1> QED
  BY <1>5, <1>13, <1>17

\* A command that has been made for this document, filled and accepted.
Fresh(N, c, d) ==
  /\ c \in CommandType(N)
  /\ Redoable(c, d)
  /\ Fits(N, c, d.layers)
  /\ c.kind = "create" => c.id # NoId
  /\ c.kind \in {"create", "paste", "addLayer"} => Passable(c, d)
  /\ c.kind = "delete" => Deletes(c, d.objects)
  /\ c.kind = "paste" => Distinct(c.objects) /\ NoId \notin IdsOf(c.objects)
  /\ c.kind = "addLayer" =>
       c.layer.id # NoId /\ c.index = Len(d.layers) + 1 /\ c.previous = d.active
  /\ c \in SetCommand(N) => Current(c, d)

\* The undo of any new command takes the document back.
LEMMA FreshReverses ==
  ASSUME NEW N, NEW c, NEW d \in DocumentType(N), Whole(d), Counted(d), Fresh(N, c, d)
  PROVE  /\ Reversible(N, c, d, Redone(c, d))
         /\ RememberedIds(c) \subseteq IdsOf(d.objects) \union IdsOf(Redone(c, d).objects)
         /\ RememberedLayers(c) \subseteq IdsOf(Redone(c, d).layers)
<1>1. CASE c.kind = "create" /\ c \in CreateCommand
  <2>1. c.id # NoId /\ Redoable(c, d) /\ CanPass(d.nextId, c.id)
    BY <1>1 DEF Fresh, Passable, RememberedIds
  <2>2. Reversible(N, c, d, Redone(c, d)) /\ c.id \in IdsOf(Redone(c, d).objects)
    BY <1>1, <2>1, CreateReverses
  <2> QED
    BY <1>1, <2>2 DEF RememberedIds, RememberedLayers
<1>2. CASE c.kind = "delete" /\ c \in DeleteCommand
  <2>1. Deletes(c, d.objects)
    BY <1>2 DEF Fresh
  <2>2. Reversible(N, c, d, Redone(c, d)) /\ IdsOf(c.objects) \subseteq IdsOf(d.objects)
    BY <1>2, <2>1, DeleteReverses
  <2> QED
    BY <1>2, <2>2 DEF RememberedIds, RememberedLayers
<1>3. CASE c.kind = "paste" /\ c \in PasteCommand
  <2>1. Distinct(c.objects) /\ NoId \notin IdsOf(c.objects) /\ Redoable(c, d) /\ Passable(c, d)
    BY <1>3 DEF Fresh
  <2>2. Reversible(N, c, d, Redone(c, d)) /\ IdsOf(c.objects) \subseteq IdsOf(Redone(c, d).objects)
    BY <1>3, <2>1, PasteReverses
  <2> QED
    BY <1>3, <2>2 DEF RememberedIds, RememberedLayers
<1>4. CASE c.kind = "addLayer" /\ c \in AddLayerCommand(N)
  <2>1. /\ c.layer.id # NoId /\ c.index = Len(d.layers) + 1 /\ c.previous = d.active
        /\ Redoable(c, d) /\ CanPass(d.nextLayer, c.layer.id)
    BY <1>4 DEF Fresh, Passable, RememberedLayers
  <2>2. Reversible(N, c, d, Redone(c, d)) /\ c.layer.id \in IdsOf(Redone(c, d).layers)
    BY <1>4, <2>1, AddLayerReverses
  <2> QED
    BY <1>4, <2>2 DEF RememberedIds, RememberedLayers
<1>5. CASE c \in SetCommand(N)
  <2>1. Redoable(c, d) /\ Fits(N, c, d.layers) /\ Current(c, d)
    BY <1>5 DEF Fresh
  <2>2. Reversible(N, c, d, Redone(c, d))
    BY <1>5, <2>1, SetReverses
  <2>3. c.kind \in {"move", "property", "active", "attribute", "moveLayer"}
    BY <1>5, SetCommandIs
  <2> QED
    BY <2>2, <2>3 DEF RememberedIds, RememberedLayers
<1>6. c \in CommandType(N)
  BY DEF Fresh
<1> QED
  BY <1>1, <1>2, <1>3, <1>4, <1>5, <1>6, CommandIs
-----------------------------------------------------------------------------
(* The commands that an action makes are fresh *)

\* These kinds do not set something to a value.
LEMMA NotSet ==
  ASSUME NEW N, NEW c, c.kind \in {"create", "delete", "paste", "addLayer"}
  PROVE  c \notin SetCommand(N)
  BY SetCommandIs

\* The first execution of a create takes the next id.
LEMMA FilledCreate ==
  ASSUME NEW N, NEW d \in DocumentType(N), NEW o \in ObjectType, o.id = NoId,
         NEW c, c = Filled(CreateObject(o), d)
  PROVE  /\ c \in CreateCommand /\ c.kind = "create" /\ c.id = d.nextId
         /\ c.object \in ObjectType /\ c.object.layer = o.layer
<1> DEFINE p == CreateObject(o)
<1>1. o \in ObjectType /\ o.id = 0
  BY DEF NoId
<1>2. p = [kind |-> "create", object |-> o, id |-> 0]
  BY <1>1 DEF CreateObject
<1>3. c = [p EXCEPT !.id = d.nextId, !.object.id = d.nextId]
  BY <1>2 DEF Filled, NoId
<1>4. c = [kind |-> "create", object |-> [o EXCEPT !.id = d.nextId], id |-> d.nextId]
  <2> DEFINE n == d.nextId
             object == [o EXCEPT !.id = n]
  <2>1. c = [[p EXCEPT !.id = n] EXCEPT !.object = [[p EXCEPT !.id = n].object EXCEPT !.id = n]]
    BY <1>3
  <2> HIDE DEF p, n
  <2>2. [p EXCEPT !.id = n] = [kind |-> "create", object |-> o, id |-> n]
    BY <1>2
  <2>3. c = [[kind |-> "create", object |-> o, id |-> n] EXCEPT !.object = object]
    BY <2>1, <2>2
  <2> HIDE DEF object
  <2>4. c = [kind |-> "create", object |-> object, id |-> n]
    BY <2>3
  <2> QED
    BY <2>4 DEF object, n
<1>5. d.nextId \in Nat
  BY DocumentIs
<1>6. [o EXCEPT !.id = d.nextId] \in ObjectType
  BY <1>1, <1>5 DEF ObjectType
<1>7. c \in CreateCommand /\ c.kind = "create" /\ c.id = d.nextId
  BY <1>4, <1>5, <1>6 DEF CreateCommand
<1>8. c.object = [o EXCEPT !.id = d.nextId]
  BY <1>4
<1>9. [o EXCEPT !.id = d.nextId].layer = o.layer
  BY <1>1 DEF ObjectType
<1> QED
  BY <1>6, <1>7, <1>8, <1>9 DEF NoId

\* The deletion of what is selected.
LEMMA DeleteIsFresh ==
  ASSUME NEW N, NEW d \in DocumentType(N), NEW ids,
         NEW c, c = Filled(DeleteSelection(d, ids), d)
  PROVE  Fresh(N, c, d)
<1> DEFINE s == d.objects
           selected == {i \in DOMAIN s : s[i].id \in ToSet(ids)}
           g == Ascending(selected, Len(s))
<1>1. s \in Seq(ObjectType) /\ Len(s) \in Nat /\ DOMAIN s = 1 .. Len(s)
  BY DocumentIs, LenProperties DEF Objects
<1>2. c = [kind |-> "delete", indices |-> g, objects |-> Elements(s, selected)]
  BY DEF DeleteSelection, Filled
<1>3. selected \in SUBSET (1 .. Len(s)) /\ selected \cap (1 .. Len(s)) = selected
  BY <1>1
<1> HIDE DEF selected, s
<1>4. /\ Lists(g, selected)
      /\ Elements(s, selected) = Picked(s, g) /\ Elements(s, selected) \in Seq(ObjectType)
  BY <1>1, <1>3, ElementsIs
<1> HIDE DEF g
<1>5. Len(Picked(s, g)) = Len(g)
  BY <1>1, <1>3, <1>4, PickedIs
<1>6. g \in Seq(Nat \ {0})
  <2>1. g \in Seq(Nat) /\ Len(g) \in Nat /\ \A i \in 1 .. Len(g) : g[i] \in selected
    BY <1>4, ListsMembers
  <2>2. \A i \in 1 .. Len(g) : g[i] \in Nat \ {0}
    BY <1>3, <2>1
  <2>3. g \in [1 .. Len(g) -> Nat]
    BY <2>1, LenProperties
  <2>4. g \in [1 .. Len(g) -> Nat \ {0}]
    BY <2>2, <2>3
  <2> QED
    BY <2>1, <2>4, IsASeq
<1>7. c.kind = "delete" /\ c.indices = g /\ c.objects = Picked(s, g)
  BY <1>2, <1>4
<1>8. c \in DeleteCommand
  BY <1>2, <1>4, <1>5, <1>6, <1>7 DEF DeleteCommand, Objects
<1>9. c \notin SetCommand(N) /\ c \in CommandType(N)
  BY <1>7, <1>8, NotSet DEF CommandType
<1>10. Deletes(c, s)
  BY <1>3, <1>4, <1>7 DEF Deletes
<1>11. Redoable(c, d)
  BY <1>7, RedoneByKind
<1> QED
  BY <1>7, <1>9, <1>10, <1>11 DEF Fresh, Fits, s

\* A layer is shown or hidden, locked or unlocked, or renamed.
LEMMA AttributeIsFresh ==
  ASSUME NEW N, NEW d \in DocumentType(N), NEW layer \in LayerIds(d),
         NEW attribute \in LayerAttributes, NEW value \in AttributeValues(N, attribute),
         NEW c, c = Filled(ChangeLayer(d, layer, attribute, value), d), Redoable(c, d)
  PROVE  Fresh(N, c, d)
<1> DEFINE s == d.layers
           old == s[IndexOf(s, layer)][attribute]
<1>1. s \in Seq(LayerType(N)) /\ layer \in IdsOf(s) /\ layer \in Nat
  BY DocumentIs, QueriesAre, IdsAreNat DEF Layers
<1>2. c = [kind |-> "attribute", layer |-> layer, attribute |-> attribute,
           before |-> old, after |-> value]
  BY QueriesAre DEF ChangeLayer, Filled
<1>3. old \in AttributeValues(N, attribute)
  <2>1. IndexOf(s, layer) \in 1 .. Len(s)
    BY <1>1, IndexOfFinds
  <2>2. s[IndexOf(s, layer)] \in LayerType(N)
    BY <1>1, <2>1, ElementOfSeq
  <2> QED
    BY <2>2, UpdatedLayer
<1> HIDE DEF old
<1>4. /\ c.kind = "attribute" /\ c.layer = layer /\ c.attribute = attribute
      /\ c.before = old /\ c.after = value
  BY <1>2
<1>5. c \in [kind : {"attribute"}, layer : Nat, attribute : {attribute},
             before : AttributeValues(N, attribute), after : AttributeValues(N, attribute)]
  BY <1>1, <1>2, <1>3
<1>6. c \in AttributeCommand(N)
  BY <1>5 DEF AttributeCommand
<1>7. c \in SetCommand(N) /\ c \in CommandType(N)
  BY <1>6 DEF SetCommand, CommandType
<1>8. Fitting(N, c, d.layers, RedoValue(c)) /\ Fitting(N, c, d.layers, UndoValue(c))
  BY <1>3, <1>4 DEF Fitting, RedoValue, UndoValue
<1>9. Current(c, d)
  BY <1>4 DEF Current, old
<1> QED
  BY <1>4, <1>7, <1>8, <1>9 DEF Fresh, Fits

\* A new document is whole.
LEMMA NewDocumentIs ==
  ASSUME NEW N, DefaultName \in N
  PROVE  /\ NewDocument \in DocumentType(N)
         /\ Whole(NewDocument) /\ Counted(NewDocument) /\ NewDocument.nextId # 0
         /\ ~NewDocument.revised
<1> DEFINE layer == NewLayer(1, DefaultName)
           d == NewDocument
           none == FALSE
           s == <<layer>>
           e == << >>
<1>1. layer \in LayerType(N) /\ layer.id = 1
  BY DEF NewLayer, LayerType
<1>2. /\ d.objects = << >> /\ d.layers = s /\ d.active = 1 /\ d.nextId = 1
      /\ d.nextLayer = 2 /\ d.revised = none
  BY DEF NewDocument, DefaultLayer
<1>3. d = Doc(e, s, 1, 1, 2, none)
  BY DEF NewDocument, DefaultLayer, Doc
<1> HIDE DEF d, layer
<1>4. s \in Layers(N) /\ Len(s) = 1 /\ s[1] = layer
  BY <1>1 DEF Layers
<1>5. e \in Objects /\ Len(e) = 0
  BY DEF Objects
<1>6. IdsOf(e) = {} /\ ToSet(e) = {}
  BY DEF IdsOf, ToSet
<1>7. ToSet(s) = {layer}
  BY DEF ToSet
<1> HIDE DEF s, e
<1>8. IdsOf(s) = {1}
  BY <1>1, <1>7 DEF IdsOf
<1>9. none \in BOOLEAN
  OBVIOUS
<1> HIDE DEF none
<1>10. d \in DocumentType(N)
  BY <1>3, <1>4, <1>5, <1>9, DocTyped
<1>11. Distinct(e) /\ Distinct(s)
  <2>1. DOMAIN e = {} /\ DOMAIN s = {1}
    BY DEF e, s
  <2> QED
    BY <2>1 DEF Distinct
<1>12. WholeParts(d.objects, d.layers, d.active)
  BY <1>2, <1>6, <1>8, <1>11 DEF WholeParts, NoId, e
<1>13. Counted(d)
  BY <1>2, <1>6, <1>8 DEF Counted, e
<1> QED
  BY <1>2, <1>10, <1>12, <1>13, WholeIs DEF d, none
-----------------------------------------------------------------------------
(* A command in the log, between what the user saw before it and after it *)

\* A document with this content.
WithContent(content) == Doc(content.objects, content.layers, content.active, 1, 1, FALSE)

\* The command leads from one content to the other, and its undo back.
Links(N, c, before, after) ==
  /\ Redoable(c, WithContent(before)) /\ Fits(N, c, before.layers)
  /\ Content(Redone(c, WithContent(before))) = after
  /\ Undoable(c, WithContent(after)) /\ Fits(N, c, after.layers)
  /\ Content(Undone(c, WithContent(after))) = before

\* Documents with the same content.
LEMMA WithContentIs ==
  ASSUME NEW N, NEW d \in DocumentType(N)
  PROVE  /\ WithContent(Content(d)) \in DocumentType(N)
         /\ Content(WithContent(Content(d))) = Content(d)
         /\ Content(d).layers = d.layers /\ Content(d).objects = d.objects
<1>1. Content(d).objects = d.objects /\ Content(d).layers = d.layers /\ Content(d).active = d.active
  BY DEF Content
<1>2. WithContent(Content(d)) = Doc(d.objects, d.layers, d.active, 1, 1, FALSE)
  BY <1>1 DEF WithContent
<1>3. d.objects \in Objects /\ d.layers \in Layers(N) /\ d.active \in Nat
  BY DocumentIs
<1>4. WithContent(Content(d)) \in DocumentType(N)
  BY <1>2, <1>3, DocTyped
<1>5. Content(WithContent(Content(d))) = View(d.objects, d.layers, d.active)
  BY <1>2 DEF Doc, Content, View
<1> QED
  BY <1>1, <1>4, <1>5, ContentIs

\* A document of the same content is as whole.
LEMMA SameWhole ==
  ASSUME NEW d, NEW e, Content(d) = Content(e), Whole(d)
  PROVE  Whole(e)
<1>1. d.objects = e.objects /\ d.layers = e.layers /\ d.active = e.active
  BY ContentIs
<1>2. WholeParts(d.objects, d.layers, d.active)
  BY WholeIs
<1>3. WholeParts(e.objects, e.layers, e.active)
  BY <1>1, <1>2
<1> QED
  BY <1>3, WholeIs

\* A redo that the log has recorded.
LEMMA LinkRedoes ==
  ASSUME NEW N, NEW c \in CommandType(N), NEW before, NEW after, Links(N, c, before, after),
         NEW d \in DocumentType(N), Content(d) = before
  PROVE  /\ Redoable(c, d)
         /\ Redone(c, d) \in DocumentType(N)
         /\ Passable(c, d) => Advance(d, Redone(c, d))
         /\ Content(Redone(c, d)) = after
<1> DEFINE w == WithContent(before)
<1>1. w \in DocumentType(N) /\ Content(w) = Content(d) /\ before.layers = d.layers
  BY WithContentIs
<1>2. Redoable(c, w) /\ Fits(N, c, d.layers) /\ Content(Redone(c, w)) = after
  BY <1>1 DEF Links
<1> HIDE DEF w
<1>3. Redoable(c, d)
  BY <1>1, <1>2, SameAble
<1>4. Content(Redone(c, d)) = Content(Redone(c, w))
  BY <1>1, <1>2, <1>3, SameRedone
<1> QED
  BY <1>2, <1>3, <1>4, RedoneIs

\* An undo of what the log has recorded.
LEMMA LinkUndoes ==
  ASSUME NEW N, NEW c \in CommandType(N), NEW before, NEW after, Links(N, c, before, after),
         NEW d \in DocumentType(N), Content(d) = after
  PROVE  /\ Undoable(c, d)
         /\ Undone(c, d) \in DocumentType(N)
         /\ Passable(c, d) => Advance(d, Undone(c, d))
         /\ Content(Undone(c, d)) = before
<1> DEFINE w == WithContent(after)
<1>1. w \in DocumentType(N) /\ Content(w) = Content(d) /\ after.layers = d.layers
  BY WithContentIs
<1>2. Undoable(c, w) /\ Fits(N, c, d.layers) /\ Content(Undone(c, w)) = before
  BY <1>1 DEF Links
<1> HIDE DEF w
<1>3. Undoable(c, d)
  BY <1>1, <1>2, SameAble
<1>4. Content(Undone(c, d)) = Content(Undone(c, w))
  BY <1>1, <1>2, <1>3, SameUndone
<1> QED
  BY <1>2, <1>3, <1>4, UndoneIs

\* A link that some documents bear witness to.
LEMMA LinkBy ==
  ASSUME NEW N, NEW c \in CommandType(N), NEW d \in DocumentType(N), NEW e \in DocumentType(N),
         Redoable(c, d), Fits(N, c, d.layers), Content(Redone(c, d)) = Content(e),
         Undoable(c, e), Fits(N, c, e.layers), Content(Undone(c, e)) = Content(d)
  PROVE  Links(N, c, Content(d), Content(e))
<1> DEFINE p == WithContent(Content(d))
           q == WithContent(Content(e))
<1>1. /\ p \in DocumentType(N) /\ Content(p) = Content(d) /\ Content(d).layers = d.layers
      /\ q \in DocumentType(N) /\ Content(q) = Content(e) /\ Content(e).layers = e.layers
  BY WithContentIs
<1> HIDE DEF p, q
<1>2. Redoable(c, p) /\ Undoable(c, q)
  BY <1>1, SameAble
<1>3. Content(Redone(c, p)) = Content(e)
  BY <1>1, SameRedone
<1>4. Content(Undone(c, q)) = Content(d)
  BY <1>1, SameUndone
<1> QED
  BY <1>1, <1>2, <1>3, <1>4 DEF Links, p, q

\* A new command links the document to what it makes of it.
LEMMA FreshLinks ==
  ASSUME NEW N, NEW c, NEW d \in DocumentType(N), Whole(d), Counted(d), Fresh(N, c, d)
  PROVE  Links(N, c, Content(d), Content(Redone(c, d)))
<1> DEFINE e == Redone(c, d)
<1>1. Reversible(N, c, d, e)
  BY FreshReverses
<1>2. c \in CommandType(N) /\ Redoable(c, d) /\ Fits(N, c, d.layers)
  BY DEF Fresh
<1>3. Content(Redone(c, d)) = Content(e)
  OBVIOUS
<1> HIDE DEF e
<1>4. Links(N, c, Content(d), Content(e))
  BY <1>1, <1>2, <1>3, LinkBy DEF Reversible
<1> QED
  BY <1>4 DEF e
-----------------------------------------------------------------------------
(* Merging *)

\* A command that merges sets the same thing.
LEMMA SameTarget ==
  ASSUME NEW N, NEW c \in SetCommand(N), NEW l \in SetCommand(N), Merges(l, c),
         NEW doc, NEW layers, NEW v
  PROVE  /\ ValueSet(l, doc, v) = ValueSet(c, doc, v)
         /\ Settable(l, doc, v) <=> Settable(c, doc, v)
         /\ Fitting(N, l, layers, v) <=> Fitting(N, c, layers, v)
<1>1. c.kind = l.kind
  BY DEF Merges
<1>2. CASE c.kind = "move"
  <2>1. l.ids = c.ids
    BY <1>2 DEF Merges, MovesMerge
  <2> QED
    BY <1>1, <1>2, <2>1 DEF ValueSet, Settable, Fitting, ObjectsMoved
<1>3. CASE c.kind = "property"
  <2>1. l.id = c.id /\ l.key = c.key
    BY <1>3 DEF Merges, PropertiesMerge
  <2> QED
    BY <1>1, <1>3, <2>1 DEF ValueSet, Settable, Fitting, PropertySet
<1>4. CASE c.kind = "active"
  BY <1>1, <1>4 DEF ValueSet, Settable, Fitting, ActiveSet
<1>5. CASE c.kind = "attribute"
  <2>1. l.layer = c.layer /\ l.attribute = c.attribute
    BY <1>5 DEF Merges, AttributesMerge
  <2> QED
    BY <1>1, <1>5, <2>1 DEF ValueSet, Settable, Fitting, AttributeSet
<1>6. CASE c.kind = "moveLayer"
  <2>1. l.layer = c.layer
    BY <1>6 DEF Merges, LayerMovesMerge
  <2> QED
    BY <1>1, <1>6, <2>1 DEF ValueSet, Settable, Fitting, LayerMoved
<1> QED
  BY <1>2, <1>3, <1>4, <1>5, <1>6, SetCommandIs

\* The merged command sets the same thing, back to what the last one set it
\* back to, and on to what the new one sets it to.
LEMMA MergedIs ==
  ASSUME NEW N, NEW c \in SetCommand(N), NEW l \in SetCommand(N), Merges(l, c)
  PROVE  /\ Merged(l, c) \in SetCommand(N)
         /\ Merged(l, c).kind = c.kind
         /\ c.kind = "move" => /\ RedoValue(Merged(l, c)) = RedoValue(l) + RedoValue(c)
                               /\ UndoValue(Merged(l, c)) = -(RedoValue(l) + RedoValue(c))
         /\ c.kind # "move" => /\ RedoValue(Merged(l, c)) = RedoValue(c)
                               /\ UndoValue(Merged(l, c)) = UndoValue(l)
<1> DEFINE m == Merged(l, c)
<1>1. c.kind = l.kind
  BY DEF Merges
<1>2. CASE c.kind = "move" /\ c \in MoveCommand
  <2>1. l \in MoveCommand
    BY <1>1, <1>2, SetCommandIs
  <2>2. l = [kind |-> "move", ids |-> l.ids, delta |-> l.delta] /\ l.ids \in Seq(Nat)
        /\ l.delta \in Int /\ c.delta \in Int
    BY <1>2, <2>1 DEF MoveCommand
  <2>3. m = [l EXCEPT !.delta = @ + c.delta]
    BY <1>2 DEF Merged
  <2>4. m = [kind |-> "move", ids |-> l.ids, delta |-> l.delta + c.delta]
    BY <2>2, <2>3
  <2>5. m \in MoveCommand /\ m.kind = "move" /\ m.delta = l.delta + c.delta
    BY <2>2, <2>4 DEF MoveCommand
  <2> QED
    BY <1>1, <1>2, <2>5 DEF RedoValue, UndoValue, SetCommand
<1>3. CASE c.kind # "move"
  <2>1. m = [l EXCEPT !.after = c.after]
    BY <1>3 DEF Merged
  <2>2. CASE c.kind = "property" /\ c \in PropertyCommand
    <3>1. l \in PropertyCommand
      BY <1>1, <2>2, SetCommandIs
    <3>2. m \in PropertyCommand /\ m.after = c.after /\ m.before = l.before
      BY <2>1, <2>2, <3>1 DEF PropertyCommand
    <3>3. m.kind = "property"
      BY <3>2 DEF PropertyCommand
    <3> QED
      BY <1>1, <2>2, <3>2, <3>3 DEF RedoValue, UndoValue, SetCommand
  <2>3. CASE c.kind = "active" /\ c \in ActiveCommand
    <3>1. l \in ActiveCommand
      BY <1>1, <2>3, SetCommandIs
    <3>2. m \in ActiveCommand /\ m.after = c.after /\ m.before = l.before
      BY <2>1, <2>3, <3>1 DEF ActiveCommand
    <3>3. m.kind = "active"
      BY <3>2 DEF ActiveCommand
    <3> QED
      BY <1>1, <2>3, <3>2, <3>3 DEF RedoValue, UndoValue, SetCommand
  <2>4. CASE c.kind = "attribute" /\ c.after \in AttributeValues(N, c.attribute)
    <3>1. /\ l \in AttributeCommand(N) /\ l.layer \in Nat /\ l.attribute \in LayerAttributes
          /\ l.before \in AttributeValues(N, l.attribute)
      BY <1>1, <2>4, SetCommandIs
    <3>2. l.attribute = c.attribute
      BY <2>4 DEF Merges, AttributesMerge
    <3>3. l = [kind |-> "attribute", layer |-> l.layer, attribute |-> l.attribute,
               before |-> l.before, after |-> l.after]
      BY <3>1 DEF AttributeCommand
    <3>4. m = [kind |-> "attribute", layer |-> l.layer, attribute |-> l.attribute,
               before |-> l.before, after |-> c.after]
      BY <2>1, <3>3
    <3> DEFINE a == l.attribute
    <3>5. m \in [kind : {"attribute"}, layer : Nat, attribute : {a},
                 before : AttributeValues(N, a), after : AttributeValues(N, a)]
      BY <2>4, <3>1, <3>2, <3>4
    <3>6. m \in AttributeCommand(N)
      BY <3>1, <3>5 DEF AttributeCommand
    <3>7. m.kind = "attribute" /\ m.after = c.after /\ m.before = l.before
      BY <3>4
    <3> QED
      BY <1>1, <2>4, <3>6, <3>7 DEF RedoValue, UndoValue, SetCommand
  <2>5. CASE c.kind = "moveLayer" /\ c \in MoveLayerCommand
    <3>1. l \in MoveLayerCommand
      BY <1>1, <2>5, SetCommandIs
    <3>2. m \in MoveLayerCommand /\ m.after = c.after /\ m.before = l.before
      BY <2>1, <2>5, <3>1 DEF MoveLayerCommand
    <3>3. m.kind = "moveLayer"
      BY <3>2 DEF MoveLayerCommand
    <3> QED
      BY <1>1, <2>5, <3>2, <3>3 DEF RedoValue, UndoValue, SetCommand
  <2> QED
    BY <1>3, <2>2, <2>3, <2>4, <2>5, SetCommandIs
<1> QED
  BY <1>2, <1>3, SetCommandIs

\* The merged command merges with the new one as well.
LEMMA MergedTarget ==
  ASSUME NEW N, NEW c \in SetCommand(N), NEW l \in SetCommand(N), Merges(l, c),
         NEW doc, NEW layers, NEW v
  PROVE  /\ ValueSet(Merged(l, c), doc, v) = ValueSet(c, doc, v)
         /\ Settable(Merged(l, c), doc, v) <=> Settable(c, doc, v)
         /\ Fitting(N, Merged(l, c), layers, v) <=> Fitting(N, c, layers, v)
<1> DEFINE m == Merged(l, c)
<1>1. c.kind = l.kind /\ m.kind = c.kind
  BY MergedIs DEF Merges
<1>2. CASE c.kind = "move" /\ c \in MoveCommand
  <2>1. l \in MoveCommand
    BY <1>1, <1>2, SetCommandIs
  <2>2. m = [l EXCEPT !.delta = @ + c.delta] /\ l.ids = c.ids
    BY <1>2 DEF Merged, Merges, MovesMerge
  <2>3. m.ids = c.ids
    BY <2>1, <2>2 DEF MoveCommand
  <2> QED
    BY <1>1, <1>2, <2>3 DEF ValueSet, Settable, Fitting, ObjectsMoved
<1>3. CASE c.kind = "property" /\ c \in PropertyCommand
  <2>1. l \in PropertyCommand
    BY <1>1, <1>3, SetCommandIs
  <2>2. m = [l EXCEPT !.after = c.after] /\ l.id = c.id /\ l.key = c.key
    BY <1>3 DEF Merged, Merges, PropertiesMerge
  <2>3. m.id = c.id /\ m.key = c.key
    BY <2>1, <2>2 DEF PropertyCommand
  <2> QED
    BY <1>1, <1>3, <2>3 DEF ValueSet, Settable, Fitting, PropertySet
<1>4. CASE c.kind = "active"
  BY <1>1, <1>4 DEF ValueSet, Settable, Fitting, ActiveSet
<1>5. CASE c.kind = "attribute"
  <2>1. l \in AttributeCommand(N)
    BY <1>1, <1>5, SetCommandIs
  <2>2. m = [l EXCEPT !.after = c.after] /\ l.layer = c.layer /\ l.attribute = c.attribute
    BY <1>5 DEF Merged, Merges, AttributesMerge
  <2>3. l = [kind |-> "attribute", layer |-> l.layer, attribute |-> l.attribute,
             before |-> l.before, after |-> l.after]
    BY <2>1 DEF AttributeCommand
  <2>4. m.layer = c.layer /\ m.attribute = c.attribute
    BY <2>2, <2>3
  <2> QED
    BY <1>1, <1>5, <2>4 DEF ValueSet, Settable, Fitting, AttributeSet
<1>6. CASE c.kind = "moveLayer" /\ c \in MoveLayerCommand
  <2>1. l \in MoveLayerCommand
    BY <1>1, <1>6, SetCommandIs
  <2>2. m = [l EXCEPT !.after = c.after] /\ l.layer = c.layer
    BY <1>6 DEF Merged, Merges, LayerMovesMerge
  <2>3. m.layer = c.layer
    BY <2>1, <2>2 DEF MoveLayerCommand
  <2> QED
    BY <1>1, <1>6, <2>3 DEF ValueSet, Settable, Fitting, LayerMoved
<1> QED
  BY <1>2, <1>3, <1>4, <1>5, <1>6, SetCommandIs

\* A link whose command absorbs a new one leads to what the new one made.
LEMMA MergeLinks ==
  ASSUME NEW N, NEW l \in CommandType(N), NEW p \in DocumentType(N), Whole(p),
         NEW d \in DocumentType(N), Links(N, l, Content(p), Content(d)),
         NEW c \in CommandType(N), Redoable(c, d), Fits(N, c, d.layers), Merges(l, c)
  PROVE  /\ Merged(l, c) \in SetCommand(N)
         /\ Links(N, Merged(l, c), Content(p), Content(Redone(c, d)))
<1> DEFINE m == Merged(l, c)
           v == RedoValue(l)
           u == UndoValue(l)
           w == RedoValue(c)
           e == Redone(c, d)
<1>1. c \in SetCommand(N) /\ l \in SetCommand(N)
  <2>1. c.kind = l.kind /\ c.kind \in {"move", "property", "active", "attribute", "moveLayer"}
    BY DEF Merges
  <2> QED
    BY <2>1, CommandIs
<1>2. /\ m \in SetCommand(N) /\ m.kind = c.kind /\ c.kind = l.kind
      /\ c.kind = "move" => RedoValue(m) = v + w /\ UndoValue(m) = -(v + w)
      /\ c.kind # "move" => RedoValue(m) = w /\ UndoValue(m) = u
  BY <1>1, MergedIs DEF Merges
<1>3. /\ Redoable(l, p) /\ Content(Redone(l, p)) = Content(d)
      /\ Undoable(l, d) /\ Content(Undone(l, d)) = Content(p)
  BY LinkRedoes, LinkUndoes
<1>4. Fits(N, l, p.layers) /\ Fits(N, l, d.layers)
  BY WithContentIs DEF Links
<1>5. /\ Settable(l, p, v) /\ Fitting(N, l, p.layers, v) /\ Fitting(N, l, p.layers, u)
      /\ Settable(l, d, u)
      /\ Settable(c, d, w) /\ Fitting(N, c, d.layers, w)
      /\ Content(ValueSet(l, p, v)) = Content(d)
      /\ e = ValueSet(c, d, w)
      /\ Content(ValueSet(l, d, u)) = Content(p)
  BY <1>1, <1>3, <1>4, SetsValue DEF Fits
<1>6. e \in DocumentType(N)
  BY RedoneIs
<1> HIDE DEF v, u, w, e, m
<1>7. /\ IdsOf(d.objects) = IdsOf(p.objects) /\ IdsOf(d.layers) = IdsOf(p.layers)
      /\ Len(d.layers) = Len(p.layers)
  BY <1>1, <1>5, ValueSetAgain
<1>8. Settable(l, d, w) /\ Fitting(N, l, d.layers, w)
  BY <1>1, <1>5, SameTarget
<1>9. Settable(l, p, w)
  BY <1>1, <1>7, <1>8, SettableIs
<1>10. Settable(l, p, u)
  BY <1>1, <1>5, <1>7, SettableIs
<1>11. Fitting(N, l, p.layers, w)
  BY <1>7, <1>8 DEF Fitting
<1>12. e = ValueSet(l, d, w)
  BY <1>1, <1>5, SameTarget
<1>13. Content(p) = View(p.objects, p.layers, p.active)
  BY ContentIs
<1>14. CASE c.kind = "move"
  <2> DEFINE x == v + w
             y == -x
  <2>1. v \in Int /\ w \in Int /\ x \in Int /\ y \in Int /\ x + y = 0
    BY <1>2, <1>5, <1>11, <1>14 DEF Fitting
  <2>2. RedoValue(m) = x /\ UndoValue(m) = y
    BY <1>2, <1>14
  <2>3. Content(e) = ViewSet(l, p.objects, p.layers, p.active, x)
    <3>1. l.kind = "move" =>
            Content(ValueSet(l, d, w)) = ViewSet(l, p.objects, p.layers, p.active, v + w)
      BY <1>1, <1>5, <1>9, <1>11, ValueSetAgain
    <3> QED
      BY <1>2, <1>12, <1>14, <3>1
  <2> HIDE DEF x, y
  <2>4. /\ Settable(l, p, x) /\ Settable(l, p, y)
        /\ \A layers : Fitting(N, l, layers, x) /\ Fitting(N, l, layers, y)
    <3>1. Settable(l, p, x) /\ Settable(l, p, y)
      BY <1>2, <1>5, <1>14 DEF Settable
    <3>2. \A layers : Fitting(N, l, layers, x) /\ Fitting(N, l, layers, y)
      BY <1>2, <1>14, <2>1 DEF Fitting
    <3> QED
      BY <3>1, <3>2
  <2>5. Content(ValueSet(l, p, x)) = Content(e)
    BY <1>1, <2>3, <2>4, ValueSetIs
  <2>6. Settable(l, e, y) /\ Content(ValueSet(l, e, y)) = ViewSet(l, p.objects, p.layers, p.active, x + y)
    <3>1. Fitting(N, l, p.layers, x) /\ Fitting(N, l, p.layers, y)
      BY <2>4
    <3>2. Content(e) = Content(ValueSet(l, p, x))
      BY <2>5
    <3>3. /\ Settable(l, e, y)
          /\ l.kind = "move" =>
               Content(ValueSet(l, e, y)) = ViewSet(l, p.objects, p.layers, p.active, x + y)
      BY <1>1, <1>6, <2>4, <3>1, <3>2, ValueSetAgain
    <3> QED
      BY <1>2, <1>14, <3>3
  <2>7. ViewSet(l, p.objects, p.layers, p.active, x + y) = Content(p)
    <3>1. p.objects \in Objects
      BY DocumentIs
    <3>2. MovedBy(p.objects, ToSet(l.ids), 0) = p.objects
      BY <3>1, MovedByTwice
    <3> QED
      BY <1>2, <1>13, <1>14, <2>1, <3>2 DEF ViewSet
  <2>8. /\ Settable(m, p, x) /\ Content(ValueSet(m, p, x)) = Content(e)
        /\ Settable(m, e, y) /\ Content(ValueSet(m, e, y)) = Content(p)
        /\ Fitting(N, m, p.layers, x) /\ Fitting(N, m, p.layers, y)
        /\ Fitting(N, m, e.layers, x) /\ Fitting(N, m, e.layers, y)
    BY <1>1, <2>4, <2>5, <2>6, <2>7, SameTarget, MergedTarget DEF m
  <2>9. /\ Redoable(m, p) /\ Content(Redone(m, p)) = Content(e) /\ Fits(N, m, p.layers)
        /\ Undoable(m, e) /\ Content(Undone(m, e)) = Content(p) /\ Fits(N, m, e.layers)
    BY <1>2, <2>2, <2>8, SetsValue DEF Fits
  <2> QED
    BY <1>2, <1>6, <2>9, LinkBy DEF CommandType, m, e
<1>15. CASE c.kind # "move"
  <2>1. RedoValue(m) = w /\ UndoValue(m) = u
    BY <1>2, <1>15
  <2>2. Content(e) = ViewSet(l, p.objects, p.layers, p.active, w)
    BY <1>1, <1>2, <1>5, <1>9, <1>11, <1>12, <1>15, ValueSetAgain
  <2>3. Content(ValueSet(l, p, w)) = Content(e)
    BY <1>1, <1>9, <1>11, <2>2, ValueSetIs
  <2>4. Content(p) = ViewSet(l, p.objects, p.layers, p.active, u)
    BY <1>1, <1>2, <1>5, <1>10, <1>15, ValueSetAgain
  <2>5. /\ Settable(l, e, u) /\ Fitting(N, l, e.layers, u)
        /\ Content(ValueSet(l, e, u)) = Content(p)
    BY <1>1, <1>2, <1>5, <1>6, <1>9, <1>10, <1>11, <1>15, <2>3, <2>4, ValueSetAgain
  <2>6. Fitting(N, l, e.layers, w)
    BY <1>1, <1>6, <1>9, <1>11, <2>3, ValueSetAgain
  <2>7. /\ Settable(m, p, w) /\ Content(ValueSet(m, p, w)) = Content(e)
        /\ Settable(m, e, u) /\ Content(ValueSet(m, e, u)) = Content(p)
        /\ Fitting(N, m, p.layers, w) /\ Fitting(N, m, p.layers, u)
        /\ Fitting(N, m, e.layers, w) /\ Fitting(N, m, e.layers, u)
    BY <1>1, <1>5, <1>9, <1>11, <2>3, <2>5, <2>6, SameTarget, MergedTarget DEF m
  <2>8. /\ Redoable(m, p) /\ Content(Redone(m, p)) = Content(e) /\ Fits(N, m, p.layers)
        /\ Undoable(m, e) /\ Content(Undone(m, e)) = Content(p) /\ Fits(N, m, e.layers)
    BY <1>2, <2>1, <2>7, SetsValue DEF Fits
  <2> QED
    BY <1>2, <1>6, <2>8, LinkBy DEF CommandType, m, e
<1> QED
  BY <1>14, <1>15
=============================================================================
