------------------------- MODULE CmdLineBufferProofs -------------------------
(***************************************************************************)
(* Proofs about the line editor, for all characters and commands and lines *)
(* and histories of any length: the cursor stays in the line, and what is  *)
(* on the screen is the line.                                              *)
(***************************************************************************)
EXTENDS CmdLineBuffer, SequenceTheorems, WellFoundedInduction, TLAPS

-----------------------------------------------------------------------------
(* Numbers and sequences.                                                  *)

\* A set of natural numbers has a least element.
LEMMA MinIsIn ==
  ASSUME NEW S \in SUBSET Nat, S # {}
  PROVE  Min(S) \in S /\ \A n \in S : Min(S) <= n
<1>1. IsWellFoundedOn(OpToRel(<, Nat), Nat)
  BY NatLessThanWellFounded
<1>2. PICK x \in S : \A y \in S : ~(<<y, x>> \in OpToRel(<, Nat))
  BY <1>1, WFMin
<1>3. ASSUME NEW y \in S
      PROVE  x <= y
  <2>1. x \in Nat /\ y \in Nat
    OBVIOUS
  <2>2. ~(<<y, x>> \in OpToRel(<, Nat))
    BY <1>2
  <2>3. <<y, x>> \in Nat \X Nat
    BY <2>1
  <2>4. ~(y < x)
    BY <2>2, <2>3, Zenon DEF OpToRel
  <2> QED
    BY <2>1, <2>4
<1>4. \E m \in S : \A n \in S : m <= n
  BY <1>3
<1> QED
  BY <1>4, Zenon DEF Min

\* One that is bounded has a greatest.
LEMMA MaxIsIn ==
  ASSUME NEW k \in Nat, NEW S \in SUBSET (0..k), S # {}
  PROVE  Max(S) \in S /\ \A n \in S : n <= Max(S)
<1> DEFINE T == {k - n : n \in S}
<1>1. T \in SUBSET Nat /\ T # {}
  <2>1. \A n \in S : n \in Nat /\ k - n \in Nat
    OBVIOUS
  <2> QED
    BY <2>1
<1>2. PICK x \in T : \A n \in T : x <= n
  BY <1>1, MinIsIn
<1>3. PICK m \in S : x = k - m
  OBVIOUS
<1>4. ASSUME NEW n \in S
      PROVE  n <= m
  <2>1. k - n \in T
    OBVIOUS
  <2>2. k - m <= k - n
    BY <1>2, <1>3, <2>1
  <2>3. n \in Nat /\ m \in Nat
    OBVIOUS
  <2> QED
    BY <2>2, <2>3
<1>5. \E g \in S : \A n \in S : g >= n
  BY <1>4
<1>6. PICK g \in S : g = Max(S) /\ \A n \in S : g >= n
  BY <1>5, Zenon DEF Max
<1> QED
  BY <1>6

\* A part of a sequence.
LEMMA PartOfSeq ==
  ASSUME NEW S, NEW s \in Seq(S), NEW m \in Nat \ {0}, NEW n \in 0..Len(s)
  PROVE  /\ SubSeq(s, m, n) \in Seq(S)
         /\ Len(SubSeq(s, m, n)) = IF m <= n THEN n - m + 1 ELSE 0
         /\ \A i \in 1..Len(SubSeq(s, m, n)) : SubSeq(s, m, n)[i] = s[m + i - 1]
<1>1. \A i \in m..n : s[i] \in S
  BY ElementOfSeq
<1> QED
  BY <1>1, SubSeqProperties

\* A character pushed in.
LEMMA Inserted ==
  ASSUME NEW S, NEW s \in Seq(S), NEW i \in 1..(Len(s) + 1), NEW e \in S
  PROVE  /\ InsertAt(s, i, e) \in Seq(S)
         /\ Len(InsertAt(s, i, e)) = Len(s) + 1
         /\ \A k \in 1..(Len(s) + 1) :
              InsertAt(s, i, e)[k] = IF k < i THEN s[k] ELSE IF k = i THEN e ELSE s[k - 1]
<1> DEFINE a == SubSeq(s, 1, i - 1)
           b == SubSeq(s, i, Len(s))
<1>1. a \in Seq(S) /\ Len(a) = i - 1 /\ \A k \in 1..(i - 1) : a[k] = s[k]
  BY PartOfSeq
<1>2. b \in Seq(S) /\ Len(b) = Len(s) + 1 - i
      /\ \A k \in 1..(Len(s) + 1 - i) : b[k] = s[i + k - 1]
  BY PartOfSeq
<1>3. <<e>> \in Seq(S) /\ Len(<<e>>) = 1 /\ <<e>>[1] = e
  OBVIOUS
<1> DEFINE ae == a \o <<e>>
<1> HIDE DEF a, b
<1>4. /\ ae \in Seq(S) /\ Len(ae) = i
      /\ \A k \in 1..i : ae[k] = IF k < i THEN s[k] ELSE e
  BY <1>1, <1>3, ConcatProperties
<1> HIDE DEF ae
<1>5. /\ ae \o b \in Seq(S)
      /\ Len(ae \o b) = Len(s) + 1
      /\ \A k \in 1..(Len(s) + 1) : (ae \o b)[k] = IF k <= i THEN ae[k] ELSE b[k - i]
  BY <1>2, <1>4, ConcatProperties
<1>6. \A k \in 1..(Len(s) + 1) : (ae \o b)[k] =
        IF k < i THEN s[k] ELSE IF k = i THEN e ELSE s[k - 1]
  BY <1>2, <1>4, <1>5
<1> QED
  BY <1>5, <1>6 DEF InsertAt, a, ae, b

\* A part of a sequence that follows another one.
LEMMA PartOfSecond ==
  ASSUME NEW S, NEW s \in Seq(S), NEW t \in Seq(S),
         NEW m \in 1..Len(t), NEW n \in 1..Len(t),
         NEW m2 \in Nat, m2 = Len(s) + m, NEW n2 \in Nat, n2 = Len(s) + n
  PROVE  SubSeq(s \o t, m2, n2) = SubSeq(t, m, n)
<1>1. Len(s) \in Nat /\ Len(t) \in Nat
  BY LenProperties
<1>2. m2 \in Len(s) + 1..Len(s) + Len(t) /\ n2 \in Len(s) + 1..Len(s) + Len(t)
  BY <1>1
<1>3. m2 - Len(s) = m /\ n2 - Len(s) = n
  BY <1>1
<1>4. SubSeq(s \o t, m2, n2) = SubSeq(t, m2 - Len(s), n2 - Len(s))
  BY <1>2, SubSeqOfConcat2
<1> QED
  BY <1>3, <1>4

\* A character taken out.
LEMMA Removed ==
  ASSUME NEW S, NEW s \in Seq(S), NEW i \in 1..Len(s)
  PROVE  /\ RemoveAt(s, i) \in Seq(S)
         /\ Len(RemoveAt(s, i)) = Len(s) - 1
         /\ \A k \in 1..(Len(s) - 1) :
              RemoveAt(s, i)[k] = IF k < i THEN s[k] ELSE s[k + 1]
<1> DEFINE a == SubSeq(s, 1, i - 1)
           b == SubSeq(s, i + 1, Len(s))
<1>1. a \in Seq(S) /\ Len(a) = i - 1 /\ \A k \in 1..(i - 1) : a[k] = s[k]
  BY PartOfSeq
<1>2. b \in Seq(S) /\ Len(b) = Len(s) - i
      /\ \A k \in 1..(Len(s) - i) : b[k] = s[i + k]
  BY PartOfSeq
<1> HIDE DEF a, b
<1>3. /\ a \o b \in Seq(S) /\ Len(a \o b) = Len(s) - 1
      /\ \A k \in 1..(Len(s) - 1) : (a \o b)[k] = IF k <= i - 1 THEN a[k] ELSE b[k - (i - 1)]
  BY <1>1, <1>2, ConcatProperties
<1>4. \A k \in 1..(Len(s) - 1) : (a \o b)[k] = IF k < i THEN s[k] ELSE s[k + 1]
  BY <1>1, <1>2, <1>3
<1> QED
  BY <1>3, <1>4 DEF RemoveAt, a, b

-----------------------------------------------------------------------------
(* The invariant.                                                          *)

Cells == Letters \cup {-1}

\* The cursor is in the line, and unless a key parted them, the screen shows it.
\* A command that waits for a key left an empty buffer behind.
IInv ==
  /\ TypeOK
  /\ CursorInLine
  /\ BufferIsHistoryLine
  /\ ScreenIsLine
  /\ waiting => text = <<>> /\ pos = 0 /\ index = Unset

\* Blanks and prompts are cells.
LEMMA LettersAreCells ==
  /\ Blank \in Letters /\ Letters \subseteq Nat
  /\ PromptCells \in Seq(Cells) /\ Len(PromptCells) = 2
  /\ \A line \in Lines : line \in Seq(Cells)
<1>1. Blank \in Letters /\ Letters \subseteq Nat
  BY BoundsAssumption DEF Letters, Blank
<1>2. PromptCells \in Seq(Cells) /\ Len(PromptCells) = 2
  BY DEF PromptCells, Cells
<1>3. Letters \subseteq Cells
  BY DEF Cells
<1>4. \A line \in Seq(Letters) : line \in Seq(Cells)
  BY <1>3, SeqMonotonic
<1> QED
  BY <1>1, <1>2, <1>4 DEF Lines

\* The prompt with a line after it.
LEMMA PromptAndLine ==
  ASSUME NEW line \in Lines
  PROVE  /\ PromptCells \o line \in Seq(Cells)
         /\ Len(PromptCells \o line) = Len(line) + 2
         /\ \A i \in 1..(Len(line) + 2) : (PromptCells \o line)[i] =
              IF i <= 2 THEN PromptCells[i] ELSE line[i - 2]
<1>1. line \in Seq(Cells) /\ Len(line) \in Nat
  BY LettersAreCells, LenProperties DEF Lines
<1>2. PromptCells \in Seq(Cells) /\ Len(PromptCells) = 2
  BY LettersAreCells
<1>3. /\ PromptCells \o line \in Seq(Cells)
      /\ Len(PromptCells \o line) = Len(PromptCells) + Len(line)
      /\ \A i \in 1..(Len(PromptCells) + Len(line)) : (PromptCells \o line)[i] =
           IF i <= Len(PromptCells) THEN PromptCells[i] ELSE line[i - Len(PromptCells)]
  BY <1>1, <1>2, ConcatProperties
<1>4. Len(PromptCells) + Len(line) = Len(line) + 2
  BY <1>1, <1>2
<1> QED
  BY <1>2, <1>3, <1>4

\* What the next key works on.
LEMMA LineType ==
  ASSUME TypeOK, CursorInLine
  PROVE  Line \in Lines /\ LinePos \in 0..Len(Line)
<1>1. CASE Browsing
  <2>1. index \in Nat /\ index + 1 \in 1..Len(history)
    BY <1>1, LenProperties DEF TypeOK, Browsing, Unset
  <2>2. history[index + 1] \in Lines
    BY <2>1, ElementOfSeq DEF TypeOK
  <2>3. Len(history[index + 1]) \in Nat
    BY <2>2, LenProperties DEF Lines
  <2> QED
    BY <1>1, <2>2, <2>3 DEF Line, LinePos
<1>2. CASE ~Browsing
  BY <1>2, LenProperties DEF Line, LinePos, TypeOK, CursorInLine, Lines
<1> QED
  BY <1>1, <1>2

\* A state in which the buffer is what is seen.
LEMMA Settled ==
  ASSUME TypeOK', CursorInLine', ~waiting',
         ~upset' => row' = PromptCells \o text' /\ col' = PromptWidth + pos',
         ~upset' /\ Browsing' => history'[index' + 1] = text' /\ pos' = Len(text')
  PROVE  IInv'
<1>1. BufferIsHistoryLine'
  BY DEF BufferIsHistoryLine, Line
<1>2. ScreenIsLine'
  <2>1. CASE Browsing'
    BY <2>1 DEF ScreenIsLine, Line, LinePos
  <2>2. CASE ~Browsing'
    BY <2>2 DEF ScreenIsLine, Line, LinePos
  <2> QED
    BY <2>1, <2>2
<1> QED
  BY <1>1, <1>2 DEF IInv

\* An edit of the line that is shown.
LEMMA Edited ==
  ASSUME TypeOK, ~waiting, UNCHANGED <<history, waiting>>, LeaveHistory,
         text' \in Lines, pos' \in 0..Len(text'), alloc' \in Nat,
         state' \in {"ready", "esc", "esc1"}, listing' \in BOOLEAN, upset' \in BOOLEAN,
         row' \in Seq(Cells), col' \in Nat,
         ~upset' => row' = PromptCells \o text' /\ col' = PromptWidth + pos'
  PROVE  IInv'
<1>1. index' \in Nat \cup {Unset} /\ ~Browsing'
  BY DEF TypeOK, LeaveHistory, Browsing, Unset
<1>2. TypeOK'
  BY <1>1 DEF TypeOK, Cells
<1>3. CursorInLine'
  BY LenProperties DEF CursorInLine, Lines
<1> QED
  BY <1>1, <1>2, <1>3, Settled

\* A line drawn afresh.
LEMMA Drawn ==
  ASSUME NEW line \in Lines, Draw(line)
  PROVE  /\ row' = PromptCells \o line /\ row' \in Seq(Cells)
         /\ col' = PromptWidth + Len(line) /\ col' \in Nat
<1>1. Len(line) \in Nat
  BY LenProperties DEF Lines
<1> QED
  BY <1>1, PromptAndLine DEF Draw, PromptWidth

\* The size of the allocation.
LEMMA RoomType ==
  ASSUME TypeOK, NEW at \in Nat, NEW len \in Nat, NEW used \in Nat
  PROVE  Room(at, len, used) \in Nat
BY DEF Room, TypeOK, ALLOC_QUANTUM

-----------------------------------------------------------------------------
(* Keys that edit.                                                         *)

\* Cells that exist do not change when room is made for the cursor.
LEMMA PaddedType ==
  ASSUME NEW s \in Seq(Cells), NEW c \in Nat
  PROVE  /\ Padded(s, c) \in Seq(Cells)
         /\ Len(Padded(s, c)) = (IF c > Len(s) THEN c ELSE Len(s))
         /\ c <= Len(s) => Padded(s, c) = s
<1> DEFINE k == IF c > Len(s) THEN c - Len(s) ELSE 0
           blanks == [i \in 1..k |-> Blank]
<1>1. Len(s) \in Nat /\ k \in Nat
  BY LenProperties
<1>2. Blank \in Cells
  BY LettersAreCells DEF Cells
<1>3. blanks \in Seq(Cells) /\ Len(blanks) = k
  BY <1>1, <1>2
<1>4. Padded(s, c) = s \o blanks
  BY DEF Padded
<1> HIDE DEF blanks
<1>5. s \o blanks \in Seq(Cells) /\ Len(s \o blanks) = Len(s) + k
  BY <1>1, <1>3, ConcatProperties
<1>6. ASSUME c <= Len(s) PROVE s \o blanks = s
  <2>1. k = 0
    BY <1>1, <1>6
  <2>2. blanks = <<>>
    BY <1>3, <2>1, EmptySeq
  <2> QED
    BY <2>2, ConcatEmptySeq
<1> QED
  BY <1>1, <1>4, <1>5, <1>6

\* What the terminal does to a row leaves a row.
LEMMA RowTypes ==
  ASSUME NEW s \in Seq(Cells), NEW c \in Nat, NEW ch \in Letters
  PROVE  /\ Pushed(s, c, ch) \in Seq(Cells)
         /\ Overwritten(s, c, ch) \in Seq(Cells)
         /\ Pulled(s, c) \in Seq(Cells)
<1>1. ch \in Cells /\ Len(s) \in Nat
  BY LenProperties DEF Cells
<1>2. Padded(s, c) \in Seq(Cells) /\ c + 1 \in 1..(Len(Padded(s, c)) + 1)
  BY <1>1, PaddedType
<1>3. Pushed(s, c, ch) \in Seq(Cells)
  BY <1>1, <1>2, Inserted DEF Pushed
<1>4. Overwritten(s, c, ch) \in Seq(Cells)
  <2>1. CASE c < Len(s)
    <3>1. c + 1 \in 1..Len(s)
      BY <1>1, <2>1
    <3>2. ReplaceAt(s, c + 1, ch) \in Seq(Cells)
      BY <1>1, <3>1, ExceptSeq DEF ReplaceAt
    <3> QED
      BY <2>1, <3>2 DEF Overwritten
  <2>2. CASE ~(c < Len(s))
    BY <1>1, <1>2, <2>2, AppendProperties DEF Overwritten
  <2> QED
    BY <2>1, <2>2
<1>5. Pulled(s, c) \in Seq(Cells)
  <2>1. CASE c < Len(s)
    <3>1. c + 1 \in 1..Len(s)
      BY <1>1, <2>1
    <3>2. RemoveAt(s, c + 1) \in Seq(Cells)
      BY <3>1, Removed
    <3> QED
      BY <2>1, <3>2 DEF Pulled
  <2>2. CASE ~(c < Len(s))
    BY <2>2 DEF Pulled
  <2> QED
    BY <2>1, <2>2
<1> QED
  BY <1>3, <1>4, <1>5

\* The parts of a row that shows a line.
LEMMA PartsOfRow ==
  ASSUME NEW line \in Lines, NEW k \in 0..Len(line)
  PROVE  /\ SubSeq(PromptCells \o line, 1, k + 2) = PromptCells \o SubSeq(line, 1, k)
         /\ SubSeq(PromptCells \o line, k + 3, Len(line) + 2) = SubSeq(line, k + 1, Len(line))
<1> DEFINE r == PromptCells \o line
<1>1. line \in Seq(Cells) /\ Len(line) \in Nat /\ k \in Nat
  BY LettersAreCells, LenProperties DEF Lines
<1>2. PromptCells \in Seq(Cells) /\ Len(PromptCells) = 2
  BY LettersAreCells
<1>3. r \in Seq(Cells) /\ Len(r) = Len(line) + 2
  BY PromptAndLine
<1>4. SubSeq(r, 1, k + 2) = PromptCells \o SubSeq(line, 1, k)
  <2>1. SubSeq(r, 1, 2) = PromptCells
    <3>1. 1 \in 1..Len(PromptCells) /\ 2 \in 1..Len(PromptCells)
      BY <1>2
    <3>2. SubSeq(r, 1, 2) = SubSeq(PromptCells, 1, 2)
      BY <1>1, <1>2, <3>1, SubSeqOfConcat1, Zenon
    <3> QED
      BY <1>2, <3>2, SubSeqFull, Zenon
  <2>2. CASE k = 0
    <3>1. SubSeq(line, 1, k) = <<>>
      BY <2>2, SubSeqEmpty
    <3>2. PromptCells \o SubSeq(line, 1, k) = PromptCells
      BY <1>2, <3>1, ConcatEmptySeq, Zenon
    <3>3. k + 2 = 2
      BY <2>2
    <3> QED
      BY <2>1, <3>2, <3>3, Zenon
  <2>3. CASE k # 0
    <3>1. SubSeq(r, 3, k + 2) = SubSeq(line, 1, k)
      <4> DEFINE m == 3
                 n == k + 2
      <4>1. /\ m \in Len(PromptCells) + 1..Len(PromptCells) + Len(line)
            /\ n \in Len(PromptCells) + 1..Len(PromptCells) + Len(line)
            /\ m - 2 = 1 /\ n - 2 = k
        BY <1>1, <1>2, <2>3
      <4> HIDE DEF m, n
      <4>2. SubSeq(r, m, n) = SubSeq(line, m - Len(PromptCells), n - Len(PromptCells))
        BY <1>1, <1>2, <4>1, SubSeqOfConcat2
      <4> QED
        BY <1>2, <4>1, <4>2 DEF m, n
    <3>2. 1 \in 1..Len(r) + 1 /\ 2 \in 1 - 1..Len(r) /\ k + 2 \in 2..Len(r)
      BY <1>1, <1>3, <2>3
    <3> HIDE DEF r
    <3>3. SubSeq(r, 1, 2) \o SubSeq(r, 2 + 1, k + 2) = SubSeq(r, 1, k + 2)
      BY <1>3, <3>2, ConcatAdjacentSubSeq, Zenon
    <3>4. 2 + 1 = 3
      OBVIOUS
    <3> QED
      BY <2>1, <3>1, <3>3, <3>4, Zenon
  <2> QED
    BY <2>2, <2>3
<1>5. SubSeq(r, k + 3, Len(line) + 2) = SubSeq(line, k + 1, Len(line))
  <2>1. CASE k = Len(line)
    <3>1. SubSeq(line, k + 1, Len(line)) = <<>>
      BY <1>1, <2>1, SubSeqEmpty
    <3>2. SubSeq(r, k + 3, Len(line) + 2) = <<>>
      BY <1>1, <2>1, SubSeqEmpty
    <3> QED
      BY <3>1, <3>2
  <2>2. CASE k # Len(line)
    <3> DEFINE m == k + 3
               n == Len(line) + 2
    <3>1. /\ m \in Len(PromptCells) + 1..Len(PromptCells) + Len(line)
          /\ n \in Len(PromptCells) + 1..Len(PromptCells) + Len(line)
      BY <1>1, <1>2, <2>2
    <3>2. m - Len(PromptCells) = k + 1 /\ n - Len(PromptCells) = Len(line)
      BY <1>1, <1>2
    <3> HIDE DEF m, n
    <3>3. line \in Seq(Cells) /\ PromptCells \in Seq(Cells)
      BY <1>1, <1>2
    <3>4. SubSeq(r, m, n) = SubSeq(line, m - Len(PromptCells), n - Len(PromptCells))
      BY <3>1, <3>3, SubSeqOfConcat2
    <3> QED
      BY <3>2, <3>4 DEF m, n
  <2> QED
    BY <2>1, <2>2
<1> QED
  BY <1>4, <1>5

\* A character written on the row is the character put into the line.
LEMMA TypedIsSeen ==
  ASSUME NEW line \in Lines, NEW p \in 0..Len(line), NEW ch \in Letters
  PROVE  (IF p < Len(line) THEN Pushed(PromptCells \o line, PromptWidth + p, ch)
          ELSE Overwritten(PromptCells \o line, PromptWidth + p, ch))
           = PromptCells \o InsertAt(line, p + 1, ch)
<1> DEFINE r == PromptCells \o line
           a == SubSeq(line, 1, p)
           b == SubSeq(line, p + 1, Len(line))
           e == <<ch>>
<1>1. line \in Seq(Cells) /\ Len(line) \in Nat /\ p \in Nat
  BY LettersAreCells, LenProperties DEF Lines
<1>2. PromptCells \in Seq(Cells)
  BY LettersAreCells
<1>3. r \in Seq(Cells) /\ Len(r) = Len(line) + 2
  BY PromptAndLine
<1>4. a \in Seq(Cells) /\ b \in Seq(Cells)
  BY <1>1, PartOfSeq
<1>5. ch \in Cells /\ e \in Seq(Cells)
  BY DEF Cells
<1>6. SubSeq(r, 1, p + 2) = PromptCells \o a /\ SubSeq(r, p + 3, Len(r)) = b
  BY <1>3, PartsOfRow
<1>7. InsertAt(line, p + 1, ch) = (a \o e) \o b
  <2> DEFINE i == p + 1
  <2>1. i - 1 = p
    BY <1>1
  <2> HIDE DEF i
  <2>2. InsertAt(line, i, ch) = (SubSeq(line, 1, p) \o e) \o SubSeq(line, i, Len(line))
    BY <2>1 DEF InsertAt
  <2> QED
    BY <2>2 DEF i
<1>8. PromptWidth + p = p + 2
  BY <1>1 DEF PromptWidth
<1>9. Padded(r, p + 2) = r
  <2>1. p + 2 \in Nat /\ p + 2 <= Len(r)
    BY <1>1, <1>3
  <2> HIDE DEF r
  <2> QED
    BY <1>3, <2>1, PaddedType
<1> HIDE DEF r, a, b, e
<1>10. PromptCells \o ((a \o e) \o b) = ((PromptCells \o a) \o e) \o b
  BY <1>2, <1>4, <1>5, SMTT(30)
<1>11. CASE p < Len(line)
  <2>1. Pushed(r, p + 2, ch) = InsertAt(r, p + 2 + 1, ch)
    BY <1>9 DEF Pushed
  <2> DEFINE i == p + 2 + 1
  <2>2. i - 1 = p + 2 /\ i = p + 3
    BY <1>1
  <2> HIDE DEF i
  <2>3. InsertAt(r, i, ch) = (SubSeq(r, 1, p + 2) \o e) \o SubSeq(r, p + 3, Len(r))
    BY <2>2 DEF InsertAt, e
  <2>4. InsertAt(r, p + 2 + 1, ch) = (SubSeq(r, 1, p + 2) \o e) \o SubSeq(r, p + 3, Len(r))
    BY <2>3 DEF i
  <2> QED
    BY <1>6, <1>7, <1>8, <1>10, <1>11, <2>1, <2>4 DEF r
<1>12. CASE ~(p < Len(line))
  <2>1. p = Len(line)
    BY <1>1, <1>12
  <2>2. a = line /\ b = <<>>
    <3>1. SubSeq(line, 1, Len(line)) = line
      BY <1>1, SubSeqFull
    <3>2. SubSeq(line, Len(line) + 1, Len(line)) = <<>>
      BY <1>1, SubSeqEmpty
    <3> QED
      BY <2>1, <3>1, <3>2 DEF a, b
  <2>3. ~(p + 2 < Len(r))
    BY <1>1, <1>3, <2>1
  <2>4. Overwritten(r, p + 2, ch) = Append(r, ch)
    BY <1>9, <2>3 DEF Overwritten
  <2>5. Append(r, ch) = r \o e
    BY <1>3, <1>5, AppendIsConcat DEF e
  <2>6. r \o e \in Seq(Cells)
    BY <1>3, <1>5, ConcatProperties
  <2>7. (r \o e) \o <<>> = r \o e
    BY <2>6, ConcatEmptySeq
  <2>8. PromptCells \o ((a \o e) \o b) = r \o e
    BY <1>10, <2>2, <2>7 DEF r
  <2> QED
    BY <1>7, <1>8, <1>12, <2>4, <2>5, <2>8 DEF r
<1> QED
  BY <1>11, <1>12

LEMMA TypeKeeps ==
  ASSUME IInv, NEW ch \in Letters, Type(ch)
  PROVE  IInv'
<1>1. Line \in Lines /\ LinePos \in 0..Len(Line) /\ Len(Line) \in Nat
  BY LineType, LenProperties DEF IInv, Lines
<1>2. /\ ~waiting /\ UNCHANGED <<history, waiting, upset>> /\ LeaveHistory
      /\ text' = InsertAt(Line, LinePos + 1, ch) /\ pos' = LinePos + 1
      /\ alloc' = Room(LinePos, 1, Len(Line))
      /\ state' = state /\ listing' = FALSE
  BY DEF Type, Edit, Ready
<1>3. text' \in Lines /\ pos' \in 0..Len(text')
  <2>1. LinePos + 1 \in 1..(Len(Line) + 1)
    BY <1>1
  <2>2. InsertAt(Line, LinePos + 1, ch) \in Lines
        /\ Len(InsertAt(Line, LinePos + 1, ch)) = Len(Line) + 1
    BY <1>1, <2>1, Inserted DEF Lines
  <2> QED
    BY <1>1, <1>2, <2>2
<1>4. alloc' \in Nat
  BY <1>1, <1>2, RoomType DEF IInv
<1>5. row' \in Seq(Cells) /\ col' \in Nat
  <2>1. row \in Seq(Cells) /\ col \in Nat
    BY DEF IInv, TypeOK, Cells
  <2>2. /\ Pushed(row, col, ch) \in Seq(Cells)
        /\ Overwritten(row, col, ch) \in Seq(Cells)
    BY <2>1, RowTypes
  <2> QED
    BY <2>1, <2>2 DEF Type
<1>6. ASSUME ~upset'
      PROVE  row' = PromptCells \o text' /\ col' = PromptWidth + pos'
  <2>1. row = PromptCells \o Line /\ col = PromptWidth + LinePos
    BY <1>2, <1>6 DEF IInv, ScreenIsLine
  <2>2. row' = IF LinePos < Len(Line) THEN Pushed(row, col, ch) ELSE Overwritten(row, col, ch)
    BY DEF Type
  <2>3. row' = PromptCells \o InsertAt(Line, LinePos + 1, ch)
    BY <1>1, <2>1, <2>2, TypedIsSeen
  <2>4. col' = col + 1
    BY DEF Type
  <2> QED
    BY <1>1, <1>2, <2>1, <2>3, <2>4 DEF PromptWidth
<1> QED
  BY <1>2, <1>3, <1>4, <1>5, <1>6, Edited DEF IInv, TypeOK

\* A character taken off the row is the character taken out of the line.
LEMMA DeletedIsSeen ==
  ASSUME NEW line \in Lines, NEW p \in 1..Len(line)
  PROVE  Pulled(PromptCells \o line, PromptWidth + p - 1) = PromptCells \o RemoveAt(line, p)
<1> DEFINE r == PromptCells \o line
           k == p - 1
           a == SubSeq(line, 1, k)
           b == SubSeq(line, p + 1, Len(line))
           i == p + 2
<1>1. line \in Seq(Cells) /\ Len(line) \in Nat /\ p \in Nat
  BY LettersAreCells, LenProperties DEF Lines
<1>2. PromptCells \in Seq(Cells)
  BY LettersAreCells
<1>3. r \in Seq(Cells) /\ Len(r) = Len(line) + 2
  BY PromptAndLine
<1>4. k \in 0..Len(line) /\ p \in 0..Len(line) /\ i \in Nat
      /\ PromptWidth + p - 1 = i - 1 /\ i - 1 < Len(r) /\ k + 2 = i - 1
      /\ p + 3 = i + 1 /\ i - 1 + 1 = i
  BY <1>1, <1>3 DEF PromptWidth
<1>5. a \in Seq(Cells) /\ b \in Seq(Cells)
  BY <1>1, <1>4, PartOfSeq
<1>6. SubSeq(r, p + 3, Len(r)) = b
  BY <1>3, <1>4, PartsOfRow
<1> HIDE DEF k
<1>7. SubSeq(r, 1, k + 2) = PromptCells \o a
  BY <1>4, PartsOfRow
<1>8. RemoveAt(line, p) = a \o b
  BY DEF RemoveAt, k
<1> HIDE DEF r, a, b, i
<1>9. Pulled(r, i - 1) = RemoveAt(r, i)
  BY <1>4 DEF Pulled
<1>10. RemoveAt(r, i) = SubSeq(r, 1, i - 1) \o SubSeq(r, i + 1, Len(r))
  BY DEF RemoveAt
<1>11. RemoveAt(r, i) = (PromptCells \o a) \o b
  BY <1>4, <1>6, <1>7, <1>10
<1>12. (PromptCells \o a) \o b = PromptCells \o (a \o b)
  BY <1>2, <1>5
<1> QED
  BY <1>4, <1>8, <1>9, <1>11, <1>12 DEF r

\* The line and what is seen of it, as every editing key finds them.
LEMMA EditStart ==
  ASSUME IInv
  PROVE  /\ Line \in Lines /\ LinePos \in 0..Len(Line) /\ Len(Line) \in Nat
         /\ row \in Seq(Cells) /\ col \in Nat /\ alloc \in Nat
         /\ upset \in BOOLEAN /\ state \in {"ready", "esc", "esc1"} /\ TypeOK
         /\ ~upset /\ ~waiting => row = PromptCells \o Line /\ col = PromptWidth + LinePos
<1>1. TypeOK /\ CursorInLine /\ ScreenIsLine
  BY DEF IInv
<1>2. Line \in Lines /\ LinePos \in 0..Len(Line) /\ Len(Line) \in Nat
  BY <1>1, LineType, LenProperties DEF Lines
<1> QED
  BY <1>1, <1>2 DEF TypeOK, Cells, ScreenIsLine

LEMMA DeleteKeeps ==
  ASSUME IInv, Delete
  PROVE  IInv'
<1>1. /\ ~waiting /\ UNCHANGED <<history, waiting, upset, alloc>> /\ LeaveHistory
      /\ state' = state /\ listing' = FALSE
  BY DEF Delete, Edit, Ready
<1>2. CASE LinePos > 0
  <2>1. LinePos \in 1..Len(Line)
    BY <1>2, EditStart
  <2>2. RemoveAt(Line, LinePos) \in Lines /\ Len(RemoveAt(Line, LinePos)) = Len(Line) - 1
    BY <2>1, EditStart, Removed DEF Lines
  <2>3. /\ text' = RemoveAt(Line, LinePos) /\ pos' = LinePos - 1
        /\ row' = Pulled(row, OneLeft(col)) /\ col' = OneLeft(col)
    BY <1>2 DEF Delete, Edit
  <2>4. text' \in Lines /\ pos' \in 0..Len(text')
    BY <2>1, <2>2, <2>3, EditStart
  <2>5. col' \in Nat
    BY <2>3, EditStart DEF OneLeft
  <2>6. row' \in Seq(Cells)
    <3>1. Pulled(row, col') \in Seq(Cells)
      BY <2>5, EditStart, LettersAreCells, RowTypes
    <3> QED
      BY <2>3, <3>1
  <2>7. ASSUME ~upset'
        PROVE  row' = PromptCells \o text' /\ col' = PromptWidth + pos'
    <3>1. row = PromptCells \o Line /\ col = PromptWidth + LinePos
      BY <1>1, <2>7, EditStart
    <3>2. OneLeft(col) = PromptWidth + LinePos - 1 /\ PromptWidth + LinePos - 1 = PromptWidth + pos'
      BY <2>1, <2>3, <3>1 DEF OneLeft, PromptWidth
    <3> QED
      BY <2>1, <2>3, <3>1, <3>2, EditStart, DeletedIsSeen
  <2> QED
    BY <1>1, <2>4, <2>5, <2>6, <2>7, EditStart, Edited
<1>3. CASE ~(LinePos > 0)
  <2>1. text' = Line /\ pos' = LinePos /\ row' = row /\ col' = col
    BY <1>3 DEF Delete, Edit, screen
  <2> QED
    BY <1>1, <2>1, EditStart, Edited
<1> QED
  BY <1>2, <1>3

LEMMA BackspaceKeeps ==
  ASSUME IInv, Backspace
  PROVE  IInv'
<1>1. /\ ~waiting /\ UNCHANGED <<history, waiting, upset, alloc, row>> /\ LeaveHistory
      /\ state' = state /\ listing' = FALSE
      /\ text' = Line /\ pos' = OneLeft(LinePos)
      /\ col' = IF LinePos > 0 THEN OneLeft(col) ELSE col
  BY DEF Backspace, Edit, Ready
<1>2. text' \in Lines /\ pos' \in 0..Len(text') /\ col' \in Nat
  BY <1>1, EditStart DEF OneLeft
<1>3. ASSUME ~upset'
      PROVE  row' = PromptCells \o text' /\ col' = PromptWidth + pos'
  BY <1>1, <1>3, EditStart DEF OneLeft, PromptWidth
<1> QED
  BY <1>1, <1>2, <1>3, EditStart, Edited

LEMMA ControlAKeeps ==
  ASSUME IInv, ControlA
  PROVE  IInv'
<1>1. /\ ~waiting /\ UNCHANGED <<history, waiting, upset, alloc>> /\ LeaveHistory
      /\ state' = state /\ listing' = FALSE
      /\ text' = Line /\ pos' = 0 /\ col' = PromptWidth
      /\ row' = PromptCells \o SubSeq(row, PromptWidth + 1, Len(row))
  BY DEF ControlA, Edit, Ready
<1>2. row' \in Seq(Cells)
  <2>1. Len(row) \in Nat
    BY EditStart, LenProperties
  <2>2. SubSeq(row, PromptWidth + 1, Len(row)) \in Seq(Cells)
    BY <2>1, EditStart, PartOfSeq DEF PromptWidth
  <2> QED
    BY <1>1, <2>2, LettersAreCells, ConcatProperties
<1>3. ASSUME ~upset'
      PROVE  row' = PromptCells \o text' /\ col' = PromptWidth + pos'
  <2>1. row = PromptCells \o Line /\ Len(row) = Len(Line) + 2
    BY <1>1, <1>3, EditStart, PromptAndLine
  <2>2. SubSeq(PromptCells \o Line, 0 + 3, Len(Line) + 2) = SubSeq(Line, 0 + 1, Len(Line))
    BY EditStart, PartsOfRow
  <2>3. SubSeq(row, 3, Len(row)) = SubSeq(Line, 1, Len(Line))
    BY <2>1, <2>2
  <2>4. SubSeq(Line, 1, Len(Line)) = Line
    BY EditStart, SubSeqFull DEF Lines
  <2>5. PromptWidth + 1 = 3 /\ PromptWidth + 0 = PromptWidth
    BY DEF PromptWidth
  <2> QED
    BY <1>1, <2>3, <2>4, <2>5
<1>4. text' \in Lines /\ pos' \in 0..Len(text') /\ col' \in Nat
  BY <1>1, EditStart DEF PromptWidth
<1> QED
  BY <1>1, <1>2, <1>3, <1>4, EditStart, Edited

LEMMA ControlEKeeps ==
  ASSUME IInv, ControlE
  PROVE  IInv'
<1>1. /\ ~waiting /\ UNCHANGED <<history, waiting, upset, alloc, row>> /\ LeaveHistory
      /\ state' = state /\ listing' = FALSE
      /\ text' = Line /\ pos' = Len(Line) /\ col' = PromptWidth + Len(Line)
  BY DEF ControlE, Edit, Ready
<1>2. text' \in Lines /\ pos' \in 0..Len(text') /\ col' \in Nat
  BY <1>1, EditStart DEF PromptWidth
<1>3. ASSUME ~upset'
      PROVE  row' = PromptCells \o text' /\ col' = PromptWidth + pos'
  BY <1>1, <1>3, EditStart
<1> QED
  BY <1>1, <1>2, <1>3, EditStart, Edited

LEMMA ControlKKeeps ==
  ASSUME IInv, ControlK
  PROVE  IInv'
<1> DEFINE n == IF col < Len(row) THEN col ELSE Len(row)
<1>1. /\ ~waiting /\ UNCHANGED <<history, waiting, upset, alloc, col>> /\ LeaveHistory
      /\ state' = state /\ listing' = FALSE
      /\ text' = SubSeq(Line, 1, LinePos) /\ pos' = LinePos
      /\ row' = SubSeq(row, 1, n)
  BY DEF ControlK, Edit, Ready
<1>2. text' \in Lines /\ Len(text') = LinePos
  BY <1>1, EditStart, PartOfSeq DEF Lines
<1>3. row' \in Seq(Cells)
  <2>1. n \in 0..Len(row)
    BY EditStart, LenProperties
  <2> HIDE DEF n
  <2> QED
    BY <1>1, <2>1, EditStart, PartOfSeq
<1>4. ASSUME ~upset'
      PROVE  row' = PromptCells \o text' /\ col' = PromptWidth + pos'
  <2>1. row = PromptCells \o Line /\ Len(row) = Len(Line) + 2 /\ col = PromptWidth + LinePos
    BY <1>1, <1>4, EditStart, PromptAndLine
  <2>2. n = LinePos + 2
    BY <2>1, EditStart DEF PromptWidth
  <2>3. SubSeq(PromptCells \o Line, 1, LinePos + 2) = PromptCells \o SubSeq(Line, 1, LinePos)
    BY EditStart, PartsOfRow
  <2> HIDE DEF n
  <2> QED
    BY <1>1, <2>1, <2>2, <2>3
<1>5. pos' \in 0..Len(text')
  BY <1>1, <1>2, EditStart
<1> HIDE DEF n
<1> QED
  BY <1>1, <1>2, <1>3, <1>4, <1>5, EditStart, Edited

LEMMA ControlUKeeps ==
  ASSUME IInv, ControlU
  PROVE  IInv'
<1>1. /\ ~waiting /\ UNCHANGED <<history, waiting, alloc>> /\ LeaveHistory
      /\ state' = state /\ listing' = FALSE /\ upset' = FALSE
      /\ text' = <<>> /\ pos' = 0 /\ Draw(<<>>)
  BY DEF ControlU, Edit, Ready
<1>2. <<>> \in Lines /\ Len(<<>>) = 0
  BY EmptySeq DEF Lines
<1>3. row' = PromptCells \o <<>> /\ row' \in Seq(Cells) /\ col' = PromptWidth + 0 /\ col' \in Nat
  BY <1>1, <1>2, Drawn
<1>4. text' \in Lines /\ pos' \in 0..Len(text')
  BY <1>1, <1>2
<1>5. row' = PromptCells \o text' /\ col' = PromptWidth + pos'
  BY <1>1, <1>3
<1> QED
  BY <1>1, <1>3, <1>4, <1>5, EditStart, Edited

-----------------------------------------------------------------------------
(* Arrows.                                                                 *)

\* A key that is part of a sequence changes nothing that is seen.
LEMMA StandsStill ==
  ASSUME IInv, UNCHANGED <<buffer, history, index, waiting, screen, upset>>,
         state' \in {"ready", "esc", "esc1"}, listing' \in BOOLEAN
  PROVE  IInv'
<1>1. UNCHANGED <<text, pos, alloc, history, index, waiting, row, col, upset>>
  BY DEF buffer, screen
<1>2. TypeOK' /\ CursorInLine'
  BY <1>1 DEF IInv, TypeOK, CursorInLine
<1>3. BufferIsHistoryLine' /\ ScreenIsLine'
  BY <1>1 DEF IInv, BufferIsHistoryLine, ScreenIsLine, Line, LinePos, Browsing
<1> QED
  BY <1>1, <1>2, <1>3 DEF IInv

\* A line of the history, or the buffer, drawn as the index says.
LEMMA Browsed ==
  ASSUME IInv, ~waiting, NEW i \in Nat, Browse(i),
         UNCHANGED <<history, waiting>>, state' = "ready", listing' = FALSE, upset' = FALSE
  PROVE  IInv'
<1> DEFINE shown == IF i # Unset /\ i < Len(history) THEN history[i + 1] ELSE text
<1>1. index' = i /\ SetBuffer(shown) /\ Draw(shown)
  BY DEF Browse
<1>2. shown \in Lines
  <2>1. CASE i < Len(history)
    <3>1. i + 1 \in 1..Len(history)
      BY <2>1, LenProperties DEF IInv, TypeOK
    <3>2. history[i + 1] \in Lines
      BY <3>1, ElementOfSeq DEF IInv, TypeOK
    <3> QED
      BY <3>2 DEF IInv, TypeOK
  <2>2. CASE ~(i < Len(history))
    BY <2>2 DEF IInv, TypeOK
  <2> QED
    BY <2>1, <2>2
<1>3. Browsing' => history'[index' + 1] = shown
  BY <1>1 DEF Browsing
<1> HIDE DEF shown
<1>4. Len(shown) \in Nat
  BY <1>2, LenProperties DEF Lines
<1>5. text' = shown /\ pos' = Len(shown) /\ alloc' = Room(0, Len(shown), 0)
  BY <1>1 DEF SetBuffer
<1>6. alloc' \in Nat
  BY <1>4, <1>5, RoomType DEF IInv
<1>7. row' = PromptCells \o shown /\ row' \in Seq(Cells)
      /\ col' = PromptWidth + Len(shown) /\ col' \in Nat
  BY <1>1, <1>2, Drawn
<1>8. TypeOK'
  BY <1>1, <1>2, <1>4, <1>5, <1>6, <1>7 DEF IInv, TypeOK, Cells
<1>9. CursorInLine'
  BY <1>4, <1>5 DEF CursorInLine
<1> QED
  BY <1>3, <1>5, <1>7, <1>8, <1>9, Settled

LEMMA UpKeeps ==
  ASSUME IInv, Up
  PROVE  IInv'
<1>1. ~waiting /\ UNCHANGED <<history, waiting>> /\ state' = "ready" /\ listing' = FALSE
  BY DEF Up, Arrow
<1>2. CASE history = <<>>
  BY <1>1, <1>2, StandsStill DEF Up
<1>3. CASE history # <<>>
  <2> DEFINE i == IF Beyond(index) THEN Len(history) - 1 ELSE OneLeft(index)
  <2>1. Len(history) \in Nat \ {0}
    BY <1>3, EmptySeq DEF IInv, TypeOK
  <2>2. i \in Nat
    BY <2>1 DEF Beyond, OneLeft, IInv, TypeOK
  <2>3. Browse(i) /\ upset' = FALSE
    BY <1>3 DEF Up
  <2> HIDE DEF i
  <2> QED
    BY <1>1, <2>2, <2>3, Browsed
<1> QED
  BY <1>2, <1>3

LEMMA DownKeeps ==
  ASSUME IInv, Down
  PROVE  IInv'
<1>1. ~waiting /\ UNCHANGED <<history, waiting>> /\ state' = "ready" /\ listing' = FALSE
  BY DEF Down, Arrow
<1>2. CASE history = <<>>
  BY <1>1, <1>2, StandsStill DEF Down
<1>3. CASE history # <<>> /\ Beyond(index)
  <2>1. index' = Unset /\ UNCHANGED <<text, pos, alloc, row, col, upset>>
    BY <1>3 DEF Down, buffer, screen
  <2>2. ~Browsing /\ ~Browsing'
    BY <1>3, <2>1, LenProperties DEF Browsing, Beyond, IInv, TypeOK
  <2>3. TypeOK' /\ CursorInLine'
    BY <1>1, <2>1 DEF IInv, TypeOK, CursorInLine
  <2>4. ~upset' => row' = PromptCells \o text' /\ col' = PromptWidth + pos'
    BY <1>1, <2>1, <2>2 DEF IInv, ScreenIsLine, Line, LinePos
  <2> QED
    BY <1>1, <2>2, <2>3, <2>4, Settled
<1>4. CASE history # <<>> /\ ~Beyond(index)
  <2>1. index + 1 \in Nat
    BY <1>4 DEF Beyond, IInv, TypeOK
  <2>2. Browse(index + 1) /\ upset' = FALSE
    BY <1>4 DEF Down
  <2> QED
    BY <1>1, <2>1, <2>2, Browsed
<1> QED
  BY <1>2, <1>3, <1>4

LEMMA ForwardKeeps ==
  ASSUME IInv, Forward
  PROVE  IInv'
<1>1. /\ ~waiting /\ UNCHANGED <<history, waiting, upset, alloc, row>> /\ LeaveHistory
      /\ state' = "ready" /\ listing' = FALSE /\ text' = Line
      /\ pos' = IF LinePos < Len(Line) THEN LinePos + 1 ELSE LinePos
      /\ col' = IF LinePos < Len(Line) THEN col + 1 ELSE col
  BY DEF Forward, Arrow
<1>2. text' \in Lines /\ pos' \in 0..Len(text') /\ col' \in Nat
  BY <1>1, EditStart
<1>3. ASSUME ~upset'
      PROVE  row' = PromptCells \o text' /\ col' = PromptWidth + pos'
  BY <1>1, <1>3, EditStart DEF PromptWidth
<1> QED
  BY <1>1, <1>2, <1>3, EditStart, Edited

LEMMA BackKeeps ==
  ASSUME IInv, Back
  PROVE  IInv'
<1>1. /\ ~waiting /\ UNCHANGED <<history, waiting, upset, alloc, row>> /\ LeaveHistory
      /\ state' = "ready" /\ listing' = FALSE /\ text' = Line
      /\ pos' = OneLeft(LinePos)
      /\ col' = IF LinePos > 0 THEN OneLeft(col) ELSE col
  BY DEF Back, Arrow
<1>2. text' \in Lines /\ pos' \in 0..Len(text') /\ col' \in Nat
  BY <1>1, EditStart DEF OneLeft
<1>3. ASSUME ~upset'
      PROVE  row' = PromptCells \o text' /\ col' = PromptWidth + pos'
  BY <1>1, <1>3, EditStart DEF OneLeft, PromptWidth
<1> QED
  BY <1>1, <1>2, <1>3, EditStart, Edited

-----------------------------------------------------------------------------
(* Completion.                                                             *)

\* What Tab puts into the buffer is a line.
LEMMA ExtendedType ==
  ASSUME NEW s \in Lines, NEW new \in Extended(s)
  PROVE  new \in Lines
<1> DEFINE options == MatchesForCmd(s)
<1>1. options \subseteq Lines
  BY LinesAssumption DEF MatchesForCmd
<1>2. ASSUME NEW test \in Lines
      PROVE  CommonPart(test, options) \in Lines
  <2> DEFINE differs == {n \in 1..(Len(test) - 1) :
                           \E t \in options : ~IsPrefix(SubSeq(test, 1, n), t)}
  <2>1. CASE differs = {}
    BY <2>1 DEF CommonPart
  <2>2. CASE differs # {}
    <3>1. Len(test) \in Nat
      BY LenProperties DEF Lines
    <3>2. differs \in SUBSET Nat /\ differs \subseteq 1..(Len(test) - 1)
      BY <3>1
    <3>3. CommonPart(test, options) = SubSeq(test, 1, Min(differs) - 1)
      BY <2>2 DEF CommonPart
    <3> HIDE DEF differs
    <3>4. Min(differs) \in differs
      BY <2>2, <3>2, MinIsIn
    <3>5. Min(differs) - 1 \in 0..Len(test)
      <4>1. Min(differs) \in 1..(Len(test) - 1)
        BY <3>2, <3>4
      <4> DEFINE m == Min(differs)
      <4> HIDE DEF m
      <4>2. m \in 1..(Len(test) - 1) => m - 1 \in 0..Len(test)
        BY <3>1
      <4> QED
        BY <4>1, <4>2 DEF m
    <3>6. SubSeq(test, 1, Min(differs) - 1) \in Lines
      BY <3>5, PartOfSeq DEF Lines
    <3> QED
      BY <3>3, <3>6
  <2> QED
    BY <2>1, <2>2
<1>3. FirstOption(options) \subseteq options
  BY DEF FirstOption
<1> HIDE DEF options
<1>4. \A prefix \in FindCommonPrefix(options) : prefix \in Lines
  BY <1>1, <1>2, <1>3 DEF FindCommonPrefix
<1>5. \/ new = s
      \/ new \in options
      \/ new \in FindCommonPrefix(options)
  BY DEF Extended, options
<1> QED
  BY <1>1, <1>4, <1>5

LEMMA TabKeeps ==
  ASSUME IInv, Tab
  PROVE  IInv'
<1>1. /\ ~waiting /\ UNCHANGED <<history, waiting, upset, state>> /\ LeaveHistory
  BY DEF Tab, Ready
<1>2. PICK new \in Extended(Line) :
        /\ \/ text' = Line /\ pos' = LinePos /\ UNCHANGED <<alloc, screen>>
           \/ SetBuffer(new) /\ Draw(new)
        /\ listing' \in BOOLEAN
  BY DEF Tab
<1>3. CASE text' = Line /\ pos' = LinePos /\ UNCHANGED <<alloc, screen>>
  <2>1. row' = row /\ col' = col /\ alloc' = alloc
    BY <1>3 DEF screen
  <2> QED
    BY <1>1, <1>2, <1>3, <2>1, EditStart, Edited
<1>4. CASE SetBuffer(new) /\ Draw(new)
  <2>1. new \in Lines /\ Len(new) \in Nat
    BY EditStart, ExtendedType, LenProperties DEF Lines
  <2>2. text' = new /\ pos' = Len(new) /\ alloc' = Room(0, Len(new), 0)
    BY <1>4 DEF SetBuffer
  <2>3. alloc' \in Nat
    BY <2>1, <2>2, RoomType DEF IInv
  <2>4. row' = PromptCells \o new /\ row' \in Seq(Cells)
        /\ col' = PromptWidth + Len(new) /\ col' \in Nat
    BY <1>4, <2>1, Drawn
  <2>5. pos' \in 0..Len(text')
    BY <2>1, <2>2
  <2> QED
    BY <1>1, <1>2, <2>1, <2>2, <2>3, <2>4, <2>5, EditStart, Edited
<1> QED
  BY <1>2, <1>3, <1>4

-----------------------------------------------------------------------------
(* Return and '?'.                                                         *)

\* What is left of a line has no blank at either end.
LEMMA TrimmedIsSolid ==
  ASSUME NEW s \in Lines
  PROVE  /\ Trimmed(s) \in Lines
         /\ Trimmed(s) # <<>> =>
              /\ Len(Trimmed(s)) \in Nat \ {0}
              /\ Trimmed(s)[1] # Blank /\ Trimmed(s)[Len(Trimmed(s))] # Blank
<1> DEFINE solid == {i \in 1..Len(s) : s[i] # Blank}
<1>1. Len(s) \in Nat
  BY LenProperties DEF Lines
<1>2. CASE solid = {}
  <2>1. Trimmed(s) = <<>>
    BY <1>2 DEF Trimmed
  <2> QED
    BY <2>1, EmptySeq DEF Lines
<1>3. CASE solid # {}
  <2> DEFINE lo == Min(solid)
             hi == Max(solid)
             t == SubSeq(s, lo, hi)
  <2>1. Trimmed(s) = t
    BY <1>3 DEF Trimmed
  <2>2. solid \in SUBSET Nat /\ solid \in SUBSET (0..Len(s))
    BY <1>1
  <2>3. lo \in solid /\ hi \in solid /\ \A n \in solid : lo <= n
    <3> HIDE DEF solid
    <3> QED
      BY <1>1, <1>3, <2>2, MinIsIn, MaxIsIn
  <2>4. lo \in 1..Len(s) /\ hi \in 1..Len(s) /\ s[lo] # Blank /\ s[hi] # Blank
    BY <2>3
  <2>5. lo <= hi
    BY <2>3
  <2> HIDE DEF lo, hi
  <2>6. /\ t \in Lines /\ Len(t) = hi - lo + 1
        /\ \A i \in 1..Len(t) : t[i] = s[lo + i - 1]
    BY <1>1, <2>4, <2>5, PartOfSeq DEF Lines
  <2> HIDE DEF t
  <2>7. Len(t) \in Nat \ {0} /\ 1 \in 1..Len(t) /\ Len(t) \in 1..Len(t)
        /\ lo + 1 - 1 = lo /\ lo + Len(t) - 1 = hi
    BY <1>1, <2>4, <2>5, <2>6
  <2>8. t[1] # Blank
    BY <2>4, <2>6, <2>7
  <2>9. t[Len(t)] # Blank
    BY <2>4, <2>6, <2>7
  <2> QED
    BY <2>1, <2>6, <2>7, <2>8, <2>9
<1> QED
  BY <1>2, <1>3

LEMMA CommandType ==
  ASSUME IInv
  PROVE  Command \in Lines
BY EditStart, TrimmedIsSolid DEF Command, TypeOK

\* An empty line under the prompt.
LEMMA Emptied ==
  ASSUME IInv, Draw(<<>>), text' = <<>>, pos' = 0, alloc' \in Nat,
         history' \in Seq(Lines), index' \in Nat \cup {Unset}, upset' \in BOOLEAN,
         state' \in {"ready", "esc", "esc1"}, listing' \in BOOLEAN, ~waiting, UNCHANGED waiting,
         Browsing' => upset'
  PROVE  IInv'
<1>1. <<>> \in Lines /\ Len(<<>>) = 0
  BY EmptySeq DEF Lines
<1>2. row' = PromptCells \o <<>> /\ row' \in Seq(Cells) /\ col' = PromptWidth + 0 /\ col' \in Nat
  BY <1>1, Drawn
<1>3. TypeOK'
  BY <1>1, <1>2 DEF IInv, TypeOK, Cells
<1>4. CursorInLine'
  BY <1>1 DEF CursorInLine
<1> QED
  BY <1>2, <1>3, <1>4, Settled

LEMMA ReturnBlankKeeps ==
  ASSUME IInv, ReturnBlank
  PROVE  IInv'
<1>1. /\ ~waiting /\ UNCHANGED <<text, pos, alloc, history, state, waiting>> /\ index' = Unset
      /\ listing' = FALSE /\ Draw(<<>>) /\ upset' = (text # <<>>)
  BY DEF ReturnBlank, Ready, buffer
<1>2. <<>> \in Lines /\ Len(<<>>) = 0
  BY EmptySeq DEF Lines
<1>3. row' = PromptCells \o <<>> /\ row' \in Seq(Cells) /\ col' = PromptWidth + 0 /\ col' \in Nat
  BY <1>1, <1>2, Drawn
<1>4. TypeOK' /\ CursorInLine'
  BY <1>1, <1>3 DEF IInv, TypeOK, CursorInLine, Cells
<1>5. ASSUME ~upset'
      PROVE  row' = PromptCells \o text' /\ col' = PromptWidth + pos'
  <2>1. text' = <<>> /\ pos' = 0
    <3>1. text = <<>>
      BY <1>1, <1>5, Zenon
    <3>2. pos \in Nat /\ pos <= Len(text)
      BY DEF IInv, CursorInLine, TypeOK
    <3> QED
      BY <1>1, <1>2, <3>1, <3>2
  <2> QED
    BY <1>3, <2>1
<1>6. ~Browsing'
  BY <1>1 DEF Browsing
<1> QED
  BY <1>1, <1>4, <1>5, <1>6, Settled

LEMMA StoredType ==
  ASSUME IInv, NEW cmd \in Lines, MayStore(cmd)
  PROVE  history' \in Seq(Lines)
BY AppendProperties DEF MayStore, Stored, IInv, TypeOK

LEMMA RunCommandKeeps ==
  ASSUME IInv, RunCommand
  PROVE  IInv'
<1>1. /\ ~waiting /\ UNCHANGED <<alloc, state, waiting>> /\ index' = Unset
      /\ listing' = FALSE /\ Draw(<<>>) /\ upset' = FALSE /\ text' = <<>> /\ pos' = 0
  BY DEF RunCommand, Run, Ready, ClearBuffer
<1>2. history' \in Seq(Lines)
  BY CommandType, StoredType DEF RunCommand
<1>3. ~Browsing'
  BY <1>1 DEF Browsing
<1> QED
  BY <1>1, <1>2, <1>3, Emptied DEF IInv, TypeOK

LEMMA RunAskKeeps ==
  ASSUME IInv, RunAsk
  PROVE  IInv'
<1>1. /\ UNCHANGED <<alloc, state>> /\ index' = Unset /\ waiting' = TRUE
      /\ listing' = FALSE /\ upset' = FALSE /\ text' = <<>> /\ pos' = 0
      /\ row' = <<>> /\ col' = 0
  BY DEF RunAsk, Run, ClearBuffer
<1>2. history' \in Seq(Lines)
  BY CommandType, StoredType DEF RunAsk
<1>3. <<>> \in Lines /\ Len(<<>>) = 0 /\ <<>> \in Seq(Cells)
  BY EmptySeq DEF Lines
<1>4. TypeOK' /\ CursorInLine'
  <2>1. text' \in Lines /\ pos' \in Nat /\ pos' <= Len(text')
    BY <1>1, <1>3
  <2>2. row' \in Seq(Letters \cup {-1}) /\ col' \in Nat
    BY <1>1, <1>3 DEF Cells
  <2>3. alloc' \in Nat /\ index' \in Nat \cup {Unset} /\ state' \in {"ready", "esc", "esc1"}
    BY <1>1 DEF IInv, TypeOK
  <2>4. listing' \in BOOLEAN /\ waiting' \in BOOLEAN /\ upset' \in BOOLEAN
    BY <1>1, Zenon
  <2> QED
    BY <1>2, <2>1, <2>2, <2>3, <2>4 DEF TypeOK, CursorInLine
<1>5. BufferIsHistoryLine' /\ ScreenIsLine'
  BY <1>1 DEF BufferIsHistoryLine, ScreenIsLine, Browsing
<1> QED
  BY <1>1, <1>4, <1>5 DEF IInv

LEMMA RunRecallKeeps ==
  ASSUME IInv, RunRecall
  PROVE  IInv'
<1> DEFINE i == IF RecallIndex <= Len(history) THEN RecallIndex ELSE Len(history) - 1
           shown == IF i # Unset /\ i < Len(history) THEN history[i + 1] ELSE <<>>
<1>1. /\ ~waiting /\ UNCHANGED <<history, waiting, state>> /\ listing' = FALSE
      /\ index' = i /\ SetBuffer(shown) /\ upset' = (shown = <<>>)
      /\ IF shown = <<>> THEN Draw(PromptCells) ELSE Draw(shown)
  BY DEF RunRecall, Run, Ready
<1>2. i \in Nat \cup {Unset}
  BY BoundsAssumption, LenProperties DEF IInv, TypeOK, Unset
<1>3. shown \in Lines
  <2>1. CASE i # Unset /\ i < Len(history)
    <3>1. i + 1 \in 1..Len(history)
      BY <1>2, <2>1, LenProperties DEF IInv, TypeOK
    <3> HIDE DEF i
    <3>2. history[i + 1] \in Lines
      BY <3>1, ElementOfSeq DEF IInv, TypeOK
    <3> QED
      BY <2>1, <3>2
  <2>2. CASE ~(i # Unset /\ i < Len(history))
    BY <2>2, EmptySeq DEF Lines
  <2> QED
    BY <2>1, <2>2
<1>4. Browsing' /\ ~upset' => history'[index' + 1] = shown
  BY <1>1 DEF Browsing
<1> HIDE DEF i, shown
<1>5. Len(shown) \in Nat
  BY <1>3, LenProperties DEF Lines
<1>6. text' = shown /\ pos' = Len(shown) /\ alloc' = Room(0, Len(shown), 0)
  BY <1>1 DEF SetBuffer
<1>7. alloc' \in Nat
  BY <1>5, <1>6, RoomType DEF IInv
<1>8. row' \in Seq(Cells) /\ col' \in Nat
  <2>1. CASE shown = <<>>
    <3>1. row' = PromptCells \o PromptCells /\ col' = PromptWidth + Len(PromptCells)
      BY <1>1, <2>1 DEF Draw
    <3> QED
      BY <3>1, LettersAreCells, ConcatProperties DEF PromptWidth
  <2>2. CASE shown # <<>>
    BY <1>1, <1>3, <2>2, Drawn
  <2> QED
    BY <2>1, <2>2
<1>9. ASSUME ~upset'
      PROVE  row' = PromptCells \o text' /\ col' = PromptWidth + pos'
  BY <1>1, <1>3, <1>6, <1>9, Drawn
<1>10. TypeOK'
  BY <1>1, <1>2, <1>3, <1>5, <1>6, <1>7, <1>8 DEF IInv, TypeOK, Cells
<1>11. CursorInLine'
  BY <1>5, <1>6 DEF CursorInLine
<1> QED
  BY <1>1, <1>4, <1>6, <1>9, <1>10, <1>11, Settled

LEMMA RunForgetKeeps ==
  ASSUME IInv, RunForget
  PROVE  IInv'
<1>1. /\ ~waiting /\ UNCHANGED <<alloc, state, waiting>> /\ index' = Unset /\ history' = <<>>
      /\ listing' = FALSE /\ Draw(<<>>) /\ upset' = FALSE /\ text' = <<>> /\ pos' = 0
  BY DEF RunForget, Run, Ready, ClearBuffer
<1>2. history' \in Seq(Lines)
  BY <1>1, EmptySeq
<1>3. ~Browsing'
  BY <1>1 DEF Browsing
<1> QED
  BY <1>1, <1>2, <1>3, Emptied DEF IInv, TypeOK

LEMMA PressAwaitedKeeps ==
  ASSUME IInv, PressAwaited
  PROVE  IInv'
<1>1. /\ waiting' = FALSE /\ UNCHANGED <<text, pos, alloc, history, index, state, listing, upset>>
      /\ text = <<>> /\ pos = 0 /\ index = Unset /\ Draw(text)
  BY DEF PressAwaited, buffer, IInv
<1>2. <<>> \in Lines /\ Len(<<>>) = 0
  BY EmptySeq DEF Lines
<1>3. row' = PromptCells \o <<>> /\ row' \in Seq(Cells) /\ col' = PromptWidth + 0 /\ col' \in Nat
  BY <1>1, <1>2, Drawn
<1>4. TypeOK' /\ CursorInLine'
  BY <1>1, <1>3 DEF IInv, TypeOK, CursorInLine, Cells
<1>5. ~Browsing'
  BY <1>1 DEF Browsing
<1> QED
  BY <1>1, <1>3, <1>4, <1>5, Settled

LEMMA HelpKeeps ==
  ASSUME IInv, Help
  PROVE  IInv'
<1>1. /\ ~waiting /\ UNCHANGED <<alloc, history, index, state, waiting>>
      /\ listing' = FALSE /\ Draw(<<>>) /\ upset' = Browsing /\ text' = <<>> /\ pos' = 0
  BY DEF Help, Ready, ClearBuffer
<1>2. Browsing' = Browsing /\ Browsing \in BOOLEAN
  BY <1>1 DEF Browsing
<1> QED
  BY <1>1, <1>2, Emptied DEF IInv, TypeOK

-----------------------------------------------------------------------------
(* The theorems.                                                           *)

LEMMA InitInv == Init => IInv
<1> SUFFICES ASSUME Init PROVE IInv
  OBVIOUS
<1>1. <<>> \in Lines /\ Len(<<>>) = 0
  BY EmptySeq DEF Lines
<1>2. ~Browsing
  BY DEF Init, Browsing
<1>3. row = PromptCells \o <<>> /\ row \in Seq(Cells)
  BY LettersAreCells, ConcatEmptySeq DEF Init
<1>4. TypeOK
  BY <1>1, <1>3, LinesAssumption DEF Init, TypeOK, Cells, ALLOC_QUANTUM, PromptWidth
<1>5. CursorInLine
  BY <1>1 DEF Init, CursorInLine
<1>6. BufferIsHistoryLine
  BY <1>2 DEF BufferIsHistoryLine
<1>7. ScreenIsLine
  BY <1>2, <1>3 DEF Init, ScreenIsLine, Line, LinePos, PromptWidth
<1> QED
  BY <1>4, <1>5, <1>6, <1>7 DEF IInv, Init

LEMMA NextInv == IInv /\ [Next]_vars => IInv'
<1> SUFFICES ASSUME IInv, [Next]_vars PROVE IInv'
  OBVIOUS
<1>1. CASE UNCHANGED vars
  BY <1>1, StandsStill DEF vars, IInv, TypeOK
<1>2. CASE Next
  <2>1. ASSUME NEW ch \in Letters, Type(ch) PROVE IInv'
    BY <2>1, TypeKeeps
  <2>2. CASE Delete
    BY <2>2, DeleteKeeps
  <2>3. CASE Backspace
    BY <2>3, BackspaceKeeps
  <2>4. CASE ControlA
    BY <2>4, ControlAKeeps
  <2>5. CASE ControlE
    BY <2>5, ControlEKeeps
  <2>6. CASE ControlK
    BY <2>6, ControlKKeeps
  <2>7. CASE ControlU
    BY <2>7, ControlUKeeps
  <2>8. CASE Escape
    BY <2>8, StandsStill DEF Escape
  <2>9. CASE Bracket
    BY <2>9, StandsStill DEF Bracket, IInv, TypeOK
  <2>10. CASE Unknown
    BY <2>10, StandsStill DEF Unknown, IInv, TypeOK
  <2>11. CASE Up
    BY <2>11, UpKeeps
  <2>12. CASE Down
    BY <2>12, DownKeeps
  <2>13. CASE Forward
    BY <2>13, ForwardKeeps
  <2>14. CASE Back
    BY <2>14, BackKeeps
  <2>15. CASE Tab
    BY <2>15, TabKeeps
  <2>16. CASE ReturnBlank
    BY <2>16, ReturnBlankKeeps
  <2>17. CASE RunCommand
    BY <2>17, RunCommandKeeps
  <2>18. CASE RunAsk
    BY <2>18, RunAskKeeps
  <2>19. CASE RunRecall
    BY <2>19, RunRecallKeeps
  <2>20. CASE RunForget
    BY <2>20, RunForgetKeeps
  <2>21. CASE PressAwaited
    BY <2>21, PressAwaitedKeeps
  <2>22. CASE PressOther
    BY <2>22, StandsStill DEF PressOther, vars, IInv, TypeOK
  <2>23. CASE Help
    BY <2>23, HelpKeeps
  <2> QED
    BY <1>2, <2>1, <2>2, <2>3, <2>4, <2>5, <2>6, <2>7, <2>8, <2>9, <2>10, <2>11, <2>12,
       <2>13, <2>14, <2>15, <2>16, <2>17, <2>18, <2>19, <2>20, <2>21, <2>22, <2>23 DEF Next
<1> QED
  BY <1>1, <1>2

\* The invariant, for every key in every state: processChar keeps cursor, buffer,
\* history index and screen together.
THEOREM InvCorrect == Spec => []IInv
BY InitInv, NextInv, PTL DEF Spec

\* Every variable keeps its type: the line is a line, the index is unset or a
\* number, the row of the terminal holds cells.
THEOREM TypeCorrect == Spec => []TypeOK
<1>1. IInv => TypeOK
  BY DEF IInv
<1> QED
  BY <1>1, InvCorrect, PTL

\* _dbuf.pos never passes _dbuf.used, whichever of the two an edit, an arrow, a
\* completion or a command moved.
THEOREM CursorInLineCorrect == Spec => []CursorInLine
<1>1. IInv => CursorInLine
  BY DEF IInv
<1> QED
  BY <1>1, InvCorrect, PTL

\* What the row of the prompt shows is what Return runs, until one of the keys that
\* are known to part them.
THEOREM ScreenIsLineCorrect == Spec => []ScreenIsLine
<1>1. IInv => ScreenIsLine
  BY DEF IInv
<1> QED
  BY <1>1, InvCorrect, PTL

\* While the arrows show a line of _history the buffer holds a copy of it.
THEOREM BufferIsHistoryLineCorrect == Spec => []BufferIsHistoryLine
<1>1. IInv => BufferIsHistoryLine
  BY DEF IInv
<1> QED
  BY <1>1, InvCorrect, PTL

-----------------------------------------------------------------------------
(* The history.                                                            *)

\* What Return passes on has no blanks around it: a line of the history has none,
\* and the buffer was trimmed.
LEMMA CommandIsSolid ==
  ASSUME IInv, HistoryIsClean, Command # <<>>
  PROVE  Command \in Lines /\ Command[1] # Blank /\ Command[Len(Command)] # Blank
<1>1. CASE Browsing
  <2>1. index + 1 \in 1..Len(history)
    BY <1>1, LenProperties DEF IInv, TypeOK, Browsing, Unset
  <2>2. Command = history[index + 1]
    BY <1>1 DEF Command, Line
  <2>3. history[index + 1][1] # Blank
        /\ history[index + 1][Len(history[index + 1])] # Blank
    BY <2>1 DEF HistoryIsClean, IsClean
  <2> QED
    BY <2>2, <2>3, CommandType
<1>2. CASE ~Browsing
  <2>1. Command = Trimmed(text) /\ text \in Lines
    BY <1>2 DEF Command, IInv, TypeOK
  <2>2. Trimmed(text) # <<>>
    BY <2>1
  <2> QED
    BY <2>1, <2>2, TrimmedIsSolid
<1> QED
  BY <1>1, <1>2

LEMMA StoredIsClean ==
  ASSUME IInv, HistoryIsClean, Command # <<>>, MayStore(Command)
  PROVE  HistoryIsClean'
<1> DEFINE cmd == Command
           more == Append(history, cmd)
<1>1. history \in Seq(Lines) /\ Len(history) \in Nat
  BY LenProperties DEF IInv, TypeOK
<1>2. cmd \in Lines /\ cmd # <<>> /\ cmd[1] # Blank /\ cmd[Len(cmd)] # Blank
  BY CommandIsSolid
<1>3. \/ history' = history
      \/ history' = more /\ (history # <<>> => history[Len(history)] # cmd)
  BY DEF MayStore, Stored
<1> HIDE DEF cmd
<1>4. CASE history' = history
  BY <1>4 DEF HistoryIsClean
<1>5. CASE history' = more /\ (history # <<>> => history[Len(history)] # cmd)
  <2>1. /\ Len(more) = Len(history) + 1 /\ more[Len(history) + 1] = cmd
        /\ \A i \in 1..Len(history) : more[i] = history[i]
    BY <1>1, <1>2, AppendProperties
  <2> HIDE DEF more
  <2>2. ASSUME NEW i \in 1..Len(history)
        PROVE  /\ more[i] # <<>>
               /\ more[i][1] # Blank /\ more[i][Len(more[i])] # Blank
               /\ i > 1 => more[i] # more[i - 1]
    <3>1. more[i] = history[i]
      BY <2>1
    <3>2. i > 1 => more[i - 1] = history[i - 1]
      BY <1>1, <2>1
    <3> QED
      BY <3>1, <3>2 DEF HistoryIsClean, IsClean
  <2>3. ASSUME Len(history) + 1 > 1
        PROVE  more[Len(history) + 1] # more[Len(history)]
    <3>1. history # <<>> /\ Len(history) \in 1..Len(history)
      BY <1>1, <2>3, EmptySeq
    <3> QED
      BY <1>5, <2>1, <3>1
  <2>4. ASSUME NEW i \in 1..Len(more)
        PROVE  /\ more[i] # <<>>
               /\ more[i][1] # Blank /\ more[i][Len(more[i])] # Blank
               /\ i > 1 => more[i] # more[i - 1]
    <3>1. CASE i \in 1..Len(history)
      BY <2>2, <3>1
    <3>2. CASE i = Len(history) + 1
      <4>1. more[i] = cmd
        BY <2>1, <3>2
      <4>2. i - 1 = Len(history)
        BY <1>1, <3>2
      <4> QED
        BY <1>2, <2>3, <3>2, <4>1, <4>2
    <3> QED
      BY <1>1, <2>1, <3>1, <3>2
  <2> QED
    BY <1>5, <2>4 DEF HistoryIsClean, IsClean
<1> QED
  BY <1>3, <1>4, <1>5

\* storeCmdInHistory keeps _history free of blanks and of repetitions, however the
\* line was made, as long as readHistoryFile found such a history.
THEOREM HistoryIsCleanCorrect ==
  ASSUME \A lines \in FileHistory : IsClean(lines)
  PROVE  Spec => []HistoryIsClean
<1>1. Init => HistoryIsClean
  BY DEF Init, HistoryIsClean
<1>2. IInv /\ HistoryIsClean /\ [Next]_vars => HistoryIsClean'
  <2> SUFFICES ASSUME IInv, HistoryIsClean, [Next]_vars PROVE HistoryIsClean'
    OBVIOUS
  <2>1. ASSUME history' = history PROVE HistoryIsClean'
    BY <2>1 DEF HistoryIsClean
  <2>2. CASE RunCommand \/ RunAsk
    BY <2>2, StoredIsClean DEF RunCommand, RunAsk, Run
  <2>3. CASE RunForget
    <3>1. history' = <<>>
      BY <2>3 DEF RunForget
    <3> QED
      BY <3>1 DEF HistoryIsClean, IsClean
  <2>4. CASE ~(RunCommand \/ RunAsk \/ RunForget)
    <3>1. CASE UNCHANGED vars
      BY <2>1, <3>1 DEF vars
    <3>2. CASE \E ch \in Letters : Type(ch)
      BY <2>1, <3>2 DEF Type, Edit
    <3>3. CASE Delete \/ Backspace \/ ControlA \/ ControlE \/ ControlK \/ ControlU
      BY <2>1, <3>3 DEF Delete, Backspace, ControlA, ControlE, ControlK, ControlU, Edit
    <3>4. CASE Escape \/ Bracket \/ Unknown
      BY <2>1, <3>4 DEF Escape, Bracket, Unknown
    <3>5. CASE Up \/ Down \/ Forward \/ Back
      BY <2>1, <3>5 DEF Up, Down, Forward, Back, Arrow
    <3>6. CASE Tab
      BY <2>1, <3>6 DEF Tab
    <3>7. CASE ReturnBlank \/ RunRecall \/ PressAwaited \/ PressOther \/ Help
      BY <2>1, <3>7 DEF ReturnBlank, RunRecall, PressAwaited, PressOther, Help, vars
    <3> QED
      BY <2>4, <3>1, <3>2, <3>3, <3>4, <3>5, <3>6, <3>7 DEF Next
  <2> QED
    BY <2>2, <2>3, <2>4
<1> QED
  BY <1>1, <1>2, InvCorrect, PTL DEF Spec

=============================================================================
