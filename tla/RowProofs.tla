------------------------------ MODULE RowProofs ------------------------------
(***************************************************************************)
(* The proofs that the edits of a row are right: they leave a row that the *)
(* terminal can draw, whatever row they are of, and every column of the    *)
(* screen shows what the edit is to make of it.                            *)
(*                                                                         *)
(* The first part follows the operators of Row from the inside out, and is *)
(* used for the terminal as well.  The second says what a column of a row  *)
(* that is whole shows, of the cell of the column and the one before it,   *)
(* then what it shows after each of the operators.                         *)
(***************************************************************************)
EXTENDS RowEdits, TLAPS

-----------------------------------------------------------------------------
(* Rows.                                                                   *)

(* No character is on both sides of column x. *)
CutAt(row, x) == x >= Len(row) \/ row[x + 1] # Rest

(* Splitting a row that is whole blanks the two cells of one character, or *)
(* nothing.                                                                *)
LEMMA SplitCells ==
  ASSUME NEW row \in Seq(Cells), NEW width \in Nat, Whole(row, width), NEW x \in Nat
  PROVE  LET s == Split(row, x) IN
         /\ s \in Seq(Cells) /\ Len(s) = Len(row) /\ Whole(s, width) /\ CutAt(s, x)
         /\ \A i \in DOMAIN row : s[i] = row[i] \/ s[i] = Blank
<1> DEFINE s == Split(row, x)
<1>0. Blank # Rest /\ Blank \notin Wide /\ Rest \notin Wide /\ Blank \in Cells
  BY RowAssumption DEF Cells, Blank, Rest
<1>1. CASE x >= Len(row) \/ row[x + 1] # Rest
  BY <1>1 DEF Split, CutAt
<1>2. CASE ~(x >= Len(row) \/ row[x + 1] # Rest)
  <2>1. /\ x + 1 \in DOMAIN row /\ x \in DOMAIN row /\ row[x + 1] = Rest /\ row[x] \in Wide
        /\ x + 2 \in DOMAIN row => row[x + 2] # Rest
    BY <1>0, <1>2 DEF Whole
  <2>2. ASSUME NEW i \in DOMAIN row PROVE Joined(row, x, i - 1) <=> i \in {x, x + 1}
    <3>1. CASE i = x + 1
      BY <3>1 DEF Joined, Least, Most
    <3>2. CASE i = x
      BY <2>1, <3>2 DEF Joined, Least, Most
    <3>3. CASE i < x
      <4>1. x - 2 \in Least(x, i - 1)..Most(x, i - 1) - 1 /\ row[(x - 2) + 2] # Rest
        BY <1>0, <2>1, <3>3 DEF Least, Most
      <4>2. QED  BY <3>3, <4>1 DEF Joined
    <3>4. CASE i > x + 1
      <4>1. x \in Least(x, i - 1)..Most(x, i - 1) - 1 /\ row[x + 2] # Rest
        BY <2>1, <3>4 DEF Least, Most
      <4>2. QED  BY <3>4, <4>1 DEF Joined
    <3>5. QED  BY <3>1, <3>2, <3>3, <3>4
  <2>3. s = [i \in DOMAIN row |-> IF i \in {x, x + 1} THEN Blank ELSE row[i]]
    BY <1>2, <2>2 DEF Split
  <2>4. s \in Seq(Cells) /\ Len(s) = Len(row) /\ DOMAIN s = DOMAIN row
    BY <1>0, <2>3
  <2>5. \A i \in DOMAIN row : s[i] = IF i \in {x, x + 1} THEN Blank ELSE row[i]
    BY <2>3
  <2> HIDE DEF s
  <2>6. ASSUME NEW i \in DOMAIN s
        PROVE  /\ s[i] \in Cells
               /\ s[i] \in Wide <=> i < Len(s) /\ s[i + 1] = Rest
               /\ s[i] = Rest => i > 1
    <3>1. /\ row[i] \in Wide <=> i < Len(row) /\ row[i + 1] = Rest
          /\ row[i] = Rest => i > 1
      BY <2>4 DEF Whole
    <3>2. i < Len(row) => i + 1 \in DOMAIN row
      BY <2>4
    <3>3. QED  BY <1>0, <2>1, <2>4, <2>5, <3>1, <3>2
  <2>7. CutAt(s, x)
    BY <1>0, <2>1, <2>5 DEF CutAt
  <2>8. Whole(s, width)
    BY <2>4, <2>6 DEF Whole
  <2>9. QED  BY <2>4, <2>5, <2>7, <2>8 DEF s
<1>3. QED  BY <1>1, <1>2

(* The two pieces of a row that is cut. *)
LEMMA BeforeWhole ==
  ASSUME NEW row \in Seq(Cells), NEW width \in Nat, Whole(row, width), NEW x \in 0..Len(row),
         CutAt(row, x)
  PROVE  LET r == Before(row, x) IN
         /\ r \in Seq(Cells) /\ Len(r) = x /\ \A i \in 1..x : r[i] = row[i]
         /\ \A w \in Nat : x <= w => Whole(r, w)
<1> DEFINE r == Before(row, x)
<1>1. r \in Seq(Cells) /\ Len(r) = x /\ \A i \in 1..x : r[i] = row[i]
  BY DEF Before
<1> HIDE DEF r
<1>2. ASSUME NEW w \in Nat, x <= w PROVE Whole(r, w)
  <2>1. ASSUME NEW i \in DOMAIN r
        PROVE  /\ r[i] \in Cells
               /\ r[i] \in Wide <=> i < Len(r) /\ r[i + 1] = Rest
               /\ r[i] = Rest => i > 1
    <3>1. i \in 1..x /\ i \in DOMAIN row /\ r[i] = row[i]
      BY <1>1
    <3>2. CASE i < x
      <4>1. r[i + 1] = row[i + 1] /\ i < Len(row)
        BY <1>1, <3>1, <3>2
      <4>2. QED  BY <1>1, <3>1, <3>2, <4>1 DEF Whole
    <3>3. CASE i = x
      <4>1. r[i] \notin Wide
        BY <3>1, <3>3 DEF Whole, CutAt
      <4>2. QED  BY <1>1, <3>1, <3>3, <4>1 DEF Whole
    <3>4. QED  BY <3>1, <3>2, <3>3
  <2>2. QED  BY <1>1, <1>2, <2>1 DEF Whole
<1>3. QED  BY <1>1, <1>2 DEF r

(* What is right of a column no character is on both sides of is whole. *)
LEMMA AfterWhole ==
  ASSUME NEW row \in Seq(Cells), NEW width \in Nat, Whole(row, width), NEW x \in Nat,
         CutAt(row, x)
  PROVE  LET r == After(row, x) IN
         /\ r \in Seq(Cells) /\ Len(r) = IF x >= Len(row) THEN 0 ELSE Len(row) - x
         /\ \A w \in Nat : Len(r) <= w => Whole(r, w)
<1> DEFINE r == After(row, x)
<1>1. /\ r \in Seq(Cells) /\ Len(r) = IF x >= Len(row) THEN 0 ELSE Len(row) - x
      /\ \A i \in 1..Len(r) : i + x \in DOMAIN row /\ r[i] = row[i + x]
  BY DEF After
<1> HIDE DEF r
<1>2. ASSUME NEW w \in Nat, Len(r) <= w PROVE Whole(r, w)
  <2>1. ASSUME NEW i \in DOMAIN r
        PROVE  /\ r[i] \in Cells
               /\ r[i] \in Wide <=> i < Len(r) /\ r[i + 1] = Rest
               /\ r[i] = Rest => i > 1
    <3>1. /\ i \in 1..Len(r) /\ i + x \in DOMAIN row /\ r[i] = row[i + x] /\ x < Len(row)
          /\ Len(r) = Len(row) - x
      BY <1>1
    <3>2. /\ row[i + x] \in Wide <=> i + x < Len(row) /\ row[i + x + 1] = Rest
          /\ row[i + x] \in Cells
      BY <3>1 DEF Whole
    <3>3. i < Len(r) => r[i + 1] = row[i + x + 1]
      BY <1>1, <3>1
    <3>4. r[i] = Rest => i > 1
      <4>1. CASE i = 1
        BY <3>1, <4>1 DEF CutAt
      <4>2. QED  BY <3>1, <4>1
    <3>5. QED  BY <3>1, <3>2, <3>3, <3>4
  <2>2. QED  BY <1>1, <1>2, <2>1 DEF Whole
<1>3. QED  BY <1>1, <1>2 DEF r

(* Rows side by side. *)
LEMMA JoinWhole ==
  ASSUME NEW a \in Seq(Cells), NEW b \in Seq(Cells), NEW w \in Nat, Whole(a, w),
         Whole(b, w), Len(a) + Len(b) <= w
  PROVE  a \o b \in Seq(Cells) /\ Len(a \o b) = Len(a) + Len(b) /\ Whole(a \o b, w)
<1> DEFINE r == a \o b
<1>0. Rest \notin Wide
  BY RowAssumption DEF Rest
<1>1. /\ r \in Seq(Cells) /\ Len(r) = Len(a) + Len(b)
      /\ \A i \in 1..Len(a) : r[i] = a[i]
      /\ \A i \in Len(a) + 1..Len(a) + Len(b) : r[i] = b[i - Len(a)]
  OBVIOUS
<1> HIDE DEF r
<1>2. ASSUME NEW i \in DOMAIN r
      PROVE  /\ r[i] \in Cells
             /\ r[i] \in Wide <=> i < Len(r) /\ r[i + 1] = Rest
             /\ r[i] = Rest => i > 1
  <2>1. CASE i < Len(a)
    <3>1. i \in DOMAIN a /\ r[i] = a[i] /\ r[i + 1] = a[i + 1]
      BY SMTT(30), <1>1, <2>1
    <3>2. QED  BY <1>1, <2>1, <3>1 DEF Whole
  <2>2. CASE i = Len(a)
    <3>1. i \in DOMAIN a /\ r[i] = a[i]
      BY <1>1, <2>2
    <3>2. r[i] \notin Wide
      BY <2>2, <3>1 DEF Whole
    <3>3. ASSUME i < Len(r) PROVE 1 \in DOMAIN b /\ r[i + 1] = b[1]
      <4>1. Len(b) >= 1 /\ i + 1 \in Len(a) + 1..Len(a) + Len(b) /\ i + 1 - Len(a) = 1
        BY <1>1, <2>2, <3>3
      <4>2. QED  BY <1>1, <4>1
    <3>4. 1 \in DOMAIN b => b[1] # Rest
      BY DEF Whole
    <3>5. QED  BY <1>1, <2>2, <3>1, <3>2, <3>3, <3>4 DEF Whole
  <2>3. CASE i > Len(a)
    <3> DEFINE j == i - Len(a)
    <3>1. j \in DOMAIN b /\ r[i] = b[j] /\ (i < Len(r) <=> j < Len(b)) /\ (i < Len(r) => r[i + 1] = b[j + 1])
      <4>1. i \in 1..Len(a) + Len(b) /\ j \in 1..Len(b)
        BY <1>1, <2>3
      <4>2. r[i] = b[j] /\ (i < Len(r) <=> j < Len(b)) /\ i + 1 - Len(a) = j + 1
        <5>1. i \in Len(a) + 1..Len(a) + Len(b)
          BY <2>3, <4>1
        <5>2. r[i] = b[j]
          BY <1>1, <5>1
        <5>3. i \in Int /\ Len(a) \in Int /\ Len(b) \in Int /\ Len(r) = Len(a) + Len(b)
          BY <1>1, <4>1
        <5>4. QED  BY <5>2, <5>3
      <4>3. ASSUME i < Len(r) PROVE r[i + 1] = b[j + 1]
        <5>1. i + 1 \in Len(a) + 1..Len(a) + Len(b)
          BY <1>1, <2>3, <4>3
        <5>2. QED  BY <1>1, <4>2, <5>1
      <4>4. QED  BY <4>1, <4>2, <4>3
    <3>2. /\ b[j] \in Cells /\ b[j] \in Wide <=> j < Len(b) /\ b[j + 1] = Rest
          /\ b[j] = Rest => j > 1
      BY <3>1 DEF Whole
    <3>3. QED  BY <2>3, <3>1, <3>2
  <2>4. QED  BY <1>1, <2>1, <2>2, <2>3
<1>3. Whole(r, w)
  BY <1>1, <1>2 DEF Whole
<1>4. QED  BY <1>1, <1>3 DEF r

(* Spaces. *)
LEMMA SpacesWhole ==
  ASSUME NEW n \in Int
  PROVE  /\ Spaces(n) \in Seq(Cells) /\ Len(Spaces(n)) = IF n > 0 THEN n ELSE 0
         /\ \A w \in Nat : n <= w => Whole(Spaces(n), w)
<1>1. Blank \in Cells /\ Blank # Rest /\ Blank \notin Wide
  BY RowAssumption DEF Cells, Blank, Rest
<1> DEFINE s == Spaces(n)
           m == IF n > 0 THEN n ELSE 0
<1>2. m \in Nat /\ 1..n = 1..m
  OBVIOUS
<1>3. s = [i \in 1..m |-> Blank]
  BY <1>2 DEF Spaces
<1>4. s \in Seq(Cells) /\ Len(s) = m /\ \A i \in 1..m : s[i] = Blank
  BY <1>1, <1>2, <1>3
<1> HIDE DEF s
<1>5. ASSUME NEW w \in Nat, n <= w PROVE Whole(s, w)
  BY <1>1, <1>2, <1>4, <1>5 DEF Whole
<1>6. QED  BY <1>4, <1>5 DEF s

(* A character, and the columns it takes. *)
CharacterCells(c) == <<c>> \o [i \in 1..Columns(c) - 1 |-> Rest]

(* ... are a row that is whole. *)
LEMMA CharacterWhole ==
  ASSUME NEW c \in Characters, Columns(c) \in {1, 2}
  PROVE  LET n == Columns(c)
             cells == CharacterCells(c)
         IN cells \in Seq(Cells) /\ Len(cells) = n /\ \A w \in Nat : n <= w => Whole(cells, w)
<1>0. Rest \in Cells /\ Rest \notin Wide
  BY RowAssumption DEF Cells, Rest
<1> DEFINE n == Columns(c)
           cells == CharacterCells(c)
<1>1. CASE n = 1
  <2>1. c \in Narrow /\ c \notin Wide /\ c # Rest
    BY <1>1, RowAssumption DEF Columns, Characters, Rest
  <2>2. [i \in 1..n - 1 |-> Rest] = << >>
    BY <1>1
  <2>3. cells = <<c>>
    <3>1. <<c>> \o << >> = <<c>>
      OBVIOUS
    <3>2. QED  BY <2>2, <3>1 DEF CharacterCells
  <2> HIDE DEF cells
  <2>4. c \in Cells
    BY <2>1 DEF Cells
  <2>5. cells \in Seq(Cells) /\ Len(cells) = 1 /\ cells[1] = c
    BY <2>3, <2>4
  <2>6. ASSUME NEW w \in Nat, n <= w PROVE Whole(cells, w)
    BY <1>1, <2>1, <2>4, <2>5, <2>6 DEF Whole
  <2>7. QED  BY <1>1, <2>5, <2>6 DEF cells
<1>2. CASE n = 2
  <2>1. c \in Wide /\ c # Rest /\ c \in Cells
    BY <1>2, RowAssumption DEF Columns, Characters, Cells, Rest
  <2>2. [i \in 1..n - 1 |-> Rest] = <<Rest>>
    BY <1>2
  <2>3. cells = <<c>> \o <<Rest>>
    BY <2>2 DEF CharacterCells
  <2> HIDE DEF cells
  <2>4. cells \in Seq(Cells) /\ Len(cells) = 2 /\ cells[1] = c /\ cells[2] = Rest
    <3>1. ASSUME NEW a \in Seq(Cells), NEW b \in Seq(Cells), Len(a) = 1, Len(b) = 1
          PROVE  a \o b \in Seq(Cells) /\ Len(a \o b) = 2 /\ (a \o b)[1] = a[1] /\ (a \o b)[2] = b[1]
      <4>1. a \o b \in Seq(Cells) /\ Len(a \o b) = Len(a) + Len(b)
        OBVIOUS
      <4>2. \A i \in 1..Len(a) + Len(b) : (a \o b)[i] = IF i <= Len(a) THEN a[i] ELSE b[i - Len(a)]
        OBVIOUS
      <4>3. 1 \in 1..Len(a) + Len(b) /\ 2 \in 1..Len(a) + Len(b) /\ 2 - Len(a) = 1 /\ ~(2 <= Len(a))
        BY <3>1
      <4>4. QED  BY <3>1, <4>1, <4>2, <4>3
    <3>2. <<c>> \in Seq(Cells) /\ <<Rest>> \in Seq(Cells) /\ Len(<<c>>) = 1 /\ Len(<<Rest>>) = 1
      BY <1>0, <2>1
    <3>3. QED  BY <2>3, <3>1, <3>2
  <2>5. ASSUME NEW w \in Nat, n <= w PROVE Whole(cells, w)
    BY <1>0, <1>2, <2>1, <2>4, <2>5 DEF Whole
  <2>6. QED  BY <1>2, <2>4, <2>5 DEF cells
<1>3. QED  BY <1>1, <1>2

-----------------------------------------------------------------------------
(* What is put between the two pieces of a row. *)
LEMMA BetweenWhole ==
  ASSUME NEW row \in Seq(Cells), NEW width \in Nat, Whole(row, width), NEW x \in 0..Len(row),
         CutAt(row, x), NEW cells \in Seq(Cells), Whole(cells, width), NEW rest \in Seq(Cells),
         Whole(rest, width), x + Len(cells) + Len(rest) <= width
  PROVE  LET r == Before(row, x) \o cells \o rest IN r \in Seq(Cells) /\ Whole(r, width)
<1> DEFINE a == Before(row, x)
           b == a \o cells
<1>1. a \in Seq(Cells) /\ Len(a) = x /\ Whole(a, width)
  <2>1. x <= width
    BY DEF Whole
  <2>2. QED  BY <2>1, BeforeWhole
<1>2. Len(rest) \in Nat /\ Len(cells) \in Nat
  OBVIOUS
<1> HIDE DEF a
<1>3. b \in Seq(Cells) /\ Len(b) = x + Len(cells) /\ Whole(b, width)
  <2>1. Len(a) + Len(cells) <= width
    BY <1>1, <1>2
  <2>2. a \o cells \in Seq(Cells) /\ Len(a \o cells) = Len(a) + Len(cells) /\ Whole(a \o cells, width)
    BY <1>1, <2>1, JoinWhole
  <2>3. QED  BY <1>1, <2>2
<1> HIDE DEF b
<1>4. b \o rest \in Seq(Cells) /\ Whole(b \o rest, width)
  <2>1. Len(b) + Len(rest) <= width
    BY <1>2, <1>3
  <2>2. QED  BY <1>3, <2>1, JoinWhole
<1>5. QED  BY <1>4 DEF a, b

(* A row that reaches column x. *)
LEMMA ExpandWhole ==
  ASSUME NEW row \in Seq(Cells), NEW width \in Nat, Whole(row, width), NEW x \in 0..width
  PROVE  LET e == Expand(row, x) IN
         /\ e \in Seq(Cells) /\ Whole(e, width) /\ Len(e) = IF x > Len(row) THEN x ELSE Len(row)
<1> DEFINE e == Expand(row, x)
           f == Spaces(x - Len(row))
<1>1. Len(row) \in Nat /\ Len(row) <= width
  BY DEF Whole
<1>2. f \in Seq(Cells) /\ Len(f) = (IF x - Len(row) > 0 THEN x - Len(row) ELSE 0) /\ Whole(f, width)
  <2>1. ASSUME NEW n \in Int, n = x - Len(row) PROVE Spaces(n) \in Seq(Cells)
          /\ Len(Spaces(n)) = (IF n > 0 THEN n ELSE 0) /\ Whole(Spaces(n), width)
    <3>1. n <= width
      BY <1>1, <2>1
    <3>2. QED  BY <3>1, SpacesWhole
  <2>2. x - Len(row) \in Int
    BY <1>1
  <2>3. QED  BY <2>1, <2>2
<1> HIDE DEF f
<1>3. row \o f \in Seq(Cells) /\ Len(row \o f) = Len(row) + Len(f) /\ Whole(row \o f, width)
  BY <1>1, <1>2, JoinWhole
<1>4. e = row \o f
  BY DEF Expand, f
<1> HIDE DEF e
<1>5. Len(e) = IF x > Len(row) THEN x ELSE Len(row)
  BY <1>1, <1>2, <1>3, <1>4
<1>6. QED  BY <1>3, <1>4, <1>5 DEF e

(* ... and is cut there. *)
LEMMA ExpandedWhole ==
  ASSUME NEW row \in Seq(Cells), NEW width \in Nat, Whole(row, width), NEW x \in 0..width - 1
  PROVE  LET s == Split(Expand(row, x), x) IN
         /\ s \in Seq(Cells) /\ Whole(s, width) /\ CutAt(s, x) /\ x \in 0..Len(s)
         /\ Len(s) = IF x > Len(row) THEN x ELSE Len(row)
<1> DEFINE e == Expand(row, x)
<1>1. e \in Seq(Cells) /\ Whole(e, width) /\ Len(e) = IF x > Len(row) THEN x ELSE Len(row)
  BY ExpandWhole
<1>2. Len(row) \in Nat
  OBVIOUS
<1> HIDE DEF e
<1>3. Split(e, x) \in Seq(Cells) /\ Whole(Split(e, x), width) /\ CutAt(Split(e, x), x)
      /\ Len(Split(e, x)) = Len(e)
  BY <1>1, SplitCells
<1>4. QED  BY <1>1, <1>2, <1>3 DEF e

(* What is left of a row for n more columns. *)
LEMMA FitWhole ==
  ASSUME NEW row \in Seq(Cells), NEW width \in Nat, Whole(row, width), NEW x \in 0..Len(row),
         CutAt(row, x), NEW n \in Nat, x + n <= width
  PROVE  LET rest == Fit(row, n, width) IN
         /\ rest \in Seq(Cells) /\ Whole(rest, width) /\ CutAt(rest, x) /\ x <= Len(rest)
         /\ Len(rest) + n <= width
<1> DEFINE rest == Fit(row, n, width)
<1>0. Len(row) \in Nat /\ Len(row) <= width
  BY DEF Whole
<1>1. CASE Len(row) + n > width
  <2> DEFINE s == Split(row, width - n)
  <2>1. width - n \in 0..Len(row) /\ x <= width - n
    BY <1>0, <1>1
  <2>2. /\ s \in Seq(Cells) /\ Len(s) = Len(row) /\ Whole(s, width) /\ CutAt(s, width - n)
        /\ \A i \in DOMAIN row : s[i] = row[i] \/ s[i] = Blank
    BY <2>1, SplitCells
  <2>3. rest = Before(s, width - n)
    BY <1>1 DEF Fit
  <2> HIDE DEF s, rest
  <2>4. /\ rest \in Seq(Cells) /\ Len(rest) = width - n /\ \A i \in 1..width - n : rest[i] = s[i]
        /\ Whole(rest, width)
    <3>1. PICK m : m = width - n
      OBVIOUS
    <3>2. m \in 0..Len(s) /\ m <= width /\ CutAt(s, m) /\ rest = Before(s, m)
      BY <1>0, <2>1, <2>2, <2>3, <3>1
    <3>3. /\ rest \in Seq(Cells) /\ Len(rest) = m /\ \A i \in 1..m : rest[i] = s[i]
          /\ Whole(rest, width)
      BY <2>2, <3>2, BeforeWhole
    <3>4. QED  BY <3>1, <3>3
  <2>5. ASSUME x < Len(rest) PROVE rest[x + 1] # Rest
    <3>1. x + 1 \in 1..width - n /\ x + 1 \in DOMAIN row /\ x < Len(row)
      BY <1>0, <2>1, <2>4, <2>5
    <3>2. row[x + 1] # Rest /\ rest[x + 1] = s[x + 1]
      BY <2>4, <3>1 DEF CutAt
    <3>3. QED  BY <2>2, <3>1, <3>2 DEF Blank, Rest
  <2>6. QED  BY <1>0, <2>1, <2>4, <2>5 DEF CutAt, rest
<1>2. CASE Len(row) + n <= width
  BY <1>0, <1>2 DEF Fit
<1>3. QED  BY <1>0, <1>1, <1>2

(* A gap is opened for cells that fit in. *)
LEMMA GapWhole ==
  ASSUME NEW row \in Seq(Cells), NEW width \in Nat, Whole(row, width), NEW x \in 0..Len(row),
         CutAt(row, x), NEW cells \in Seq(Cells), Whole(cells, width), x + Len(cells) <= width
  PROVE  OpenGap(row, x, cells, width) \in Seq(Cells) /\ Whole(OpenGap(row, x, cells, width), width)
<1> DEFINE n    == Len(cells)
           rest == Fit(row, n, width)
<1>1. n \in Nat /\ Len(row) \in Nat /\ Len(row) <= width
  BY DEF Whole
<1>2. /\ rest \in Seq(Cells) /\ Whole(rest, width) /\ CutAt(rest, x) /\ x <= Len(rest)
      /\ Len(rest) + n <= width
  BY <1>1, FitWhole
<1> HIDE DEF rest
<1>3. /\ After(rest, x) \in Seq(Cells) /\ Len(After(rest, x)) = Len(rest) - x
      /\ Whole(After(rest, x), width)
  <2>1. /\ After(rest, x) \in Seq(Cells) /\ Len(After(rest, x)) = IF x >= Len(rest) THEN 0 ELSE Len(rest) - x
        /\ \A w \in Nat : Len(After(rest, x)) <= w => Whole(After(rest, x), w)
    BY <1>2, AfterWhole
  <2>2. Len(rest) \in Nat
    BY <1>2
  <2>3. QED  BY <1>1, <1>2, <2>1, <2>2
<1>4. x \in 0..Len(rest) /\ x + Len(cells) + Len(After(rest, x)) <= width
  BY <1>1, <1>2, <1>3
<1>5. OpenGap(row, x, cells, width) = Before(rest, x) \o cells \o After(rest, x)
  BY DEF OpenGap, rest
<1>6. QED  BY <1>2, <1>3, <1>4, <1>5, BetweenWhole

(* Spaces are inserted. *)
LEMMA InsertWhole ==
  ASSUME NEW row \in Seq(Cells), NEW width \in Nat, Whole(row, width), NEW x \in Nat, NEW n \in Nat
  PROVE  /\ InsertSpaces(row, x, n, width) \in Seq(Cells)
         /\ Whole(InsertSpaces(row, x, n, width), width)
<1> DEFINE r == InsertSpaces(row, x, n, width)
           split == Split(Expand(row, x), x)
<1>1. CASE x >= width
  BY <1>1 DEF InsertSpaces
<1>2. CASE x < width /\ x + n >= width
  <2>1. r = Before(split, x) \o Spaces(width - x)
    BY <1>2 DEF InsertSpaces
  <2>2. split \in Seq(Cells) /\ Whole(split, width) /\ CutAt(split, x) /\ x \in 0..Len(split)
    BY <1>2, ExpandedWhole
  <2> HIDE DEF split
  <2>3. Before(split, x) \in Seq(Cells) /\ Len(Before(split, x)) = x /\ Whole(Before(split, x), width)
    BY <1>2, <2>2, BeforeWhole
  <2>4. Spaces(width - x) \in Seq(Cells) /\ Len(Spaces(width - x)) = width - x
        /\ Whole(Spaces(width - x), width)
    <3>1. PICK m : m = width - x
      OBVIOUS
    <3>2. m \in Int /\ m > 0 /\ m <= width
      BY <1>2, <3>1
    <3>3. Spaces(m) \in Seq(Cells) /\ Len(Spaces(m)) = m /\ Whole(Spaces(m), width)
      BY <3>2, SpacesWhole
    <3>4. QED  BY <3>1, <3>3
  <2>5. QED  BY <2>1, <2>3, <2>4, JoinWhole
<1>3. CASE x < width /\ x + n < width
  <2>1. r = OpenGap(split, x, Spaces(n), width)
    BY <1>3 DEF InsertSpaces
  <2>2. split \in Seq(Cells) /\ Whole(split, width) /\ CutAt(split, x) /\ x \in 0..Len(split)
    BY <1>3, ExpandedWhole
  <2> HIDE DEF split
  <2>3. Spaces(n) \in Seq(Cells) /\ Len(Spaces(n)) = n /\ Whole(Spaces(n), width)
    BY <1>3, SpacesWhole
  <2>4. QED  BY <1>3, <2>1, <2>2, <2>3, GapWhole
<1>4. QED  BY <1>1, <1>2, <1>3

(* A character is put. *)
LEMMA PutWhole ==
  ASSUME NEW row \in Seq(Cells), NEW width \in Nat, Whole(row, width), NEW x \in Nat,
         NEW c \in Characters, NEW shift
  PROVE  /\ PutCharacter(row, x, c, Columns(c), shift, width) \in Seq(Cells)
         /\ Whole(PutCharacter(row, x, c, Columns(c), shift, width), width)
<1> DEFINE n == Columns(c)
           r == PutCharacter(row, x, c, n, shift, width)
           split == Split(Expand(row, x), x)
           cells == CharacterCells(c)
<1>0. n \in {0, 1, 2}
  BY DEF Columns
<1>1. CASE n = 0 \/ x >= width
  <2>1. n <= 0 \/ x >= width
    BY <1>1
  <2>2. r = row
    BY <1>0, <2>1 DEF PutCharacter
  <2>3. QED  BY <2>2
<1>2. CASE n > 0 /\ x < width /\ x + n > width
  <2>1. r = Before(split, x) \o Spaces(width - x)
    BY <1>0, <1>2 DEF PutCharacter
  <2>2. split \in Seq(Cells) /\ Whole(split, width) /\ CutAt(split, x) /\ x \in 0..Len(split)
    BY <1>2, ExpandedWhole
  <2> HIDE DEF split
  <2>3. Before(split, x) \in Seq(Cells) /\ Len(Before(split, x)) = x /\ Whole(Before(split, x), width)
    BY <1>2, <2>2, BeforeWhole
  <2>4. Spaces(width - x) \in Seq(Cells) /\ Len(Spaces(width - x)) = width - x
        /\ Whole(Spaces(width - x), width)
    <3>1. PICK m : m = width - x
      OBVIOUS
    <3>2. m \in Int /\ m > 0 /\ m <= width
      BY <1>2, <3>1
    <3>3. Spaces(m) \in Seq(Cells) /\ Len(Spaces(m)) = m /\ Whole(Spaces(m), width)
      BY <3>2, SpacesWhole
    <3>4. QED  BY <3>1, <3>3
  <2>5. QED  BY <2>1, <2>3, <2>4, JoinWhole
<1>3. CASE n > 0 /\ x + n <= width
  <2>0. x < width /\ n \in {1, 2}
    BY <1>0, <1>3
  <2>1. r = OpenGap(split, x, cells, width) \/ r = Overwrite(split, x, cells)
    BY <1>0, <1>3, <2>0 DEF PutCharacter, CharacterCells
  <2>2. split \in Seq(Cells) /\ Whole(split, width) /\ CutAt(split, x) /\ x \in 0..Len(split)
    BY <2>0, ExpandedWhole
  <2>3. cells \in Seq(Cells) /\ Len(cells) = n /\ Whole(cells, width)
    BY <1>3, <2>0, CharacterWhole
  <2> HIDE DEF split, cells, r
  <2>4. OpenGap(split, x, cells, width) \in Seq(Cells) /\ Whole(OpenGap(split, x, cells, width), width)
    BY <1>3, <2>2, <2>3, GapWhole
  <2>5. Overwrite(split, x, cells) \in Seq(Cells) /\ Whole(Overwrite(split, x, cells), width)
    <3> DEFINE s == Split(split, x + n)
    <3>1. s \in Seq(Cells) /\ Len(s) = Len(split) /\ Whole(s, width) /\ CutAt(s, x + n) /\ x + n \in Nat
      BY <2>0, <2>2, SplitCells
    <3>2. Overwrite(split, x, cells) = Before(split, x) \o cells \o After(s, x + n)
      BY <2>3 DEF Overwrite
    <3> HIDE DEF s
    <3>3. /\ After(s, x + n) \in Seq(Cells)
          /\ Len(After(s, x + n)) = IF x + n >= Len(s) THEN 0 ELSE Len(s) - (x + n)
          /\ \A w \in Nat : Len(After(s, x + n)) <= w => Whole(After(s, x + n), w)
      BY <3>1, AfterWhole
    <3>4. Len(s) \in Nat /\ Len(s) <= width
      BY <3>1 DEF Whole
    <3>5. x + Len(cells) + Len(After(s, x + n)) <= width /\ Len(After(s, x + n)) <= width
      BY <1>3, <2>0, <2>3, <3>3, <3>4
    <3>6. QED  BY <2>2, <2>3, <3>2, <3>3, <3>5, BetweenWhole
  <2>6. QED  BY <2>1, <2>4, <2>5 DEF r
<1>4. QED  BY <1>0, <1>1, <1>2, <1>3

(* Columns are erased. *)
LEMMA EraseWhole ==
  ASSUME NEW row \in Seq(Cells), NEW width \in Nat, Whole(row, width), NEW x \in Nat,
         NEW n \in Nat, NEW shift
  PROVE  /\ EraseColumns(row, x, n, shift) \in Seq(Cells)
         /\ Whole(EraseColumns(row, x, n, shift), width)
<1> DEFINE r     == EraseColumns(row, x, n, shift)
           split == Split(row, x)
           cells == Split(split, x + n)
<1>0. Len(row) \in Nat /\ Len(row) <= width
  BY DEF Whole
<1>1. /\ split \in Seq(Cells) /\ Len(split) = Len(row) /\ Whole(split, width) /\ CutAt(split, x)
  BY SplitCells
<1>2. CASE x >= Len(row)
  BY <1>2 DEF EraseColumns
<1>3. CASE x < Len(row) /\ x + n >= Len(row)
  <2>1. r = Before(split, x)
    BY <1>3 DEF EraseColumns
  <2>2. x \in 0..Len(split) /\ x <= width
    BY <1>0, <1>1, <1>3
  <2> HIDE DEF split, r
  <2>3. QED  BY <1>1, <2>1, <2>2, BeforeWhole DEF r
<1>4. CASE x < Len(row) /\ x + n < Len(row)
  <2> DEFINE gap == IF shift THEN <<>> ELSE Spaces(n)
  <2>0. ~(x >= Len(row)) /\ ~(x < Len(row) /\ x + n >= Len(row))
    BY <1>0, <1>4
  <2>1. r = Before(cells, x) \o gap \o After(cells, x + n)
    BY <2>0, Zenon DEF EraseColumns
  <2> HIDE DEF split, r
  <2>2. /\ cells \in Seq(Cells) /\ Len(cells) = Len(split) /\ Whole(cells, width)
        /\ CutAt(cells, x + n)
        /\ \A i \in DOMAIN split : cells[i] = split[i] \/ cells[i] = Blank
    BY <1>1, SplitCells
  <2> HIDE DEF cells
  <2>3. CutAt(cells, x) /\ x \in 0..Len(cells)
    <3>1. x + 1 \in DOMAIN split /\ split[x + 1] # Rest
      BY <1>0, <1>1, <1>4 DEF CutAt
    <3>2. cells[x + 1] # Rest
      BY <2>2, <3>1 DEF Blank, Rest
    <3>3. QED  BY <1>0, <1>1, <1>4, <2>2, <3>2 DEF CutAt
  <2>4. gap \in Seq(Cells) /\ Len(gap) \in 0..n /\ Whole(gap, width)
    <3>1. Spaces(n) \in Seq(Cells) /\ Len(Spaces(n)) = n /\ Whole(Spaces(n), width)
      <4>1. n <= width /\ n \in Int /\ (IF n > 0 THEN n ELSE 0) = n
        BY <1>0, <1>4
      <4>2. QED  BY <4>1, SpacesWhole
    <3>2. Whole(<<>>, width) /\ <<>> \in Seq(Cells) /\ Len(<<>>) = 0
      BY DEF Whole
    <3>3. QED  BY <3>1, <3>2
  <2> HIDE DEF gap
  <2>5. /\ After(cells, x + n) \in Seq(Cells) /\ Len(After(cells, x + n)) = Len(row) - (x + n)
        /\ Whole(After(cells, x + n), width)
    <3>1. x + n \in Nat /\ ~(x + n >= Len(cells))
      BY <1>0, <1>1, <1>4, <2>2
    <3>2. /\ After(cells, x + n) \in Seq(Cells)
          /\ Len(After(cells, x + n)) = Len(cells) - (x + n)
          /\ \A w \in Nat : Len(After(cells, x + n)) <= w => Whole(After(cells, x + n), w)
      BY <2>2, <3>1, AfterWhole
    <3>3. QED  BY <1>0, <1>1, <2>2, <3>1, <3>2
  <2>6. x + Len(gap) + Len(After(cells, x + n)) <= width
    BY <1>0, <2>4, <2>5
  <2>7. QED  BY <2>1, <2>2, <2>3, <2>4, <2>5, <2>6, BetweenWhole DEF r
<1>5. QED  BY <1>0, <1>2, <1>3, <1>4

(* The row is cut, or kept as it is. *)
LEMMA NarrowedWhole ==
  ASSUME NEW row \in Seq(Cells), NEW width \in Nat, Whole(row, width), NEW w \in Nat
  PROVE  Narrowed(row, w) \in Seq(Cells) /\ Whole(Narrowed(row, w), w)
<1> DEFINE s == Split(row, w)
<1>1. CASE w < Len(row)
  <2>1. s \in Seq(Cells) /\ Len(s) = Len(row) /\ Whole(s, width) /\ CutAt(s, w)
    BY SplitCells
  <2>2. Narrowed(row, w) = Before(s, w) /\ w \in 0..Len(row)
    BY <1>1 DEF Narrowed
  <2> HIDE DEF s
  <2>3. QED  BY <2>1, <2>2, BeforeWhole
<1>2. CASE ~(w < Len(row))
  <2>1. Narrowed(row, w) = row /\ Len(row) <= w
    BY <1>2 DEF Narrowed
  <2>2. QED  BY <2>1 DEF Whole
<1>3. QED  BY <1>1, <1>2

-----------------------------------------------------------------------------
(* What a column shows.                                                    *)

(* The cells on both sides of a cell of a row that is whole. *)
LEMMA Neighbours ==
  ASSUME NEW row \in Seq(Cells), NEW width \in Nat, Whole(row, width), NEW k \in 0..Len(row) - 1
  PROVE  /\ row[k + 1] \in Cells
         /\ row[k + 1] = Rest => k > 0 /\ row[k] \in Wide /\ row[k] # Rest
         /\ row[k + 1] \in Wide <=> k + 1 < Len(row) /\ row[k + 2] = Rest
<1>1. k + 1 \in DOMAIN row /\ k + 1 + 1 = k + 2 /\ (k > 0 => k \in DOMAIN row)
  OBVIOUS
<1>2. /\ row[k + 1] \in Cells
      /\ row[k + 1] \in Wide <=> k + 1 < Len(row) /\ row[k + 2] = Rest
      /\ row[k + 1] = Rest => k > 0
  BY <1>1 DEF Whole
<1>3. ASSUME row[k + 1] = Rest PROVE row[k] \in Wide
  BY <1>1, <1>2, <1>3 DEF Whole
<1>4. Rest \notin Wide
  BY RowAssumption DEF Rest
<1>5. QED  BY <1>2, <1>3, <1>4

(* A character is in one column, or in two that are next to each other. *)
LEMMA JoinedIs ==
  ASSUME NEW row \in Seq(Cells), NEW width \in Nat, Whole(row, width),
         NEW j \in 0..Len(row) - 1, NEW k \in 0..Len(row) - 1
  PROVE  Joined(row, j, k) <=> \/ j = k
                               \/ j = k - 1 /\ row[k + 1] = Rest
                               \/ j = k + 1 /\ row[k + 2] = Rest
<1>0. Len(row) \in Nat
  OBVIOUS
<1>1. CASE j = k
  BY <1>1 DEF Joined, Least, Most
<1>2. CASE j = k - 1
  BY <1>2 DEF Joined, Least, Most
<1>3. CASE j = k + 1
  BY <1>3 DEF Joined, Least, Most
<1>4. CASE j < k - 1
  <2>1. row[k + 1] = Rest => row[k] # Rest
    BY Neighbours
  <2>2. k - 1 \in j..k - 1 /\ k - 2 \in j..k - 1 /\ (k - 1) + 2 = k + 1 /\ (k - 2) + 2 = k
    BY <1>4
  <2>3. Joined(row, j, k) => \A m \in j..k - 1 : row[m + 2] = Rest
    BY <1>4 DEF Joined, Least, Most
  <2>4. Joined(row, j, k) => row[(k - 1) + 2] = Rest /\ row[(k - 2) + 2] = Rest
    BY <2>2, <2>3
  <2>5. QED  BY <1>4, <2>1, <2>2, <2>4
<1>5. CASE j > k + 1
  <2>1. k + 1 \in 0..Len(row) - 1 /\ (k + 1) + 1 = k + 2 /\ k + 2 \in 0..Len(row) - 1
    BY <1>0, <1>5
  <2>2. row[(k + 2) + 1] = Rest => row[k + 2] # Rest
    BY <2>1, Neighbours
  <2>3. k \in k..j - 1 /\ k + 1 \in k..j - 1 /\ (k + 1) + 2 = (k + 2) + 1
    BY <1>5
  <2>4. Least(j, k) = k /\ Most(j, k) = j
    BY <1>5 DEF Least, Most
  <2>5. Joined(row, j, k) => \A i \in k..j - 1 : row[i + 2] = Rest
    BY <2>4 DEF Joined
  <2>6. Joined(row, j, k) => row[k + 2] = Rest /\ row[(k + 1) + 2] = Rest
    BY <2>3, <2>5
  <2>7. QED  BY <1>5, <2>2, <2>3, <2>6
<1>6. QED  BY <1>1, <1>2, <1>3, <1>4, <1>5

Unseen == <<Blank, 0>>

(* A column shows its cell, or the right half of the one before it. *)
LEMMA ShownIs ==
  ASSUME NEW row \in Seq(Cells), NEW width \in Nat, Whole(row, width), NEW k \in Nat
  PROVE  Shown(row, k) = IF k >= Len(row) THEN Unseen
                         ELSE IF row[k + 1] = Rest THEN <<row[k], 1>> ELSE <<row[k + 1], 0>>
<1> DEFINE P(j) == Joined(row, j, k) /\ row[j + 1] # Rest
           from == CHOOSE j \in 0..k : P(j)
           v    == IF row[k + 1] = Rest THEN k - 1 ELSE k
<1>1. CASE k >= Len(row)
  BY <1>1 DEF Shown, Unseen
<1>2. CASE k < Len(row)
  <2>0. k \in 0..Len(row) - 1 /\ k \in 0..k /\ Len(row) \in Nat
    BY <1>2
  <2>1. row[k + 1] = Rest => k - 1 \in 0..k /\ (k - 1) + 1 = k /\ row[k] # Rest
    BY <2>0, Neighbours
  <2>2. v \in 0..k /\ v \in 0..Len(row) - 1
    BY <2>0, <2>1
  <2>3. ASSUME NEW j \in 0..k PROVE P(j) <=> j = v
    <3>1. j \in 0..Len(row) - 1 /\ j # k + 1
      BY <2>0
    <3>2. Joined(row, j, k) <=> j = k \/ (j = k - 1 /\ row[k + 1] = Rest)
      BY <2>0, <3>1, JoinedIs
    <3>3. QED  BY <2>0, <2>1, <3>1, <3>2
  <2>4. \E j \in 0..k : P(j)
    BY <2>2, <2>3
  <2> HIDE DEF P
  <2>5. from \in 0..k /\ P(from)
    BY <2>4, Zenon
  <2>6. from = v
    BY <2>3, <2>5
  <2>7. Shown(row, k) = <<row[from + 1], k - from>>
    BY <1>2, <2>0 DEF Shown, P
  <2> HIDE DEF from
  <2>8. row[k + 1] = Rest => v + 1 = k /\ k - v = 1
    BY <2>0
  <2>9. row[k + 1] # Rest => v = k /\ k - v = 0
    BY <2>0
  <2>10. ~(k >= Len(row))
    BY <1>2, <2>0
  <2>11. QED  BY <2>6, <2>7, <2>8, <2>9, <2>10
<1>3. QED  BY <1>1, <1>2

(* All of the character in column k is in columns from..to-1. *)
Fits(row, k, from, to) ==
  /\ from <= k /\ k < to
  /\ row[k + 1] = Rest => from < k
  /\ row[k + 1] \in Wide => k + 1 < to

LEMMA SparedIs ==
  ASSUME NEW row \in Seq(Cells), NEW width \in Nat, Whole(row, width), NEW k \in Nat,
         NEW from \in Nat, NEW to \in Int
  PROVE  Spared(row, k, from, to) =
           IF k < Len(row) /\ Fits(row, k, from, to) THEN Shown(row, k) ELSE Unseen
<1>1. CASE ~(k < Len(row))
  BY <1>1 DEF Spared, Unseen
<1>2. CASE k < Len(row)
  <2> DEFINE C == \A j \in 0..Len(row) - 1 : Joined(row, j, k) => from <= j /\ j < to
  <2>0. Len(row) \in Nat /\ k \in 0..Len(row) - 1
    BY <1>2
  <2>1. /\ row[k + 1] = Rest => k > 0
        /\ row[k + 1] \in Wide <=> k + 1 < Len(row) /\ row[k + 2] = Rest
    BY <2>0, Neighbours
  <2>2. \A j \in 0..Len(row) - 1 :
          Joined(row, j, k) <=> \/ j = k
                                \/ j = k - 1 /\ row[k + 1] = Rest
                                \/ j = k + 1 /\ row[k + 2] = Rest
    BY <2>0, JoinedIs
  <2>3. ASSUME C PROVE Fits(row, k, from, to)
    <3>1. from <= k /\ k < to
      BY <2>0, <2>2, <2>3
    <3>2. row[k + 1] = Rest => from <= k - 1
      BY <2>0, <2>1, <2>2, <2>3
    <3>3. row[k + 1] \in Wide => k + 1 < to
      BY <2>0, <2>1, <2>2, <2>3
    <3>4. QED  BY <3>1, <3>2, <3>3 DEF Fits
  <2>4. ASSUME Fits(row, k, from, to) PROVE C
    <3>1. SUFFICES ASSUME NEW j \in 0..Len(row) - 1, Joined(row, j, k) PROVE from <= j /\ j < to
      OBVIOUS
    <3>2. \/ j = k
          \/ j = k - 1 /\ row[k + 1] = Rest
          \/ j = k + 1 /\ row[k + 2] = Rest
      BY <2>2, <3>1
    <3>3. CASE j = k
      BY <2>4, <3>3 DEF Fits
    <3>4. CASE j = k - 1 /\ row[k + 1] = Rest
      BY <2>4, <3>4 DEF Fits
    <3>5. CASE j = k + 1 /\ row[k + 2] = Rest
      <4>1. row[k + 1] \in Wide
        BY <2>0, <2>1, <3>5
      <4>2. QED  BY <2>4, <3>5, <4>1 DEF Fits
    <3>6. QED  BY <3>2, <3>3, <3>4, <3>5
  <2>5. Spared(row, k, from, to) = IF C THEN Shown(row, k) ELSE Unseen
    BY <1>2 DEF Spared, Within, Unseen
  <2>6. QED  BY <1>2, <2>3, <2>4, <2>5
<1>3. QED  BY <1>1, <1>2

-----------------------------------------------------------------------------
(* What a column shows after each of the operators.                        *)

(* All that is right of a row fits, wherever the screen ends. *)
LEMMA SparedBeyond ==
  ASSUME NEW row \in Seq(Cells), NEW width \in Nat, Whole(row, width), NEW k \in Nat,
         NEW from \in Nat, NEW to \in Int, Len(row) <= to, NEW end \in Int, Len(row) <= end
  PROVE  Spared(row, k, from, to) = Spared(row, k, from, end)
<1>1. CASE k < Len(row)
  <2>1. k \in 0..Len(row) - 1 /\ Len(row) \in Nat
    BY <1>1
  <2>2. row[k + 1] \in Wide => k + 1 < Len(row)
    BY <2>1, Neighbours
  <2>3. Fits(row, k, from, to) <=> Fits(row, k, from, end)
    BY <1>1, <2>1, <2>2 DEF Fits
  <2>4. QED  BY <2>3, SparedIs
<1>2. CASE ~(k < Len(row))
  BY <1>2, SparedIs
<1>3. QED  BY <1>1, <1>2

(* Nothing is cut off left of a column no character is on both sides of. *)
LEMMA SparedLeft ==
  ASSUME NEW row \in Seq(Cells), NEW width \in Nat, Whole(row, width), NEW x \in Nat,
         CutAt(row, x), NEW k \in 0..x - 1, NEW to \in Int, x <= to
  PROVE  Spared(row, k, 0, to) = Shown(row, k)
<1>0. k \in Nat
  OBVIOUS
<1>1. CASE k < Len(row)
  <2>1. k \in 0..Len(row) - 1 /\ Len(row) \in Nat
    BY <1>1
  <2>2. /\ row[k + 1] = Rest => k > 0
        /\ row[k + 1] \in Wide => k + 1 < Len(row) /\ row[k + 2] = Rest
    BY <2>1, Neighbours
  <2>3. row[k + 1] \in Wide => k + 1 # x
    BY <2>1, <2>2 DEF CutAt
  <2>4. Fits(row, k, 0, to)
    BY <2>1, <2>2, <2>3 DEF Fits
  <2>5. QED  BY <1>0, <1>1, <2>4, SparedIs
<1>2. CASE ~(k < Len(row))
  <2>1. Shown(row, k) = Unseen
    BY <1>0, <1>2, ShownIs
  <2>2. QED  BY <1>0, <1>2, <2>1, SparedIs
<1>3. QED  BY <1>1, <1>2

(* The two cells that splitting a row makes blank. *)
LEMMA SplitIs ==
  ASSUME NEW row \in Seq(Cells), NEW width \in Nat, Whole(row, width), NEW x \in Nat,
         NEW k \in 0..Len(row) - 1
  PROVE  Split(row, x)[k + 1] =
           IF x < Len(row) /\ row[x + 1] = Rest /\ k \in {x - 1, x} THEN Blank ELSE row[k + 1]
<1>1. CASE x >= Len(row) \/ row[x + 1] # Rest
  BY <1>1 DEF Split
<1>2. CASE ~(x >= Len(row) \/ row[x + 1] # Rest)
  <2>0. Len(row) \in Nat /\ k + 1 \in DOMAIN row /\ (k + 1) - 1 = k /\ x \in 0..Len(row) - 1
    BY <1>2
  <2>1. Split(row, x)[k + 1] = IF Joined(row, x, k) THEN Blank ELSE row[k + 1]
    BY <1>2, <2>0 DEF Split
  <2>2. Joined(row, x, k) <=> x = k \/ (x = k - 1 /\ row[k + 1] = Rest) \/ (x = k + 1 /\ row[k + 2] = Rest)
    BY <2>0, JoinedIs
  <2>3. x > 0 /\ row[x] # Rest /\ row[x] \in Wide /\ row[x + 1] \notin Wide
    BY <1>2, <2>0, Neighbours, RowAssumption DEF Rest
  <2>4. x = k - 1 => row[k + 1] # Rest
    <3>1. row[k + 1] = Rest => row[k] # Rest
      BY Neighbours
    <3>2. QED  BY <1>2, <2>0, <3>1
  <2>5. x = k + 1 => row[k + 2] = Rest
    BY <1>2, <2>0
  <2>6. k \in {x - 1, x} <=> x = k \/ x = k + 1
    BY <2>0
  <2>7. QED  BY <1>2, <2>1, <2>2, <2>4, <2>5, <2>6
<1>3. QED  BY <1>1, <1>2

(* Splitting a row blanks the character that is cut. *)
LEMMA SplitShown ==
  ASSUME NEW row \in Seq(Cells), NEW width \in Nat, Whole(row, width), NEW x \in Nat, NEW k \in Nat
  PROVE  /\ k < x => Shown(Split(row, x), k) = Spared(row, k, 0, x)
         /\ k >= x => Shown(Split(row, x), k) = Spared(row, k, x, width)
<1> DEFINE s == Split(row, x)
<1>0. Len(row) \in Nat /\ Len(row) <= width /\ Blank # Rest
  BY DEF Whole, Blank, Rest
<1>1. s \in Seq(Cells) /\ Len(s) = Len(row) /\ Whole(s, width) /\ CutAt(s, x)
  BY SplitCells
<1>2. \A j \in 0..Len(row) - 1 :
        s[j + 1] = IF x < Len(row) /\ row[x + 1] = Rest /\ j \in {x - 1, x} THEN Blank ELSE row[j + 1]
  BY SplitIs
<1> HIDE DEF s
<1>3. Shown(s, k) = IF k >= Len(s) THEN Unseen
                    ELSE IF s[k + 1] = Rest THEN <<s[k], 1>> ELSE <<s[k + 1], 0>>
  BY <1>1, ShownIs
<1>4. Shown(row, k) = IF k >= Len(row) THEN Unseen
                      ELSE IF row[k + 1] = Rest THEN <<row[k], 1>> ELSE <<row[k + 1], 0>>
  BY ShownIs
<1>5. CASE k >= Len(row)
  <2>1. Shown(s, k) = Unseen
    BY <1>1, <1>3, <1>5
  <2>2. Spared(row, k, 0, x) = Unseen /\ Spared(row, k, x, width) = Unseen
    BY <1>0, <1>5, SparedIs
  <2>3. QED  BY <2>1, <2>2 DEF s
<1>6. CASE k < Len(row) /\ x < Len(row) /\ row[x + 1] = Rest /\ k \in {x - 1, x}
  <2>1. k \in 0..Len(row) - 1 /\ x \in 0..Len(row) - 1
    BY <1>0, <1>6
  <2>2. s[k + 1] = Blank
    BY <1>2, <1>6, <2>1
  <2>3. Shown(s, k) = Unseen
    BY <1>0, <1>1, <1>3, <1>6, <2>2 DEF Unseen
  <2>4. row[x] \in Wide /\ x > 0
    BY <1>6, <2>1, Neighbours
  <2>5. CASE k = x
    <3>1. ~Fits(row, k, x, width)
      BY <1>6, <2>5 DEF Fits
    <3>2. QED  BY <2>3, <2>5, <3>1, SparedIs DEF s
  <2>6. CASE k = x - 1
    <3>1. k + 1 = x /\ k < x
      BY <2>6
    <3>2. ~Fits(row, k, 0, x)
      BY <2>4, <3>1 DEF Fits
    <3>3. Spared(row, k, 0, x) = Unseen
      BY <3>2, SparedIs
    <3>4. QED  BY <2>3, <3>1, <3>3 DEF s
  <2>7. QED  BY <1>6, <2>5, <2>6
<1>7. CASE k < Len(row) /\ ~(x < Len(row) /\ row[x + 1] = Rest /\ k \in {x - 1, x})
  <2>1. k \in 0..Len(row) - 1
    BY <1>0, <1>7
  <2>2. s[k + 1] = row[k + 1]
    BY <1>2, <1>7, <2>1
  <2>3. /\ row[k + 1] = Rest => k > 0 /\ row[k] # Rest
        /\ row[k + 1] \in Wide => k + 1 < Len(row) /\ row[k + 2] = Rest
    BY <2>1, Neighbours
  <2>4. row[k + 1] = Rest => s[k] = row[k]
    <3>1. SUFFICES ASSUME row[k + 1] = Rest PROVE s[k] = row[k]
      OBVIOUS
    <3>2. k - 1 \in 0..Len(row) - 1 /\ (k - 1) + 1 = k
      BY <2>1, <2>3, <3>1
    <3>3. s[k] = IF x < Len(row) /\ row[x + 1] = Rest /\ k - 1 \in {x - 1, x} THEN Blank ELSE row[k]
      BY <1>2, <3>2
    <3>4. k - 1 = x - 1 => k = x
      BY <2>1
    <3>5. k - 1 = x => row[x + 1] # Rest
      BY <2>3, <3>1, <3>2
    <3>6. QED  BY <1>7, <3>1, <3>3, <3>4, <3>5
  <2>5. Shown(s, k) = Shown(row, k)
    BY <1>0, <1>1, <1>3, <1>4, <1>7, <2>2, <2>4
  <2>6. CASE k < x
    <3>1. row[k + 1] \in Wide => k + 1 # x
      BY <1>7, <2>3, <2>1
    <3>2. Fits(row, k, 0, x)
      BY <2>1, <2>3, <2>6, <3>1 DEF Fits
    <3>3. QED  BY <1>7, <2>5, <2>6, <3>2, SparedIs DEF s
  <2>7. CASE k >= x
    <3>1. row[k + 1] = Rest => k # x
      BY <1>7, <2>1
    <3>2. Fits(row, k, x, width)
      BY <1>0, <2>1, <2>3, <2>7, <3>1 DEF Fits
    <3>3. QED  BY <1>7, <2>5, <2>7, <3>2, SparedIs DEF s
  <2>8. QED  BY <2>1, <2>6, <2>7
<1>8. QED  BY <1>0, <1>5, <1>6, <1>7

(* What is kept of a row that was split is what is kept of the row. *)
LEMMA SplitSpared ==
  ASSUME NEW row \in Seq(Cells), NEW width \in Nat, Whole(row, width), NEW x \in Nat, NEW k \in Nat,
         NEW to \in Int
  PROVE  /\ k >= x => Spared(Split(row, x), k, 0, to) = Spared(row, k, x, to)
         /\ \A from \in Nat : from >= x => Spared(Split(row, x), k, from, to) = Spared(row, k, from, to)
<1> DEFINE s == Split(row, x)
<1>0. Len(row) \in Nat /\ Len(row) <= width /\ Blank # Rest
  BY DEF Whole, Blank, Rest
<1>1. s \in Seq(Cells) /\ Len(s) = Len(row) /\ Whole(s, width) /\ CutAt(s, x)
  BY SplitCells
<1>2. \A j \in 0..Len(row) - 1 :
        s[j + 1] = IF x < Len(row) /\ row[x + 1] = Rest /\ j \in {x - 1, x} THEN Blank ELSE row[j + 1]
  BY SplitIs
<1>3. \A from \in Nat : Spared(row, k, from, to) =
        IF k < Len(row) /\ Fits(row, k, from, to) THEN Shown(row, k) ELSE Unseen
  BY SparedIs
<1>4. k >= x => Shown(s, k) = Spared(row, k, x, width)
  BY SplitShown DEF s
<1> HIDE DEF s
<1>5. \A from \in Nat : Spared(s, k, from, to) =
        IF k < Len(row) /\ Fits(s, k, from, to) THEN Shown(s, k) ELSE Unseen
  BY <1>1, SparedIs
<1>6. CASE k >= x /\ k < Len(row)
  <2>1. k \in 0..Len(row) - 1
    BY <1>0, <1>6
  <2>2. /\ row[k + 1] = Rest => k > 0
        /\ row[k + 1] \in Wide => k + 1 < Len(row)
    BY <2>1, Neighbours
  <2>3. Spared(row, k, x, width) = IF Fits(row, k, x, width) THEN Shown(row, k) ELSE Unseen
    BY <1>6, SparedIs
  <2>4. CASE k = x /\ row[x + 1] = Rest
    <3>1. Shown(s, k) = Unseen
      BY <1>4, <1>6, <2>3, <2>4 DEF Fits
    <3>2. \A from \in Nat : Spared(s, k, from, to) = Unseen
      BY <1>5, <3>1
    <3>3. \A from \in Nat : from >= x => ~Fits(row, k, from, to)
      BY <2>4 DEF Fits
    <3>4. \A from \in Nat : from >= x => Spared(row, k, from, to) = Unseen
      BY <1>3, <3>3
    <3>5. 0 \in Nat /\ x >= x
      OBVIOUS
    <3>6. QED  BY <3>2, <3>4, <3>5 DEF s
  <2>5. CASE ~(k = x /\ row[x + 1] = Rest)
    <3>1. s[k + 1] = row[k + 1]
      BY <1>2, <1>6, <2>1, <2>5
    <3>2. \A from \in Nat : Fits(s, k, from, to) <=> Fits(row, k, from, to)
      BY <3>1 DEF Fits
    <3>3. Fits(row, k, x, width)
      BY <1>0, <1>6, <2>1, <2>2, <2>5 DEF Fits
    <3>4. Shown(s, k) = Shown(row, k)
      BY <1>4, <1>6, <2>3, <3>3
    <3>5. Fits(row, k, 0, to) <=> Fits(row, k, x, to)
      BY <1>6, <2>1, <2>2, <2>5 DEF Fits
    <3>6. Spared(s, k, 0, to) = Spared(row, k, x, to)
      <4>1. 0 \in Nat /\ x \in Nat
        OBVIOUS
      <4>2. QED  BY <4>1, <1>3, <1>5, <3>2, <3>4, <3>5
    <3>7. \A from \in Nat : Spared(s, k, from, to) = Spared(row, k, from, to)
      BY <1>3, <1>5, <3>2, <3>4
    <3>8. QED  BY <3>6, <3>7 DEF s
  <2>6. QED  BY <2>4, <2>5
<1>7. CASE k < x
  <2>1. \A from \in Nat : from >= x => ~Fits(s, k, from, to) /\ ~Fits(row, k, from, to)
    BY <1>7 DEF Fits
  <2>2. QED  BY <1>3, <1>5, <1>7, <2>1 DEF s
<1>8. CASE k >= Len(row)
  <2>1. ~(k < Len(row)) /\ 0 \in Nat
    BY <1>0, <1>8
  <2>2. QED  BY <1>3, <1>5, <2>1 DEF s
<1>9. QED  BY <1>0, <1>6, <1>7, <1>8

(* The two pieces of a row that is cut show what the row does. *)
LEMMA BeforeShown ==
  ASSUME NEW row \in Seq(Cells), NEW width \in Nat, Whole(row, width), NEW x \in 0..Len(row),
         CutAt(row, x), NEW k \in Nat
  PROVE  Shown(Before(row, x), k) = IF k < x THEN Shown(row, k) ELSE Unseen
<1> DEFINE r == Before(row, x)
<1>0. Len(row) \in Nat /\ x <= width /\ x \in Nat
  BY DEF Whole
<1>1. r \in Seq(Cells) /\ Len(r) = x /\ Whole(r, width) /\ \A i \in 1..x : r[i] = row[i]
  BY <1>0, BeforeWhole
<1> HIDE DEF r
<1>2. CASE k < x
  <2>1. k \in 0..Len(r) - 1 /\ k \in 0..Len(row) - 1 /\ k + 1 \in 1..x
    BY <1>0, <1>1, <1>2
  <2>2. r[k + 1] = row[k + 1] /\ (k > 0 => r[k] = row[k])
    BY <1>1, <2>1
  <2>3. row[k + 1] = Rest => k > 0
    BY <2>1, Neighbours
  <2>4. Shown(row, k) = IF row[k + 1] = Rest THEN <<row[k], 1>> ELSE <<row[k + 1], 0>>
    BY <2>1, ShownIs
  <2>5. Shown(r, k) = IF r[k + 1] = Rest THEN <<r[k], 1>> ELSE <<r[k + 1], 0>>
    BY <1>1, <2>1, ShownIs
  <2>6. QED  BY <1>2, <2>2, <2>3, <2>4, <2>5 DEF r
<1>3. CASE k >= x
  BY <1>0, <1>1, <1>3, ShownIs DEF r
<1>4. QED  BY <1>0, <1>2, <1>3

LEMMA AfterShown ==
  ASSUME NEW row \in Seq(Cells), NEW width \in Nat, Whole(row, width), NEW x \in Nat,
         CutAt(row, x), NEW k \in Nat
  PROVE  Shown(After(row, x), k) = Shown(row, k + x)
<1> DEFINE r == After(row, x)
<1>0. Len(row) \in Nat /\ Len(row) <= width /\ k + x \in Nat
  BY DEF Whole
<1>1. r \in Seq(Cells) /\ Len(r) = IF x >= Len(row) THEN 0 ELSE Len(row) - x
  BY AfterWhole
<1>2. Whole(r, width)
  BY <1>0, <1>1, AfterWhole
<1>3. \A i \in 1..Len(r) : r[i] = row[i + x]
  <2>1. CASE x >= Len(row)
    BY <1>1, <2>1
  <2>2. CASE x < Len(row)
    BY SMTT(30), <1>0, <2>2 DEF After
  <2>3. QED  BY <1>0, <2>1, <2>2
<1> HIDE DEF r
<1>4. CASE k < Len(r)
  <2>1. k \in 0..Len(r) - 1 /\ k + 1 \in 1..Len(r) /\ k + x < Len(row) /\ k + x \in 0..Len(row) - 1
    BY <1>0, <1>1, <1>4
  <2>2. r[k + 1] = row[(k + x) + 1] /\ (k > 0 => r[k] = row[k + x])
    <3>1. (k + 1) + x = (k + x) + 1 /\ (k > 0 => k \in 1..Len(r))
      BY <2>1
    <3>2. QED  BY <1>3, <2>1, <3>1
  <2>3. r[k + 1] = Rest => k > 0
    BY <1>2, <1>1, <2>1, Neighbours
  <2>4. Shown(row, k + x) = IF row[(k + x) + 1] = Rest THEN <<row[k + x], 1>> ELSE <<row[(k + x) + 1], 0>>
    BY SMTT(30), <1>0, <2>1, ShownIs
  <2>5. Shown(r, k) = IF r[k + 1] = Rest THEN <<r[k], 1>> ELSE <<r[k + 1], 0>>
    BY <1>1, <1>2, <2>1, ShownIs
  <2>6. QED  BY <2>2, <2>3, <2>4, <2>5 DEF r
<1>5. CASE k >= Len(r)
  <2>1. k + x >= Len(row)
    BY <1>0, <1>1, <1>5
  <2>2. QED  BY <1>0, <1>1, <1>2, <1>5, <2>1, ShownIs DEF r
<1>6. QED  BY <1>0, <1>1, <1>4, <1>5

(* Two rows side by side show what each of them does. *)
LEMMA JoinShown ==
  ASSUME NEW a \in Seq(Cells), NEW b \in Seq(Cells), NEW w \in Nat, Whole(a, w),
         Whole(b, w), Len(a) + Len(b) <= w, NEW k \in Nat
  PROVE  Shown(a \o b, k) = IF k < Len(a) THEN Shown(a, k) ELSE Shown(b, k - Len(a))
<1> DEFINE r == a \o b
<1>0. Len(a) \in Nat /\ Len(b) \in Nat
  OBVIOUS
<1>1. r \in Seq(Cells) /\ Len(r) = Len(a) + Len(b) /\ Whole(r, w)
  BY JoinWhole
<1>2. /\ \A i \in 1..Len(a) : r[i] = a[i]
      /\ \A i \in 1..Len(b) : r[i + Len(a)] = b[i]
  OBVIOUS
<1> HIDE DEF r
<1>3. Shown(r, k) = IF k >= Len(r) THEN Unseen
                    ELSE IF r[k + 1] = Rest THEN <<r[k], 1>> ELSE <<r[k + 1], 0>>
  BY <1>1, ShownIs
<1>4. CASE k < Len(a)
  <2>1. k \in 0..Len(a) - 1 /\ k + 1 \in 1..Len(a) /\ (k > 0 => k \in 1..Len(a)) /\ k < Len(r)
    BY <1>0, <1>1, <1>4
  <2>2. a[k + 1] = Rest => k > 0
    BY <2>1, Neighbours
  <2>3. Shown(a, k) = IF a[k + 1] = Rest THEN <<a[k], 1>> ELSE <<a[k + 1], 0>>
    BY <1>0, <2>1, ShownIs
  <2>4. r[k + 1] = a[k + 1] /\ (k > 0 => r[k] = a[k]) /\ ~(k >= Len(r))
    BY <1>0, <1>1, <1>2, <2>1
  <2>5. Shown(r, k) = Shown(a, k)
    BY <1>3, <2>2, <2>3, <2>4
  <2>6. QED  BY <1>4, <2>5 DEF r
<1>5. CASE k >= Len(a) /\ k < Len(r)
  <2> DEFINE m == k - Len(a)
  <2>0. m \in Nat
    BY <1>0, <1>5
  <2>1. /\ m \in 0..Len(b) - 1 /\ m + 1 \in 1..Len(b) /\ (m > 0 => m \in 1..Len(b))
        /\ (m + 1) + Len(a) = k + 1 /\ m + Len(a) = k
    BY <1>0, <1>1, <1>5
  <2> HIDE DEF m
  <2>2. b[m + 1] = Rest => m > 0
    BY <2>1, Neighbours
  <2>3. Shown(b, m) = IF b[m + 1] = Rest THEN <<b[m], 1>> ELSE <<b[m + 1], 0>>
    <3>1. ~(m >= Len(b))
      BY <1>0, <2>1
    <3>2. QED  BY <2>0, <3>1, ShownIs
  <2>4. r[k + 1] = b[m + 1] /\ (m > 0 => r[k] = b[m])
    BY <1>2, <2>1
  <2>5. Shown(r, k) = Shown(b, m)
    <3>1. ~(k >= Len(r))
      BY <1>0, <1>1, <1>5
    <3>2. QED  BY SMTT(30), <1>3, <2>2, <2>3, <2>4, <3>1
  <2>6. ~(k < Len(a))
    BY <1>0, <1>5
  <2>7. QED  BY <2>5, <2>6 DEF r, m
<1>6. CASE k >= Len(r)
  <2> DEFINE m == k - Len(a)
  <2>0. m \in Nat
    BY <1>0, <1>1, <1>6
  <2>1. Shown(b, m) = Unseen
    <3>1. m >= Len(b)
      BY <1>0, <1>1, <1>6
    <3> HIDE DEF m
    <3>2. QED  BY <2>0, <3>1, ShownIs
  <2>2. ~(k < Len(a))
    BY <1>0, <1>1, <1>6
  <2>3. QED  BY <1>3, <1>6, <2>1, <2>2 DEF r
<1>7. QED  BY <1>0, <1>1, <1>4, <1>5, <1>6

(* Spaces show nothing. *)
LEMMA SpacesShown ==
  ASSUME NEW n \in Int, NEW k \in Nat
  PROVE  Shown(Spaces(n), k) = Unseen
<1> DEFINE s == Spaces(n)
           m == IF n > 0 THEN n ELSE 0
<1>1. s \in Seq(Cells) /\ Len(s) = m /\ Whole(s, m) /\ m \in Nat
  BY SpacesWhole
<1>2. \A i \in 1..m : s[i] = Blank
  BY DEF Spaces
<1>3. Blank # Rest
  BY DEF Blank, Rest
<1> HIDE DEF s
<1>4. CASE k < m
  <2>1. k + 1 \in 1..m /\ ~(k >= m)
    BY <1>1, <1>4
  <2>2. QED  BY <1>1, <1>2, <1>3, <2>1, ShownIs DEF s, Unseen
<1>5. CASE k >= m
  BY <1>1, <1>5, ShownIs DEF s
<1>6. QED  BY <1>1, <1>4, <1>5

(* A character is shown in its columns. *)
LEMMA CharacterShown ==
  ASSUME NEW c \in Narrow \cup Wide, NEW k \in 0..Columns(c) - 1
  PROVE  Shown(CharacterCells(c), k) = <<c, k>>
<1> DEFINE n == Columns(c)
           cells == CharacterCells(c)
<1>0. c \in Characters /\ n \in {1, 2} /\ c # Rest
  BY RowAssumption DEF Columns, Characters, Rest
<1>1. cells \in Seq(Cells) /\ Len(cells) = n /\ Whole(cells, n)
  BY <1>0, CharacterWhole
<1>2. cells[1] = c
  <2>1. [i \in 1..n - 1 |-> Rest] \in Seq({Rest})
    BY <1>0
  <2>2. QED  BY <2>1 DEF CharacterCells
<1>3. n = 2 => cells[2] = Rest
  <2>1. SUFFICES ASSUME n = 2 PROVE c \in Wide
    <3>1. 0 \in 0..Len(cells) - 1 /\ 0 + 1 = 1 /\ 0 + 2 = 2
      BY <1>0, <1>1
    <3>2. cells[0 + 1] \in Wide <=> 0 + 1 < Len(cells) /\ cells[0 + 2] = Rest
      BY <1>0, <1>1, <3>1, Neighbours
    <3>3. QED  BY <1>2, <3>1, <3>2
  <2>2. QED  BY <2>1 DEF Columns
<1> HIDE DEF cells
<1>4. k \in Nat /\ (k = 0 \/ (k = 1 /\ n = 2)) /\ ~(k >= n)
  BY <1>0
<1>5. Shown(cells, k) = IF cells[k + 1] = Rest THEN <<cells[k], 1>> ELSE <<cells[k + 1], 0>>
  BY <1>0, <1>1, <1>4, ShownIs
<1>6. QED  BY <1>0, <1>2, <1>3, <1>4, <1>5 DEF cells

(* The spaces that reach column x show nothing, and what is kept of them   *)
(* is nothing.                                                             *)
LEMMA ExpandSpared ==
  ASSUME NEW row \in Seq(Cells), NEW width \in Nat, Whole(row, width), NEW x \in 0..width,
         NEW k \in Nat, NEW from \in Nat, NEW to \in Int
  PROVE  Spared(Expand(row, x), k, from, to) = Spared(row, k, from, to)
<1> DEFINE e == Expand(row, x)
           f == Spaces(x - Len(row))
<1>0. Len(row) \in Nat /\ Len(row) <= width /\ x \in Nat /\ x - Len(row) \in Int
  BY DEF Whole
<1>1. e \in Seq(Cells) /\ Whole(e, width) /\ Len(e) = IF x > Len(row) THEN x ELSE Len(row)
  BY ExpandWhole
<1>2. e = row \o f
  BY DEF Expand
<1>3. f \in Seq(Cells) /\ Len(f) = (IF x - Len(row) > 0 THEN x - Len(row) ELSE 0) /\ Whole(f, width)
  <2>1. x - Len(row) <= width
    BY <1>0
  <2> DEFINE n == x - Len(row)
  <2>2. n \in Int /\ n <= width
    BY <1>0, <2>1
  <2> HIDE DEF n
  <2>3. Spaces(n) \in Seq(Cells) /\ Len(Spaces(n)) = (IF n > 0 THEN n ELSE 0) /\ Whole(Spaces(n), width)
    BY <2>2, SpacesWhole
  <2>4. QED  BY <2>3 DEF n
<1>4. \A j \in Nat : Shown(f, j) = Unseen
  BY <1>0, SpacesShown
<1> HIDE DEF e, f
<1>5. Shown(e, k) = Shown(row, k)
  <2>1. Len(row) + Len(f) <= width
    BY <1>0, <1>3
  <2>2. Shown(row \o f, k) = IF k < Len(row) THEN Shown(row, k) ELSE Shown(f, k - Len(row))
    BY <1>3, <2>1, JoinShown
  <2>3. k >= Len(row) => Shown(row, k) = Unseen /\ k - Len(row) \in Nat
    BY <1>0, ShownIs
  <2>4. QED  BY <1>0, <1>2, <1>4, <2>2, <2>3
<1>6. Spared(e, k, from, to) = IF k < Len(e) /\ Fits(e, k, from, to) THEN Shown(e, k) ELSE Unseen
  BY <1>1, SparedIs
<1>7. Spared(row, k, from, to) = IF k < Len(row) /\ Fits(row, k, from, to) THEN Shown(row, k) ELSE Unseen
  BY SparedIs
<1>8. CASE k < Len(row)
  <2>1. e[k + 1] = row[k + 1] /\ k < Len(e)
    BY <1>0, <1>1, <1>2, <1>3, <1>8
  <2>2. Fits(e, k, from, to) <=> Fits(row, k, from, to)
    BY <2>1 DEF Fits
  <2>3. QED  BY <1>5, <1>6, <1>7, <1>8, <2>1, <2>2 DEF e
<1>9. CASE k >= Len(row)
  <2>1. Shown(row, k) = Unseen
    BY <1>9, ShownIs
  <2>2. QED  BY <1>5, <1>6, <1>7, <2>1 DEF e
<1>10. QED  BY <1>0, <1>8, <1>9

(* A row that reaches column x and is cut there. *)
LEMMA ExpandedShown ==
  ASSUME NEW row \in Seq(Cells), NEW width \in Nat, Whole(row, width), NEW x \in 0..width - 1,
         NEW k \in Nat
  PROVE  LET s == Split(Expand(row, x), x) IN
         /\ k < x => Shown(s, k) = Spared(row, k, 0, x)
         /\ k >= x => \A to \in Int : Spared(s, k, 0, to) = Spared(row, k, x, to)
         /\ \A from \in Nat : from >= x => Spared(s, k, from, width) = Spared(row, k, from, width)
<1> DEFINE e == Expand(row, x)
<1>0. x \in Nat /\ x \in 0..width /\ width \in Int
  OBVIOUS
<1>1. e \in Seq(Cells) /\ Whole(e, width)
  BY <1>0, ExpandWhole
<1>2. \A from \in Nat, to \in Int : Spared(e, k, from, to) = Spared(row, k, from, to)
  BY <1>0, ExpandSpared
<1> HIDE DEF e
<1>3. k < x => Shown(Split(e, x), k) = Spared(e, k, 0, x)
  BY <1>0, <1>1, SplitShown
<1>4. k >= x => \A to \in Int : Spared(Split(e, x), k, 0, to) = Spared(e, k, x, to)
  BY <1>0, <1>1, SplitSpared
<1>5. \A from \in Nat : from >= x => Spared(Split(e, x), k, from, width) = Spared(e, k, from, width)
  BY <1>0, <1>1, SplitSpared
<1>6. QED  BY <1>0, <1>2, <1>3, <1>4, <1>5 DEF e

(* What is left of a row for n more columns is what fits in the others. *)
LEMMA FitShown ==
  ASSUME NEW row \in Seq(Cells), NEW width \in Nat, Whole(row, width), NEW n \in 0..width,
         NEW k \in Nat
  PROVE  Shown(Fit(row, n, width), k) = IF k < width - n THEN Spared(row, k, 0, width - n) ELSE Unseen
<1> DEFINE m == width - n
           s == Split(row, m)
<1>0. Len(row) \in Nat /\ Len(row) <= width /\ m \in Nat /\ n \in Nat
  BY DEF Whole
<1>1. CASE Len(row) + n > width
  <2>1. Fit(row, n, width) = Before(s, m)
    BY <1>1 DEF Fit
  <2>2. m < Len(row)
    BY <1>0, <1>1
  <2> HIDE DEF m
  <2>3. s \in Seq(Cells) /\ Len(s) = Len(row) /\ Whole(s, width) /\ CutAt(s, m)
    BY <1>0, SplitCells
  <2>4. k < m => Shown(s, k) = Spared(row, k, 0, m)
    BY <1>0, SplitShown
  <2> HIDE DEF s
  <2>5. Shown(Before(s, m), k) = IF k < m THEN Shown(s, k) ELSE Unseen
    BY <1>0, <2>2, <2>3, BeforeShown
  <2>6. QED  BY <2>1, <2>4, <2>5 DEF m
<1>2. CASE Len(row) + n <= width
  <2>1. Fit(row, n, width) = row
    BY <1>0, <1>2 DEF Fit
  <2>2. Len(row) <= m
    BY <1>0, <1>2
  <2> HIDE DEF m
  <2>3. k < m => Spared(row, k, 0, m) = Shown(row, k)
    BY <1>0, <2>2, SparedLeft DEF CutAt
  <2>4. k >= m => Shown(row, k) = Unseen
    BY <1>0, <2>2, ShownIs
  <2>5. QED  BY <1>0, <2>1, <2>3, <2>4 DEF m
<1>3. QED  BY <1>0, <1>1, <1>2

(* Cells between the two pieces of a row. *)
LEMMA BetweenShown ==
  ASSUME NEW row \in Seq(Cells), NEW width \in Nat, Whole(row, width), NEW x \in 0..Len(row),
         CutAt(row, x), NEW cells \in Seq(Cells), Whole(cells, width), NEW rest \in Seq(Cells),
         Whole(rest, width), x + Len(cells) + Len(rest) <= width, NEW k \in Nat
  PROVE  Shown(Before(row, x) \o cells \o rest, k) =
           IF k < x THEN Shown(row, k)
           ELSE IF k < x + Len(cells) THEN Shown(cells, k - x)
           ELSE Shown(rest, k - (x + Len(cells)))
<1> DEFINE a == Before(row, x)
           b == a \o cells
           n == Len(cells)
<1>0. Len(rest) \in Nat /\ n \in Nat /\ x \in Nat /\ x <= width
  BY DEF Whole
<1>1. a \in Seq(Cells) /\ Len(a) = x /\ Whole(a, width)
  BY <1>0, BeforeWhole
<1>2. k < x => Shown(a, k) = Shown(row, k)
  BY BeforeShown
<1> HIDE DEF a
<1>3. b \in Seq(Cells) /\ Len(b) = x + n /\ Whole(b, width)
  <2>1. Len(a) + Len(cells) <= width
    BY <1>0, <1>1
  <2>2. a \o cells \in Seq(Cells) /\ Len(a \o cells) = Len(a) + Len(cells) /\ Whole(a \o cells, width)
    BY <1>1, <2>1, JoinWhole
  <2>3. QED  BY <1>1, <2>2
<1>4. Shown(b, k) = IF k < x THEN Shown(a, k) ELSE Shown(cells, k - x)
  <2>1. Len(a) + Len(cells) <= width
    BY <1>0, <1>1
  <2>2. QED  BY <1>1, <2>1, JoinShown
<1> HIDE DEF b
<1>5. Shown(b \o rest, k) = IF k < x + n THEN Shown(b, k) ELSE Shown(rest, k - (x + n))
  <2>1. Len(b) + Len(rest) <= width
    BY <1>0, <1>3
  <2>2. Shown(b \o rest, k) = IF k < Len(b) THEN Shown(b, k) ELSE Shown(rest, k - Len(b))
    BY <1>3, <2>1, JoinShown
  <2>3. QED  BY <1>3, <2>2
<1>6. k < x => k < x + n
  BY <1>0
<1>7. QED  BY <1>2, <1>4, <1>5, <1>6 DEF a, b

(* A gap is opened, and what does not fit in any more is gone. *)
LEMMA GapShown ==
  ASSUME NEW row \in Seq(Cells), NEW width \in Nat, Whole(row, width), NEW x \in 0..Len(row),
         CutAt(row, x), NEW cells \in Seq(Cells), Whole(cells, width), x + Len(cells) <= width,
         NEW k \in 0..width - 1
  PROVE  Shown(OpenGap(row, x, cells, width), k) =
           IF k < x THEN Shown(row, k)
           ELSE IF k < x + Len(cells) THEN Shown(cells, k - x)
           ELSE Spared(row, k - Len(cells), 0, width - Len(cells))
<1> DEFINE n    == Len(cells)
           rest == Fit(row, n, width)
           r    == After(rest, x)
<1>0. n \in Nat /\ n \in 0..width /\ k \in Nat /\ x \in Nat
  OBVIOUS
<1>1. /\ rest \in Seq(Cells) /\ Whole(rest, width) /\ CutAt(rest, x) /\ x <= Len(rest)
      /\ Len(rest) + n <= width
  BY <1>0, FitWhole
<1>2. \A j \in Nat : Shown(rest, j) = IF j < width - n THEN Spared(row, j, 0, width - n) ELSE Unseen
  BY <1>0, FitShown
<1>3. OpenGap(row, x, cells, width) = Before(rest, x) \o cells \o r
  BY DEF OpenGap
<1> HIDE DEF rest
<1>4. r \in Seq(Cells) /\ Len(r) = Len(rest) - x /\ Whole(r, width)
  <2>0. Len(rest) \in Nat
    BY <1>1
  <2>1. r \in Seq(Cells) /\ Len(r) = IF x >= Len(rest) THEN 0 ELSE Len(rest) - x
    BY <1>0, <1>1, AfterWhole
  <2>2. Len(r) <= width /\ Len(r) = Len(rest) - x
    BY <1>0, <1>1, <2>0, <2>1
  <2>3. Whole(r, width)
    BY <1>0, <1>1, <2>2, AfterWhole
  <2>4. QED  BY <2>1, <2>2, <2>3
<1>5. \A j \in Nat : Shown(r, j) = Shown(rest, j + x)
  BY <1>0, <1>1, AfterShown
<1> HIDE DEF r
<1>6. Shown(Before(rest, x) \o cells \o r, k) =
        IF k < x THEN Shown(rest, k)
        ELSE IF k < x + n THEN Shown(cells, k - x)
        ELSE Shown(r, k - (x + n))
  <2>1. x \in 0..Len(rest) /\ x + Len(cells) + Len(r) <= width
    BY <1>0, <1>1, <1>4
  <2>2. QED  BY <1>0, <1>1, <1>4, <2>1, BetweenShown
<1>7. k < x => Shown(rest, k) = Shown(row, k)
  <2>1. SUFFICES ASSUME k < x PROVE Shown(rest, k) = Shown(row, k)
    OBVIOUS
  <2>2. k < width - n /\ x <= width - n /\ width - n \in Int /\ k \in 0..x - 1
    BY <1>0, <2>1
  <2>3. Spared(row, k, 0, width - n) = Shown(row, k)
    BY <1>0, <2>2, SparedLeft
  <2>4. QED  BY <1>0, <1>2, <2>2, <2>3
<1>8. k >= x + n => Shown(r, k - (x + n)) = Spared(row, k - n, 0, width - n)
  <2>1. SUFFICES ASSUME k >= x + n PROVE Shown(r, k - (x + n)) = Spared(row, k - n, 0, width - n)
    OBVIOUS
  <2>2. k - (x + n) \in Nat /\ (k - (x + n)) + x = k - n /\ k - n \in Nat /\ k - n < width - n
    BY <1>0, <2>1
  <2>3. Shown(r, k - (x + n)) = Shown(rest, k - n)
    BY <1>5, <2>2
  <2>4. QED  BY <1>2, <2>2, <2>3
<1>9. ~(k < x + n) => k >= x + n
  BY <1>0
<1>10. QED  BY <1>3, <1>6, <1>7, <1>8, <1>9

-----------------------------------------------------------------------------
(* The edits.                                                              *)

(* A row that is cut at column x, and spaces up to the end of the screen. *)
LEMMA BlankedShown ==
  ASSUME NEW row \in Seq(Cells), NEW width \in Nat, Whole(row, width), NEW x \in 0..Len(row),
         CutAt(row, x), NEW k \in Nat
  PROVE  Shown(Before(row, x) \o Spaces(width - x), k) = IF k < x THEN Shown(row, k) ELSE Unseen
<1> DEFINE m == width - x
<1>0. m \in Nat /\ m \in Int /\ m <= width /\ x + m <= width /\ x \in Nat /\ x <= width
  BY DEF Whole
<1> HIDE DEF m
<1>1. Before(row, x) \in Seq(Cells) /\ Len(Before(row, x)) = x /\ Whole(Before(row, x), width)
  BY <1>0, BeforeWhole
<1>2. Spaces(m) \in Seq(Cells) /\ Len(Spaces(m)) = m /\ Whole(Spaces(m), width)
  BY SMTT(30), <1>0, SpacesWhole
<1>3. Shown(Before(row, x) \o Spaces(m), k)
        = IF k < x THEN Shown(Before(row, x), k) ELSE Shown(Spaces(m), k - x)
  <2>1. Len(Before(row, x)) + Len(Spaces(m)) <= width
    BY <1>0, <1>1, <1>2
  <2>2. Shown(Before(row, x) \o Spaces(m), k)
          = IF k < Len(Before(row, x)) THEN Shown(Before(row, x), k)
            ELSE Shown(Spaces(m), k - Len(Before(row, x)))
    BY <1>1, <1>2, <2>1, JoinShown
  <2>3. QED  BY <1>1, <2>2
<1>4. k < x => Shown(Before(row, x), k) = Shown(row, k)
  BY BeforeShown
<1>5. ~(k < x) => Shown(Spaces(m), k - x) = Unseen
  BY <1>0, SpacesShown
<1>6. QED  BY <1>3, <1>4, <1>5 DEF m

(* Spaces are inserted. *)
LEMMA InsertShown ==
  ASSUME NEW row \in Seq(Cells), NEW width \in Nat, Whole(row, width), NEW x \in 0..width - 1,
         NEW n \in Nat \ {0}, NEW k \in 0..width - 1
  PROVE  Shown(InsertSpaces(row, x, n, width), k) =
           CASE k < x -> Spared(row, k, 0, x)
             [] k >= x + n -> Spared(row, k - n, x, width - n)
             [] OTHER -> Unseen
<1> DEFINE r == InsertSpaces(row, x, n, width)
           split == Split(Expand(row, x), x)
<1>0. x \in Nat /\ k \in Nat /\ n \in Nat /\ n > 0 /\ x < width
  OBVIOUS
<1>1. split \in Seq(Cells) /\ Whole(split, width) /\ CutAt(split, x) /\ x \in 0..Len(split)
  BY ExpandedWhole
<1>2. k < x => Shown(split, k) = Spared(row, k, 0, x)
  BY <1>0, ExpandedShown
<1>3. \A j \in Nat, to \in Int : j >= x => Spared(split, j, 0, to) = Spared(row, j, x, to)
  BY ExpandedShown
<1>4. CASE x + n >= width
  <2>1. r = Before(split, x) \o Spaces(width - x)
    BY <1>0, <1>4 DEF InsertSpaces
  <2> HIDE DEF split
  <2>2. Shown(Before(split, x) \o Spaces(width - x), k) = IF k < x THEN Shown(split, k) ELSE Unseen
    BY <1>0, <1>1, BlankedShown
  <2>3. r = Before(split, x) \o Spaces(width - x) /\ Shown(r, k) = IF k < x THEN Shown(split, k) ELSE Unseen
    BY <2>1, <2>2
  <2>4. ~(k >= x + n)
    BY <1>0, <1>4
  <2> HIDE DEF r
  <2>5. QED  BY <1>2, <2>3, <2>4 DEF r
<1>5. CASE x + n < width
  <2>1. r = OpenGap(split, x, Spaces(n), width)
    BY <1>0, <1>5 DEF InsertSpaces
  <2> HIDE DEF split
  <2>2. Spaces(n) \in Seq(Cells) /\ Len(Spaces(n)) = n /\ Whole(Spaces(n), width)
    BY <1>0, <1>5, SpacesWhole
  <2>3. Shown(OpenGap(split, x, Spaces(n), width), k) =
          IF k < x THEN Shown(split, k)
          ELSE IF k < x + n THEN Shown(Spaces(n), k - x)
          ELSE Spared(split, k - n, 0, width - n)
    <3>1. x + Len(Spaces(n)) <= width
      BY <1>0, <1>5, <2>2
    <3>2. Shown(OpenGap(split, x, Spaces(n), width), k) =
            IF k < x THEN Shown(split, k)
            ELSE IF k < x + Len(Spaces(n)) THEN Shown(Spaces(n), k - x)
            ELSE Spared(split, k - Len(Spaces(n)), 0, width - Len(Spaces(n)))
      BY ZenonT(30), <1>1, <2>2, <3>1, GapShown
    <3>3. QED  BY <2>2, <3>2
  <2>4. ~(k < x) => Shown(Spaces(n), k - x) = Unseen
    BY <1>0, SpacesShown
  <2>5. k >= x + n => Spared(split, k - n, 0, width - n) = Spared(row, k - n, x, width - n)
    <3>1. k >= x + n => k - n \in Nat /\ k - n >= x /\ width - n \in Int
      BY <1>0
    <3>2. QED  BY <1>3, <3>1
  <2>6. (~(k < x + n) <=> k >= x + n) /\ (k < x => k < x + n)
    BY <1>0
  <2>7. QED  BY <1>2, <2>1, <2>3, <2>4, <2>5, <2>6 DEF r
<1>6. QED  BY <1>0, <1>4, <1>5

(* A character is put. *)
LEMMA PutShown ==
  ASSUME NEW row \in Seq(Cells), NEW width \in Nat, Whole(row, width), NEW x \in 0..width,
         NEW c \in Narrow \cup Wide, NEW shift \in BOOLEAN, NEW k \in 0..width - 1
  PROVE  LET n == Columns(c) IN
         Shown(PutCharacter(row, x, c, n, shift, width), k) =
           CASE k < x -> Spared(row, k, 0, x)
             [] x <= k /\ x + n > width -> Unseen
             [] x <= k /\ k < x + n /\ x + n <= width -> <<c, k - x>>
             [] k >= x + n /\ shift -> Spared(row, k - n, x, width - n)
             [] OTHER -> Spared(row, k, x + n, width)
<1> DEFINE n == Columns(c)
           r == PutCharacter(row, x, c, n, shift, width)
           split == Split(Expand(row, x), x)
           cells == CharacterCells(c)
<1>0. /\ n \in {1, 2} /\ n \in Nat /\ n > 0 /\ x \in Nat /\ k \in Nat /\ k < width
      /\ c \in Characters
  BY RowAssumption DEF Columns, Characters
<1> SUFFICES Shown(r, k) =
      CASE k < x -> Spared(row, k, 0, x)
        [] x <= k /\ x + n > width -> Unseen
        [] x <= k /\ k < x + n /\ x + n <= width -> <<c, k - x>>
        [] k >= x + n /\ shift -> Spared(row, k - n, x, width - n)
        [] OTHER -> Spared(row, k, x + n, width)
  OBVIOUS
<1>1. CASE x = width
  <2>1. r = row
    BY <1>0, <1>1 DEF PutCharacter
  <2> HIDE DEF n, r
  <2>2. Spared(row, k, 0, x) = Shown(row, k)
    <3>1. Len(row) <= x /\ k \in 0..x - 1 /\ x \in Int
      BY <1>0, <1>1 DEF Whole
    <3>2. CutAt(row, x)
      BY <3>1 DEF CutAt
    <3>3. QED  BY <1>0, <3>1, <3>2, SparedLeft
  <2>3. QED  BY <1>0, <1>1, <2>1, <2>2
<1>2. CASE x < width /\ x + n > width
  <2>0. x \in 0..width - 1
    BY <1>0, <1>2
  <2>1. r = Before(split, x) \o Spaces(width - x)
    BY <1>0, <1>2 DEF PutCharacter
  <2>2. split \in Seq(Cells) /\ Whole(split, width) /\ CutAt(split, x) /\ x \in 0..Len(split)
    BY <2>0, ExpandedWhole
  <2>3. k < x => Shown(split, k) = Spared(row, k, 0, x)
    BY <1>0, <2>0, ExpandedShown
  <2> HIDE DEF split
  <2>4. Shown(Before(split, x) \o Spaces(width - x), k) = IF k < x THEN Shown(split, k) ELSE Unseen
    BY <1>0, <2>2, BlankedShown
  <2>5. Shown(r, k) = IF k < x THEN Shown(split, k) ELSE Unseen
    BY <2>1, <2>4
  <2>6. x # width /\ (~(k < x) => x <= k)
    BY <1>0, <1>2
  <2> HIDE DEF n, r
  <2>7. QED  BY <1>0, <1>2, <2>3, <2>5, <2>6
<1>3. CASE x + n <= width
  <2>0. x \in 0..width - 1 /\ x # width /\ ~(x + n > width) /\ x + n \in Nat /\ x + n >= x /\ width \in Int
    BY <1>0, <1>3
  <2>1. r = IF shift THEN OpenGap(split, x, cells, width) ELSE Overwrite(split, x, cells)
    BY <1>0, <1>3, <2>0 DEF PutCharacter, CharacterCells
  <2>2. split \in Seq(Cells) /\ Whole(split, width) /\ CutAt(split, x) /\ x \in 0..Len(split)
    BY <2>0, ExpandedWhole
  <2>3. k < x => Shown(split, k) = Spared(row, k, 0, x)
    BY <1>0, <2>0, ExpandedShown
  <2>4. \A j \in Nat, to \in Int : j >= x => Spared(split, j, 0, to) = Spared(row, j, x, to)
    BY <2>0, ExpandedShown
  <2>5. Spared(split, k, x + n, width) = Spared(row, k, x + n, width)
    BY <1>0, <2>0, ExpandedShown
  <2>6. cells \in Seq(Cells) /\ Len(cells) = n /\ Whole(cells, width)
    <3>1. n <= width
      BY <1>0, <1>3
    <3>2. QED  BY <1>0, <3>1, CharacterWhole
  <2>7. ~(k < x) /\ k < x + n => Shown(cells, k - x) = <<c, k - x>>
    BY <1>0, CharacterShown
  <2> HIDE DEF split, cells, n, r
  <2>8. Shown(OpenGap(split, x, cells, width), k) =
          IF k < x THEN Shown(split, k)
          ELSE IF k < x + n THEN Shown(cells, k - x)
          ELSE Spared(split, k - n, 0, width - n)
    <3>1. x + Len(cells) <= width
      BY <1>3, <2>6
    <3>2. Shown(OpenGap(split, x, cells, width), k) =
            IF k < x THEN Shown(split, k)
            ELSE IF k < x + Len(cells) THEN Shown(cells, k - x)
            ELSE Spared(split, k - Len(cells), 0, width - Len(cells))
      BY <2>2, <2>6, <3>1, GapShown
    <3>3. QED  BY <2>6, <3>2
  <2>9. Shown(Overwrite(split, x, cells), k) =
          IF k < x THEN Shown(split, k)
          ELSE IF k < x + n THEN Shown(cells, k - x)
          ELSE Spared(split, k, x + n, width)
    <3> DEFINE s == Split(split, x + n)
               z == After(s, x + n)
    <3>1. s \in Seq(Cells) /\ Len(s) = Len(split) /\ Whole(s, width) /\ CutAt(s, x + n)
      BY <2>0, <2>2, SplitCells
    <3>2. Overwrite(split, x, cells) = Before(split, x) \o cells \o z
      BY <2>6 DEF Overwrite
    <3>3. k >= x + n => Shown(s, k) = Spared(split, k, x + n, width)
      BY <1>0, <2>0, <2>2, SplitShown
    <3> HIDE DEF s
    <3>4. z \in Seq(Cells) /\ Len(z) = IF x + n >= Len(s) THEN 0 ELSE Len(s) - (x + n)
      BY <2>0, <3>1, AfterWhole
    <3>5. Len(s) \in Nat /\ Len(s) <= width
      BY <3>1 DEF Whole
    <3>6. x + n + Len(z) <= width /\ Len(z) <= width
      BY <1>0, <1>3, <2>0, <3>4, <3>5
    <3>7. Whole(z, width)
      BY <2>0, <3>1, <3>6, AfterWhole
    <3>8. \A j \in Nat : Shown(z, j) = Shown(s, j + (x + n))
      BY <2>0, <3>1, AfterShown
    <3> HIDE DEF z
    <3>9. Shown(Before(split, x) \o cells \o z, k) =
            IF k < x THEN Shown(split, k)
            ELSE IF k < x + n THEN Shown(cells, k - x)
            ELSE Shown(z, k - (x + n))
      <4>1. x + Len(cells) + Len(z) <= width
        BY <2>6, <3>6
      <4>2. Shown(Before(split, x) \o cells \o z, k) =
              IF k < x THEN Shown(split, k)
              ELSE IF k < x + Len(cells) THEN Shown(cells, k - x)
              ELSE Shown(z, k - (x + Len(cells)))
        <5>1. /\ split \in Seq(Cells) /\ Whole(split, width) /\ x \in 0..Len(split) /\ CutAt(split, x)
              /\ cells \in Seq(Cells) /\ Whole(cells, width) /\ z \in Seq(Cells) /\ Whole(z, width)
          BY <2>2, <2>6, <3>4, <3>7
        <5>2. k \in Nat /\ width \in Nat
          BY <1>0
        <5>3. QED  BY <4>1, <5>1, <5>2, BetweenShown
      <4>3. QED  BY <2>6, <4>2
    <3>10. k >= x + n => Shown(z, k - (x + n)) = Spared(split, k, x + n, width)
      <4>1. k >= x + n => k - (x + n) \in Nat /\ k - (x + n) + (x + n) = k
        BY <1>0, <2>0
      <4>2. QED  BY <3>3, <3>8, <4>1
    <3>11. ~(k < x + n) => k >= x + n
      BY <1>0, <2>0
    <3>12. QED  BY <3>2, <3>9, <3>10, <3>11
  <2>10. k >= x + n => Spared(split, k - n, 0, width - n) = Spared(row, k - n, x, width - n)
    <3>1. k >= x + n => k - n \in Nat /\ k - n >= x /\ width - n \in Int
      BY <1>0
    <3>2. QED  BY <2>4, <3>1
  <2>11. /\ ~(k < x + n) <=> k >= x + n
         /\ ~(k < x) <=> x <= k
         /\ k < x => k < x + n
    BY <1>0, <2>0
  <2>12. CASE k < x
    <3>1. Shown(r, k) = Spared(row, k, 0, x)
      BY <2>1, <2>3, <2>8, <2>9, <2>12
    <3>2. QED  BY <1>0, <2>0, <2>11, <2>12, <3>1
  <2>13. CASE ~(k < x) /\ k < x + n
    <3>1. Shown(r, k) = <<c, k - x>>
      BY <2>1, <2>7, <2>8, <2>9, <2>13
    <3>2. QED  BY <1>0, <1>3, <2>0, <2>11, <2>13, <3>1
  <2>14. CASE k >= x + n /\ shift
    <3>1. Shown(r, k) = Spared(row, k - n, x, width - n)
      BY <2>1, <2>8, <2>10, <2>11, <2>14
    <3>2. QED  BY <1>0, <1>3, <2>0, <2>11, <2>14, <3>1
  <2>15. CASE k >= x + n /\ ~shift
    <3>1. Shown(r, k) = Spared(row, k, x + n, width)
      BY <2>1, <2>5, <2>9, <2>11, <2>15
    <3>2. QED  BY <1>0, <1>3, <2>0, <2>11, <2>15, <3>1
  <2>16. QED  BY <2>11, <2>12, <2>13, <2>14, <2>15
<1>4. QED  BY <1>0, <1>1, <1>2, <1>3

(* Columns are erased. *)
LEMMA EraseShown ==
  ASSUME NEW row \in Seq(Cells), NEW width \in Nat, Whole(row, width), NEW x \in 0..width,
         NEW n \in Nat \ {0}, NEW shift \in BOOLEAN, NEW k \in 0..width - 1
  PROVE  Shown(EraseColumns(row, x, n, shift), k) =
           CASE k < x -> Spared(row, k, 0, x)
             [] k >= x /\ shift -> Spared(row, k + n, x + n, width)
             [] k >= x + n /\ ~shift -> Spared(row, k, x + n, width)
             [] OTHER -> Unseen
<1> DEFINE r     == EraseColumns(row, x, n, shift)
           split == Split(row, x)
           m     == x + n
           cells == Split(split, m)
<1>0. /\ Len(row) \in Nat /\ Len(row) <= width /\ x \in Nat /\ k \in Nat /\ n \in Nat /\ n > 0
      /\ m \in Nat /\ m > x /\ width \in Int /\ k + n \in Nat
  BY DEF Whole
<1>1. /\ split \in Seq(Cells) /\ Len(split) = Len(row) /\ Whole(split, width) /\ CutAt(split, x)
  BY <1>0, SplitCells
<1>2. k < x => Shown(split, k) = Spared(row, k, 0, x)
  BY <1>0, SplitShown
<1>3. \A j \in Nat : Spared(split, j, m, width) = Spared(row, j, m, width)
  BY <1>0, SplitSpared
<1>4. \A j \in Nat : j >= Len(row) => Spared(row, j, m, width) = Unseen
  BY <1>0, SparedIs
<1> HIDE DEF m
<1> SUFFICES Shown(r, k) =
      CASE k < x -> Spared(row, k, 0, x)
        [] k >= x /\ shift -> Spared(row, k + n, m, width)
        [] k >= m /\ ~shift -> Spared(row, k, m, width)
        [] OTHER -> Unseen
  BY DEF m
<1>5. CASE x >= Len(row)
  <2>1. r = row
    <3>1. ~(x < Len(row) /\ x + n >= Len(row))
      BY <1>0, <1>5
    <3>2. QED  BY <1>5, <3>1, Zenon DEF EraseColumns
  <2> HIDE DEF r, split
  <2>2. k < x => Shown(row, k) = Spared(row, k, 0, x)
    <3>1. CutAt(row, x) /\ (k < x => k \in 0..x - 1) /\ x \in Int
      BY <1>0, <1>5 DEF CutAt
    <3>2. QED  BY <1>0, <3>1, SparedLeft
  <2>3. k >= x => Shown(row, k) = Unseen
    BY <1>0, <1>5, ShownIs
  <2>4. k >= x => Spared(row, k + n, m, width) = Unseen /\ Spared(row, k, m, width) = Unseen
    <3>1. k >= x => k + n >= Len(row) /\ k >= Len(row)
      BY <1>0, <1>5
    <3>2. QED  BY <1>0, <1>4, <3>1
  <2>5. k < x \/ k >= x
    BY <1>0
  <2>6. QED  BY <1>0, <2>1, <2>2, <2>3, <2>4, <2>5
<1>6. CASE x < Len(row) /\ x + n >= Len(row)
  <2>1. r = Before(split, x)
    BY <1>0, <1>6 DEF EraseColumns
  <2> HIDE DEF r, split
  <2>2. x \in 0..Len(split)
    BY <1>0, <1>1, <1>6
  <2>3. Shown(Before(split, x), k) = IF k < x THEN Shown(split, k) ELSE Unseen
    BY <1>0, <1>1, <2>2, BeforeShown
  <2>4. k >= x => Spared(row, k + n, m, width) = Unseen
    <3>1. k >= x => k + n >= Len(row)
      BY <1>0, <1>6
    <3>2. QED  BY <1>0, <1>4, <3>1
  <2>5. k >= m => Spared(row, k, m, width) = Unseen
    <3>1. k >= m => k >= Len(row)
      BY <1>0, <1>6 DEF m
    <3>2. QED  BY <1>0, <1>4, <3>1
  <2>6. k < x \/ k >= x
    BY <1>0
  <2>7. QED  BY <1>0, <1>2, <2>1, <2>3, <2>4, <2>5, <2>6
<1>7. CASE x < Len(row) /\ x + n < Len(row)
  <2> DEFINE gap == IF shift THEN <<>> ELSE Spaces(n)
             z   == After(cells, m)
  <2>0. ~(x >= Len(row)) /\ ~(x < Len(row) /\ x + n >= Len(row)) /\ m < Len(row)
    BY <1>0, <1>7 DEF m
  <2>1. r = Before(cells, x) \o gap \o z
    BY <2>0, Zenon DEF EraseColumns, m
  <2> HIDE DEF r, split
  <2>2. /\ cells \in Seq(Cells) /\ Len(cells) = Len(split) /\ Whole(cells, width) /\ CutAt(cells, m)
        /\ \A i \in DOMAIN split : cells[i] = split[i] \/ cells[i] = Blank
    BY <1>0, <1>1, SplitCells
  <2>3. \A j \in 0..m - 1 : Shown(cells, j) = Spared(split, j, 0, m)
    <3>1. ASSUME NEW j \in 0..m - 1 PROVE j \in Nat /\ j < m
      BY <1>0
    <3>2. QED  BY <1>0, <1>1, <3>1, SplitShown
  <2>4. \A j \in Nat : j >= m => Shown(cells, j) = Spared(split, j, m, width)
    BY <1>0, <1>1, SplitShown
  <2> HIDE DEF cells
  <2>5. CutAt(cells, x) /\ x \in 0..Len(cells)
    <3>1. x + 1 \in DOMAIN split /\ split[x + 1] # Rest
      BY <1>0, <1>1, <1>7 DEF CutAt
    <3>2. cells[x + 1] # Rest
      BY <2>2, <3>1 DEF Blank, Rest
    <3>3. QED  BY <1>0, <1>1, <1>7, <2>2, <3>2 DEF CutAt
  <2>6. /\ gap \in Seq(Cells) /\ Len(gap) = (IF shift THEN 0 ELSE n) /\ Whole(gap, width)
        /\ ~shift => \A j \in Nat : Shown(gap, j) = Unseen
    <3>1. Spaces(n) \in Seq(Cells) /\ Len(Spaces(n)) = n /\ Whole(Spaces(n), width)
      <4>1. n <= width /\ n \in Int /\ (IF n > 0 THEN n ELSE 0) = n
        BY <1>0, <1>7
      <4>2. QED  BY <4>1, SpacesWhole
    <3>2. Whole(<<>>, width) /\ <<>> \in Seq(Cells) /\ Len(<<>>) = 0
      BY DEF Whole
    <3>3. \A j \in Nat : Shown(Spaces(n), j) = Unseen
      BY SpacesShown
    <3>4. QED  BY <3>1, <3>2, <3>3
  <2> HIDE DEF gap
  <2>7. z \in Seq(Cells) /\ Len(z) = Len(row) - m /\ Whole(z, width)
    <3>1. ~(m >= Len(cells))
      BY <1>0, <1>1, <2>0, <2>2
    <3>2. /\ z \in Seq(Cells) /\ Len(z) = Len(cells) - m
          /\ \A w \in Nat : Len(z) <= w => Whole(z, w)
      BY <1>0, <2>2, <3>1, AfterWhole
    <3>3. QED  BY <1>0, <1>1, <2>2, <3>1, <3>2
  <2>8. \A j \in Nat : Shown(z, j) = Shown(cells, j + m)
    BY <1>0, <2>2, AfterShown
  <2> HIDE DEF z
  <2>9. Shown(Before(cells, x) \o gap \o z, k) =
          IF k < x THEN Shown(cells, k)
          ELSE IF k < x + Len(gap) THEN Shown(gap, k - x)
          ELSE Shown(z, k - (x + Len(gap)))
    <3>1. x + Len(gap) + Len(z) <= width
      BY <1>0, <2>6, <2>7 DEF m
    <3>2. /\ cells \in Seq(Cells) /\ Whole(cells, width) /\ x \in 0..Len(cells) /\ CutAt(cells, x)
          /\ gap \in Seq(Cells) /\ Whole(gap, width) /\ z \in Seq(Cells) /\ Whole(z, width)
      BY <2>2, <2>5, <2>6, <2>7
    <3>3. k \in Nat /\ width \in Nat
      BY <1>0
    <3>4. QED  BY <3>1, <3>2, <3>3, BetweenShown
  <2>10. CASE k < x
    <3>1. k \in 0..m - 1 /\ k \in 0..x - 1 /\ x <= m /\ m \in Int
      BY <1>0, <2>10
    <3>2. Shown(cells, k) = Spared(split, k, 0, m)
      BY <2>3, <3>1
    <3>3. Spared(split, k, 0, m) = Shown(split, k)
      BY <1>0, <1>1, <3>1, SparedLeft
    <3>4. Shown(r, k) = Spared(row, k, 0, x)
      BY <1>2, <2>1, <2>9, <2>10, <3>2, <3>3
    <3>5. ~(k >= x) /\ ~(k >= m)
      BY <1>0, <2>10
    <3>6. QED  BY <2>10, <3>4, <3>5
  <2>11. CASE k >= x /\ shift
    <3>1. Len(gap) = 0 /\ ~(k < x) /\ ~(k < x + Len(gap)) /\ k - (x + Len(gap)) = k - x /\ k - x \in Nat
      BY <1>0, <2>6, <2>11
    <3>2. (k - x) + m = k + n /\ k + n >= m
      BY <1>0, <2>11 DEF m
    <3>3. Shown(r, k) = Spared(row, k + n, m, width)
      BY <1>0, <1>3, <2>1, <2>4, <2>8, <2>9, <3>1, <3>2
    <3>4. QED  BY <2>11, <3>1, <3>3
  <2>12. CASE k >= x /\ k < m /\ ~shift
    <3>1. ~(k < x) /\ k < x + Len(gap) /\ k - x \in Nat /\ ~(k >= m)
      BY <1>0, <2>6, <2>12 DEF m
    <3>2. Shown(r, k) = Unseen
      BY <2>1, <2>6, <2>9, <2>12, <3>1
    <3>3. QED  BY <2>12, <3>1, <3>2
  <2>13. CASE k >= m /\ ~shift
    <3>1. ~(k < x) /\ ~(k < x + Len(gap)) /\ k - (x + Len(gap)) = k - m /\ k - m \in Nat /\ (k - m) + m = k
      BY <1>0, <2>6, <2>13 DEF m
    <3>2. Shown(r, k) = Spared(row, k, m, width)
      BY <1>0, <1>3, <2>1, <2>4, <2>8, <2>9, <2>13, <3>1
    <3>3. QED  BY <2>13, <3>1, <3>2
  <2>14. QED  BY <1>0, <2>10, <2>11, <2>12, <2>13
<1>8. QED  BY <1>0, <1>5, <1>6, <1>7

(* The window is made narrower. *)
LEMMA NarrowedShown ==
  ASSUME NEW row \in Seq(Cells), NEW width \in Nat, Whole(row, width), NEW w \in Nat,
         NEW k \in 0..w - 1
  PROVE  Shown(Narrowed(row, w), k) = Spared(row, k, 0, w)
<1>0. k \in Nat /\ k < w /\ Len(row) \in Nat /\ w \in Int
  OBVIOUS
<1>1. CASE w < Len(row)
  <2> DEFINE s == Split(row, w)
  <2>1. s \in Seq(Cells) /\ Len(s) = Len(row) /\ Whole(s, width) /\ CutAt(s, w)
    BY SplitCells
  <2>2. Narrowed(row, w) = Before(s, w) /\ w \in 0..Len(row)
    BY <1>1 DEF Narrowed
  <2>3. Shown(s, k) = Spared(row, k, 0, w)
    BY <1>0, SplitShown
  <2> HIDE DEF s
  <2>4. Shown(Before(s, w), k) = Shown(s, k)
    BY <1>0, <2>1, <2>2, BeforeShown
  <2>5. QED  BY <2>2, <2>3, <2>4
<1>2. CASE ~(w < Len(row))
  <2>1. Narrowed(row, w) = row /\ CutAt(row, w)
    BY <1>0, <1>2 DEF Narrowed, CutAt
  <2>2. QED  BY <1>0, <2>1, SparedLeft
<1>3. QED  BY <1>1, <1>2

-----------------------------------------------------------------------------
(* The row is one of cells, in a screen that has columns. *)
RowTypeOK == edited \in Seq(Cells) /\ room \in 1..MaxWidth

RowKept == RowTypeOK /\ RowWhole

LEMMA RowKeptInit == RowInit => RowKept
<1>1. <<>> \in Seq(Cells) /\ \A w \in Nat : Whole(<<>>, w)
  BY DEF Whole
<1>2. QED  BY <1>1, WidthAssumption DEF RowInit, RowKept, RowTypeOK, RowWhole

LEMMA RowKeptStep == RowKept /\ [RowNext]_rowVars => RowKept'
<1> SUFFICES ASSUME RowKept, [RowNext]_rowVars PROVE RowKept'
  OBVIOUS
<1>0. edited \in Seq(Cells) /\ room \in Nat /\ Whole(edited, room) /\ MaxWidth \in Nat
  BY WidthAssumption DEF RowKept, RowTypeOK, RowWhole
<1>1. ASSUME NEW x \in 0..MaxWidth + 1, NEW n \in 1..MaxWidth, RowInsert(x, n) PROVE RowKept'
  <2>1. x \in Nat /\ n \in Nat
    BY <1>0
  <2>2. edited' = InsertSpaces(edited, x, n, room) /\ room' = room
    BY <1>1 DEF RowInsert
  <2>3. edited' \in Seq(Cells) /\ Whole(edited', room)
    BY <1>0, <2>1, <2>2, InsertWhole
  <2>4. QED  BY <2>2, <2>3 DEF RowKept, RowTypeOK, RowWhole
<1>2. ASSUME NEW x \in 0..MaxWidth + 1, NEW c \in Characters, NEW shift \in BOOLEAN, RowPut(x, c, shift)
      PROVE RowKept'
  <2>1. x \in Nat
    BY <1>0
  <2>2. edited' = PutCharacter(edited, x, c, Columns(c), shift, room) /\ room' = room
    BY <1>2 DEF RowPut
  <2>3. edited' \in Seq(Cells) /\ Whole(edited', room)
    BY <1>0, <2>1, <2>2, PutWhole
  <2>4. QED  BY <2>2, <2>3 DEF RowKept, RowTypeOK, RowWhole
<1>3. ASSUME NEW x \in 0..MaxWidth + 1, NEW n \in 1..MaxWidth, NEW shift \in BOOLEAN, RowErase(x, n, shift)
      PROVE RowKept'
  <2>1. x \in Nat /\ n \in Nat
    BY <1>0
  <2>2. edited' = EraseColumns(edited, x, n, shift) /\ room' = room
    BY <1>3 DEF RowErase
  <2>3. edited' \in Seq(Cells) /\ Whole(edited', room)
    BY <1>0, <2>1, <2>2, EraseWhole
  <2>4. QED  BY <2>2, <2>3 DEF RowKept, RowTypeOK, RowWhole
<1>4. ASSUME NEW w \in 1..MaxWidth, RowResize(w) PROVE RowKept'
  <2>1. w \in Nat
    BY <1>0
  <2>2. edited' = Narrowed(edited, w) /\ room' = w
    BY <1>4 DEF RowResize
  <2>3. edited' \in Seq(Cells) /\ Whole(edited', w)
    BY <1>0, <2>1, <2>2, NarrowedWhole
  <2>4. QED  BY <2>2, <2>3 DEF RowKept, RowTypeOK, RowWhole
<1>5. CASE UNCHANGED rowVars
  BY <1>5 DEF rowVars, RowKept, RowTypeOK, RowWhole
<1>6. QED  BY <1>1, <1>2, <1>3, <1>4, <1>5 DEF RowNext

(* A row that the terminal can draw is edited as it should be. *)
LEMMA RowKeptShows == RowKept => EditsShow
<1> SUFFICES ASSUME RowKept PROVE EditsShow
  OBVIOUS
<1>0. edited \in Seq(Cells) /\ room \in Nat /\ Whole(edited, room) /\ MaxWidth \in Nat
  BY WidthAssumption DEF RowKept, RowTypeOK, RowWhole
<1>1. PutShows
  BY <1>0, PutShown DEF PutShows, Unseen
<1>2. InsertShows
  <2>1. \A n \in 1..MaxWidth : n \in Nat \ {0}
    BY <1>0
  <2>2. QED  BY <1>0, <2>1, InsertShown DEF InsertShows, Unseen
<1>3. EraseShows
  <2>1. \A n \in 1..MaxWidth : n \in Nat \ {0}
    BY <1>0
  <2>2. QED  BY <1>0, <2>1, EraseShown DEF EraseShows, Unseen
<1>4. ResizeShows
  <2>1. \A w \in 1..MaxWidth : w \in Nat
    BY <1>0
  <2>2. QED  BY <1>0, <2>1, NarrowedShown DEF ResizeShows
<1>5. QED  BY <1>1, <1>2, <1>3, <1>4 DEF EditsShow, RowKept

(* After any edits of a row in any order, by t_buffer::f_put, f_insert,    *)
(* f_erase and f_resize, the next edit, whichever it is and wherever,      *)
(* shows in every column what it is to show: for every screen width and    *)
(* all characters, and no half of a character is ever left.                *)
THEOREM RowEditsCorrect == RowSpec => []EditsShow
<1>1. RowSpec => []RowKept
  BY RowKeptInit, RowKeptStep, PTL DEF RowSpec
<1>2. QED  BY <1>1, RowKeptShows, PTL
=============================================================================
