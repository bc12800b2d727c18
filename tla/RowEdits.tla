------------------------------ MODULE RowEdits ------------------------------
(***************************************************************************)
(* All there is to do to one row, and what each edit means, said of the    *)
(* columns of the screen: a character appears where it was put, and one    *)
(* that an edit cuts into gives way to spaces.                             *)
(***************************************************************************)
EXTENDS Row, FiniteSets

CONSTANT MaxWidth
ASSUME WidthAssumption == MaxWidth \in Nat \ {0}

VARIABLES
  edited, \* the row
  room    \* v_width
rowVars == <<edited, room>>

RowInit == edited = <<>> /\ room = MaxWidth

(* t_terminal calls these with the cursor, which may be right of the row.  *)
RowInsert(x, n) == edited' = InsertSpaces(edited, x, n, room) /\ UNCHANGED room
RowPut(x, c, shift) ==
  /\ edited' = PutCharacter(edited, x, c, Columns(c), shift, room)
  /\ UNCHANGED room
RowErase(x, n, shift) == edited' = EraseColumns(edited, x, n, shift) /\ UNCHANGED room
RowResize(w) == edited' = Narrowed(edited, w) /\ room' = w

RowNext ==
  \/ \E x \in 0..MaxWidth + 1, n \in 1..MaxWidth : RowInsert(x, n)
  \/ \E x \in 0..MaxWidth + 1, c \in Characters, shift \in BOOLEAN :
       RowPut(x, c, shift)
  \/ \E x \in 0..MaxWidth + 1, n \in 1..MaxWidth, shift \in BOOLEAN :
       RowErase(x, n, shift)
  \/ \E w \in 1..MaxWidth : RowResize(w)

RowSpec == RowInit /\ [][RowNext]_rowVars

-----------------------------------------------------------------------------
(* What column k shows: a character and which column of it. *)
Shown(r, k) ==
  IF k >= Len(r) THEN <<Blank, 0>>
  ELSE LET from == CHOOSE j \in 0..k : Joined(r, j, k) /\ r[j + 1] # Rest
       IN <<r[from + 1], k - from>>

(* What it shows once all that is not in columns from..to-1 is gone, with  *)
(* the characters that are only in part.                                   *)
Within(r, k, from, to) ==
  IF \A j \in 0..Len(r) - 1 : Joined(r, j, k) => from <= j /\ j < to
  THEN Shown(r, k) ELSE <<Blank, 0>>

Spared(r, k, from, to) ==
  IF k < Len(r) THEN Within(r, k, from, to) ELSE <<Blank, 0>>

(* The row is one the terminal can draw, after any edits in any order.     *)
RowWhole == Whole(edited, room)

(* Putting a character shows it in its columns, moves or keeps the others, *)
(* and blanks what it cuts.                                                *)
PutShows ==
  \A x \in 0..room, c \in Narrow \cup Wide, shift \in BOOLEAN :
    LET n   == Columns(c)
        new == PutCharacter(edited, x, c, n, shift, room)
    IN \A k \in 0..room - 1 :
         Shown(new, k) =
           CASE k < x -> Spared(edited, k, 0, x)
             [] x <= k /\ x + n > room -> <<Blank, 0>>
             [] x <= k /\ k < x + n /\ x + n <= room -> <<c, k - x>>
             [] k >= x + n /\ shift -> Spared(edited, k - n, x, room - n)
             [] OTHER -> Spared(edited, k, x + n, room)

(* Inserting spaces moves what is right of the cursor. *)
InsertShows ==
  \A x \in 0..room - 1, n \in 1..MaxWidth :
    LET new == InsertSpaces(edited, x, n, room)
    IN \A k \in 0..room - 1 :
         Shown(new, k) =
           CASE k < x -> Spared(edited, k, 0, x)
             [] k >= x + n -> Spared(edited, k - n, x, room - n)
             [] OTHER -> <<Blank, 0>>

(* Erasing blanks the columns, or pulls in what is right of them. *)
EraseShows ==
  \A x \in 0..room, n \in 1..MaxWidth, shift \in BOOLEAN :
    LET new == EraseColumns(edited, x, n, shift)
    IN \A k \in 0..room - 1 :
         Shown(new, k) =
           CASE k < x -> Spared(edited, k, 0, x)
             [] k >= x /\ shift -> Spared(edited, k + n, x + n, room)
             [] k >= x + n /\ ~shift -> Spared(edited, k, x + n, room)
             [] OTHER -> <<Blank, 0>>

(* Making the window narrower keeps what fits. *)
ResizeShows ==
  \A w \in 1..MaxWidth : \A k \in 0..w - 1 :
    Shown(Narrowed(edited, w), k) = Spared(edited, k, 0, w)

(* Every edit of a row leaves one the terminal can draw, and shows what it *)
(* says of the columns of the screen, after any edits in any order.        *)
EditsShow ==
  /\ RowWhole
  /\ PutShows /\ InsertShows /\ EraseShows /\ ResizeShows
=============================================================================
