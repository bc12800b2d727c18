-------------------------------- MODULE Row --------------------------------
(***************************************************************************)
(* One row of the terminal buffer: t_row of vt/buffer.h and the parts of   *)
(* t_buffer that edit a single row.  A row is the sequence of its first    *)
(* v_size cells; a column counts from 0 as in the code.  A character two   *)
(* columns wide is a cell with the character and one with L'\0'.           *)
(* Attributes are left out.                                                *)
(***************************************************************************)
EXTENDS Integers, Sequences

CONSTANTS Narrow, Wide, Combining    \* Characters by their wcwidth: 1, 2, 0.

Blank == " "
Rest == "rest"

ASSUME RowAssumption ==
  /\ Narrow \cap Wide = {} /\ Combining \cap (Narrow \cup Wide) = {}
  /\ Blank \notin Narrow \cup Wide \cup Combining
  /\ Rest \notin Narrow \cup Wide \cup Combining

Characters == Narrow \cup Wide \cup Combining
Cells == {Blank, Rest} \cup Narrow \cup Wide

Columns(c) == CASE c \in Wide -> 2 [] c \in Narrow -> 1 [] OTHER -> 0

Least(a, b) == IF a < b THEN a ELSE b
Most(a, b) == IF a > b THEN a ELSE b

Spaces(n) == [i \in 1..n |-> Blank]
Before(row, x) == SubSeq(row, 1, x)
After(row, x) == SubSeq(row, x + 1, Len(row))

(* Columns x and z of the row belong to the same character. *)
Joined(row, x, z) ==
  \A k \in Least(x, z)..Most(x, z) - 1 : row[k + 2] = Rest

(* A mutant: only the cells from column x on are blanked. *)
SplitRight(row, x) ==
  IF x >= Len(row) \/ row[x + 1] # Rest THEN row
  ELSE [i \in DOMAIN row |->
          IF i > x /\ Joined(row, x, i - 1) THEN Blank ELSE row[i]]

(* t_row::f_split: a character that column x is inside of becomes spaces. *)
Split(row, x) ==
  IF x >= Len(row) \/ row[x + 1] # Rest THEN row
  ELSE [i \in DOMAIN row |-> IF Joined(row, x, i - 1) THEN Blank ELSE row[i]]

Expand(row, size) == row \o Spaces(size - Len(row))

(* What is left of the row when n more cells must fit in. *)
Fit(row, n, width) ==
  IF Len(row) + n > width THEN Before(Split(row, width - n), width - n)
  ELSE row

(* t_row::f_insert, with the cells its caller puts in the gap. *)
OpenGap(row, x, cells, width) ==
  LET rest == Fit(row, Len(cells), width)
  IN Before(rest, x) \o cells \o After(rest, x)

(* t_buffer::f_insert *)
InsertSpaces(row, x, n, width) ==
  LET split == Split(Expand(row, x), x)
  IN CASE x >= width -> row
       [] x < width /\ x + n >= width ->
            Before(split, x) \o Spaces(width - x)
       [] OTHER -> OpenGap(split, x, Spaces(n), width)

(* A mutant: the character cut on the right is not looked after. *)
OverwriteOnly(row, x, cells) ==
  Before(row, x) \o cells \o After(row, x + Len(cells))

Overwrite(row, x, cells) ==
  Before(row, x) \o cells \o After(Split(row, x + Len(cells)), x + Len(cells))

(* t_buffer::f_put of a character n columns wide. *)
PutCharacter(row, x, c, n, shift, width) ==
  LET split == Split(Expand(row, x), x)
      cells == <<c>> \o [i \in 1..n - 1 |-> Rest]
  IN CASE n <= 0 \/ x >= width -> row
       [] n > 0 /\ x < width /\ x + n > width ->
            Before(split, x) \o Spaces(width - x)
       [] n > 0 /\ x + n <= width /\ shift -> OpenGap(split, x, cells, width)
       [] OTHER -> Overwrite(split, x, cells)

(* t_buffer::f_erase of n columns, with the rest pulled in or not. *)
EraseColumns(row, x, n, shift) ==
  LET split == Split(row, x)
      cells == Split(split, x + n)
  IN CASE x >= Len(row) -> row
       [] x < Len(row) /\ x + n >= Len(row) -> Before(split, x)
       [] OTHER -> Before(cells, x) \o (IF shift THEN <<>> ELSE Spaces(n))
                                    \o After(cells, x + n)

(* What t_buffer::f_resize makes of a row. *)
Narrowed(row, width) ==
  IF width < Len(row) THEN Before(Split(row, width), width) ELSE row

(* No half of a character is left over, and the row fits in the screen. *)
Whole(row, width) ==
  /\ Len(row) <= width
  /\ \A i \in DOMAIN row :
       /\ row[i] \in Cells
       /\ row[i] \in Wide <=> i < Len(row) /\ row[i + 1] = Rest
       /\ row[i] = Rest => i > 1
=============================================================================
