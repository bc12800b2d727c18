---------------------------- MODULE VtWindowProofs ----------------------------
(***************************************************************************)
(* The proofs that the terminal keeps its rows, and that its window draws  *)
(* them.  RowsApart, RowsWhole and CursorInRegion follow from one          *)
(* inductive invariant, Kempt.  Its first part is of the memory, MemoryOK: *)
(* every place is in the log or on one of the screens, once, every row is  *)
(* whole, and a log that is not full begins at 0.  Its second, PlaceOK, is *)
(* of the cursor, the region and the tab stops.                            *)
(*                                                                         *)
(* What the control functions do to the rows comes down to four things:    *)
(* they change rows of the screen or their order (Local), feed the screen  *)
(* from its bottom (Fed), show a screen (Shows), or resize.  The first     *)
(* sections show it, from the lines of the screen up to the functions of   *)
(* the terminal.  Those after them show that each is a step of Scrollback. *)
(*                                                                         *)
(* DamageComplete follows from a second inductive invariant, Right, with   *)
(* Kempt.  In the middle of a control function the terminal has changed    *)
(* and the window has not yet followed the calls: Sync says that what is   *)
(* valid would be right if it had.  Each function of t_buffer, and then of *)
(* t_terminal, is shown to keep Sync, by the calls it makes for the rows   *)
(* it changes.                                                             *)
(***************************************************************************)
EXTENDS VtWindow, RowProofs, FiniteSetTheorems, WellFoundedInduction, TLAPS

-----------------------------------------------------------------------------
(* The members of t_terminal, with those of t_buffer. *)
Fields ==
  {"width", "height", "rows", "log", "begin", "size", "lines", "current", "saved", "x", "y",
   "calls", "insert", "origin", "wraparound", "regionBegin", "regionSize", "tabs"}

RowRecords == [cells : Seq(Cells), wrapped : BOOLEAN]
Lengths(b) == 0..b.height - 1

(* The place p is the screen's. *)
OnScreen(b, p) == \E i \in Lengths(b) : Screen(b)[i] = p

MemoryTyped(b) ==
  /\ DOMAIN b = Fields
  /\ b.width \in Widths /\ b.height \in Heights
  /\ b.current \in Screens /\ b.begin \in Slots /\ b.size \in 0..LogCapacity
  /\ b.size < LogCapacity => b.begin = 0
  /\ b.rows \in [Places(b.height) -> RowRecords]
  /\ b.log \in [Slots -> Places(b.height)]
  /\ b.lines \in [Screens -> [Lengths(b) -> Places(b.height)]]

(* Every place is in the log or on a screen, once. *)
Apart(b) ==
  /\ \A i, j \in Slots : b.log[i] = b.log[j] => i = j
  /\ \A s \in Screens : \A i, j \in Lengths(b) : b.lines[s][i] = b.lines[s][j] => i = j
  /\ \A s \in Screens : \A i \in Lengths(b), k \in Slots : b.lines[s][i] # b.log[k]
  /\ \A i, j \in Lengths(b) : b.lines["normal"][i] # b.lines["alternate"][j]
  /\ \A p \in Places(b.height) :
       \/ \E k \in Slots : b.log[k] = p
       \/ \E s \in Screens, i \in Lengths(b) : b.lines[s][i] = p

AllWhole(b) == \A p \in Places(b.height) : Whole(b.rows[p].cells, b.width)

MemoryOK(b) == MemoryTyped(b) /\ Apart(b) /\ AllWhole(b)

(* The memory of both is the same, and all but the memory is. *)
SameSizes(b, u) ==
  /\ DOMAIN u = Fields /\ u.width = b.width /\ u.height = b.height /\ u.current = b.current
SameLog(b, u) == u.begin = b.begin /\ u.size = b.size /\ u.log = b.log
SameMemory(b, u) == SameSizes(b, u) /\ SameLog(b, u) /\ u.rows = b.rows /\ u.lines = b.lines
SamePlace(b, u) ==
  /\ u.saved = b.saved /\ u.x = b.x /\ u.y = b.y /\ u.insert = b.insert /\ u.origin = b.origin
  /\ u.wraparound = b.wraparound /\ u.regionBegin = b.regionBegin /\ u.regionSize = b.regionSize
  /\ u.tabs = b.tabs

(* Only rows of the screen change, or change places. *)
Local(b, u) ==
  /\ SameSizes(b, u) /\ SameLog(b, u)
  /\ u.lines \in [Screens -> [Lengths(b) -> Places(b.height)]]
  /\ \A s \in Screens : s # b.current => u.lines[s] = b.lines[s]
  /\ \A i, j \in Lengths(b) : Screen(u)[i] = Screen(u)[j] => i = j
  /\ \A p \in Places(b.height) : OnScreen(u, p) <=> OnScreen(b, p)
  /\ u.rows \in [Places(b.height) -> RowRecords]
  /\ \A p \in Places(b.height) : OnScreen(b, p) \/ u.rows[p] = b.rows[p]
  /\ AllWhole(u)

(* Only row y of the screen changes. *)
RowEdited(b, u, y) ==
  /\ SameSizes(b, u) /\ SameLog(b, u) /\ u.lines = b.lines
  /\ u.rows \in [Places(b.height) -> RowRecords]
  /\ \A p \in Places(b.height) : p = Screen(b)[y] \/ u.rows[p] = b.rows[p]
  /\ AllWhole(u)

(* What the numbers are. *)
LEMMA Numbers ==
  ASSUME NEW b, MemoryTyped(b)
  PROVE  /\ b.width \in Nat \ {0} /\ b.height \in Nat \ {0, 1} /\ LogCapacity \in Nat \ {0}
         /\ 0 \in Lengths(b) /\ b.height - 1 \in Lengths(b) /\ b.height - 1 # 0
         /\ Screen(b) \in [Lengths(b) -> Places(b.height)]
         /\ \A y \in Lengths(b) : Screen(b)[y] \in Places(b.height) /\ OnScreen(b, Screen(b)[y])
<1>1. b.width \in Nat \ {0} /\ b.height \in Nat \ {0, 1} /\ LogCapacity \in Nat \ {0}
  BY WindowAssumption, LogAssumption DEF MemoryTyped
<1>2. 0 \in Lengths(b) /\ b.height - 1 \in Lengths(b) /\ b.height - 1 # 0
  BY <1>1 DEF Lengths
<1>3. Screen(b) \in [Lengths(b) -> Places(b.height)]
  BY DEF MemoryTyped, Screen
<1>4. \A y \in Lengths(b) : Screen(b)[y] \in Places(b.height) /\ OnScreen(b, Screen(b)[y])
  BY <1>3 DEF OnScreen
<1>5. QED  BY <1>1, <1>2, <1>3, <1>4

(* Changes of the rows of the screen keep the memory. *)
LEMMA LocalOK ==
  ASSUME NEW b, NEW u, MemoryOK(b), Local(b, u) PROVE MemoryOK(u)
<1>1. MemoryTyped(u) /\ Lengths(u) = Lengths(b) /\ AllWhole(u)
  BY DEF MemoryOK, MemoryTyped, Local, SameSizes, SameLog, Lengths
<1>2. /\ u.log = b.log /\ u.height = b.height /\ u.current = b.current /\ b.current \in Screens
      /\ \A s \in Screens : s # b.current => u.lines[s] = b.lines[s]
      /\ \A i, j \in Lengths(b) : Screen(u)[i] = Screen(u)[j] => i = j
      /\ \A p \in Places(b.height) : OnScreen(u, p) <=> OnScreen(b, p)
      /\ Screen(u) = u.lines[b.current] /\ Screen(b) = b.lines[b.current]
      /\ Screen(u) \in [Lengths(b) -> Places(b.height)]
  BY DEF MemoryOK, MemoryTyped, Local, SameSizes, SameLog, Screen
<1>3. ASSUME NEW i \in Lengths(b) PROVE \E j \in Lengths(b) : Screen(u)[i] = Screen(b)[j]
  <2>1. Screen(u)[i] \in Places(b.height) /\ OnScreen(u, Screen(u)[i])
    BY <1>1, <1>2 DEF OnScreen
  <2>2. QED  BY <1>2, <2>1 DEF OnScreen
<1>4. ASSUME NEW i \in Lengths(b) PROVE \E j \in Lengths(b) : Screen(b)[i] = Screen(u)[j]
  <2>1. Screen(b)[i] \in Places(b.height) /\ OnScreen(b, Screen(b)[i])
    BY Numbers DEF MemoryOK
  <2>2. QED  BY <1>1, <1>2, <2>1 DEF OnScreen
<1>5. Apart(b)
  BY DEF MemoryOK
<1>6. \A s \in Screens : \A i, j \in Lengths(u) : u.lines[s][i] = u.lines[s][j] => i = j
  BY <1>1, <1>2, <1>5 DEF Apart
<1>7. \A s \in Screens : \A i \in Lengths(u) : \E j \in Lengths(b) : u.lines[s][i] = b.lines[s][j]
  BY <1>1, <1>2, <1>3
<1>8. \A s \in Screens : \A i \in Lengths(b) : \E j \in Lengths(u) : b.lines[s][i] = u.lines[s][j]
  BY <1>1, <1>2, <1>4
<1>9. \A s \in Screens : \A i \in Lengths(u), k \in Slots : u.lines[s][i] # u.log[k]
  BY <1>1, <1>2, <1>5, <1>7 DEF Apart
<1>10. \A i, j \in Lengths(u) : u.lines["normal"][i] # u.lines["alternate"][j]
  <2>1. "normal" \in Screens /\ "alternate" \in Screens
    BY DEF Screens
  <2>2. ASSUME NEW i \in Lengths(u), NEW j \in Lengths(u)
        PROVE  u.lines["normal"][i] # u.lines["alternate"][j]
    <3>1. PICK k \in Lengths(b) : u.lines["normal"][i] = b.lines["normal"][k]
      BY <1>7, <2>1
    <3>2. PICK l \in Lengths(b) : u.lines["alternate"][j] = b.lines["alternate"][l]
      BY <1>7, <2>1
    <3>3. b.lines["normal"][k] # b.lines["alternate"][l]
      BY <1>5 DEF Apart
    <3>4. QED  BY <3>1, <3>2, <3>3
  <2>3. QED  BY <2>2
<1>11. ASSUME NEW p \in Places(u.height)
       PROVE  \/ \E k \in Slots : u.log[k] = p
              \/ \E s \in Screens, i \in Lengths(u) : u.lines[s][i] = p
  BY <1>2, <1>5, <1>8 DEF Apart
<1>12. Apart(u)
  BY <1>2, <1>5, <1>6, <1>9, <1>10, <1>11 DEF Apart
<1>13. QED  BY <1>1, <1>12 DEF MemoryOK

(* Nothing of the memory may change at all. *)
LEMMA LocalSame ==
  ASSUME NEW b, NEW u, MemoryOK(b), SameMemory(b, u) PROVE Local(b, u)
<1>1. Lengths(u) = Lengths(b) /\ Screen(u) = Screen(b)
  BY DEF SameMemory, SameSizes, Lengths, Screen
<1>2. QED
  BY <1>1 DEF MemoryOK, MemoryTyped, Apart, AllWhole, SameMemory, SameSizes, Local, OnScreen, Screen

(* One row of the screen may change. *)
LEMMA LocalRow ==
  ASSUME NEW b, NEW u, MemoryOK(b), NEW y \in Lengths(b), RowEdited(b, u, y) PROVE Local(b, u)
<1>1. Lengths(u) = Lengths(b) /\ Screen(u) = Screen(b)
  BY DEF RowEdited, SameSizes, Lengths, Screen
<1>2. OnScreen(b, Screen(b)[y])
  BY Numbers DEF MemoryOK
<1>3. /\ SameSizes(b, u) /\ SameLog(b, u) /\ u.rows \in [Places(b.height) -> RowRecords] /\ AllWhole(u)
      /\ \A p \in Places(b.height) : OnScreen(b, p) \/ u.rows[p] = b.rows[p]
  BY <1>2 DEF RowEdited
<1>4. \A p \in Places(b.height) : OnScreen(u, p) <=> OnScreen(b, p)
  BY <1>1 DEF OnScreen
<1>5. QED
  BY <1>1, <1>3, <1>4 DEF MemoryOK, MemoryTyped, Apart, RowEdited, Local, Screen

(* Two changes of the screen are one. *)
LEMMA LocalThen ==
  ASSUME NEW a, NEW b, NEW c, MemoryOK(a), Local(a, b), Local(b, c) PROVE Local(a, c)
<1>1. Lengths(b) = Lengths(a) /\ b.height = a.height /\ b.current = a.current
  BY DEF Local, SameSizes, Lengths
<1>2. QED  BY <1>1 DEF Local, SameSizes, SameLog

-----------------------------------------------------------------------------
(* What the host is told is not in the memory. *)
LEMMA ToldMemory ==
  ASSUME NEW b, MemoryTyped(b), NEW y, NEW n, NEW dy
  PROVE  /\ SameMemory(b, Invalidate(b, y, n)) /\ SamePlace(b, Invalidate(b, y, n))
         /\ SameMemory(b, Scroll(b, y, n, dy)) /\ SamePlace(b, Scroll(b, y, n, dy))
         /\ SameMemory(b, Logged(b)) /\ SamePlace(b, Logged(b))
         /\ SameMemory(b, ScrollWithCursor(b, y, n, dy))
         /\ SamePlace(b, ScrollWithCursor(b, y, n, dy))
BY DEF MemoryTyped, Fields, SameMemory, SameSizes, SameLog, SamePlace, Invalidate, Scroll, Logged,
       ScrollWithCursor

(* What leaves the memory alone adds nothing to a change before it. *)
LEMMA MemoryThen ==
  ASSUME NEW a, NEW b, NEW c, SameMemory(b, c)
  PROVE  /\ Local(a, b) => Local(a, c)
         /\ \A y : RowEdited(a, b, y) => RowEdited(a, c, y)
         /\ SameMemory(a, b) => SameMemory(a, c)
<1>1. Local(a, b) => Local(a, c)
  BY DEF SameMemory, SameSizes, SameLog, Local, OnScreen, Screen, Lengths, AllWhole
<1>2. \A y : RowEdited(a, b, y) => RowEdited(a, c, y)
  BY DEF SameMemory, SameSizes, SameLog, RowEdited, Screen, AllWhole
<1>3. QED  BY <1>1, <1>2 DEF SameMemory, SameSizes, SameLog

(* The cells of a row are replaced by others that are whole. *)
LEMMA EditedRow ==
  ASSUME NEW b, MemoryOK(b), NEW y \in Lengths(b), NEW cells \in Seq(Cells), Whole(cells, b.width)
  PROVE  RowEdited(b, Edited(b, y, cells), y) /\ SamePlace(b, Edited(b, y, cells))
<1> DEFINE u == Edited(b, y, cells)
           p == Screen(b)[y]
<1>1. DOMAIN b = Fields /\ p \in Places(b.height) /\ b.rows \in [Places(b.height) -> RowRecords]
  BY Numbers DEF MemoryOK, MemoryTyped
<1>2. u = [b EXCEPT !.rows = [b.rows EXCEPT ![p] = [b.rows[p] EXCEPT !.cells = cells]]]
  BY DEF Edited
<1> HIDE DEF u, p
<1>3. SameSizes(b, u) /\ SameLog(b, u) /\ u.lines = b.lines /\ SamePlace(b, u)
      /\ u.rows = [b.rows EXCEPT ![p] = [b.rows[p] EXCEPT !.cells = cells]]
  BY <1>1, <1>2 DEF Fields, SameSizes, SameLog, SamePlace
<1>4. [b.rows[p] EXCEPT !.cells = cells] \in RowRecords /\ [b.rows[p] EXCEPT !.cells = cells].cells = cells
  BY <1>1 DEF RowRecords
<1>5. /\ u.rows \in [Places(b.height) -> RowRecords] /\ u.rows[p].cells = cells
      /\ \A q \in Places(b.height) : q = p \/ u.rows[q] = b.rows[q]
  BY <1>1, <1>3, <1>4
<1>6. AllWhole(u)
  BY <1>3, <1>5 DEF MemoryOK, AllWhole, SameSizes
<1>7. QED  BY <1>3, <1>5, <1>6 DEF RowEdited, u, p

(* f_insert, f_put, f_erase and f_wrap of a row of the screen. *)
LEMMA RowChanges ==
  ASSUME NEW b, MemoryOK(b), NEW y \in Lengths(b), NEW x \in Nat
  PROVE  /\ \A n \in Nat :
              RowEdited(b, InsertIn(b, x, y, n), y) /\ SamePlace(b, InsertIn(b, x, y, n))
         /\ \A c \in Characters : \A shift :
              /\ RowEdited(b, PutIn(b, x, y, c, Columns(c), shift), y)
              /\ SamePlace(b, PutIn(b, x, y, c, Columns(c), shift))
         /\ \A n \in Int : \A shift : n >= 0 \/ x >= b.width =>
              RowEdited(b, EraseIn(b, x, y, n, shift), y) /\ SamePlace(b, EraseIn(b, x, y, n, shift))
<1> DEFINE row == At(b, y).cells
<1>1. row \in Seq(Cells) /\ Whole(row, b.width) /\ b.width \in Nat /\ Len(row) <= b.width
      /\ Len(row) \in Nat
  <2>1. /\ Screen(b)[y] \in Places(b.height) /\ b.rows \in [Places(b.height) -> RowRecords]
        /\ b.width \in Nat \ {0}
    BY Numbers DEF MemoryOK, MemoryTyped
  <2>2. row \in Seq(Cells) /\ Whole(row, b.width)
    BY <2>1 DEF MemoryOK, AllWhole, At, RowRecords
  <2>3. QED  BY <2>1, <2>2 DEF Whole
<1>2. RowEdited(b, b, y) /\ SamePlace(b, b)
  BY DEF MemoryOK, MemoryTyped, RowEdited, SameSizes, SameLog, SamePlace
<1>3. ASSUME NEW cells \in Seq(Cells), Whole(cells, b.width)
      PROVE  LET u == Invalidate(Edited(b, y, cells), y, 1) IN RowEdited(b, u, y) /\ SamePlace(b, u)
  <2> DEFINE v == Edited(b, y, cells)
  <2>1. RowEdited(b, v, y) /\ SamePlace(b, v)
    BY <1>3, EditedRow
  <2> HIDE DEF v
  <2>2. MemoryTyped(v)
    BY <2>1 DEF MemoryOK, MemoryTyped, RowEdited, SameSizes, SameLog, Lengths
  <2>3. SameMemory(v, Invalidate(v, y, 1)) /\ SamePlace(v, Invalidate(v, y, 1))
    BY <2>2, ToldMemory
  <2>4. QED  BY <2>1, <2>3, MemoryThen DEF SamePlace, v
<1> HIDE DEF row
<1>4. ASSUME NEW n \in Nat
      PROVE  RowEdited(b, InsertIn(b, x, y, n), y) /\ SamePlace(b, InsertIn(b, x, y, n))
  <2>1. InsertSpaces(row, x, n, b.width) \in Seq(Cells) /\ Whole(InsertSpaces(row, x, n, b.width), b.width)
    BY <1>1, InsertWhole
  <2>2. QED  BY <1>2, <1>3, <2>1 DEF InsertIn, row
<1>5. ASSUME NEW c \in Characters, NEW shift
      PROVE  /\ RowEdited(b, PutIn(b, x, y, c, Columns(c), shift), y)
             /\ SamePlace(b, PutIn(b, x, y, c, Columns(c), shift))
  <2> DEFINE cells == PutCharacter(row, x, c, Columns(c), shift, b.width)
  <2>1. cells \in Seq(Cells) /\ Whole(cells, b.width)
    BY <1>1, PutWhole
  <2>2. \/ PutIn(b, x, y, c, Columns(c), shift) = b
        \/ PutIn(b, x, y, c, Columns(c), shift) = Invalidate(Edited(b, y, cells), y, 1)
    BY DEF PutIn, row
  <2> HIDE DEF cells
  <2>3. QED  BY <1>2, <1>3, <2>1, <2>2
<1>6. ASSUME NEW n \in Int, NEW shift, n >= 0 \/ x >= b.width
      PROVE  RowEdited(b, EraseIn(b, x, y, n, shift), y) /\ SamePlace(b, EraseIn(b, x, y, n, shift))
  <2>1. CASE x >= Len(row)
    BY <1>2, <2>1 DEF EraseIn, row
  <2>2. CASE x < Len(row)
    <3> DEFINE cells == EraseColumns(row, x, n, shift)
    <3>1. n \in Nat
      BY <1>1, <1>6, <2>2
    <3>2. cells \in Seq(Cells) /\ Whole(cells, b.width)
      BY <1>1, <3>1, EraseWhole
    <3>3. EraseIn(b, x, y, n, shift) = Invalidate(Edited(b, y, cells), y, 1)
      BY <1>1, <2>2 DEF EraseIn, row
    <3> HIDE DEF cells
    <3>4. QED  BY <1>3, <3>2, <3>3
  <2>3. QED  BY <1>1, <2>1, <2>2
<1>7. QED  BY <1>4, <1>5, <1>6

(* A row may be said to go on in the next. *)
LEMMA WrappedRow ==
  ASSUME NEW b, MemoryOK(b), NEW y \in Lengths(b)
  PROVE  /\ RowEdited(b, Wrap(b, y), y) /\ SamePlace(b, Wrap(b, y))
         /\ \A p \in Places(b.height) : Wrap(b, y).rows[p].cells = b.rows[p].cells
<1> DEFINE u == Wrap(b, y)
           p == Screen(b)[y]
<1>1. DOMAIN b = Fields /\ p \in Places(b.height) /\ b.rows \in [Places(b.height) -> RowRecords]
  BY Numbers DEF MemoryOK, MemoryTyped
<1>2. u = [b EXCEPT !.rows = [b.rows EXCEPT ![p] = [b.rows[p] EXCEPT !.wrapped = TRUE]]]
  BY DEF Wrap
<1> HIDE DEF u, p
<1>3. SameSizes(b, u) /\ SameLog(b, u) /\ u.lines = b.lines /\ SamePlace(b, u)
      /\ u.rows = [b.rows EXCEPT ![p] = [b.rows[p] EXCEPT !.wrapped = TRUE]]
  BY <1>1, <1>2 DEF Fields, SameSizes, SameLog, SamePlace
<1>4. /\ [b.rows[p] EXCEPT !.wrapped = TRUE] \in RowRecords
      /\ [b.rows[p] EXCEPT !.wrapped = TRUE].cells = b.rows[p].cells
  BY <1>1 DEF RowRecords
<1>5. /\ u.rows \in [Places(b.height) -> RowRecords]
      /\ \A q \in Places(b.height) : u.rows[q].cells = b.rows[q].cells /\ (q = p \/ u.rows[q] = b.rows[q])
  BY <1>1, <1>3, <1>4
<1>6. AllWhole(u)
  BY <1>3, <1>5 DEF MemoryOK, AllWhole, SameSizes
<1>7. QED  BY <1>3, <1>5, <1>6 DEF RowEdited, u, p

-----------------------------------------------------------------------------
(* A row that is empty. *)
LEMMA Empty == EmptyRow \in RowRecords /\ \A w \in Nat : Whole(EmptyRow.cells, w)
<1>1. EmptyRow.cells = <<>> /\ EmptyRow \in RowRecords
  BY DEF EmptyRow, RowRecords
<1>2. \A w \in Nat : Whole(<<>>, w)
  BY DEF Whole
<1>3. QED  BY <1>1, <1>2

(* Rows of the screen are emptied. *)
LEMMA ClearedLocal ==
  ASSUME NEW b, MemoryOK(b), NEW ys \in SUBSET Lengths(b)
  PROVE  LET u == [b EXCEPT !.rows = Cleared(b, ys)] IN
         /\ Local(b, u) /\ SamePlace(b, u) /\ u.lines = b.lines
         /\ \A y \in ys : u.rows[Screen(b)[y]] = EmptyRow
<1> DEFINE rows == Cleared(b, ys)
           u    == [b EXCEPT !.rows = rows]
<1>1. /\ DOMAIN b = Fields /\ DOMAIN b.rows = Places(b.height)
      /\ b.rows \in [Places(b.height) -> RowRecords] /\ b.width \in Nat
      /\ \A p \in Places(b.height) : Whole(b.rows[p].cells, b.width)
      /\ \A y \in Lengths(b) : Screen(b)[y] \in Places(b.height) /\ OnScreen(b, Screen(b)[y])
  BY Numbers DEF MemoryOK, MemoryTyped, AllWhole
<1>2. /\ rows \in [Places(b.height) -> RowRecords]
      /\ \A p \in Places(b.height) : rows[p] \in {EmptyRow, b.rows[p]}
      /\ \A p \in Places(b.height) : OnScreen(b, p) \/ rows[p] = b.rows[p]
      /\ \A y \in ys : rows[Screen(b)[y]] = EmptyRow
  BY <1>1, Empty DEF Cleared
<1> HIDE DEF rows
<1>3. SameSizes(b, u) /\ SameLog(b, u) /\ SamePlace(b, u) /\ u.lines = b.lines /\ u.rows = rows
  BY <1>1 DEF Fields, SameSizes, SameLog, SamePlace
<1> HIDE DEF u
<1>4. \A p \in Places(b.height) : OnScreen(u, p) <=> OnScreen(b, p)
  BY <1>3 DEF SameSizes, OnScreen, Screen, Lengths
<1>5. AllWhole(u)
  BY <1>1, <1>2, <1>3, Empty DEF AllWhole, SameSizes
<1>6. Screen(u) = Screen(b) /\ b.lines \in [Screens -> [Lengths(b) -> Places(b.height)]]
      /\ \A i, j \in Lengths(b) : Screen(b)[i] = Screen(b)[j] => i = j
  BY <1>3 DEF MemoryOK, MemoryTyped, Apart, SameSizes, Screen
<1>7. Local(b, u)
  BY <1>2, <1>3, <1>4, <1>5, <1>6 DEF Local
<1>8. QED  BY <1>2, <1>3, <1>7 DEF u, rows

(* Each of the places D has a row of its own; the rows are the same. *)
OneEach(f, D, P) == f \in [D -> P] /\ \A i, j \in D : f[i] = f[j] => i = j
SameRows(f, g, D) ==
  (\A i \in D : \E j \in D : f[i] = g[j]) /\ (\A i \in D : \E j \in D : g[i] = f[j])

(* The screen has the same rows in another order. *)
LEMMA OrderedLocal ==
  ASSUME NEW b, MemoryOK(b), NEW f, OneEach(f, Lengths(b), Places(b.height)),
         SameRows(f, Screen(b), Lengths(b))
  PROVE  LET u == [b EXCEPT !.lines[b.current] = f] IN
         Local(b, u) /\ SamePlace(b, u) /\ Screen(u) = f /\ u.rows = b.rows
<1> DEFINE u == [b EXCEPT !.lines[b.current] = f]
<1>1. /\ DOMAIN b = Fields /\ b.current \in Screens
      /\ b.lines \in [Screens -> [Lengths(b) -> Places(b.height)]]
      /\ b.rows \in [Places(b.height) -> RowRecords]
  BY DEF MemoryOK, MemoryTyped
<1>f. /\ f \in [Lengths(b) -> Places(b.height)]
      /\ \A i, j \in Lengths(b) : f[i] = f[j] => i = j
      /\ \A i \in Lengths(b) : \E j \in Lengths(b) : f[i] = Screen(b)[j]
      /\ \A i \in Lengths(b) : \E j \in Lengths(b) : Screen(b)[i] = f[j]
  BY DEF OneEach, SameRows
<1>2. /\ SameSizes(b, u) /\ SameLog(b, u) /\ SamePlace(b, u) /\ u.rows = b.rows
      /\ u.lines = [b.lines EXCEPT ![b.current] = f]
  BY <1>1 DEF Fields, SameSizes, SameLog, SamePlace
<1> HIDE DEF u
<1>3. /\ Screen(u) = f /\ u.lines \in [Screens -> [Lengths(b) -> Places(b.height)]]
      /\ \A s \in Screens : s # b.current => u.lines[s] = b.lines[s]
  BY <1>1, <1>f, <1>2 DEF SameSizes, Screen
<1>4. \A p \in Places(b.height) : OnScreen(u, p) <=> OnScreen(b, p)
  <2>1. Lengths(u) = Lengths(b) /\ Screen(u) = f
    BY <1>2, <1>3 DEF SameSizes, Lengths
  <2>2. ASSUME NEW p, OnScreen(u, p) PROVE OnScreen(b, p)
    <3>1. PICK i \in Lengths(b) : f[i] = p
      BY <2>1, <2>2 DEF OnScreen
    <3>2. PICK j \in Lengths(b) : f[i] = Screen(b)[j]
      BY <1>f
    <3>3. QED  BY <3>1, <3>2 DEF OnScreen
  <2>3. ASSUME NEW p, OnScreen(b, p) PROVE OnScreen(u, p)
    <3>1. PICK i \in Lengths(b) : Screen(b)[i] = p
      BY <2>3 DEF OnScreen
    <3>2. PICK j \in Lengths(b) : Screen(b)[i] = f[j]
      BY <1>f
    <3>3. QED  BY <2>1, <3>1, <3>2 DEF OnScreen
  <2>4. QED  BY <2>2, <2>3
<1>5. AllWhole(u)
  BY <1>2 DEF MemoryOK, AllWhole, SameSizes
<1>6. QED  BY <1>1, <1>f, <1>2, <1>3, <1>4, <1>5 DEF Local, u

(* Rotating rows keeps each of them, once. *)
LEMMA RotatedRows ==
  ASSUME NEW H \in Nat, NEW D, D = 0..H - 1, NEW P, NEW lines, OneEach(lines, D, P), NEW y \in Nat,
         NEW h \in Nat, y + h <= H, NEW n \in 0..h
  PROVE  OneEach(Rotated(lines, y, h, n), D, P) /\ SameRows(Rotated(lines, y, h, n), lines, D)
<1> DEFINE from(i) == IF y <= i /\ i < y + h - n THEN i + n
                      ELSE IF y + h - n <= i /\ i < y + h THEN i + n - h ELSE i
           to(i)   == IF y + n <= i /\ i < y + h THEN i - n
                      ELSE IF y <= i /\ i < y + n THEN i - n + h ELSE i
           r == Rotated(lines, y, h, n)
<1>1. ASSUME NEW i \in 0..H - 1
      PROVE  /\ from(i) \in 0..H - 1 /\ to(i) \in 0..H - 1 /\ from(to(i)) = i /\ to(from(i)) = i
  <2>1. CASE y <= i /\ i < y + n
    BY <2>1
  <2>2. CASE y + n <= i /\ i < y + h
    BY <2>2
  <2>3. CASE i < y \/ y + h <= i
    BY <2>3
  <2>4. QED  BY <2>1, <2>2, <2>3
<1>2. lines \in [D -> P] /\ \A i, j \in D : lines[i] = lines[j] => i = j
  BY DEF OneEach
<1>3. DOMAIN r = D /\ \A i \in D : r[i] = lines[from(i)]
  BY <1>2 DEF Rotated
<1>4. r = [i \in D |-> r[i]]
  BY <1>2 DEF Rotated
<1> HIDE DEF from, to, r
<1>5. r \in [D -> P]
  <2>1. \A i \in D : r[i] \in P
    BY <1>1, <1>2, <1>3
  <2>2. QED  BY <1>4, <2>1
<1>6. ASSUME NEW i \in D, NEW j \in D, r[i] = r[j] PROVE i = j
  <2>1. from(i) = from(j)
    BY <1>1, <1>2, <1>3, <1>6
  <2>2. QED  BY <1>1, <2>1
<1>7. SameRows(r, lines, D)
  BY <1>1, <1>3 DEF SameRows
<1>8. QED  BY <1>5, <1>6, <1>7 DEF r, OneEach

-----------------------------------------------------------------------------
(* f_erase of whole rows *)
LEMMA ErasedRows ==
  ASSUME NEW b, MemoryOK(b), NEW y \in Nat, NEW n \in Nat, y + n <= b.height
  PROVE  LET u == EraseRows(b, y, n) IN
         /\ Local(b, u) /\ SamePlace(b, u) /\ u.lines = b.lines
         /\ \A i \in y..y + n - 1 : u.rows[Screen(b)[i]] = EmptyRow
<1> DEFINE v == [b EXCEPT !.rows = Cleared(b, y..y + n - 1)]
<1>1. y..y + n - 1 \in SUBSET Lengths(b)
  BY Numbers DEF Lengths, MemoryOK
<1>2. /\ Local(b, v) /\ SamePlace(b, v) /\ v.lines = b.lines
      /\ \A i \in y..y + n - 1 : v.rows[Screen(b)[i]] = EmptyRow
  BY <1>1, ClearedLocal
<1>3. EraseRows(b, y, n) = Invalidate(v, y, n)
  BY DEF EraseRows
<1> HIDE DEF v
<1>4. MemoryTyped(v)
  BY <1>2, LocalOK DEF MemoryOK
<1>5. SameMemory(v, Invalidate(v, y, n)) /\ SamePlace(v, Invalidate(v, y, n))
  BY <1>4, ToldMemory
<1>6. Local(b, Invalidate(v, y, n))
  BY <1>2, <1>5, MemoryThen
<1>7. QED  BY <1>2, <1>3, <1>5, <1>6 DEF SamePlace, SameMemory

(* Rows of the screen move, and some are emptied. *)
LEMMA MovedRows ==
  ASSUME NEW b, MemoryOK(b), NEW y \in Nat, NEW h \in Nat, y + h <= b.height, NEW n \in 0..h,
         NEW ys \in SUBSET Lengths(b), NEW dy
  PROVE  LET moved   == [b EXCEPT !.lines[b.current] = Rotated(@, y, h, n)]
             cleared == [moved EXCEPT !.rows = Cleared(moved, ys)]
             u       == ScrollWithCursor(cleared, y, h, dy)
         IN Local(b, u) /\ SamePlace(b, u)
<1> DEFINE f       == Rotated(b.lines[b.current], y, h, n)
           moved   == [b EXCEPT !.lines[b.current] = Rotated(@, y, h, n)]
           cleared == [moved EXCEPT !.rows = Cleared(moved, ys)]
           u       == ScrollWithCursor(cleared, y, h, dy)
<1>1. /\ b.height \in Nat /\ Lengths(b) = 0..b.height - 1 /\ Screen(b) = b.lines[b.current]
      /\ OneEach(Screen(b), Lengths(b), Places(b.height))
  BY Numbers DEF Lengths, Screen, MemoryOK, Apart, MemoryTyped, OneEach
<1>2. OneEach(f, Lengths(b), Places(b.height)) /\ SameRows(f, Screen(b), Lengths(b))
  <2>1. PICK lines : lines = b.lines[b.current]
    OBVIOUS
  <2>2. OneEach(lines, Lengths(b), Places(b.height))
    BY <1>1, <2>1
  <2>3. PICK H \in Nat : H = b.height /\ y + h <= H /\ Lengths(b) = 0..H - 1
    BY <1>1
  <2>4. PICK D : D = Lengths(b)
    OBVIOUS
  <2>5. PICK P : P = Places(b.height)
    OBVIOUS
  <2>6. OneEach(Rotated(lines, y, h, n), D, P) /\ SameRows(Rotated(lines, y, h, n), lines, D)
    BY <2>2, <2>3, <2>4, <2>5, RotatedRows
  <2>7. QED  BY <1>1, <2>1, <2>4, <2>5, <2>6
<1>3. moved = [b EXCEPT !.lines[b.current] = f]
  OBVIOUS
<1> HIDE DEF f, moved
<1>4. Local(b, moved) /\ SamePlace(b, moved)
  BY <1>2, <1>3, OrderedLocal
<1>5. MemoryOK(moved) /\ Lengths(moved) = Lengths(b)
  BY <1>4, LocalOK DEF Local, SameSizes, Lengths
<1>6. Local(moved, cleared) /\ SamePlace(moved, cleared)
  BY <1>5, ClearedLocal
<1> HIDE DEF cleared
<1>7. MemoryOK(cleared)
  BY <1>5, <1>6, LocalOK
<1>8. SameMemory(cleared, u) /\ SamePlace(cleared, u)
  BY <1>7, ToldMemory DEF MemoryOK
<1> HIDE DEF u
<1>9. Local(b, u)
  BY <1>4, <1>6, <1>8, LocalThen, MemoryThen
<1>10. SamePlace(b, u)
  BY <1>4, <1>6, <1>8 DEF SamePlace
<1>11. QED  BY <1>9, <1>10 DEF u, cleared, moved

(* f_scroll: rows of the screen move within part of it, and those that     *)
(* come in are empty.                                                      *)
LEMMA ScrolledRows ==
  ASSUME NEW b, MemoryOK(b), NEW y \in Nat, NEW h \in Nat, y + h <= b.height, NEW n \in Nat
  PROVE  /\ Local(b, ScrollUp(b, y, h, n)) /\ SamePlace(b, ScrollUp(b, y, h, n))
         /\ Local(b, ScrollDown(b, y, h, n)) /\ SamePlace(b, ScrollDown(b, y, h, n))
<1> DEFINE m == Least(n, h)
<1>1. m \in 0..h /\ h - m \in 0..h /\ b.height \in Nat
  BY Numbers DEF Least, MemoryOK
<1>2. Local(b, b) /\ SamePlace(b, b)
  BY LocalSame DEF MemoryOK, MemoryTyped, SameMemory, SameSizes, SameLog, SamePlace
<1>3. y + h - m..y + h - 1 \in SUBSET Lengths(b) /\ y..y + m - 1 \in SUBSET Lengths(b)
  BY <1>1 DEF Lengths
<1>4. Local(b, ScrollUp(b, y, h, n)) /\ SamePlace(b, ScrollUp(b, y, h, n))
  <2> DEFINE moved   == [b EXCEPT !.lines[b.current] = Rotated(@, y, h, m)]
             cleared == [moved EXCEPT !.rows = Cleared(moved, y + h - m..y + h - 1)]
             u       == ScrollWithCursor(cleared, y, h, -m)
  <2>1. Local(b, u) /\ SamePlace(b, u)
    BY <1>1, <1>3, MovedRows
  <2>2. ScrollUp(b, y, h, n) = IF m <= 0 THEN b ELSE u
    BY DEF ScrollUp
  <2> HIDE DEF u
  <2>3. QED  BY <1>2, <2>1, <2>2
<1>5. Local(b, ScrollDown(b, y, h, n)) /\ SamePlace(b, ScrollDown(b, y, h, n))
  <2> DEFINE moved   == [b EXCEPT !.lines[b.current] = Rotated(@, y, h, h - m)]
             cleared == [moved EXCEPT !.rows = Cleared(moved, y..y + m - 1)]
             u       == ScrollWithCursor(cleared, y, h, m)
  <2>1. Local(b, u) /\ SamePlace(b, u)
    BY <1>1, <1>3, MovedRows
  <2>2. ScrollDown(b, y, h, n) = IF m <= 0 THEN b ELSE u
    BY DEF ScrollDown
  <2> HIDE DEF u
  <2>3. QED  BY <1>2, <2>1, <2>2
<1>6. QED  BY <1>4, <1>5

(* A character fills the screen. *)
LEMMA AlignedRows ==
  ASSUME NEW b, MemoryOK(b), NEW c \in Narrow
  PROVE  Local(b, Align(b, c)) /\ SamePlace(b, Align(b, c))
<1> DEFINE filled == [i \in 1..b.width |-> c]
           rows   == [p \in DOMAIN b.rows |->
                        IF \E y \in 0..b.height - 1 : Screen(b)[y] = p
                        THEN [b.rows[p] EXCEPT !.cells = filled] ELSE b.rows[p]]
           v      == [b EXCEPT !.rows = rows]
<1>1. /\ DOMAIN b = Fields /\ DOMAIN b.rows = Places(b.height)
      /\ b.rows \in [Places(b.height) -> RowRecords] /\ b.width \in Nat
      /\ \A p \in Places(b.height) : Whole(b.rows[p].cells, b.width)
  BY Numbers DEF MemoryOK, MemoryTyped, AllWhole
<1>2. filled \in Seq(Cells) /\ Whole(filled, b.width)
  <2>1. c \in Cells /\ c \notin Wide /\ c # Rest
    BY RowAssumption DEF Cells, Rest
  <2>2. filled \in Seq(Cells) /\ Len(filled) = b.width /\ \A i \in 1..b.width : filled[i] = c
    BY <1>1, <2>1
  <2> HIDE DEF filled
  <2>3. QED  BY <1>1, <2>1, <2>2 DEF Whole
<1> HIDE DEF filled
<1>3. ASSUME NEW p \in Places(b.height)
      PROVE  /\ [b.rows[p] EXCEPT !.cells = filled] \in RowRecords
             /\ [b.rows[p] EXCEPT !.cells = filled].cells = filled
  BY <1>1, <1>2 DEF RowRecords
<1>4. /\ rows \in [Places(b.height) -> RowRecords]
      /\ \A p \in Places(b.height) : rows[p].cells \in {filled, b.rows[p].cells}
      /\ \A p \in Places(b.height) : OnScreen(b, p) \/ rows[p] = b.rows[p]
  BY <1>1, <1>3 DEF OnScreen, Lengths
<1>5. Align(b, c) = Invalidate(v, 0, b.height)
  BY DEF Align, filled
<1> HIDE DEF rows
<1>6. SameSizes(b, v) /\ SameLog(b, v) /\ SamePlace(b, v) /\ v.lines = b.lines /\ v.rows = rows
  BY <1>1 DEF Fields, SameSizes, SameLog, SamePlace
<1> HIDE DEF v
<1>7. \A p \in Places(b.height) : OnScreen(v, p) <=> OnScreen(b, p)
  BY <1>6 DEF SameSizes, OnScreen, Screen, Lengths
<1>8. AllWhole(v)
  BY <1>1, <1>2, <1>4, <1>6 DEF AllWhole, SameSizes
<1>9. Screen(v) = Screen(b) /\ b.lines \in [Screens -> [Lengths(b) -> Places(b.height)]]
      /\ \A i, j \in Lengths(b) : Screen(b)[i] = Screen(b)[j] => i = j
  BY <1>6 DEF MemoryOK, MemoryTyped, Apart, SameSizes, Screen
<1>10. Local(b, v)
  BY <1>4, <1>6, <1>7, <1>8, <1>9 DEF Local
<1>11. MemoryTyped(v)
  BY <1>10, LocalOK DEF MemoryOK
<1>12. SameMemory(v, Invalidate(v, 0, b.height)) /\ SamePlace(v, Invalidate(v, 0, b.height))
  BY <1>11, ToldMemory
<1>13. QED  BY <1>5, <1>6, <1>10, <1>12, MemoryThen DEF SamePlace

-----------------------------------------------------------------------------
(* Numbers that are not below 0 have a least one. *)
LEMMA LeastExists ==
  ASSUME NEW S \in SUBSET Nat, S # {} PROVE \E n \in S : \A m \in S : n <= m
<1> DEFINE R == {pair \in Nat \X Nat : pair[1] < pair[2]}
<1>1. IsWellFoundedOn(R, Nat)
  BY NatLessThanWellFounded DEF OpToRel
<1>2. \A m, n \in Nat : m < n => <<m, n>> \in R
  OBVIOUS
<1> HIDE DEF R
<1>3. PICK n \in S : \A m \in S : ~(<<m, n>> \in R)
  BY <1>1, WFMin
<1>4. \A m \in S : ~(m < n)
  BY <1>2, <1>3
<1>5. QED  BY <1>4

(* The cursor is on the screen, and so is where the region begins; the     *)
(* cursor is in the region if that is its origin.                          *)
PlaceOK(b) ==
  /\ b.saved \in [Screens -> SUBSET [x : Nat, y : Nat]]
  /\ b.x \in Nat /\ b.y \in 0..b.height - 1 /\ b.origin \in BOOLEAN
  /\ b.regionBegin \in Nat /\ b.regionSize \in Nat /\ b.regionSize >= 2
  /\ b.regionBegin + 2 <= b.height
  /\ b.tabs \subseteq 0..8 * Bytes(b.width) - 1
  /\ b.origin => b.regionBegin <= b.y /\ b.y < RegionEnd(b)

TOK(b) == MemoryOK(b) /\ PlaceOK(b)

(* A control function that changes the screen at most. *)
Edits(b, u) == Local(b, u) /\ PlaceOK(u)

(* The cursor stays on the screen, as it does where the region does. *)
Lands(b, u) == RegionFits(b) \/ u.y < b.height

(* Only the cursor moves. *)
Goes(b, u, x, y) ==
  /\ SameMemory(b, u) /\ u.saved = b.saved /\ u.x = x /\ u.y = y
  /\ u.insert = b.insert /\ u.origin = b.origin /\ u.wraparound = b.wraparound
  /\ u.regionBegin = b.regionBegin /\ u.regionSize = b.regionSize /\ u.tabs = b.tabs

(* An edit of the screen leaves the terminal in order. *)
LEMMA EditsOK == ASSUME NEW b, NEW u, TOK(b), Edits(b, u) PROVE TOK(u)
BY LocalOK DEF TOK, Edits

(* The cursor, the region and the stops are in order where they are the    *)
(* same.                                                                   *)
LEMMA PlaceKept ==
  ASSUME NEW b, NEW u, TOK(b), SameSizes(b, u), SamePlace(b, u) PROVE PlaceOK(u)
BY DEF TOK, PlaceOK, SameSizes, SamePlace, RegionEnd

(* The rows of the screen change and nothing else. *)
LEMMA EditsKept ==
  ASSUME NEW b, NEW u, TOK(b), Local(b, u), SamePlace(b, u) PROVE Edits(b, u)
BY PlaceKept DEF Edits, Local

(* Two edits are one. *)
LEMMA EditsThen ==
  ASSUME NEW a, NEW b, NEW c, TOK(a), Edits(a, b), Edits(b, c) PROVE Edits(a, c)
BY LocalThen DEF TOK, Edits

(* The region and the rows the cursor may be in. *)
LEMMA Bounds ==
  ASSUME NEW b, TOK(b)
  PROVE  /\ b.width \in Nat \ {0} /\ b.height \in Nat \ {0, 1} /\ Lengths(b) = 0..b.height - 1
         /\ b.x \in Nat /\ b.y \in 0..b.height - 1 /\ b.origin \in BOOLEAN
         /\ b.regionBegin \in Nat /\ b.regionSize \in Nat /\ b.regionSize >= 2
         /\ RegionEnd(b) \in Nat /\ RegionEnd(b) = b.regionBegin + b.regionSize
         /\ b.regionBegin + 2 <= b.height /\ (RegionFits(b) => RegionEnd(b) <= b.height)
         /\ Top(b) \in Nat /\ Bottom(b) \in Nat /\ Top(b) + 2 <= Bottom(b) /\ Top(b) + 2 <= b.height
         /\ RegionFits(b) => Bottom(b) <= b.height
         /\ Top(b) <= b.y /\ b.y < Bottom(b)
         /\ b.origin => Top(b) = b.regionBegin /\ Bottom(b) = RegionEnd(b)
         /\ ~b.origin => Bottom(b) = b.height
         /\ DOMAIN b = Fields
<1>1. /\ b.width \in Nat \ {0} /\ b.height \in Nat \ {0, 1} /\ Lengths(b) = 0..b.height - 1
      /\ DOMAIN b = Fields
  BY Numbers DEF TOK, MemoryOK, MemoryTyped, Lengths
<1>2. /\ b.x \in Nat /\ b.y \in 0..b.height - 1 /\ b.origin \in BOOLEAN
      /\ b.regionBegin \in Nat /\ b.regionSize \in Nat /\ b.regionSize >= 2
      /\ RegionEnd(b) = b.regionBegin + b.regionSize /\ b.regionBegin + 2 <= b.height
      /\ b.origin => b.regionBegin <= b.y /\ b.y < RegionEnd(b)
  BY DEF TOK, PlaceOK, RegionEnd
<1>3. Top(b) = (IF b.origin THEN b.regionBegin ELSE 0) /\ Bottom(b) = IF b.origin THEN RegionEnd(b) ELSE b.height
  BY DEF Top, Bottom
<1>4. CASE b.origin
  BY <1>1, <1>2, <1>3, <1>4 DEF RegionFits
<1>5. CASE ~b.origin
  BY <1>1, <1>2, <1>3, <1>5 DEF RegionFits
<1>6. QED  BY <1>4, <1>5

(* A cursor that goes somewhere on the screen, or in its region, is in     *)
(* order there.                                                            *)
LEMMA GoesOK ==
  ASSUME NEW b, NEW u, TOK(b), NEW x \in Nat, NEW y \in Int, Top(b) <= y, y < Bottom(b),
         y < b.height, Goes(b, u, x, y)
  PROVE  Edits(b, u)
<1>1. SameMemory(b, u) /\ SameSizes(b, u)
  BY DEF Goes, SameMemory
<1>2. Local(b, u)
  BY <1>1, LocalSame DEF TOK
<1>3. /\ u.height = b.height /\ u.width = b.width /\ u.saved = b.saved /\ u.x = x /\ u.y = y
      /\ u.origin = b.origin /\ u.regionBegin = b.regionBegin /\ u.regionSize = b.regionSize
      /\ u.tabs = b.tabs /\ RegionEnd(u) = RegionEnd(b)
  BY <1>1 DEF Goes, SameSizes, RegionEnd
<1>4. /\ b.saved \in [Screens -> SUBSET [x : Nat, y : Nat]]
      /\ b.tabs \subseteq 0..8 * Bytes(b.width) - 1
  BY DEF TOK, PlaceOK
<1>5. y \in 0..b.height - 1 /\ (b.origin => b.regionBegin <= y /\ y < RegionEnd(b))
  BY Bounds
<1>6. PlaceOK(u)
  BY <1>3, <1>4, <1>5, Bounds DEF PlaceOK
<1>7. QED  BY <1>2, <1>6 DEF Edits

(* The functions that move the cursor. *)
LEMMA CursorEdits ==
  ASSUME NEW b, TOK(b), NEW p \in Nat \ {0}
  PROVE  /\ Edits(b, CursorUp(b, p))
         /\ Lands(b, CursorDown(b, p)) => Edits(b, CursorDown(b, p))
         /\ Edits(b, CursorForward(b, p)) /\ Edits(b, CursorBackward(b, p))
         /\ Edits(b, CharacterAbsolute(b, p))
         /\ Lands(b, LineAbsolute(b, p)) => Edits(b, LineAbsolute(b, p))
         /\ Edits(b, BackSpace(b)) /\ Edits(b, CarriageReturn(b)) /\ Edits(b, Tab(b))
<1>1. Edits(b, CursorUp(b, p))
  <2>1. Goes(b, CursorUp(b, p), b.x, Most(b.y - p, Top(b)))
    BY Bounds DEF Fields, Goes, SameMemory, SameSizes, SameLog, CursorUp
  <2>2. /\ Most(b.y - p, Top(b)) \in Int /\ Top(b) <= Most(b.y - p, Top(b))
        /\ Most(b.y - p, Top(b)) < Bottom(b) /\ Most(b.y - p, Top(b)) < b.height
    BY Bounds DEF Most
  <2>3. QED  BY <2>1, <2>2, Bounds, GoesOK
<1>2. ASSUME Lands(b, CursorDown(b, p)) PROVE Edits(b, CursorDown(b, p))
  <2>1. Goes(b, CursorDown(b, p), b.x, Least(b.y + p, Bottom(b) - 1))
    BY Bounds DEF Fields, Goes, SameMemory, SameSizes, SameLog, CursorDown
  <2>2. /\ Least(b.y + p, Bottom(b) - 1) \in Int /\ Top(b) <= Least(b.y + p, Bottom(b) - 1)
        /\ Least(b.y + p, Bottom(b) - 1) < Bottom(b)
    BY Bounds DEF Least
  <2>3. Least(b.y + p, Bottom(b) - 1) < b.height
    <3>1. CursorDown(b, p).y = Least(b.y + p, Bottom(b) - 1)
      BY <2>1 DEF Goes
    <3>2. QED  BY <1>2, <2>2, <3>1, Bounds DEF Lands
  <2>4. QED  BY <2>1, <2>2, <2>3, Bounds, GoesOK
<1>3. Edits(b, CursorForward(b, p))
  <2>1. Goes(b, CursorForward(b, p), Least(b.x + p, b.width - 1), b.y)
    BY Bounds DEF Fields, Goes, SameMemory, SameSizes, SameLog, CursorForward
  <2>2. Least(b.x + p, b.width - 1) \in Nat
    BY Bounds DEF Least
  <2>3. QED  BY <2>1, <2>2, Bounds, GoesOK
<1>4. Edits(b, CursorBackward(b, p))
  <2>1. Goes(b, CursorBackward(b, p), Most(b.x - p, 0), b.y)
    BY Bounds DEF Fields, Goes, SameMemory, SameSizes, SameLog, CursorBackward
  <2>2. Most(b.x - p, 0) \in Nat
    BY Bounds DEF Most
  <2>3. QED  BY <2>1, <2>2, Bounds, GoesOK
<1>5. Edits(b, CharacterAbsolute(b, p))
  <2>1. Goes(b, CharacterAbsolute(b, p), Least(p - 1, b.width - 1), b.y)
    BY Bounds DEF Fields, Goes, SameMemory, SameSizes, SameLog, CharacterAbsolute
  <2>2. Least(p - 1, b.width - 1) \in Nat
    BY Bounds DEF Least
  <2>3. QED  BY <2>1, <2>2, Bounds, GoesOK
<1>6. ASSUME Lands(b, LineAbsolute(b, p)) PROVE Edits(b, LineAbsolute(b, p))
  <2>1. Goes(b, LineAbsolute(b, p), b.x, Least(p - 1 + Top(b), Bottom(b) - 1))
    BY Bounds DEF Fields, Goes, SameMemory, SameSizes, SameLog, LineAbsolute
  <2>2. /\ Least(p - 1 + Top(b), Bottom(b) - 1) \in Int /\ Top(b) <= Least(p - 1 + Top(b), Bottom(b) - 1)
        /\ Least(p - 1 + Top(b), Bottom(b) - 1) < Bottom(b)
    BY Bounds DEF Least
  <2>3. Least(p - 1 + Top(b), Bottom(b) - 1) < b.height
    <3>1. LineAbsolute(b, p).y = Least(p - 1 + Top(b), Bottom(b) - 1)
      BY <2>1 DEF Goes
    <3>2. QED  BY <1>6, <2>2, <3>1, Bounds DEF Lands
  <2>4. QED  BY <2>1, <2>2, <2>3, Bounds, GoesOK
<1>7. Edits(b, BackSpace(b))
  <2>1. Goes(b, BackSpace(b), Most(Least(b.x, b.width - 1) - 1, 0), b.y)
    BY Bounds DEF Fields, Goes, SameMemory, SameSizes, SameLog, BackSpace
  <2>2. Most(Least(b.x, b.width - 1) - 1, 0) \in Nat
    BY Bounds DEF Most, Least
  <2>3. QED  BY <2>1, <2>2, Bounds, GoesOK
<1>8. Edits(b, CarriageReturn(b))
  <2>1. Goes(b, CarriageReturn(b), 0, b.y)
    BY Bounds DEF Fields, Goes, SameMemory, SameSizes, SameLog, CarriageReturn
  <2>2. QED  BY <2>1, Bounds, GoesOK
<1>9. Edits(b, Tab(b))
  <2> DEFINE stops == {x \in b.tabs : b.x < x /\ x < b.width}
             stop  == IF stops = {} THEN b.width - 1 ELSE Min(stops)
  <2>1. Tab(b) = [b EXCEPT !.x = stop]
    BY DEF Tab
  <2>2. stop \in Nat
    <3>1. stops \in SUBSET Nat
      <4>1. b.tabs \in SUBSET Int /\ b.x \in Nat
        BY Bounds DEF TOK, PlaceOK
      <4>2. QED  BY <4>1
    <3>2. CASE stops = {}
      BY <3>2, Bounds
    <3>3. CASE stops # {}
      <4> HIDE DEF stops
      <4>1. \E s \in stops : \A r \in stops : s <= r
        BY <3>1, <3>3, LeastExists
      <4>2. Min(stops) \in stops
        BY <4>1 DEF Min
      <4>3. QED  BY <3>1, <3>3, <4>2
    <3>4. QED  BY <3>2, <3>3
  <2> HIDE DEF stop
  <2>3. Goes(b, Tab(b), stop, b.y)
    BY <2>1, Bounds DEF Fields, Goes, SameMemory, SameSizes, SameLog
  <2>4. QED  BY <2>2, <2>3, Bounds, GoesOK
<1>10. QED  BY <1>1, <1>2, <1>3, <1>4, <1>5, <1>6, <1>7, <1>8, <1>9

(* Two cursor movements, one after the other. *)
LEMMA CursorsEdit ==
  ASSUME NEW b, TOK(b), NEW p \in Nat \ {0}, NEW q \in Nat \ {0}
  PROVE  /\ Lands(b, CursorNextLine(b, p)) => Edits(b, CursorNextLine(b, p))
         /\ Edits(b, CursorPrecedingLine(b, p))
         /\ Lands(b, CursorPosition(b, p, q)) => Edits(b, CursorPosition(b, p, q))
<1>1. ASSUME NEW u, Edits(b, u)
      PROVE  Edits(b, CarriageReturn(u)) /\ Edits(b, CharacterAbsolute(u, q))
  BY <1>1, EditsOK, CursorEdits, EditsThen
<1>2. ASSUME NEW u, DOMAIN u = Fields
      PROVE  CarriageReturn(u).y = u.y /\ CharacterAbsolute(u, q).y = u.y
  BY <1>2 DEF Fields, CarriageReturn, CharacterAbsolute
<1>3. DOMAIN CursorDown(b, p) = Fields /\ DOMAIN LineAbsolute(b, p) = Fields
  BY Bounds DEF CursorDown, LineAbsolute
<1>4. ASSUME Lands(b, CursorNextLine(b, p)) PROVE Edits(b, CursorNextLine(b, p))
  <2>1. CursorNextLine(b, p).y = CursorDown(b, p).y
    BY <1>2, <1>3 DEF CursorNextLine
  <2>2. Edits(b, CursorDown(b, p))
    BY <1>4, <2>1, CursorEdits DEF Lands
  <2>3. QED  BY <1>1, <2>2 DEF CursorNextLine
<1>5. ASSUME Lands(b, CursorPosition(b, p, q)) PROVE Edits(b, CursorPosition(b, p, q))
  <2>1. CursorPosition(b, p, q).y = LineAbsolute(b, p).y
    BY <1>2, <1>3 DEF CursorPosition
  <2>2. Edits(b, LineAbsolute(b, p))
    BY <1>5, <2>1, CursorEdits DEF Lands
  <2>3. QED  BY <1>1, <2>2 DEF CursorPosition
<1>6. Edits(b, CursorPrecedingLine(b, p))
  BY <1>1, CursorEdits DEF CursorPrecedingLine
<1>7. QED  BY <1>4, <1>5, <1>6

(* Stops are within the bytes that hold them. *)
LEMMA TabEdits ==
  ASSUME NEW b, TOK(b)
  PROVE  Edits(b, TabSet(b)) /\ Edits(b, TabClear(b)) /\ Edits(b, TabClearAll(b))
<1>1. ASSUME NEW tabs \in SUBSET (0..8 * Bytes(b.width) - 1) PROVE Edits(b, [b EXCEPT !.tabs = tabs])
  <2> DEFINE u == [b EXCEPT !.tabs = tabs]
  <2>1. /\ SameMemory(b, u) /\ SameSizes(b, u) /\ u.saved = b.saved /\ u.x = b.x /\ u.y = b.y
        /\ u.origin = b.origin
        /\ u.regionBegin = b.regionBegin /\ u.regionSize = b.regionSize /\ u.tabs = tabs
    BY Bounds DEF Fields, SameMemory, SameSizes, SameLog
  <2> HIDE DEF u
  <2>2. Local(b, u)
    BY <2>1, LocalSame DEF TOK
  <2>3. PlaceOK(u)
    BY <2>1 DEF TOK, PlaceOK, SameSizes, RegionEnd
  <2>4. QED  BY <2>2, <2>3 DEF Edits, u
<1>2. b.tabs \in SUBSET (0..8 * Bytes(b.width) - 1)
  BY DEF TOK, PlaceOK
<1>3. b.x < b.width => b.x \in 0..8 * Bytes(b.width) - 1
  BY Bounds DEF Bytes
<1>4. Local(b, b) /\ SamePlace(b, b)
  BY Bounds, LocalSame DEF TOK, SameMemory, SameSizes, SameLog, SamePlace
<1>5. PICK t1 : t1 = b.tabs \cup {b.x}
  OBVIOUS
<1>6. PICK t2 : t2 = b.tabs \ {b.x}
  OBVIOUS
<1>7. Edits(b, b)
  BY <1>4, EditsKept
<1>8. Edits(b, TabSet(b))
  <2>1. CASE b.x < b.width
    <3>1. t1 \in SUBSET (0..8 * Bytes(b.width) - 1)
      BY <1>2, <1>3, <1>5, <2>1
    <3>2. TabSet(b) = [b EXCEPT !.tabs = t1]
      BY <1>5, <2>1 DEF TabSet
    <3>3. QED  BY <1>1, <3>1, <3>2
  <2>2. CASE ~(b.x < b.width)
    BY <1>7, <2>2 DEF TabSet
  <2>3. QED  BY <2>1, <2>2
<1>9. Edits(b, TabClear(b))
  <2>1. CASE b.x < b.width
    <3>1. t2 \in SUBSET (0..8 * Bytes(b.width) - 1)
      BY <1>2, <1>6
    <3>2. TabClear(b) = [b EXCEPT !.tabs = t2]
      BY <1>6, <2>1 DEF TabClear
    <3>3. QED  BY <1>1, <3>1, <3>2
  <2>2. CASE ~(b.x < b.width)
    BY <1>7, <2>2 DEF TabClear
  <2>3. QED  BY <2>1, <2>2
<1>10. Edits(b, TabClearAll(b))
  <2>1. PICK none \in SUBSET (0..8 * Bytes(b.width) - 1) : none = {}
    OBVIOUS
  <2>2. QED  BY <1>1, <2>1 DEF TabClearAll
<1>11. QED  BY <1>8, <1>9, <1>10

(* Modes and the region, which take the cursor with them. *)
LEMMA ModeEdits ==
  ASSUME NEW b, TOK(b), NEW on \in BOOLEAN
  PROVE  Edits(b, InsertMode(b, on)) /\ Edits(b, OriginMode(b, on)) /\ Edits(b, WraparoundMode(b, on))
<1>1. Edits(b, InsertMode(b, on))
  <2> DEFINE u == InsertMode(b, on)
  <2>1. /\ SameMemory(b, u) /\ SameSizes(b, u) /\ u.saved = b.saved /\ u.x = b.x /\ u.y = b.y
        /\ u.origin = b.origin
        /\ u.regionBegin = b.regionBegin /\ u.regionSize = b.regionSize /\ u.tabs = b.tabs
    BY Bounds DEF Fields, SameMemory, SameSizes, SameLog, InsertMode
  <2> HIDE DEF u
  <2>2. Local(b, u)
    BY <2>1, LocalSame DEF TOK
  <2>3. PlaceOK(u)
    BY <2>1 DEF TOK, PlaceOK, SameSizes, RegionEnd
  <2>4. QED  BY <2>2, <2>3 DEF Edits, u
<1>2. Edits(b, WraparoundMode(b, on))
  <2> DEFINE u == WraparoundMode(b, on)
  <2>1. /\ SameMemory(b, u) /\ SameSizes(b, u) /\ u.saved = b.saved /\ u.x = b.x /\ u.y = b.y
        /\ u.origin = b.origin
        /\ u.regionBegin = b.regionBegin /\ u.regionSize = b.regionSize /\ u.tabs = b.tabs
    BY Bounds DEF Fields, SameMemory, SameSizes, SameLog, WraparoundMode
  <2> HIDE DEF u
  <2>2. Local(b, u)
    BY <2>1, LocalSame DEF TOK
  <2>3. PlaceOK(u)
    BY <2>1 DEF TOK, PlaceOK, SameSizes, RegionEnd
  <2>4. QED  BY <2>2, <2>3 DEF Edits, u
<1>3. Edits(b, OriginMode(b, on))
  <2> DEFINE u == OriginMode(b, on)
             y == IF on THEN b.regionBegin ELSE 0
  <2>1. /\ SameMemory(b, u) /\ SameSizes(b, u) /\ u.saved = b.saved /\ u.x = 0 /\ u.y = y
        /\ u.origin = on
        /\ u.regionBegin = b.regionBegin /\ u.regionSize = b.regionSize /\ u.tabs = b.tabs
    BY Bounds DEF Fields, SameMemory, SameSizes, SameLog, OriginMode
  <2> HIDE DEF u
  <2>2. Local(b, u)
    BY <2>1, LocalSame DEF TOK
  <2>3. y \in 0..b.height - 1 /\ (on => b.regionBegin <= y /\ y < RegionEnd(b))
    <3>1. CASE on
      BY SMTT(30), <3>1, Bounds
    <3>2. CASE ~on
      BY <3>2, Bounds
    <3>3. QED  BY <3>1, <3>2
  <2> HIDE DEF y
  <2>4. PlaceOK(u)
    <3>1. b.saved \in [Screens -> SUBSET [x : Nat, y : Nat]] /\ b.tabs \subseteq 0..8 * Bytes(b.width) - 1
      BY DEF TOK, PlaceOK
    <3>2. RegionEnd(u) = RegionEnd(b) /\ u.height = b.height /\ u.width = b.width
      BY <2>1 DEF RegionEnd, SameSizes
    <3>3. QED  BY <2>1, <2>3, <3>1, <3>2, Bounds DEF PlaceOK
  <2>5. QED  BY <2>2, <2>4 DEF Edits, u
<1>4. QED  BY <1>1, <1>2, <1>3

(* The region begins on the screen, and has two rows at least. *)
LEMMA RegionEdits ==
  ASSUME NEW b, TOK(b), NEW p \in Nat \ {0}, NEW q \in Nat
  PROVE  Edits(b, SetRegion(b, p, q))
<1> DEFINE begin == Least(p - 1, b.height - 2)
           end   == Most(q, begin + 2)
           y     == IF b.origin THEN begin ELSE 0
           u     == SetRegion(b, p, q)
<1>1. begin \in Nat /\ begin + 2 <= b.height
  BY Bounds DEF Least
<1>2. /\ SameMemory(b, u) /\ SameSizes(b, u) /\ u.saved = b.saved /\ u.x = 0 /\ u.y = y
      /\ u.origin = b.origin /\ u.regionBegin = begin /\ u.regionSize = end - begin /\ u.tabs = b.tabs
  BY Bounds DEF Fields, SameMemory, SameSizes, SameLog, SetRegion
<1> HIDE DEF begin, u
<1>3. end \in Nat /\ begin + 2 <= end
  BY <1>1, Bounds DEF Most
<1> HIDE DEF end
<1>4. Local(b, u)
  BY <1>2, LocalSame DEF TOK
<1>5. PlaceOK(u)
  <2>1. b.saved \in [Screens -> SUBSET [x : Nat, y : Nat]] /\ b.tabs \subseteq 0..8 * Bytes(b.width) - 1
    BY DEF TOK, PlaceOK
  <2>2. RegionEnd(u) = end /\ u.height = b.height /\ u.width = b.width
    BY <1>1, <1>2, <1>3 DEF RegionEnd, SameSizes
  <2>3. y \in 0..b.height - 1 /\ (b.origin => begin <= y /\ y < end)
    BY <1>1, <1>3, Bounds
  <2>4. QED  BY <1>1, <1>2, <1>3, <2>1, <2>2, <2>3, Bounds DEF PlaceOK
<1>6. QED  BY <1>4, <1>5 DEF Edits, u

(* The cursor is saved; and restored to where the region lets it be. *)
LEMMA SaveEdits ==
  ASSUME NEW b, TOK(b) PROVE Edits(b, SaveCursor(b))
<1> DEFINE u == SaveCursor(b)
           s == {[x |-> b.x, y |-> b.y]}
<1>1. /\ SameMemory(b, u) /\ SameSizes(b, u) /\ u.x = b.x /\ u.y = b.y /\ u.origin = b.origin
      /\ u.regionBegin = b.regionBegin /\ u.regionSize = b.regionSize /\ u.tabs = b.tabs
      /\ u.saved = [b.saved EXCEPT ![b.current] = s]
  BY Bounds DEF Fields, SameMemory, SameSizes, SameLog, SaveCursor
<1>2. s \in SUBSET [x : Nat, y : Nat] /\ b.current \in Screens
  BY Bounds DEF TOK, MemoryOK, MemoryTyped
<1> HIDE DEF u, s
<1>3. Local(b, u)
  BY <1>1, LocalSame DEF TOK
<1>4. u.saved \in [Screens -> SUBSET [x : Nat, y : Nat]]
  BY <1>1, <1>2 DEF TOK, PlaceOK
<1>5. PlaceOK(u)
  BY <1>1, <1>4 DEF TOK, PlaceOK, SameSizes, RegionEnd
<1>6. QED  BY <1>3, <1>5 DEF Edits, u

(* A cursor that is restored has two coordinates. *)
LEMMA SavedTyped ==
  ASSUME NEW b, TOK(b) PROVE SavedCursors(b) \subseteq [x : Nat, y : Nat]
<1>1. b.current \in Screens /\ b.saved \in [Screens -> SUBSET [x : Nat, y : Nat]]
  BY DEF TOK, MemoryOK, MemoryTyped, PlaceOK
<1>2. [x : 0..b.width - 1, y : 0..b.height - 1] \subseteq [x : Nat, y : Nat]
  OBVIOUS
<1>3. QED  BY <1>1, <1>2 DEF SavedCursors

(* f_cursor of the buffer, with a saved cursor: it is brought back on the  *)
(* screen, or in the region.                                               *)
LEMMA RestoreEdits ==
  ASSUME NEW b, TOK(b), NEW cursor \in [x : Nat, y : Nat], Lands(b, Restore(b, cursor))
  PROVE  Edits(b, Restore(b, cursor))
<1> DEFINE x == Least(cursor.x, b.width - 1)
           y == Most(Least(cursor.y, Bottom(b) - 1), Top(b))
           u == Restore(b, cursor)
<1>1. Goes(b, u, x, y)
  <2> DEFINE r == RestoreCursor(b, cursor)
  <2>1. DOMAIN r = Fields /\ Goes(b, r, cursor.x, cursor.y)
    BY Bounds DEF Fields, Goes, SameMemory, SameSizes, SameLog, RestoreCursor
  <2>2. u = [r EXCEPT !.x = Least(r.x, b.width - 1), !.y = Most(Least(r.y, Bottom(b) - 1), Top(b))]
    BY DEF Restore
  <2> HIDE DEF r, u
  <2>3. QED  BY <2>1, <2>2 DEF Fields, Goes, SameMemory, SameSizes, SameLog
<1>2. x \in Nat /\ cursor.y \in Nat
  BY Bounds DEF Least
<1>3. y \in Int /\ Top(b) <= y /\ y < Bottom(b)
  BY <1>2, Bounds DEF Least, Most
<1> HIDE DEF x, y, u
<1>4. y < b.height
  <2>1. u.y = y /\ Lands(b, u)
    BY <1>1 DEF Goes, u
  <2>2. QED  BY <1>3, <2>1, Bounds DEF Lands
<1>5. QED  BY <1>1, <1>2, <1>3, <1>4, GoesOK DEF u

(* Control functions that erase. *)
LEMMA EraseEdits ==
  ASSUME NEW b, TOK(b), NEW p \in Nat
  PROVE  /\ p \in 0..2 => Edits(b, EraseDisplay(b, p)) /\ Edits(b, EraseLine(b, p))
         /\ Edits(b, EraseCharacter(b, p))
<1>1. ASSUME NEW c, TOK(c), NEW x \in Nat, NEW y \in 0..c.height - 1, NEW n \in Int,
             n >= 0 \/ x >= c.width
      PROVE  Edits(c, EraseIn(c, x, y, n, FALSE)) /\ SamePlace(c, EraseIn(c, x, y, n, FALSE))
  <2>1. y \in Lengths(c)
    BY DEF Lengths
  <2>2. RowEdited(c, EraseIn(c, x, y, n, FALSE), y) /\ SamePlace(c, EraseIn(c, x, y, n, FALSE))
    BY <1>1, <2>1, RowChanges DEF TOK
  <2>3. QED  BY <1>1, <2>1, <2>2, LocalRow, EditsKept DEF TOK
<1>2. ASSUME NEW c, TOK(c), NEW y \in Nat, NEW n \in Nat, y + n <= c.height
      PROVE  Edits(c, EraseRows(c, y, n)) /\ SamePlace(c, EraseRows(c, y, n))
  BY <1>2, ErasedRows, EditsKept DEF TOK
<1>3. Edits(b, EraseIn(b, b.x, b.y, b.width - b.x, FALSE))
  <2>1. b.width - b.x \in Int /\ (b.width - b.x >= 0 \/ b.x >= b.width)
    BY Bounds
  <2>2. QED  BY <1>1, <2>1, Bounds
<1>4. Edits(b, EraseIn(b, 0, b.y, b.x + 1, FALSE))
  <2>1. b.x + 1 \in Int /\ b.x + 1 >= 0 /\ 0 \in Nat
    BY Bounds
  <2>2. QED  BY <1>1, <2>1, Bounds
<1>5. Edits(b, EraseCharacter(b, p))
  <2>1. PICK n \in Int : n = Least(p, b.width - b.x) /\ (n >= 0 \/ b.x >= b.width)
    BY Bounds DEF Least
  <2>2. Edits(b, EraseIn(b, b.x, b.y, n, FALSE))
    BY <1>1, <2>1, Bounds
  <2>3. QED  BY <2>1, <2>2 DEF EraseCharacter
<1>6. Edits(b, EraseRows(b, b.y, 1)) /\ Edits(b, EraseRows(b, 0, b.height))
  BY <1>2, Bounds
<1>7. ASSUME p \in 0..2 PROVE Edits(b, EraseLine(b, p))
  <2>1. CASE p = 0
    <3>1. EraseLine(b, p) = EraseIn(b, b.x, b.y, b.width - b.x, FALSE)
      BY <2>1 DEF EraseLine
    <3>2. QED  BY <1>3, <3>1
  <2>2. CASE p = 1
    <3>1. EraseLine(b, p) = EraseIn(b, 0, b.y, b.x + 1, FALSE)
      BY <2>2 DEF EraseLine
    <3>2. QED  BY <1>4, <3>1
  <2>3. CASE p = 2
    BY <1>6, <2>3 DEF EraseLine
  <2>4. QED  BY <1>7, <2>1, <2>2, <2>3
<1>8. ASSUME p = 0 PROVE Edits(b, EraseDisplay(b, p))
  <2>1. PICK u : u = EraseIn(b, b.x, b.y, b.width - b.x, FALSE)
    OBVIOUS
  <2>2. PICK n \in Nat : n = b.height - b.y - 1
    BY Bounds
  <2>3. PICK y \in Nat : y = b.y + 1
    BY Bounds
  <2>4. Edits(b, u) /\ TOK(u) /\ u.height = b.height
    BY <1>3, <2>1, EditsOK DEF Edits, Local, SameSizes
  <2>5. y + n <= u.height
    <3>1. b.height \in Nat /\ b.y \in Nat
      BY Bounds
    <3>2. QED  BY <2>2, <2>3, <2>4, <3>1
  <2>6. Edits(b, EraseRows(u, y, n))
    BY <1>2, <2>4, <2>5, EditsThen
  <2>7. EraseDisplay(b, p) = EraseRows(u, y, n)
    BY <1>8, <2>1, <2>2, <2>3 DEF EraseDisplay
  <2>8. QED  BY <2>6, <2>7
<1>9. ASSUME p = 1 PROVE Edits(b, EraseDisplay(b, p))
  <2>1. PICK u : u = EraseRows(b, 0, b.y)
    OBVIOUS
  <2>2. PICK n \in Nat : n = b.x + 1
    BY Bounds
  <2>3. PICK y : y = b.y
    OBVIOUS
  <2>4. Edits(b, u) /\ TOK(u) /\ u.height = b.height
    <3>1. Edits(b, u)
      BY <1>2, <2>1, Bounds
    <3>2. QED  BY <3>1, EditsOK DEF Edits, Local, SameSizes
  <2>5. y \in 0..u.height - 1
    BY <2>3, <2>4, Bounds
  <2>6. Edits(b, EraseIn(u, 0, y, n, FALSE))
    <3>1. Edits(u, EraseIn(u, 0, y, n, FALSE))
      <4>1. PICK x \in Nat : x = 0
        OBVIOUS
      <4>2. n \in Int /\ n >= 0
        OBVIOUS
      <4>3. Edits(u, EraseIn(u, x, y, n, FALSE))
        BY <1>1, <2>4, <2>5, <4>2
      <4>4. QED  BY <4>1, <4>3
    <3>2. QED  BY <2>4, <3>1, EditsThen
  <2>7. EraseDisplay(b, p) = EraseIn(u, 0, y, n, FALSE)
    BY <1>9, <2>1, <2>2, <2>3 DEF EraseDisplay
  <2>8. QED  BY <2>6, <2>7
<1>10. ASSUME p = 2 PROVE Edits(b, EraseDisplay(b, p))
  BY <1>6, <1>10 DEF EraseDisplay
<1>11. QED  BY <1>5, <1>7, <1>8, <1>9, <1>10

(* Control functions that insert, and move rows. *)
LEMMA InsertEdits ==
  ASSUME NEW b, TOK(b), NEW p \in Nat
  PROVE  /\ Edits(b, InsertCharacter(b, p)) /\ Edits(b, DeleteCharacter(b, p))
         /\ (InRegion(b) => RegionFits(b)) => Edits(b, InsertLine(b, p)) /\ Edits(b, DeleteLine(b, p))
         /\ RegionFits(b) => Edits(b, ScrollUpRegion(b, p)) /\ Edits(b, ScrollDownRegion(b, p))
<1>1. b.y \in Lengths(b) /\ MemoryOK(b)
  BY Bounds DEF TOK
<1>2. Edits(b, InsertCharacter(b, p))
  <2>1. RowEdited(b, InsertIn(b, b.x, b.y, p), b.y) /\ SamePlace(b, InsertIn(b, b.x, b.y, p))
    BY <1>1, Bounds, RowChanges
  <2>2. QED  BY <1>1, <2>1, LocalRow, EditsKept DEF InsertCharacter
<1>3. Edits(b, DeleteCharacter(b, p))
  <2>1. /\ RowEdited(b, EraseIn(b, b.x, b.y, p, TRUE), b.y)
        /\ SamePlace(b, EraseIn(b, b.x, b.y, p, TRUE))
    <3>1. p \in Int /\ p >= 0 /\ b.x \in Nat
      BY Bounds
    <3>2. QED  BY <1>1, <3>1, RowChanges
  <2>2. QED  BY <1>1, <2>1, LocalRow, EditsKept DEF DeleteCharacter
<1>4. ASSUME RegionFits(b) PROVE Edits(b, ScrollUpRegion(b, p)) /\ Edits(b, ScrollDownRegion(b, p))
  <2>1. b.regionBegin \in Nat /\ b.regionSize \in Nat /\ b.regionBegin + b.regionSize <= b.height
    BY <1>4, Bounds
  <2>2. QED  BY <1>1, <2>1, ScrolledRows, EditsKept DEF ScrollUpRegion, ScrollDownRegion
<1>5. ASSUME InRegion(b), RegionFits(b) PROVE Edits(b, InsertLine(b, p)) /\ Edits(b, DeleteLine(b, p))
  <2>1. PICK h \in Nat : h = RegionEnd(b) - b.y /\ b.y + h <= b.height
    BY <1>5, Bounds DEF InRegion
  <2>2. PICK y \in Nat : y = b.y /\ y + h <= b.height
    BY <2>1, Bounds
  <2>3. PICK u : u = ScrollUp(b, y, h, p)
    OBVIOUS
  <2>4. PICK v : v = ScrollDown(b, y, h, p)
    OBVIOUS
  <2>5. Edits(b, u) /\ Edits(b, v)
    BY <1>1, <2>2, <2>3, <2>4, ScrolledRows, EditsKept
  <2>6. TOK(u) /\ TOK(v)
    BY <2>5, EditsOK
  <2>7. PICK one \in Nat \ {0} : one = 1
    OBVIOUS
  <2>8. Edits(u, CarriageReturn(u)) /\ Edits(v, CarriageReturn(v))
    BY <2>6, <2>7, CursorEdits
  <2>9. Edits(b, CarriageReturn(u)) /\ Edits(b, CarriageReturn(v))
    BY <2>5, <2>8, EditsThen
  <2>10. QED  BY <1>5, <2>1, <2>2, <2>3, <2>4, <2>9 DEF InsertLine, DeleteLine
<1>6. ASSUME ~InRegion(b) PROVE Edits(b, InsertLine(b, p)) /\ Edits(b, DeleteLine(b, p))
  <2>1. Local(b, b) /\ SamePlace(b, b)
    BY Bounds, LocalSame DEF TOK, SameMemory, SameSizes, SameLog, SamePlace
  <2>2. QED  BY <1>6, <2>1, EditsKept DEF InsertLine, DeleteLine
<1>7. QED  BY <1>2, <1>3, <1>4, <1>5, <1>6

(* The region is the whole screen, and the cursor in its corner. *)
LEMMA WholeEdits ==
  ASSUME NEW b, TOK(b)
  PROVE  /\ Edits(b, WholeRegion(b))
         /\ Edits(b, [b EXCEPT !.x = 0, !.y = 0, !.regionBegin = 0, !.regionSize = b.height])
<1>1. ASSUME NEW u, NEW x \in Nat, NEW y \in 0..b.height - 1,
             u = [b EXCEPT !.x = x, !.y = y, !.regionBegin = 0, !.regionSize = b.height]
      PROVE  Edits(b, u)
  <2>1. /\ SameMemory(b, u) /\ SameSizes(b, u) /\ u.saved = b.saved /\ u.x = x /\ u.y = y
        /\ u.origin = b.origin /\ u.regionBegin = 0 /\ u.regionSize = b.height /\ u.tabs = b.tabs
    BY <1>1, Bounds DEF Fields, SameMemory, SameSizes, SameLog
  <2>2. Local(b, u)
    BY <2>1, LocalSame DEF TOK
  <2>3. PlaceOK(u)
    <3>1. b.saved \in [Screens -> SUBSET [x : Nat, y : Nat]] /\ b.tabs \subseteq 0..8 * Bytes(b.width) - 1
      BY DEF TOK, PlaceOK
    <3>2. RegionEnd(u) = b.height /\ u.height = b.height /\ u.width = b.width
      BY <2>1, Bounds DEF RegionEnd, SameSizes
    <3>3. QED  BY <2>1, <3>1, <3>2, Bounds DEF PlaceOK
  <2>4. QED  BY <2>2, <2>3 DEF Edits
<1>2. Edits(b, WholeRegion(b))
  <2> DEFINE u == WholeRegion(b)
  <2>1. /\ SameMemory(b, u) /\ SameSizes(b, u) /\ u.saved = b.saved /\ u.x = b.x /\ u.y = b.y
        /\ u.origin = b.origin /\ u.regionBegin = 0 /\ u.regionSize = b.height /\ u.tabs = b.tabs
    BY Bounds DEF Fields, SameMemory, SameSizes, SameLog, WholeRegion
  <2> HIDE DEF u
  <2>2. Local(b, u)
    BY <2>1, LocalSame DEF TOK
  <2>3. PlaceOK(u)
    <3>1. b.saved \in [Screens -> SUBSET [x : Nat, y : Nat]] /\ b.tabs \subseteq 0..8 * Bytes(b.width) - 1
      BY DEF TOK, PlaceOK
    <3>2. RegionEnd(u) = b.height /\ u.height = b.height /\ u.width = b.width
      BY <2>1, Bounds DEF RegionEnd, SameSizes
    <3>3. QED  BY <2>1, <3>1, <3>2, Bounds DEF PlaceOK
  <2>4. QED  BY <2>2, <2>3 DEF Edits, u
<1>3. 0 \in Nat /\ 0 \in 0..b.height - 1
  BY Bounds
<1>4. QED  BY <1>1, <1>2, <1>3

(* f_column_mode: the screen is cleared. *)
LEMMA ColumnEdits ==
  ASSUME NEW b, TOK(b) PROVE Edits(b, ColumnMode(b))
<1> DEFINE u == [WholeRegion(b) EXCEPT !.x = 0, !.y = 0]
           v == [b EXCEPT !.x = 0, !.y = 0, !.regionBegin = 0, !.regionSize = b.height]
<1>1. u = v
  BY Bounds DEF Fields, WholeRegion
<1> HIDE DEF u
<1>2. Edits(b, u)
  BY <1>1, WholeEdits
<1>3. TOK(u) /\ u.height = b.height
  BY <1>2, EditsOK DEF Edits, Local, SameSizes
<1>4. Edits(u, EraseRows(u, 0, u.height))
  <2>1. 0 \in Nat /\ u.height \in Nat /\ 0 + u.height <= u.height
    BY <1>3, Bounds
  <2>2. Local(u, EraseRows(u, 0, u.height)) /\ SamePlace(u, EraseRows(u, 0, u.height))
    BY <1>3, <2>1, ErasedRows DEF TOK
  <2>3. QED  BY <1>3, <2>2, EditsKept
<1>5. ColumnMode(b) = EraseRows(u, 0, u.height)
  BY <1>3 DEF ColumnMode, u
<1>6. QED  BY <1>2, <1>4, <1>5, EditsThen

(* f_align: every row of the screen is filled. *)
LEMMA AlignEdits ==
  ASSUME NEW b, TOK(b) PROVE Edits(b, Align(b, Filler))
BY WindowAssumption, AlignedRows, EditsKept DEF TOK

(* f_reverse_index *)
LEMMA ReverseEdits ==
  ASSUME NEW b, TOK(b), b.y = b.regionBegin => RegionFits(b) PROVE Edits(b, ReverseIndex(b))
<1>1. CASE b.y = b.regionBegin
  <2>1. /\ b.regionBegin \in Nat /\ b.regionSize \in Nat /\ 1 \in Nat
        /\ b.regionBegin + b.regionSize <= b.height
    BY <1>1, Bounds
  <2>2. PICK u : u = ScrollDown(b, b.regionBegin, b.regionSize, 1)
    OBVIOUS
  <2>3. Local(b, u) /\ SamePlace(b, u)
    BY <2>1, <2>2, ScrolledRows DEF TOK
  <2>4. QED  BY <1>1, <2>2, <2>3, EditsKept DEF ReverseIndex
<1>2. CASE b.y # b.regionBegin /\ b.y > 0
  <2>1. PICK y \in Int : y = b.y - 1
    BY Bounds
  <2>2. ReverseIndex(b) = [b EXCEPT !.y = y]
    BY <1>2, <2>1 DEF ReverseIndex
  <2>3. Goes(b, ReverseIndex(b), b.x, y)
    BY <2>2, Bounds DEF Fields, Goes, SameMemory, SameSizes, SameLog
  <2>4. Top(b) <= y /\ y < Bottom(b) /\ y < b.height /\ b.x \in Nat
    <3>1. Top(b) = 0 \/ Top(b) = b.regionBegin
      BY DEF Top
    <3>2. QED  BY <1>2, <2>1, <3>1, Bounds
  <2>5. QED  BY <2>3, <2>4, GoesOK
<1>3. CASE b.y # b.regionBegin /\ ~(b.y > 0)
  <2>1. Local(b, b) /\ SamePlace(b, b)
    BY Bounds, LocalSame DEF TOK, SameMemory, SameSizes, SameLog, SamePlace
  <2>2. QED  BY <1>3, <2>1, EditsKept DEF ReverseIndex
<1>4. QED  BY <1>1, <1>2, <1>3

-----------------------------------------------------------------------------
(* The normal screen has moved up by one row: the row at its top is in the *)
(* log, and the row that was in its slot is empty at the bottom, or has    *)
(* been written to.                                                        *)
Fed(b, u) ==
  /\ SameSizes(b, u) /\ b.current = "normal" /\ u.begin = Turned(b)
  /\ u.size = IF b.size < LogCapacity THEN b.size + 1 ELSE b.size
  /\ u.log = [b.log EXCEPT ![Taken(b)] = Screen(b)[0]]
  /\ u.lines \in [Screens -> [Lengths(b) -> Places(b.height)]]
  /\ u.lines["alternate"] = b.lines["alternate"]
  /\ \A i \in Lengths(b) :
       u.lines["normal"][i] = IF i < b.height - 1 THEN b.lines["normal"][i + 1] ELSE b.log[Taken(b)]
  /\ u.rows \in [Places(b.height) -> RowRecords]
  /\ \A p \in Places(b.height) : p # b.log[Taken(b)] =>
       /\ u.rows[p].cells = b.rows[p].cells
       /\ p # b.lines["normal"][b.height - 1] => u.rows[p] = b.rows[p]
  /\ AllWhole(u)

(* The slot that is taken, and the log after. *)
LEMMA TakenSlot ==
  ASSUME NEW b, MemoryOK(b)
  PROVE  /\ Taken(b) \in Slots /\ Turned(b) \in Slots /\ b.log[Taken(b)] \in Places(b.height)
         /\ b.size < LogCapacity => Taken(b) = b.size /\ Turned(b) = 0
         /\ b.size = LogCapacity => Taken(b) = b.begin /\ Turned(b) = (b.begin + 1) % LogCapacity
         /\ LogCapacity \in Nat \ {0} /\ b.size \in 0..LogCapacity /\ b.begin \in Slots
         /\ Slots = 0..LogCapacity - 1
<1>1. /\ LogCapacity \in Nat \ {0} /\ b.size \in 0..LogCapacity /\ b.begin \in Slots
      /\ Slots = 0..LogCapacity - 1 /\ (b.size < LogCapacity => b.begin = 0)
      /\ b.log \in [Slots -> Places(b.height)]
  BY LogAssumption DEF MemoryOK, MemoryTyped, Slots
<1>2. CASE b.size < LogCapacity
  BY <1>1, <1>2 DEF Taken, Turned
<1>3. CASE b.size = LogCapacity
  <2>1. Taken(b) = b.begin /\ Turned(b) = (b.begin + 1) % LogCapacity
    BY <1>1, <1>3 DEF Taken, Turned
  <2>2. (b.begin + 1) % LogCapacity \in 0..LogCapacity - 1
    BY <1>1
  <2>3. QED  BY <1>1, <1>3, <2>1, <2>2
<1>4. QED  BY <1>1, <1>2, <1>3

(* A terminal that was fed keeps its memory. *)
LEMMA FedOK ==
  ASSUME NEW b, NEW u, MemoryOK(b), Fed(b, u) PROVE MemoryOK(u)
<1> DEFINE c == Taken(b)
<1>1. /\ Lengths(u) = Lengths(b) /\ u.height = b.height /\ Lengths(b) = 0..b.height - 1
      /\ b.height \in Nat \ {0, 1} /\ 0 \in Lengths(b) /\ b.height - 1 \in Lengths(b)
      /\ Screen(b) = b.lines["normal"] /\ Screens = {"normal", "alternate"} /\ "normal" # "alternate"
  BY Numbers DEF Fed, SameSizes, Lengths, MemoryOK, Screen, Screens
<1>2. /\ c \in Slots /\ b.log[c] \in Places(b.height) /\ b.log \in [Slots -> Places(b.height)]
      /\ b.lines \in [Screens -> [Lengths(b) -> Places(b.height)]]
  BY TakenSlot DEF MemoryOK, MemoryTyped
<1>3. /\ u.log = [b.log EXCEPT ![c] = b.lines["normal"][0]]
      /\ u.lines["alternate"] = b.lines["alternate"]
      /\ \A i \in Lengths(b) :
           u.lines["normal"][i] = IF i < b.height - 1 THEN b.lines["normal"][i + 1] ELSE b.log[c]
  BY <1>1 DEF Fed
<1>4. MemoryTyped(u) /\ AllWhole(u)
  <2>1. u.begin \in Slots /\ u.size \in 0..LogCapacity /\ (u.size < LogCapacity => u.begin = 0)
    BY TakenSlot DEF Fed
  <2>2. u.log \in [Slots -> Places(b.height)]
    BY <1>1, <1>2, <1>3
  <2>3. QED  BY <1>1, <2>1, <2>2 DEF MemoryOK, MemoryTyped, Fed, SameSizes
<1> HIDE DEF c
<1>5. /\ \A i, j \in Slots : b.log[i] = b.log[j] => i = j
      /\ \A s \in Screens : \A i, j \in Lengths(b) : b.lines[s][i] = b.lines[s][j] => i = j
      /\ \A s \in Screens : \A i \in Lengths(b), k \in Slots : b.lines[s][i] # b.log[k]
      /\ \A i, j \in Lengths(b) : b.lines["normal"][i] # b.lines["alternate"][j]
      /\ \A p \in Places(b.height) :
           \/ \E k \in Slots : b.log[k] = p
           \/ \E s \in Screens, i \in Lengths(b) : b.lines[s][i] = p
  BY DEF MemoryOK, Apart
<1>6. /\ u.log[c] = b.lines["normal"][0] /\ \A k \in Slots : k # c => u.log[k] = b.log[k]
      /\ \A i \in Lengths(b) : i # b.height - 1 =>
           i + 1 \in Lengths(b) /\ u.lines["normal"][i] = b.lines["normal"][i + 1]
      /\ u.lines["normal"][b.height - 1] = b.log[c]
  BY <1>1, <1>2, <1>3
<1>7. ASSUME NEW i \in Slots, NEW j \in Slots, u.log[i] = u.log[j] PROVE i = j
  BY <1>1, <1>5, <1>6, <1>7
<1>8. ASSUME NEW i \in Lengths(b), NEW j \in Lengths(b), u.lines["normal"][i] = u.lines["normal"][j]
      PROVE  i = j
  <2>1. CASE i # b.height - 1 /\ j # b.height - 1
    <3>1. i + 1 = j + 1
      BY <1>1, <1>5, <1>6, <1>8, <2>1, SMTT(30)
    <3>2. QED  BY <1>1, <3>1
  <2>2. CASE i = b.height - 1 \/ j = b.height - 1
    BY <1>1, <1>2, <1>5, <1>6, <1>8, <2>2
  <2>3. QED  BY <2>1, <2>2
<1>9. ASSUME NEW i \in Lengths(b), NEW k \in Slots PROVE u.lines["normal"][i] # u.log[k]
  <2>1. CASE i # b.height - 1 /\ k = c
    <3>1. i + 1 # 0
      BY <1>1
    <3>2. QED  BY <1>1, <1>5, <1>6, <2>1, <3>1
  <2>2. CASE i # b.height - 1 /\ k # c
    BY <1>1, <1>5, <1>6, <2>2
  <2>3. CASE i = b.height - 1 /\ k = c
    BY <1>1, <1>2, <1>5, <1>6, <2>3
  <2>4. CASE i = b.height - 1 /\ k # c
    BY <1>1, <1>2, <1>5, <1>6, <2>4
  <2>5. QED  BY <2>1, <2>2, <2>3, <2>4
<1>10. ASSUME NEW i \in Lengths(b), NEW k \in Slots PROVE u.lines["alternate"][i] # u.log[k]
  BY <1>1, <1>3, <1>5, <1>6
<1>11. ASSUME NEW i \in Lengths(b), NEW j \in Lengths(b)
       PROVE  u.lines["normal"][i] # u.lines["alternate"][j]
  <2>1. CASE i # b.height - 1
    <3>1. i + 1 \in Lengths(b) /\ u.lines["normal"][i] = b.lines["normal"][i + 1]
      BY <1>6, <2>1
    <3>2. QED  BY <1>3, <1>5, <3>1
  <2>2. CASE i = b.height - 1
    <3>1. b.lines["alternate"][j] # b.log[c]
      BY <1>1, <1>2, <1>5
    <3>2. QED  BY <1>3, <1>6, <2>2, <3>1
  <2>3. QED  BY <2>1, <2>2
<1>12. ASSUME NEW p \in Places(b.height)
       PROVE  \/ \E k \in Slots : u.log[k] = p
              \/ \E s \in Screens, i \in Lengths(b) : u.lines[s][i] = p
  <2>1. CASE \E k \in Slots : b.log[k] = p
    BY <1>1, <1>6, <2>1
  <2>2. CASE \E i \in Lengths(b) : b.lines["alternate"][i] = p
    BY <1>1, <1>3, <2>2
  <2>3. CASE \E i \in Lengths(b) : b.lines["normal"][i] = p
    <3>1. PICK i \in Lengths(b) : b.lines["normal"][i] = p
      BY <2>3
    <3>2. CASE i = 0
      BY <1>2, <1>6, <3>1, <3>2
    <3>3. CASE i # 0
      <4>1. i - 1 \in Lengths(b) /\ i - 1 # b.height - 1 /\ (i - 1) + 1 = i
        BY <1>1, <3>3
      <4>2. u.lines["normal"][i - 1] = p
        BY <1>6, <3>1, <4>1
      <4>3. QED  BY <1>1, <4>1, <4>2
    <3>4. QED  BY <3>2, <3>3
  <2>4. QED  BY <1>1, <1>5, <2>1, <2>2, <2>3
<1>13. \A s \in Screens : \A i, j \in Lengths(b) : u.lines[s][i] = u.lines[s][j] => i = j
  BY <1>1, <1>3, <1>5, <1>8
<1>14. Apart(u)
  BY <1>1, <1>7, <1>9, <1>10, <1>11, <1>12, <1>13 DEF Apart
<1>15. QED  BY <1>4, <1>14 DEF MemoryOK

(* f_scroll_log *)
LEMMA ScrolledLog ==
  ASSUME NEW b, MemoryOK(b), b.current = "normal"
  PROVE  Fed(b, ScrollLog(b)) /\ SamePlace(b, ScrollLog(b))
<1> DEFINE told  == Invalidate(b, b.y, 1)
           grown == IF b.size < LogCapacity THEN Logged([told EXCEPT !.size = @ + 1]) ELSE told
           row   == b.log[Taken(b)]
           lines == [i \in 0..b.height - 1 |-> IF i < b.height - 1 THEN Screen(b)[i + 1] ELSE row]
           moved == [grown EXCEPT !.log[Taken(b)] = Screen(b)[0], !.begin = Turned(b),
                                  !.lines[b.current] = lines, !.rows[row] = EmptyRow]
           v     == Scroll(moved, -moved.size, moved.size + b.height, -1)
           u     == Invalidate(v, b.y, 1)
<1>1. u = ScrollLog(b)
  BY DEF ScrollLog
<1>2. /\ DOMAIN grown = Fields /\ SameSizes(b, grown) /\ SamePlace(b, grown) /\ grown.log = b.log
      /\ grown.size = IF b.size < LogCapacity THEN b.size + 1 ELSE b.size
      /\ grown.lines = b.lines /\ grown.rows = b.rows
  BY DEF MemoryOK, MemoryTyped, Fields, SameSizes, SamePlace, Invalidate, Logged
<1> HIDE DEF grown, lines, row
<1>3. /\ DOMAIN moved = Fields /\ SameSizes(b, moved) /\ SamePlace(b, moved)
      /\ moved.log = [b.log EXCEPT ![Taken(b)] = Screen(b)[0]] /\ moved.begin = Turned(b)
      /\ moved.size = grown.size /\ moved.lines = [b.lines EXCEPT !["normal"] = lines]
      /\ moved.rows = [b.rows EXCEPT ![row] = EmptyRow]
  BY <1>2 DEF Fields, SameSizes, SamePlace
<1> HIDE DEF moved
<1>4. /\ SameSizes(b, u) /\ SamePlace(b, u) /\ u.log = moved.log /\ u.begin = moved.begin
      /\ u.size = moved.size /\ u.lines = moved.lines /\ u.rows = moved.rows
  BY <1>3 DEF Fields, SameSizes, SamePlace, Invalidate, Scroll
<1> HIDE DEF v, u
<1>5. /\ Screen(b) = b.lines["normal"] /\ row \in Places(b.height)
      /\ b.lines \in [Screens -> [Lengths(b) -> Places(b.height)]]
      /\ b.rows \in [Places(b.height) -> RowRecords] /\ "normal" \in Screens
      /\ Lengths(b) = 0..b.height - 1 /\ b.height \in Nat \ {0, 1} /\ b.width \in Nat
      /\ "alternate" # "normal"
  BY TakenSlot, Numbers DEF MemoryOK, MemoryTyped, Screen, Screens, Lengths, row
<1>6. /\ lines \in [Lengths(b) -> Places(b.height)]
      /\ \A i \in Lengths(b) : lines[i] = IF i < b.height - 1 THEN b.lines["normal"][i + 1] ELSE row
  BY <1>5 DEF lines
<1>7. /\ u.lines \in [Screens -> [Lengths(b) -> Places(b.height)]]
      /\ u.lines["alternate"] = b.lines["alternate"] /\ u.lines["normal"] = lines
  BY <1>3, <1>4, <1>5, <1>6 DEF Screens
<1>8. /\ u.rows \in [Places(b.height) -> RowRecords] /\ u.rows[row] = EmptyRow
      /\ \A p \in Places(b.height) : p # row => u.rows[p] = b.rows[p]
  BY <1>3, <1>4, <1>5, Empty
<1>9. AllWhole(u)
  BY <1>4, <1>5, <1>8, Empty DEF MemoryOK, AllWhole, SameSizes
<1>10. Fed(b, u)
  BY <1>2, <1>3, <1>4, <1>6, <1>7, <1>8, <1>9 DEF Fed, row
<1>11. QED  BY <1>1, <1>4, <1>10

(* What is done to the bottom row before it moves up, and to the one that  *)
(* has come in.                                                            *)
LEMMA FedAfter ==
  ASSUME NEW a, NEW b, NEW c, MemoryOK(a), Fed(b, c), SameSizes(a, b), SameLog(a, b),
         b.lines = a.lines, a.rows \in [Places(a.height) -> RowRecords],
         \A p \in Places(a.height) :
           /\ b.rows[p].cells = a.rows[p].cells
           /\ p # Screen(a)[a.height - 1] => b.rows[p] = a.rows[p]
  PROVE  Fed(a, c)
<1>1. /\ Lengths(b) = Lengths(a) /\ b.height = a.height /\ a.current = "normal"
      /\ Screen(b) = Screen(a) /\ Screen(a) = a.lines["normal"]
      /\ Taken(b) = Taken(a) /\ Turned(b) = Turned(a) /\ b.log = a.log
  BY DEF Fed, SameSizes, SameLog, Lengths, Screen, Taken, Turned
<1>2. \A p \in Places(a.height) : p # a.log[Taken(a)] =>
        /\ c.rows[p].cells = a.rows[p].cells
        /\ p # a.lines["normal"][a.height - 1] => c.rows[p] = a.rows[p]
  BY <1>1 DEF Fed
<1>3. /\ SameSizes(a, c) /\ c.begin = Turned(a)
      /\ c.size = IF a.size < LogCapacity THEN a.size + 1 ELSE a.size
      /\ c.log = [a.log EXCEPT ![Taken(a)] = Screen(a)[0]]
      /\ c.lines \in [Screens -> [Lengths(a) -> Places(a.height)]]
      /\ c.lines["alternate"] = a.lines["alternate"]
      /\ \A i \in Lengths(a) :
           c.lines["normal"][i] = IF i < a.height - 1 THEN a.lines["normal"][i + 1] ELSE a.log[Taken(a)]
      /\ c.rows \in [Places(a.height) -> RowRecords] /\ AllWhole(c)
  BY <1>1 DEF Fed, SameSizes, SameLog
<1>4. QED  BY <1>1, <1>2, <1>3 DEF Fed

(* A terminal that is fed and then written to at its bottom row was fed. *)
LEMMA FedThen ==
  ASSUME NEW a, NEW b, NEW c, MemoryOK(a), Fed(a, b), RowEdited(b, c, a.height - 1) PROVE Fed(a, c)
<1>1. /\ a.height \in Nat \ {0, 1} /\ a.height - 1 \in Lengths(a)
  BY Numbers DEF MemoryOK
<1>2. b.current = "normal" /\ b.height = a.height /\ Screen(b)[a.height - 1] = a.log[Taken(a)]
  BY <1>1 DEF Fed, SameSizes, Screen
<1>3. \A p \in Places(a.height) : p # a.log[Taken(a)] => c.rows[p] = b.rows[p]
  BY <1>2 DEF RowEdited
<1>4. /\ SameSizes(a, c) /\ c.begin = b.begin /\ c.size = b.size /\ c.log = b.log
      /\ c.lines = b.lines /\ c.rows \in [Places(a.height) -> RowRecords] /\ AllWhole(c)
  BY <1>2 DEF Fed, RowEdited, SameSizes, SameLog
<1>5. QED  BY <1>3, <1>4 DEF Fed

(* f_index and f_next_line.  The screen is fed from only at its bottom. *)
Feeds(b, u) == Fed(b, u) /\ b.y = b.height - 1 /\ u.y = b.y /\ PlaceOK(u)

(* f_index feeds the screen, or moves the cursor or the region. *)
LEMMA IndexFeeds ==
  ASSUME NEW b, TOK(b) PROVE (Edits(b, Index(b)) \/ Feeds(b, Index(b))) /\ Index(b).x = b.x
<1> DEFINE down == [b EXCEPT !.y = @ + 1]
<1>1. /\ DOMAIN down = Fields /\ SameMemory(b, down) /\ down.saved = b.saved /\ down.x = b.x
      /\ down.y = b.y + 1 /\ down.origin = b.origin /\ down.tabs = b.tabs
      /\ down.insert = b.insert /\ down.wraparound = b.wraparound
      /\ down.regionBegin = b.regionBegin /\ down.regionSize = b.regionSize
      /\ RegionEnd(down) = RegionEnd(b)
  BY Bounds DEF Fields, SameMemory, SameSizes, SameLog, RegionEnd
<1>2. CASE b.y + 1 = RegionEnd(b)
  <2> DEFINE scrolled == ScrollRegion(down)
             u == [scrolled EXCEPT !.y = scrolled.y - 1]
  <2>1. Index(b) = u
    BY <1>2 DEF Index
  <2> HIDE DEF down
  <2>2. Local(b, down) /\ MemoryOK(down) /\ down.height = b.height /\ down.current = b.current
    BY <1>1, LocalSame, LocalOK DEF TOK, SameMemory, SameSizes
  <2>3. ASSUME NEW s, SamePlace(down, s), SameSizes(b, s), DOMAIN s = Fields,
               NEW w, w = [s EXCEPT !.y = s.y - 1]
        PROVE  SameMemory(s, w) /\ PlaceOK(w) /\ w.y = b.y /\ w.x = b.x
    <3>1. s.y = b.y + 1 /\ s.y - 1 = b.y
      BY <1>1, <2>3, Bounds DEF SamePlace
    <3>2. /\ SameMemory(s, w) /\ w.saved = b.saved /\ w.x = b.x /\ w.y = b.y /\ w.origin = b.origin
          /\ w.regionBegin = b.regionBegin /\ w.regionSize = b.regionSize /\ w.tabs = b.tabs
      BY <1>1, <2>3, <3>1 DEF Fields, SamePlace, SameMemory, SameSizes, SameLog
    <3>3. w.height = b.height /\ w.width = b.width /\ RegionEnd(w) = RegionEnd(b)
      BY <2>3, <3>2 DEF SameMemory, SameSizes, RegionEnd
    <3>4. QED  BY <3>2, <3>3 DEF TOK, PlaceOK
  <2>4. CASE b.current = "alternate" \/ b.regionBegin > 0 \/ b.regionSize < b.height
    <3>1. scrolled = ScrollUp(down, b.regionBegin, b.regionSize, 1)
      BY <1>1, <2>2, <2>4 DEF ScrollRegion
    <3>2. Local(down, scrolled) /\ SamePlace(down, scrolled)
      <4>1. /\ b.regionBegin \in Nat /\ b.regionSize \in Nat /\ 1 \in Nat
            /\ b.regionBegin + b.regionSize <= down.height
        BY <1>2, <2>2, Bounds
      <4>2. QED  BY <2>2, <3>1, <4>1, ScrolledRows
    <3> HIDE DEF scrolled
    <3>3. Local(b, scrolled) /\ SameSizes(b, scrolled) /\ DOMAIN scrolled = Fields
      BY <2>2, <3>2, LocalThen DEF TOK, Local, SameSizes
    <3>4. SameMemory(scrolled, u) /\ PlaceOK(u) /\ u.x = b.x
      BY <2>3, <3>2, <3>3
    <3> HIDE DEF u
    <3>5. Edits(b, u)
      BY <3>3, <3>4, MemoryThen DEF Edits
    <3>6. QED  BY <2>1, <3>4, <3>5
  <2>5. CASE ~(b.current = "alternate" \/ b.regionBegin > 0 \/ b.regionSize < b.height)
    <3>1. scrolled = ScrollLog(down)
      BY <1>1, <2>2, <2>5 DEF ScrollRegion
    <3>2. b.current = "normal" /\ RegionEnd(b) = b.height /\ b.y = b.height - 1
      <4>1. b.current = "normal"
        BY <2>5 DEF TOK, MemoryOK, MemoryTyped, Screens
      <4>2. QED  BY <1>2, <2>5, <4>1, Bounds, SMTT(30)
    <3>3. Fed(down, scrolled) /\ SamePlace(down, scrolled)
      BY <2>2, <3>1, <3>2, ScrolledLog
    <3>4. Fed(b, scrolled)
      <4>1. /\ SameSizes(b, down) /\ SameLog(b, down) /\ down.lines = b.lines /\ down.rows = b.rows
            /\ b.rows \in [Places(b.height) -> RowRecords]
        BY <1>1 DEF SameMemory, TOK, MemoryOK, MemoryTyped
      <4> HIDE DEF scrolled
      <4>2. QED  BY <3>3, <4>1, FedAfter DEF TOK
    <3> HIDE DEF scrolled
    <3>5. SameSizes(b, scrolled) /\ DOMAIN scrolled = Fields
      BY <3>4 DEF Fed, SameSizes
    <3>6. SameMemory(scrolled, u) /\ PlaceOK(u) /\ u.y = b.y /\ u.x = b.x
      BY <2>3, <3>3, <3>5
    <3> HIDE DEF u
    <3>7. Fed(b, u)
      BY <3>4, <3>6 DEF Fed, SameMemory, SameSizes, SameLog, AllWhole
    <3>8. QED  BY <2>1, <3>2, <3>6, <3>7 DEF Feeds
  <2>6. QED  BY <2>4, <2>5
<1>3. CASE b.y + 1 # RegionEnd(b) /\ b.y + 1 >= b.height
  <2>1. PICK y \in Int : y = b.height - 1
    BY Bounds
  <2>2. Index(b) = [b EXCEPT !.y = y]
    BY <1>3, <2>1 DEF Index
  <2>3. Goes(b, Index(b), b.x, y)
    BY <2>2, Bounds DEF Fields, Goes, SameMemory, SameSizes, SameLog
  <2>4. Top(b) <= y /\ y < Bottom(b) /\ y < b.height /\ b.x \in Nat
    <3>1. y = b.y
      BY <1>3, <2>1, Bounds
    <3>2. QED  BY <3>1, Bounds
  <2>5. QED  BY <2>3, <2>4, GoesOK DEF Goes
<1>4. CASE b.y + 1 # RegionEnd(b) /\ ~(b.y + 1 >= b.height)
  <2>1. PICK y \in Int : y = b.y + 1
    BY Bounds
  <2>2. Index(b) = [b EXCEPT !.y = y]
    BY <1>4, <2>1 DEF Index
  <2>3. Goes(b, Index(b), b.x, y)
    BY <2>2, Bounds DEF Fields, Goes, SameMemory, SameSizes, SameLog
  <2>4. Top(b) <= y /\ y < Bottom(b) /\ y < b.height /\ b.x \in Nat
    <3>1. Bottom(b) = RegionEnd(b) \/ Bottom(b) = b.height
      BY DEF Bottom
    <3>2. QED  BY <1>4, <2>1, <3>1, Bounds
  <2>5. QED  BY <2>3, <2>4, GoesOK DEF Goes
<1>5. QED  BY <1>2, <1>3, <1>4

(* The rows of the screen change, or one leaves it. *)
Writes(b, u) == PlaceOK(u) /\ (Local(b, u) \/ Fed(b, u))

(* f_index and f_next_line. *)
LEMMA NextLineWrites ==
  ASSUME NEW b, TOK(b) PROVE Writes(b, NextLine(b)) /\ Writes(b, Index(b))
<1>1. Writes(b, Index(b))
  BY IndexFeeds DEF Edits, Feeds, Writes
<1>2. PICK v : v = CarriageReturn(b)
  OBVIOUS
<1>3. 1 \in Nat \ {0}
  OBVIOUS
<1>4. Edits(b, v) /\ TOK(v)
  BY <1>2, <1>3, CursorEdits, EditsOK
<1>5. CASE Edits(v, Index(v))
  BY <1>1, <1>2, <1>4, <1>5, EditsThen DEF NextLine, Writes, Edits
<1>6. CASE Feeds(v, Index(v))
  <2>1. PICK u : u = Index(v)
    OBVIOUS
  <2>2. Fed(v, u) /\ PlaceOK(u)
    BY <1>6, <2>1 DEF Feeds
  <2>3. /\ SameSizes(b, v) /\ SameLog(b, v) /\ v.lines = b.lines /\ v.rows = b.rows
        /\ b.rows \in [Places(b.height) -> RowRecords] /\ MemoryOK(b)
    BY <1>2, Bounds DEF CarriageReturn, Fields, SameSizes, SameLog, TOK, MemoryOK, MemoryTyped
  <2>4. Fed(b, u)
    BY <2>2, <2>3, FedAfter
  <2>5. QED  BY <1>1, <1>2, <2>1, <2>2, <2>4 DEF NextLine, Writes
<1>7. QED  BY <1>1, <1>4, <1>5, <1>6, IndexFeeds

(* f_put *)
LEMMA PutWrites ==
  ASSUME NEW b, TOK(b), NEW c \in Characters PROVE Writes(b, Put(b, c))
<1> DEFINE n    == Columns(c)
           wrap == b.wraparound /\ b.x + n > b.width
           here == IF wrap THEN NextLine(Wrap(b, b.y)) ELSE b
           put  == PutIn(here, here.x, here.y, c, n, b.insert)
           u    == [put EXCEPT !.x = @ + n]
<1>1. Put(b, c) = u
  BY DEF Put
<1>2. n \in Nat
  BY DEF Columns
<1> HIDE DEF wrap
<1>3. /\ PlaceOK(here)
      /\ Local(b, here) \/ (Fed(b, here) /\ here.y = b.height - 1)
  <2>1. CASE ~wrap
    <3>1. Local(b, b) /\ SamePlace(b, b)
      BY Bounds, LocalSame DEF TOK, SameMemory, SameSizes, SameLog, SamePlace
    <3>2. QED  BY <2>1, <3>1 DEF TOK
  <2>2. CASE wrap
    <3>1. PICK w : w = Wrap(b, b.y)
      OBVIOUS
    <3>2. PICK v : v = CarriageReturn(w)
      OBVIOUS
    <3>3. here = Index(v)
      BY <2>2, <3>1, <3>2 DEF NextLine
    <3> HIDE DEF here
    <3>4. b.y \in Lengths(b) /\ MemoryOK(b)
      BY Bounds DEF TOK
    <3>5. /\ RowEdited(b, w, b.y) /\ SamePlace(b, w)
          /\ \A p \in Places(b.height) : w.rows[p].cells = b.rows[p].cells
      BY <3>1, <3>4, WrappedRow
    <3>6. Edits(b, w) /\ TOK(w)
      BY <3>4, <3>5, LocalRow, EditsKept, EditsOK
    <3>7. 1 \in Nat \ {0}
      OBVIOUS
    <3>8. Edits(w, v) /\ Edits(b, v) /\ TOK(v)
      BY <3>2, <3>6, <3>7, CursorEdits, EditsThen, EditsOK
    <3>9. CASE Edits(v, Index(v))
      BY <3>3, <3>8, <3>9, EditsThen DEF Edits
    <3>10. CASE Feeds(v, Index(v))
      <4>1. Fed(v, here) /\ PlaceOK(here) /\ v.y = v.height - 1 /\ here.y = v.y
        BY <3>3, <3>10 DEF Feeds
      <4>2. SameMemory(w, v) /\ v.y = w.y
        BY <3>2, <3>6, Bounds DEF CarriageReturn, Fields, SameMemory, SameSizes, SameLog
      <4>3. /\ SameSizes(b, v) /\ SameLog(b, v) /\ v.lines = b.lines /\ v.rows = w.rows
            /\ v.y = b.y /\ b.y = b.height - 1
        BY <3>5, <4>1, <4>2 DEF RowEdited, SamePlace, SameMemory, SameSizes, SameLog
      <4>4. /\ b.rows \in [Places(b.height) -> RowRecords]
            /\ \A p \in Places(b.height) :
                 /\ v.rows[p].cells = b.rows[p].cells
                 /\ p # Screen(b)[b.height - 1] => v.rows[p] = b.rows[p]
        BY <3>4, <3>5, <4>3 DEF RowEdited, MemoryOK, MemoryTyped
      <4>5. Fed(b, here)
        BY <3>4, <4>1, <4>3, <4>4, FedAfter
      <4>6. QED  BY <4>1, <4>3, <4>5
    <3>11. QED  BY <3>8, <3>9, <3>10, IndexFeeds
  <2>3. QED  BY <2>1, <2>2
<1> HIDE DEF here
<1>4. TOK(here)
  BY <1>3, LocalOK, FedOK DEF TOK
<1>5. RowEdited(here, put, here.y) /\ SamePlace(here, put) /\ here.y \in Lengths(here) /\ here.x \in Nat
  <2>1. here.y \in Lengths(here) /\ MemoryOK(here) /\ here.x \in Nat
    BY <1>4, Bounds DEF TOK
  <2>2. QED  BY <2>1, RowChanges
<1>6. TOK(put) /\ put.x = here.x
  BY <1>4, <1>5, LocalRow, EditsKept, EditsOK DEF TOK, SamePlace
<1> HIDE DEF put, n
<1>7. SameMemory(put, u) /\ PlaceOK(u)
  <2>1. Goes(put, u, put.x + n, put.y)
    BY <1>6, Bounds DEF Fields, Goes, SameMemory, SameSizes, SameLog
  <2>2. /\ put.x + n \in Nat /\ put.y \in Int /\ Top(put) <= put.y /\ put.y < Bottom(put)
        /\ put.y < put.height
    BY SMTT(30), <1>2, <1>6, Bounds
  <2>3. QED  BY <1>6, <2>1, <2>2, GoesOK DEF Edits, Goes
<1> HIDE DEF u
<1>8. RowEdited(here, u, here.y)
  BY <1>5, <1>7, MemoryThen
<1>9. CASE Local(b, here)
  BY <1>1, <1>4, <1>5, <1>7, <1>8, <1>9, LocalRow, LocalThen DEF TOK, Writes
<1>10. CASE Fed(b, here) /\ here.y = b.height - 1
  <2>1. RowEdited(here, u, b.height - 1) /\ MemoryOK(b)
    BY <1>8, <1>10 DEF TOK
  <2>2. Fed(b, u)
    BY <1>10, <2>1, FedThen
  <2>3. QED  BY <1>1, <1>7, <2>2 DEF Writes
<1>11. QED  BY <1>3, <1>9, <1>10

(* What a character does leaves the terminal in order. *)
LEMMA WritesOK ==
  ASSUME NEW b, NEW u, TOK(b), Writes(b, u) PROVE TOK(u)
BY LocalOK, FedOK DEF TOK, Writes

-----------------------------------------------------------------------------
(* The screen s is shown; the alternate one empty. *)
Shows(b, u, s) ==
  /\ DOMAIN u = Fields /\ u.width = b.width /\ u.height = b.height /\ u.current = s
  /\ SameLog(b, u) /\ u.lines = b.lines /\ DOMAIN u.rows = Places(b.height)
  /\ \A p \in Places(b.height) :
       u.rows[p] = IF s = "alternate" /\ \E i \in Lengths(b) : b.lines["alternate"][i] = p
                   THEN EmptyRow ELSE b.rows[p]

(* f_alternate: the members after it. *)
LEMMA Switched ==
  ASSUME NEW b, TOK(b), NEW s \in Screens
  PROVE  LET u == SwitchTo(b, s) IN
         /\ TOK(u) /\ DOMAIN u = Fields /\ u.width = b.width /\ u.height = b.height /\ u.current = s
         /\ SameLog(b, u) /\ u.lines = b.lines /\ u.rows = b.rows /\ SamePlace(b, u)
<1> DEFINE u == SwitchTo(b, s)
<1>1. /\ DOMAIN u = Fields /\ u.width = b.width /\ u.height = b.height /\ u.current = s
      /\ SameLog(b, u) /\ u.lines = b.lines /\ u.rows = b.rows /\ SamePlace(b, u)
  BY Bounds DEF Fields, SameLog, SamePlace, SwitchTo, Invalidate
<1> HIDE DEF u
<1>2. MemoryOK(u)
  BY <1>1 DEF TOK, MemoryOK, MemoryTyped, Apart, AllWhole, SameLog, Lengths
<1>3. PlaceOK(u)
  BY <1>1 DEF TOK, PlaceOK, SamePlace, RegionEnd
<1>4. QED  BY <1>1, <1>2, <1>3 DEF TOK, u

(* f_alternate(true): the cursor is saved, and the alternate screen shown  *)
(* and erased.                                                             *)
LEMMA EnterShows ==
  ASSUME NEW b, TOK(b)
  PROVE  TOK(EnterAlternate(b)) /\ Shows(b, EnterAlternate(b), "alternate")
<1> DEFINE a == SaveCursor(b)
           w == SwitchTo(a, "alternate")
           e == EraseRows(w, 0, b.height)
           c == [e EXCEPT !.x = 0, !.y = 0]
           u == WholeRegion(c)
<1>1. EnterAlternate(b) = u
  BY DEF EnterAlternate
<1>2. TOK(a) /\ SameMemory(b, a)
  <2>1. TOK(a)
    BY SaveEdits, EditsOK
  <2>2. SameMemory(b, a)
    BY Bounds DEF Fields, SameMemory, SameSizes, SameLog, SaveCursor
  <2>3. QED  BY <2>1, <2>2
<1> HIDE DEF a
<1>3. "alternate" \in Screens
  BY DEF Screens
<1>4. /\ TOK(w) /\ DOMAIN w = Fields /\ w.width = b.width /\ w.height = b.height /\ w.current = "alternate"
      /\ SameLog(b, w) /\ w.lines = b.lines /\ w.rows = b.rows
  BY <1>2, <1>3, Switched DEF SameMemory, SameSizes, SameLog
<1> HIDE DEF w
<1>5. /\ DOMAIN e = Fields /\ e.width = b.width /\ e.height = b.height /\ e.current = "alternate"
      /\ SameLog(b, e) /\ e.lines = b.lines /\ e.rows = Cleared(w, 0..b.height - 1)
  <2>1. 0 + b.height - 1 = b.height - 1
    BY Bounds
  <2>2. QED  BY <1>4, <2>1 DEF Fields, SameLog, EraseRows, Invalidate
<1>6. Edits(w, e) /\ TOK(e)
  <2>1. 0 \in Nat /\ b.height \in Nat /\ 0 + b.height <= w.height
    BY <1>4, Bounds
  <2>2. Local(w, e) /\ SamePlace(w, e)
    BY <1>4, <2>1, ErasedRows DEF TOK
  <2>3. QED  BY <1>4, <2>2, EditsKept, EditsOK
<1> HIDE DEF e
<1>7. u = [e EXCEPT !.x = 0, !.y = 0, !.regionBegin = 0, !.regionSize = e.height]
  BY <1>5 DEF Fields, WholeRegion
<1>8. TOK(u)
  <2>1. Edits(e, u)
    BY <1>6, <1>7, WholeEdits
  <2> HIDE DEF u
  <2>2. QED  BY <1>6, <2>1, EditsOK
<1>9. /\ DOMAIN u = Fields /\ u.width = b.width /\ u.height = b.height /\ u.current = "alternate"
      /\ SameLog(b, u) /\ u.lines = b.lines /\ u.rows = Cleared(w, 0..b.height - 1)
  BY <1>5, <1>7 DEF Fields, SameLog
<1> HIDE DEF u
<1>10. /\ DOMAIN w.rows = Places(b.height) /\ Screen(w) = b.lines["alternate"]
       /\ Lengths(b) = 0..b.height - 1
  BY <1>4 DEF Screen, TOK, MemoryOK, MemoryTyped, Lengths
<1>11. Shows(b, u, "alternate")
  BY <1>4, <1>9, <1>10 DEF Shows, Cleared
<1>12. QED  BY <1>1, <1>8, <1>11

(* f_alternate(false): the normal screen is shown, and the cursor          *)
(* restored.                                                               *)
LEMMA LeaveShows ==
  ASSUME NEW b, TOK(b), NEW cursor \in [x : Nat, y : Nat], Lands(b, LeaveAlternate(b, cursor))
  PROVE  TOK(LeaveAlternate(b, cursor)) /\ Shows(b, LeaveAlternate(b, cursor), "normal")
<1> DEFINE w == SwitchTo(b, "normal")
           r == Restore(w, cursor)
           u == WholeRegion(r)
<1>1. LeaveAlternate(b, cursor) = u
  BY DEF LeaveAlternate
<1>2. "normal" \in Screens
  BY DEF Screens
<1>3. /\ TOK(w) /\ DOMAIN w = Fields /\ w.width = b.width /\ w.height = b.height /\ w.current = "normal"
      /\ SameLog(b, w) /\ w.lines = b.lines /\ w.rows = b.rows /\ SamePlace(b, w)
  BY <1>2, Switched
<1> HIDE DEF w
<1>4. TOK(r)
  <2>1. DOMAIN r = Fields
    BY <1>3 DEF Restore, RestoreCursor
  <2>2. u.y = r.y
    BY <2>1 DEF Fields, WholeRegion
  <2>3. RegionFits(b) <=> RegionFits(w)
    BY <1>3 DEF RegionFits, RegionEnd, SamePlace
  <2>4. Lands(b, u)
    BY <1>1
  <2> HIDE DEF r, u
  <2>5. Lands(w, r)
    BY <1>3, <2>2, <2>3, <2>4 DEF Lands
  <2>6. QED  BY <1>3, <2>5, RestoreEdits, EditsOK DEF r
<1>5. SameMemory(w, r)
  BY <1>3 DEF Fields, SameMemory, SameSizes, SameLog, Restore, RestoreCursor
<1> HIDE DEF r
<1>6. TOK(u)
  BY <1>4, WholeEdits, EditsOK
<1>7. SameMemory(r, u)
  BY <1>4, Bounds DEF Fields, SameMemory, SameSizes, SameLog, WholeRegion
<1> HIDE DEF u
<1>8. DOMAIN b.rows = Places(b.height)
  BY DEF TOK, MemoryOK, MemoryTyped
<1>9. Shows(b, u, "normal")
  BY <1>3, <1>5, <1>7, <1>8 DEF Shows, SameMemory, SameSizes, SameLog
<1>10. QED  BY <1>1, <1>6, <1>9

-----------------------------------------------------------------------------
(* The places that are handed out first are apart. *)
FirstAt(b) == b.log = FirstPlaces(b.height).log /\ b.lines = FirstPlaces(b.height).lines

(* The first places are one for each row. *)
LEMMA FirstApart ==
  ASSUME NEW b, b.height \in Nat \ {0, 1}, FirstAt(b)
  PROVE  /\ Apart(b) /\ b.log \in [Slots -> Places(b.height)]
         /\ b.lines \in [Screens -> [Lengths(b) -> Places(b.height)]]
<1> DEFINE H == b.height
           C == LogCapacity
<1>1. /\ C \in Nat \ {0} /\ H \in Nat \ {0, 1} /\ Slots = 0..C - 1 /\ Places(H) = 0..C + 2 * H - 1
      /\ Lengths(b) = 0..H - 1 /\ Screens = {"normal", "alternate"} /\ "normal" # "alternate"
  BY LogAssumption DEF Slots, Places, Lengths, Screens
<1>2. b.log = [i \in Slots |-> i]
  BY DEF FirstAt, FirstPlaces
<1>3. /\ DOMAIN b.lines = Screens
      /\ b.lines["normal"] = [i \in 0..H - 1 |-> C + i] /\ b.lines["alternate"] = [i \in 0..H - 1 |-> C + i + H]
  <2>1. b.lines = [s \in Screens |-> [i \in 0..H - 1 |-> C + i + IF s = "normal" THEN 0 ELSE H]]
    BY DEF FirstAt, FirstPlaces
  <2>2. /\ b.lines["normal"] = [i \in 0..H - 1 |-> C + i + 0]
        /\ b.lines["alternate"] = [i \in 0..H - 1 |-> C + i + H]
    BY <1>1, <2>1
  <2>3. \A i \in 0..H - 1 : C + i + 0 = C + i
    BY <1>1
  <2>4. DOMAIN b.lines = Screens
    BY <2>1
  <2>5. QED  BY <2>2, <2>3, <2>4
<1> HIDE DEF H, C
<1>4. /\ \A k \in Slots : b.log[k] = k
      /\ \A i \in 0..H - 1 : b.lines["normal"][i] = C + i /\ b.lines["alternate"][i] = C + i + H
  BY <1>1, <1>2, <1>3
<1>5. b.log \in [Slots -> Places(H)]
  <2>1. \A k \in Slots : k \in Places(H)
    BY <1>1
  <2>2. QED  BY <1>2, <2>1
<1>6. b.lines \in [Screens -> [0..H - 1 -> Places(H)]]
  <2>1. \A i \in 0..H - 1 : C + i \in Places(H) /\ C + i + H \in Places(H)
    BY <1>1
  <2>2. b.lines["normal"] \in [0..H - 1 -> Places(H)] /\ b.lines["alternate"] \in [0..H - 1 -> Places(H)]
    BY <1>3, <2>1
  <2>3. b.lines = [s \in Screens |-> b.lines[s]]
    BY DEF FirstAt, FirstPlaces
  <2>4. QED  BY <1>1, <2>2, <2>3
<1>7. ASSUME NEW i \in Lengths(b), NEW j \in Lengths(b)
      PROVE  /\ b.lines["normal"][i] = b.lines["normal"][j] => i = j
             /\ b.lines["alternate"][i] = b.lines["alternate"][j] => i = j
             /\ b.lines["normal"][i] # b.lines["alternate"][j]
  <2>1. i \in 0..H - 1 /\ j \in 0..H - 1
    BY <1>1
  <2>2. PICK k \in Nat, l \in Nat : k = i /\ l = j /\ k < H /\ l < H
    BY <1>1, <2>1
  <2>3. /\ C + k = C + l => k = l
        /\ C + k + H = C + l + H => k = l
        /\ C + k # C + l + H
    BY <1>1, <2>2
  <2>4. QED  BY <1>4, <2>1, <2>2, <2>3
<1>8. ASSUME NEW i \in Lengths(b), NEW k \in Slots
      PROVE  b.lines["normal"][i] # b.log[k] /\ b.lines["alternate"][i] # b.log[k]
  BY SMTT(30), <1>1, <1>4
<1>9. ASSUME NEW p \in Places(H)
      PROVE  \/ \E k \in Slots : b.log[k] = p
             \/ \E s \in Screens, i \in Lengths(b) : b.lines[s][i] = p
  <2>1. CASE p < C
    BY <1>1, <1>4, <2>1, SMTT(30)
  <2>2. CASE C <= p /\ p < C + H
    <3>1. p - C \in 0..H - 1 /\ C + (p - C) = p
      BY <1>1, <2>2
    <3>2. QED  BY <1>1, <1>4, <3>1
  <2>3. CASE C + H <= p
    <3>1. p - C - H \in 0..H - 1 /\ C + (p - C - H) + H = p
      BY <1>1, <2>3
    <3>2. QED  BY <1>1, <1>4, <3>1
  <2>4. QED  BY <1>1, <2>1, <2>2, <2>3
<1>10. Apart(b)
  <2>1. \A i, j \in Slots : b.log[i] = b.log[j] => i = j
    BY <1>4
  <2>2. \A s \in Screens : \A i, j \in Lengths(b) : b.lines[s][i] = b.lines[s][j] => i = j
    BY <1>1, <1>7
  <2>3. \A s \in Screens : \A i \in Lengths(b), k \in Slots : b.lines[s][i] # b.log[k]
    BY <1>1, <1>8
  <2>4. \A i, j \in Lengths(b) : b.lines["normal"][i] # b.lines["alternate"][j]
    BY <1>7
  <2>5. QED  BY <1>9, <2>1, <2>2, <2>3, <2>4 DEF Apart, H
<1>11. QED  BY <1>1, <1>5, <1>6, <1>10 DEF H

(* The first stops are within the bytes that hold them. *)
LEMMA TabsFit ==
  ASSUME NEW m \in Nat, NEW n \in Nat PROVE FirstTabs(m, n) \subseteq 0..8 * n - 1
BY DEF FirstTabs

(* The constructors make a terminal that is in order. *)
LEMMA NewOK ==
  ASSUME NEW width \in Widths, NEW height \in Heights
  PROVE  LET u == NewTerminal(width, height) IN TOK(u) /\ u.calls = <<>>
<1> DEFINE u == NewTerminal(width, height)
           a == NewBuffer(width, height)
           m == [insert |-> FALSE, origin |-> FALSE, wraparound |-> TRUE,
                 regionBegin |-> 0, regionSize |-> height, tabs |-> FirstTabs(0, Bytes(width))]
<1>1. width \in Nat \ {0} /\ height \in Nat \ {0, 1}
  BY WindowAssumption
<1>2. u = [k \in DOMAIN a \cup DOMAIN m |-> IF k \in DOMAIN a THEN a[k] ELSE m[k]]
  BY DEF NewTerminal
<1>3. /\ DOMAIN a = {"width", "height", "rows", "log", "begin", "size", "lines", "current", "saved",
                     "x", "y", "calls"}
      /\ a.width = width /\ a.height = height /\ a.rows = [p \in Places(height) |-> EmptyRow]
      /\ a.log = FirstPlaces(height).log /\ a.begin = 0 /\ a.size = 0
      /\ a.lines = FirstPlaces(height).lines /\ a.current = "normal"
      /\ a.saved = [s \in Screens |-> {}] /\ a.x = 0 /\ a.y = 0 /\ a.calls = <<>>
  BY DEF NewBuffer
<1>4. /\ DOMAIN m = {"insert", "origin", "wraparound", "regionBegin", "regionSize", "tabs"}
      /\ m.insert = FALSE /\ m.origin = FALSE /\ m.wraparound = TRUE
      /\ m.regionBegin = 0 /\ m.regionSize = height /\ m.tabs = FirstTabs(0, Bytes(width))
  OBVIOUS
<1> HIDE DEF a, m
<1>5. /\ DOMAIN u = DOMAIN a \cup DOMAIN m
      /\ \A k \in DOMAIN a \cup DOMAIN m : u[k] = IF k \in DOMAIN a THEN a[k] ELSE m[k]
  BY <1>2
<1> HIDE DEF u
<1>6. /\ DOMAIN u = Fields
      /\ u.width = width /\ u.height = height /\ u.rows = [p \in Places(height) |-> EmptyRow]
      /\ u.log = FirstPlaces(height).log /\ u.begin = 0 /\ u.size = 0
      /\ u.lines = FirstPlaces(height).lines /\ u.current = "normal"
      /\ u.saved = [s \in Screens |-> {}] /\ u.x = 0 /\ u.y = 0 /\ u.calls = <<>>
  BY <1>3, <1>4, <1>5 DEF Fields
<1>7. /\ u.origin = FALSE /\ u.regionBegin = 0 /\ u.regionSize = height
      /\ u.tabs = FirstTabs(0, Bytes(width))
  BY <1>3, <1>4, <1>5
<1>8. /\ Apart(u) /\ u.log \in [Slots -> Places(height)]
      /\ u.lines \in [Screens -> [Lengths(u) -> Places(height)]]
  BY <1>1, <1>6, FirstApart DEF FirstAt
<1>9. MemoryTyped(u)
  BY <1>6, <1>8, Empty, LogAssumption DEF MemoryTyped, Slots, Screens
<1>10. AllWhole(u)
  BY <1>1, <1>6, Empty DEF AllWhole
<1>11. PlaceOK(u)
  <2>1. Bytes(width) \in Nat /\ 0 \in Nat
    BY <1>1 DEF Bytes
  <2>2. u.tabs \subseteq 0..8 * Bytes(u.width) - 1
    BY <1>6, <1>7, <2>1, TabsFit
  <2>3. RegionEnd(u) = height
    BY <1>1, <1>7 DEF RegionEnd
  <2>4. u.saved \in [Screens -> SUBSET [x : Nat, y : Nat]]
    BY <1>6
  <2>5. u.x = 0 /\ u.y = 0 /\ u.height = height
    BY <1>6
  <2>6. height \in Nat /\ height >= 2 /\ height <= height /\ 0 \in 0..height - 1
    BY <1>1
  <2>7. u.origin \in BOOLEAN /\ ~u.origin
    BY <1>7
  <2>8. QED  BY <1>7, <2>2, <2>3, <2>4, <2>5, <2>6, <2>7 DEF PlaceOK
<1>12. QED  BY <1>6, <1>8, <1>9, <1>10, <1>11 DEF TOK, MemoryOK, u

(* A row is copied to the new memory. *)
LEMMA CopiedRow ==
  ASSUME NEW b, MemoryOK(b), NEW width \in Nat, NEW p \in Places(b.height), NEW row,
         row = [cells |-> Narrowed(b.rows[p].cells, width), wrapped |-> FALSE]
  PROVE  row \in RowRecords /\ Whole(row.cells, width)
<1>1. b.rows[p].cells \in Seq(Cells) /\ Whole(b.rows[p].cells, b.width) /\ b.width \in Nat
  BY Numbers DEF MemoryOK, MemoryTyped, AllWhole, RowRecords
<1>2. PICK cells : cells = b.rows[p].cells
  OBVIOUS
<1>3. Narrowed(cells, width) \in Seq(Cells) /\ Whole(Narrowed(cells, width), width)
  BY <1>1, <1>2, NarrowedWhole
<1>4. QED  BY <1>2, <1>3 DEF RowRecords

(* f_resize of the buffer.  The rows of the log take the first places. *)
LEMMA ResizedBuffer ==
  ASSUME NEW b, TOK(b), NEW width \in Widths, NEW height \in Heights
  PROVE  LET u == ResizeBuffer(b, width, height) IN
         /\ MemoryOK(u) /\ u.width = width /\ u.height = height
         /\ u.current = b.current /\ u.begin = b.begin /\ u.size = b.size /\ u.saved = b.saved
         /\ u.x \in Nat /\ u.y \in 0..height - 1 /\ u.origin = b.origin /\ u.tabs = b.tabs
         /\ u.calls = b.calls
<1> DEFINE u == ResizeBuffer(b, width, height)
           Copied(p) == [cells |-> Narrowed(b.rows[p].cells, width), wrapped |-> FALSE]
           Line(s, i) == IF i < b.height THEN Copied(b.lines[s][i]) ELSE EmptyRow
           rows == [p \in Places(height) |->
                      CASE p < LogCapacity -> Copied(b.log[p])
                        [] p \in LogCapacity..(LogCapacity + height) - 1 -> Line("normal", p - LogCapacity)
                        [] OTHER -> Line("alternate", p - (LogCapacity + height))]
<1>1. width \in Nat \ {0} /\ height \in Nat \ {0, 1} /\ LogCapacity \in Nat \ {0} /\ DOMAIN b = Fields
      /\ b.height \in Nat /\ b.x \in Nat /\ b.y \in 0..b.height - 1 /\ b.width \in Nat
  BY WindowAssumption, LogAssumption, Bounds
<1>2. CASE width = b.width /\ height = b.height
  BY <1>1, <1>2 DEF ResizeBuffer, TOK
<1>3. CASE ~(width = b.width /\ height = b.height)
  <2>1. u = [b EXCEPT !.width = width, !.height = height, !.rows = rows, !.log = FirstPlaces(height).log,
                      !.lines = FirstPlaces(height).lines, !.x = Least(b.x, width - 1),
                      !.y = Least(b.y, height - 1)]
    BY <1>3 DEF ResizeBuffer
  <2> HIDE DEF u, rows
  <2>2. /\ DOMAIN u = Fields /\ u.width = width /\ u.height = height /\ u.rows = rows
        /\ u.log = FirstPlaces(height).log /\ u.lines = FirstPlaces(height).lines
        /\ u.x = Least(b.x, width - 1) /\ u.y = Least(b.y, height - 1)
        /\ u.current = b.current /\ u.begin = b.begin /\ u.size = b.size /\ u.saved = b.saved
        /\ u.origin = b.origin /\ u.tabs = b.tabs /\ u.calls = b.calls
    BY <1>1, <2>1 DEF Fields
  <2>3. u.x \in Nat /\ u.y \in 0..height - 1
    BY <1>1, <2>2 DEF Least
  <2>4. /\ Apart(u) /\ u.log \in [Slots -> Places(height)]
        /\ u.lines \in [Screens -> [Lengths(u) -> Places(height)]]
    BY <1>1, <2>2, FirstApart DEF FirstAt
  <2>5. ASSUME NEW p \in Places(b.height)
        PROVE  Copied(p) \in RowRecords /\ Whole(Copied(p).cells, width)
    BY <1>1, CopiedRow DEF TOK
  <2>6. /\ b.log \in [Slots -> Places(b.height)]
        /\ b.lines \in [Screens -> [Lengths(b) -> Places(b.height)]]
    BY DEF TOK, MemoryOK, MemoryTyped
  <2> HIDE DEF Copied
  <2>7. ASSUME NEW s \in Screens, NEW i \in Nat
        PROVE  Line(s, i) \in RowRecords /\ Whole(Line(s, i).cells, width)
    <3>1. CASE i < b.height
      <4>1. i \in Lengths(b)
        BY <1>1, <3>1 DEF Lengths
      <4>2. b.lines[s][i] \in Places(b.height)
        BY <2>6, <4>1
      <4>3. QED  BY <2>5, <3>1, <4>2
    <3>2. CASE ~(i < b.height)
      BY <1>1, <3>2, Empty
    <3>3. QED  BY <3>1, <3>2
  <2> HIDE DEF Line
  <2>8. ASSUME NEW p \in Places(height)
        PROVE  rows[p] \in RowRecords /\ Whole(rows[p].cells, width)
    <3>1. p \in 0..LogCapacity + 2 * height - 1 /\ "normal" \in Screens /\ "alternate" \in Screens
      BY DEF Places, Screens
    <3>2. CASE p < LogCapacity
      <4>1. p \in Slots /\ p \notin LogCapacity..(LogCapacity + height) - 1
        BY <1>1, <3>1, <3>2 DEF Slots
      <4>2. rows[p] = Copied(b.log[p])
        BY <3>2, <4>1 DEF rows
      <4>3. QED  BY <2>5, <2>6, <4>1, <4>2
    <3>3. CASE LogCapacity <= p /\ p <= LogCapacity + height - 1
      <4>1. p - LogCapacity \in Nat /\ ~(p < LogCapacity) /\ p \in LogCapacity..(LogCapacity + height) - 1
        BY <1>1, <3>1, <3>3
      <4>2. rows[p] = Line("normal", p - LogCapacity)
        BY <4>1 DEF rows
      <4>3. QED  BY <2>7, <3>1, <4>1, <4>2
    <3>4. CASE LogCapacity + height - 1 < p
      <4>1. /\ p - (LogCapacity + height) \in Nat /\ ~(p < LogCapacity)
            /\ p \notin LogCapacity..(LogCapacity + height) - 1
        BY <1>1, <3>1, <3>4
      <4>2. rows[p] = Line("alternate", p - (LogCapacity + height))
        BY <4>1 DEF rows
      <4>3. QED  BY <2>7, <3>1, <4>1, <4>2
    <3>5. QED  BY <1>1, <3>1, <3>2, <3>3, <3>4
  <2>9. u.rows \in [Places(height) -> RowRecords]
    <3>1. rows = [p \in Places(height) |-> rows[p]]
      BY DEF rows
    <3>2. QED  BY <2>2, <2>8, <3>1
  <2>10. AllWhole(u)
    BY <2>2, <2>8 DEF AllWhole
  <2>11. MemoryTyped(u)
    BY <2>2, <2>4, <2>9 DEF TOK, MemoryOK, MemoryTyped
  <2>12. QED  BY <2>2, <2>3, <2>4, <2>10, <2>11 DEF MemoryOK, u
<1>4. QED  BY <1>2, <1>3

(* f_resize of the terminal *)
LEMMA ResizeOK ==
  ASSUME NEW b, TOK(b), NEW width \in Widths, NEW height \in Heights
  PROVE  TOK(Resize(b, width, height)) /\ Resize(b, width, height).calls = b.calls
<1> DEFINE r == ResizeBuffer(b, width, height)
           m == Least(Bytes(b.width), Bytes(width))
           tabs == {x \in b.tabs : x < 8 * m} \cup FirstTabs(m, Bytes(width))
           u == Resize(b, width, height)
<1>1. /\ MemoryOK(r) /\ r.width = width /\ r.height = height
      /\ r.current = b.current /\ r.begin = b.begin /\ r.size = b.size /\ r.saved = b.saved
      /\ r.x \in Nat /\ r.y \in 0..height - 1 /\ r.origin = b.origin /\ r.tabs = b.tabs
      /\ r.calls = b.calls
  BY ResizedBuffer
<1>2. u = [WholeRegion(r) EXCEPT !.tabs = {x \in @ : x < 8 * m} \cup FirstTabs(m, Bytes(width))]
  BY DEF Resize
<1> HIDE DEF r, u
<1>3. DOMAIN r = Fields /\ height \in Nat \ {0, 1} /\ width \in Nat \ {0} /\ b.width \in Nat
  BY <1>1, WindowAssumption, Bounds DEF MemoryOK, MemoryTyped
<1>4. /\ SameMemory(r, u) /\ u.saved = b.saved /\ u.x = r.x /\ u.y = r.y /\ u.origin = b.origin
      /\ u.regionBegin = 0 /\ u.regionSize = height /\ u.tabs = tabs /\ u.calls = b.calls
  BY <1>1, <1>2, <1>3 DEF Fields, SameMemory, SameSizes, SameLog, WholeRegion
<1>5. MemoryOK(u) /\ u.width = width /\ u.height = height
  BY <1>1, <1>4, LocalSame, LocalOK DEF SameMemory, SameSizes
<1>6. tabs \subseteq 0..8 * Bytes(width) - 1
  <2>1. Bytes(width) \in Nat /\ Bytes(b.width) \in Nat
    BY <1>3 DEF Bytes
  <2>2. m \in Nat /\ m <= Bytes(width)
    BY <2>1 DEF Least
  <2>3. b.tabs \subseteq Nat
    <3>1. b.tabs \subseteq 0..8 * Bytes(b.width) - 1
      BY DEF TOK, PlaceOK
    <3>2. QED  BY <3>1
  <2> HIDE DEF m
  <2>4. FirstTabs(m, Bytes(width)) \subseteq 0..8 * Bytes(width) - 1
    <3>1. PICK n \in Nat : n = Bytes(width)
      BY <2>1
    <3>2. QED  BY <2>2, <3>1, TabsFit
  <2>5. \A x \in b.tabs : x < 8 * m => x \in 0..8 * Bytes(width) - 1
    BY <2>1, <2>2, <2>3
  <2>6. QED  BY <2>4, <2>5
<1> HIDE DEF tabs
<1>7. PlaceOK(u)
  <2>1. b.saved \in [Screens -> SUBSET [x : Nat, y : Nat]] /\ b.origin \in BOOLEAN
    BY DEF TOK, PlaceOK
  <2>2. RegionEnd(u) = height
    BY <1>3, <1>4 DEF RegionEnd
  <2>3. QED  BY <1>1, <1>3, <1>4, <1>5, <1>6, <2>1, <2>2 DEF PlaceOK
<1>8. QED  BY <1>4, <1>5, <1>7 DEF TOK, u

-----------------------------------------------------------------------------
(* What is kept of the terminal. *)
Kempt == TOK(t) /\ t.calls = <<>>

(* What a control function may do to the rows. *)
Does(b, u) == TOK(u) /\ (Writes(b, u) \/ \E s \in Screens : Shows(b, u, s))

(* An edit is something a control function may do. *)
LEMMA DoesEdits ==
  ASSUME NEW b, NEW u, TOK(b), Edits(b, u) PROVE Does(b, u)
BY EditsOK DEF Does, Writes, Edits

(* So is what a character does. *)
LEMMA DoesWrites ==
  ASSUME NEW b, NEW u, TOK(b), Writes(b, u) PROVE Does(b, u)
BY WritesOK DEF Does

(* The host is told. *)
LEMMA BecomesOK ==
  ASSUME NEW u, TOK(u), Becomes(u)
  PROVE  Kempt' /\ SameMemory(u, t') /\ SamePlace(u, t')
<1>1. t' = [u EXCEPT !.calls = <<>>]
  BY DEF Becomes
<1>2. SameMemory(u, t') /\ SamePlace(u, t') /\ t'.calls = <<>>
  BY <1>1, Bounds DEF Fields, SameMemory, SameSizes, SameLog, SamePlace
<1>3. TOK(t')
  <2>1. PICK v : v = t'
    OBVIOUS
  <2>2. Local(u, v) /\ SamePlace(u, v)
    BY <1>2, <2>1, LocalSame DEF TOK
  <2>3. QED  BY <2>1, <2>2, EditsKept, EditsOK
<1>4. QED  BY <1>2, <1>3 DEF Kempt

(* f_invalidate only tells the host. *)
LEMMA InvalidateEdits ==
  ASSUME NEW b, TOK(b), NEW y, NEW n
  PROVE  Edits(b, Invalidate(b, y, n))
<1>1. SameMemory(b, Invalidate(b, y, n)) /\ SamePlace(b, Invalidate(b, y, n))
  BY ToldMemory DEF TOK, MemoryOK
<1>2. QED  BY <1>1, LocalSame, EditsKept DEF TOK

(* What a control function comes to: one of these; or, in a region that     *)
(* reaches below the screen only, it goes astray.                          *)
Answered ==
  \/ \E u : Does(t, u) /\ Becomes(u) /\ UNCHANGED astray
  \/ GoAstray /\ ~RegionFits(t)

LEMMA ControlAnswers == ASSUME NEW u, Does(t, u), Control(u) PROVE Answered
BY DEF Control, Answered

(* The rows of the screen are as many as before. *)
LEMMA DoesHeight ==
  ASSUME NEW b, NEW u, Does(b, u) PROVE u.height = b.height /\ u.y \in 0..u.height - 1
BY DEF Does, Writes, Shows, Local, Fed, SameSizes, TOK, PlaceOK

LEMMA MovesAnswers ==
  ASSUME NEW u, Lands(t, u) => Does(t, u), Moves(u), TOK(t) PROVE Answered
<1>1. CASE u.y < t.height
  BY <1>1, ControlAnswers DEF Moves, Lands
<1>2. CASE ~(u.y < t.height)
  <2>1. ASSUME RegionFits(t) PROVE FALSE
    <3>1. u.height = t.height /\ u.y \in 0..u.height - 1
      BY <2>1, DoesHeight DEF Lands
    <3>2. QED  BY <1>2, <3>1, Bounds
  <2>2. QED  BY <1>2, <2>1 DEF Moves, Answered
<1>3. QED  BY <1>1, <1>2

LEMMA ScrollsAnswers ==
  ASSUME NEW u, NEW in \in BOOLEAN, (in => RegionFits(t)) => Does(t, u), Scrolls(in, u) PROVE Answered
<1>1. CASE in /\ ~RegionFits(t)
  BY <1>1 DEF Scrolls, Answered
<1>2. CASE ~(in /\ ~RegionFits(t))
  BY <1>2, ControlAnswers DEF Scrolls
<1>3. QED  BY <1>1, <1>2

(* The control functions for tabs and lines. *)
LEMMA FormatDoes ==
  ASSUME TOK(t), Format PROVE Answered
<1>1. 1 \in Nat \ {0}
  OBVIOUS
<1>2. /\ Does(t, BackSpace(t)) /\ Does(t, CarriageReturn(t)) /\ Does(t, Tab(t))
      /\ Does(t, TabSet(t)) /\ Does(t, TabClear(t)) /\ Does(t, TabClearAll(t))
      /\ Does(t, Index(t)) /\ Does(t, NextLine(t))
  BY <1>1, CursorEdits, TabEdits, NextLineWrites, DoesEdits, DoesWrites
<1>3. (t.y = t.regionBegin => RegionFits(t)) => Does(t, ReverseIndex(t))
  BY ReverseEdits, DoesEdits
<1>4. CASE Scrolls(t.y = t.regionBegin, ReverseIndex(t))
  BY <1>3, <1>4, ScrollsAnswers
<1>5. QED  BY <1>2, <1>4, ControlAnswers DEF Format

(* Those that move, save or restore the cursor. *)
LEMMA CursorDoes ==
  ASSUME TOK(t), Cursor PROVE Answered
<1>1. CASE Control(SaveCursor(t))
  BY <1>1, SaveEdits, DoesEdits, ControlAnswers
<1>2. ASSUME NEW cursor \in SavedCursors(t), Moves(Restore(t, cursor)) PROVE Answered
  <2>1. cursor \in [x : Nat, y : Nat]
    BY SavedTyped
  <2>2. Lands(t, Restore(t, cursor)) => Does(t, Restore(t, cursor))
    BY <2>1, RestoreEdits, DoesEdits
  <2>3. QED  BY <1>2, <2>2, MovesAnswers
<1>3. ASSUME NEW p \in Parameters,
             \/ Moves(CursorUp(t, p)) \/ Moves(CursorDown(t, p))
             \/ Moves(CursorForward(t, p)) \/ Moves(CursorBackward(t, p))
             \/ Moves(CursorNextLine(t, p)) \/ Moves(CursorPrecedingLine(t, p))
             \/ Moves(CharacterAbsolute(t, p)) \/ Moves(LineAbsolute(t, p))
             \/ \E q \in Parameters : Moves(CursorPosition(t, p, q))
      PROVE  Answered
  <2>1. p \in Nat \ {0} /\ Parameters \subseteq Nat \ {0}
    BY WindowAssumption DEF Parameters
  <2>2. /\ Does(t, CursorUp(t, p)) /\ (Lands(t, CursorDown(t, p)) => Does(t, CursorDown(t, p)))
        /\ Does(t, CursorForward(t, p)) /\ Does(t, CursorBackward(t, p))
        /\ Does(t, CharacterAbsolute(t, p))
        /\ Lands(t, LineAbsolute(t, p)) => Does(t, LineAbsolute(t, p))
    BY <2>1, CursorEdits, DoesEdits
  <2>3. \A q \in Parameters :
          /\ Lands(t, CursorNextLine(t, p)) => Does(t, CursorNextLine(t, p))
          /\ Does(t, CursorPrecedingLine(t, p))
          /\ Lands(t, CursorPosition(t, p, q)) => Does(t, CursorPosition(t, p, q))
    BY <2>1, CursorsEdit, DoesEdits
  <2>4. QED  BY <1>3, <2>2, <2>3, MovesAnswers
<1>4. QED  BY <1>1, <1>2, <1>3 DEF Cursor

(* Those that erase. *)
LEMMA EraseDoes ==
  ASSUME TOK(t), EraseControl PROVE Answered
<1>1. ASSUME NEW p \in 0..2
      PROVE  Does(t, EraseDisplay(t, p)) /\ Does(t, EraseLine(t, p))
  BY EraseEdits, DoesEdits
<1>2. ASSUME NEW p \in Parameters PROVE Does(t, EraseCharacter(t, p))
  <2>1. p \in Nat
    BY WindowAssumption DEF Parameters
  <2>2. QED  BY <2>1, EraseEdits, DoesEdits
<1>3. QED  BY <1>1, <1>2, ControlAnswers DEF EraseControl

(* Those that insert, delete or scroll. *)
LEMMA InsertDoes ==
  ASSUME TOK(t), InsertControl PROVE Answered
<1>1. ASSUME NEW p \in Parameters
      PROVE  /\ Does(t, InsertCharacter(t, p)) /\ Does(t, DeleteCharacter(t, p))
             /\ (InRegion(t) => RegionFits(t)) => Does(t, InsertLine(t, p)) /\ Does(t, DeleteLine(t, p))
             /\ RegionFits(t) => Does(t, ScrollUpRegion(t, p)) /\ Does(t, ScrollDownRegion(t, p))
  <2>1. p \in Nat
    BY WindowAssumption DEF Parameters
  <2>2. QED  BY <2>1, InsertEdits, DoesEdits
<1>2. ASSUME NEW p \in Parameters, Scrolls(InRegion(t), InsertLine(t, p)) \/ Scrolls(InRegion(t), DeleteLine(t, p))
      PROVE  Answered
  <2>1. InRegion(t) \in BOOLEAN
    BY DEF InRegion
  <2>2. QED  BY <1>1, <1>2, <2>1, ScrollsAnswers
<1>3. ASSUME NEW p \in Parameters, Scrolls(TRUE, ScrollUpRegion(t, p)) \/ Scrolls(TRUE, ScrollDownRegion(t, p))
      PROVE  Answered
  BY <1>1, <1>3, ScrollsAnswers
<1>4. QED  BY <1>1, <1>2, <1>3, ControlAnswers DEF InsertControl

(* A cursor saved on the normal screen has two coordinates. *)
LEMMA SavedNormal ==
  ASSUME TOK(t), NEW cursor \in SavedCursors([t EXCEPT !.current = "normal"])
  PROVE  cursor \in [x : Nat, y : Nat]
<1>1. PICK b : b = [t EXCEPT !.current = "normal"]
  OBVIOUS
<1>2. b.current = "normal" /\ b.saved = t.saved /\ b.width = t.width /\ b.height = t.height
  BY <1>1, Bounds DEF Fields
<1>3. t.saved \in [Screens -> SUBSET [x : Nat, y : Nat]]
  BY DEF TOK, PlaceOK
<1>4. [x : 0..t.width - 1, y : 0..t.height - 1] \subseteq [x : Nat, y : Nat]
  OBVIOUS
<1>5. SavedCursors(b) \subseteq [x : Nat, y : Nat]
  BY <1>2, <1>3, <1>4 DEF SavedCursors, Screens
<1>6. QED  BY <1>1, <1>5

(* Parameters of a region are positive. *)
LEMMA RegionNumbers ==
  ASSUME TOK(t), NEW p \in 1..t.height + MaxParameter PROVE p \in Nat \ {0}
BY Bounds, WindowAssumption

(* Those that set a mode, the region or the screen shown. *)
LEMMA ModeDoes ==
  ASSUME TOK(t), Mode PROVE Answered
<1>1. ASSUME NEW on \in BOOLEAN
      PROVE  Does(t, InsertMode(t, on)) /\ Does(t, OriginMode(t, on)) /\ Does(t, WraparoundMode(t, on))
  BY ModeEdits, DoesEdits
<1>2. Does(t, ColumnMode(t)) /\ Does(t, Align(t, Filler))
  BY ColumnEdits, AlignEdits, DoesEdits
<1>3. Does(t, EnterAlternate(t))
  BY EnterShows DEF Does, Screens
<1>4. ASSUME NEW cursor \in SavedCursors([t EXCEPT !.current = "normal"]), Moves(LeaveAlternate(t, cursor))
      PROVE  Answered
  <2>1. Lands(t, LeaveAlternate(t, cursor)) => Does(t, LeaveAlternate(t, cursor))
    BY SavedNormal, LeaveShows DEF Does, Screens
  <2>2. QED  BY <1>4, <2>1, MovesAnswers
<1>5. ASSUME NEW p \in 1..t.height + MaxParameter, NEW q \in 1..t.height + MaxParameter
      PROVE  Does(t, SetRegion(t, p, q))
  BY RegionNumbers, RegionEdits, DoesEdits
<1>6. QED  BY <1>1, <1>2, <1>3, <1>4, <1>5, ControlAnswers DEF Mode

(* Whatever is read does one of these. *)
LEMMA ReadDoes ==
  ASSUME TOK(t), ReadControl PROVE Answered
<1>1. ASSUME PrintCharacter PROVE Answered
  BY <1>1, PutWrites, DoesWrites, ControlAnswers DEF PrintCharacter
<1>2. QED
  BY <1>1, FormatDoes, CursorDoes, EraseDoes, InsertDoes, ModeDoes DEF ReadControl

(* Every step leaves the terminal, or is one of these. *)
LEMMA StepDoes ==
  ASSUME TOK(t), [Next]_vars
  PROVE  \/ t' = t
         \/ \E u : Does(t, u) /\ Becomes(u)
         \/ \E width \in Widths, height \in Heights : t' = Resize(t, width, height)
<1>1. ASSUME NEW y, NEW n, Becomes(Invalidate(t, y, n)) PROVE \E u : Does(t, u) /\ Becomes(u)
  BY <1>1, InvalidateEdits, DoesEdits
<1>2. ASSUME NEW rows, LayOut(rows) PROVE \E u : Does(t, u) /\ Becomes(u)
  <2>1. PICK b : b = Invalidate(t, t.y, Len(preedit))
    OBVIOUS
  <2>2. Edits(t, b) /\ TOK(b)
    BY <2>1, InvalidateEdits, EditsOK
  <2>3. Does(t, Invalidate(b, t.y, Len(rows)))
    BY <2>2, InvalidateEdits, EditsThen, DoesEdits
  <2>4. QED  BY <1>2, <2>1, <2>3 DEF LayOut
<1>3. CASE Begin \/ End \/ ChangeFocus
  BY <1>1, <1>3 DEF Begin, End, ChangeFocus
<1>4. CASE ReadControl
  BY <1>4, ReadDoes DEF Answered, GoAstray
<1>5. CASE Frame \/ (\E p \in 0..LogCapacity : ScrollTo(p)) \/ UNCHANGED vars
  BY <1>5 DEF Frame, ScrollTo, vars
<1>6. CASE \E rows \in {<<>>} \cup {<<text>> : text \in Texts} : LayOut(rows)
  BY <1>2, <1>6
<1>7. CASE \E width \in Widths, height \in Heights : ChangeSize(width, height)
  BY <1>7 DEF ChangeSize
<1>8. QED  BY <1>3, <1>4, <1>5, <1>6, <1>7 DEF Next

(* The terminal is in order after every step, and no call to the host is   *)
(* kept back.                                                              *)
LEMMA KemptInvariant == Spec => []Kempt
<1>1. Init => Kempt
  BY NewOK DEF Init, Kempt
<1>2. Kempt /\ [Next]_vars => Kempt'
  <2> SUFFICES ASSUME Kempt, [Next]_vars PROVE Kempt'
    OBVIOUS
  <2>1. TOK(t)
    BY DEF Kempt
  <2>2. CASE t' = t
    BY <2>2 DEF Kempt
  <2>3. CASE \E u : Does(t, u) /\ Becomes(u)
    BY <2>3, BecomesOK DEF Does
  <2>4. CASE \E width \in Widths, height \in Heights : t' = Resize(t, width, height)
    BY <2>1, <2>4, ResizeOK DEF Kempt
  <2>5. QED  BY <2>1, <2>2, <2>3, <2>4, StepDoes
<1>3. QED  BY <1>1, <1>2, PTL DEF Spec

(* RowsApart holds whatever is read, and however often the window is       *)
(* resized: the permutations of v_rows by f_feed, f_scroll and f_resize of *)
(* t_buffer put no row in two places and lose none.                        *)
THEOREM RowsApartCorrect == Spec => []RowsApart
<1>1. Kempt => RowsApart
  <2> SUFFICES ASSUME Kempt PROVE RowsApart
    OBVIOUS
  <2>1. Apart(t) /\ MemoryTyped(t)
    BY DEF Kempt, TOK, MemoryOK
  <2>2. /\ DOMAIN t.log = Slots /\ \A s \in Screens : DOMAIN t.lines[s] = Lengths(t)
        /\ "normal" \in Screens /\ "alternate" \in Screens /\ Screens = {"normal", "alternate"}
        /\ \A k \in Slots : t.log[k] \in Places(t.height)
        /\ \A s \in Screens : \A i \in Lengths(t) : t.lines[s][i] \in Places(t.height)
    BY <2>1 DEF MemoryTyped, Screens
  <2>3. /\ Range(t.log) = {t.log[k] : k \in Slots}
        /\ Lines["normal"] = {t.lines["normal"][i] : i \in Lengths(t)}
        /\ Lines["alternate"] = {t.lines["alternate"][i] : i \in Lengths(t)}
    BY <2>2 DEF Range, Lines
  <2>4. IsInjective(t.log) /\ \A s \in Screens : IsInjective(t.lines[s])
    BY <2>1, <2>2 DEF IsInjective, Apart
  <2>5. /\ Range(t.log) \cap (Lines["normal"] \cup Lines["alternate"]) = {}
        /\ Lines["normal"] \cap Lines["alternate"] = {}
    BY <2>1, <2>2, <2>3 DEF Apart
  <2>6. Range(t.log) \cup Lines["normal"] \cup Lines["alternate"] = Places(t.height)
    BY <2>1, <2>2, <2>3 DEF Apart
  <2>7. QED  BY <2>4, <2>5, <2>6 DEF RowsApart
<1>2. QED  BY <1>1, KemptInvariant, PTL

(* RowsWhole: no row t_row and t_buffer edit has half a character,         *)
(* wherever the cursor goes and whatever the window is resized to.         *)
THEOREM RowsWholeCorrect == Spec => []RowsWhole
<1>1. Kempt => RowsWhole
  BY DEF Kempt, TOK, MemoryOK, AllWhole, RowsWhole
<1>2. QED  BY <1>1, KemptInvariant, PTL

(* What goes astray does so in a region that reaches below the screen. *)
LEMMA StrayInvariant == Spec => [](astray => ~RegionFits(t))
<1>1. Init => (astray => ~RegionFits(t))
  BY DEF Init
<1>2. Kempt /\ (astray => ~RegionFits(t)) /\ [Next]_vars => (astray => ~RegionFits(t))'
  <2> SUFFICES ASSUME Kempt, astray => ~RegionFits(t), [Next]_vars PROVE astray' => ~RegionFits(t')
    BY DEF RegionFits, RegionEnd
  <2>1. TOK(t)
    BY DEF Kempt
  <2>2. CASE UNCHANGED vars
    BY <2>2 DEF vars
  <2>3. CASE ReadControl
    <3>1. CASE GoAstray /\ ~RegionFits(t)
      BY <3>1 DEF GoAstray
    <3>2. CASE astray' = astray
      <4>1. ~astray
        BY <2>3 DEF Next, vars, ReadControl
      <4>2. QED  BY <3>2, <4>1
    <3>3. QED  BY <2>1, <2>3, <3>1, <3>2, ReadDoes DEF Answered
  <2>4. ASSUME ~astray, astray' = astray PROVE astray' => ~RegionFits(t')
    BY <2>4
  <2>5. QED  BY <2>2, <2>3, <2>4 DEF Next, Begin, End, Frame, ChangeFocus, ScrollTo, LayOut, ChangeSize
<1>3. QED  BY <1>1, <1>2, KemptInvariant, PTL DEF Spec

(* CursorInRegion, for every size of the window and every parameter of     *)
(* f_scroll_region: the cursor stays on the screen, and in the region      *)
(* while the origin is the region's, through resizes, restored cursors and *)
(* changes of the region; and no control function goes where there is no   *)
(* row as long as the region ends on the screen.                           *)
THEOREM CursorCorrect == Spec => []CursorInRegion
<1>1. Kempt /\ (astray => ~RegionFits(t)) => CursorInRegion
  <2> SUFFICES ASSUME Kempt, astray => ~RegionFits(t) PROVE CursorInRegion
    OBVIOUS
  <2>1. TerminalOK
    BY DEF Kempt, TOK, MemoryOK, MemoryTyped, PlaceOK, TerminalOK
  <2>2. TOK(t)
    BY DEF Kempt
  <2>3. t.regionBegin \in 0..t.height - 2 /\ t.regionSize >= 2
    BY <2>2, Bounds
  <2>4. t.origin => t.regionBegin <= t.y /\ t.y < RegionEnd(t)
    BY <2>2 DEF TOK, PlaceOK
  <2>5. QED  BY <2>1, <2>3, <2>4 DEF CursorInRegion
<1>2. QED  BY <1>1, KemptInvariant, StrayInvariant, PTL

-----------------------------------------------------------------------------
(* What Scrollback keeps, of a terminal. *)
LogOf(b) == [k \in 1..b.size |-> LogRow(b, k - 1)]
ScreensOf(b) == [s \in Screens |-> [i \in 0..b.height - 1 |-> b.rows[b.lines[s][i]]]]

(* The remainder of a number less than twice the divisor. *)
LEMMA ModSmall ==
  ASSUME NEW c \in Nat \ {0}, NEW x \in Nat, x < 2 * c
  PROVE  x % c = IF x < c THEN x ELSE x - c
OBVIOUS

(* A log that is full turns by one slot: the row after the one that was    *)
(* k-th is k-th, and the slot that was first is the last.                  *)
LEMMA Turn ==
  ASSUME NEW c \in Nat \ {0}, NEW b \in 0..c - 1, NEW k \in 1..c, NEW e, e = (b + 1) % c
  PROVE  /\ (e + (k - 1)) % c \in 0..c - 1 /\ (b + k) % c \in 0..c - 1
         /\ k = c => (e + (k - 1)) % c = b
         /\ k < c => (e + (k - 1)) % c = (b + k) % c /\ (b + k) % c # b
<1>1. e = IF b + 1 < c THEN b + 1 ELSE 0
  <2>1. PICK x \in Nat : x = b + 1 /\ x < 2 * c
    OBVIOUS
  <2>2. x % c = IF x < c THEN x ELSE x - c
    BY <2>1, ModSmall
  <2>3. PICK m : m = x % c
    OBVIOUS
  <2>4. m = IF x < c THEN x ELSE x - c
    BY <2>2, <2>3
  <2>5. e = m
    BY <2>1, <2>3
  <2>6. m = IF b + 1 < c THEN b + 1 ELSE 0
    BY <2>1, <2>4
  <2>7. QED  BY <2>5, <2>6
<1>2. PICK x \in Nat : x = e + (k - 1) /\ x < 2 * c
  <2>1. PICK f \in 0..c - 1 : f = e
    BY <1>1
  <2>2. f + (k - 1) \in Nat /\ f + (k - 1) < 2 * c
    OBVIOUS
  <2>3. QED  BY <2>1, <2>2
<1>3. PICK y \in Nat : y = b + k /\ y < 2 * c
  OBVIOUS
<1>4. PICK m : m = x % c /\ m = IF x < c THEN x ELSE x - c
  BY <1>2, ModSmall
<1>5. PICK n : n = y % c /\ n = IF y < c THEN y ELSE y - c
  BY <1>3, ModSmall
<1>6. PICK f \in 0..c - 1 : f = e /\ f = (IF b + 1 < c THEN b + 1 ELSE 0) /\ x = f + (k - 1)
  BY <1>1, <1>2
<1>7. PICK i : i = IF x < c THEN x ELSE x - c
  OBVIOUS
<1>8. PICK j : j = IF y < c THEN y ELSE y - c
  OBVIOUS
<1>9. i \in 0..c - 1 /\ j \in 0..c - 1 /\ (k = c => i = b) /\ (k < c => i = j /\ j # b)
  <2>1. CASE b + 1 < c
    BY <1>3, <1>6, <1>7, <1>8, <2>1
  <2>2. CASE ~(b + 1 < c)
    BY <1>3, <1>6, <1>7, <1>8, <2>2
  <2>3. QED  BY <2>1, <2>2
<1>10. m = i /\ n = j
  BY <1>4, <1>5, <1>7, <1>8
<1>11. (e + (k - 1)) % c = i /\ (b + k) % c = j
  BY <1>2, <1>3, <1>4, <1>5, <1>10
<1>12. QED  BY <1>9, <1>11

(* The slot of the row k of the log. *)
LEMMA LogSlot ==
  ASSUME NEW b, MemoryOK(b), NEW k \in 0..b.size - 1
  PROVE  /\ (b.begin + k) % LogCapacity \in Slots
         /\ (b.begin + k) % LogCapacity =
              IF b.begin + k < LogCapacity THEN b.begin + k ELSE b.begin + k - LogCapacity
<1>1. /\ LogCapacity \in Nat \ {0} /\ b.size \in 0..LogCapacity /\ b.begin \in 0..LogCapacity - 1
      /\ Slots = 0..LogCapacity - 1
  BY TakenSlot
<1>2. b.begin + k \in Nat /\ b.begin + k < 2 * LogCapacity
  BY <1>1
<1>3. PICK x \in Nat : x = b.begin + k /\ x < 2 * LogCapacity
  BY <1>2
<1>4. x % LogCapacity = IF x < LogCapacity THEN x ELSE x - LogCapacity
  BY <1>1, <1>3, ModSmall
<1>5. QED  BY <1>1, <1>3, <1>4

(* Memory that is the same shows the same. *)
LEMMA SeenSame ==
  ASSUME NEW u, NEW v, SameMemory(u, v)
  PROVE  LogOf(v) = LogOf(u) /\ ScreensOf(v) = ScreensOf(u) /\ v.current = u.current
BY DEF SameMemory, SameSizes, SameLog, LogOf, ScreensOf, LogRow

(* The screen is edited. *)
EditOf(b, u) ==
  /\ u.current = b.current /\ LogOf(u) = LogOf(b)
  /\ DOMAIN ScreensOf(u)[b.current] = DOMAIN ScreensOf(b)[b.current]
  /\ ScreensOf(u) = [ScreensOf(b) EXCEPT ![b.current] = ScreensOf(u)[b.current]]

(* A change of rows of the screen is an edit: the log and the other screen *)
(* are as before.                                                          *)
LEMMA LocalEdits ==
  ASSUME NEW b, NEW u, MemoryOK(b), Local(b, u) PROVE EditOf(b, u)
<1>1. /\ u.current = b.current /\ u.height = b.height /\ u.size = b.size /\ u.begin = b.begin
      /\ u.log = b.log /\ b.current \in Screens /\ b.log \in [Slots -> Places(b.height)]
      /\ b.lines \in [Screens -> [Lengths(b) -> Places(b.height)]]
      /\ Screen(b) = b.lines[b.current] /\ Lengths(b) = 0..b.height - 1
      /\ \A s \in Screens : s # b.current => u.lines[s] = b.lines[s]
      /\ \A p \in Places(b.height) : OnScreen(b, p) \/ u.rows[p] = b.rows[p]
  BY DEF MemoryOK, MemoryTyped, Local, SameSizes, SameLog, Screen, Lengths
<1>2. ASSUME NEW k \in 1..b.size PROVE LogRow(u, k - 1) = LogRow(b, k - 1)
  <2>1. PICK c \in Slots : c = (b.begin + (k - 1)) % LogCapacity
    <3>1. k - 1 \in 0..b.size - 1
      BY TakenSlot
    <3>2. QED  BY <3>1, LogSlot
  <2>2. b.log[c] \in Places(b.height) /\ ~OnScreen(b, b.log[c])
    BY <1>1 DEF MemoryOK, Apart, OnScreen
  <2>3. u.rows[b.log[c]] = b.rows[b.log[c]]
    BY <1>1, <2>2
  <2>4. QED  BY <1>1, <2>1, <2>3 DEF LogRow
<1>3. LogOf(u) = LogOf(b)
  BY <1>1, <1>2 DEF LogOf
<1>4. ASSUME NEW s \in Screens, s # b.current, NEW i \in Lengths(b)
      PROVE  u.rows[u.lines[s][i]] = b.rows[b.lines[s][i]]
  <2>1. b.lines[s][i] \in Places(b.height)
    BY <1>1
  <2>2. ASSUME NEW j \in Lengths(b) PROVE b.lines[b.current][j] # b.lines[s][i]
    <3>1. \A k, l \in Lengths(b) : b.lines["normal"][k] # b.lines["alternate"][l]
      BY DEF MemoryOK, Apart
    <3>2. CASE s = "normal" /\ b.current = "alternate"
      BY <3>1, <3>2
    <3>3. CASE s = "alternate" /\ b.current = "normal"
      BY <3>1, <3>3
    <3>4. QED  BY <1>1, <1>4, <3>2, <3>3 DEF Screens
  <2>3. ~OnScreen(b, b.lines[s][i])
    BY <1>1, <2>2 DEF OnScreen
  <2>4. QED  BY <1>1, <1>4, <2>1, <2>3
<1>5. ASSUME NEW s \in Screens, s # b.current PROVE ScreensOf(u)[s] = ScreensOf(b)[s]
  BY <1>1, <1>4, <1>5 DEF ScreensOf
<1>6. DOMAIN ScreensOf(u)[b.current] = DOMAIN ScreensOf(b)[b.current]
  BY <1>1 DEF ScreensOf
<1>7. ScreensOf(u) = [ScreensOf(b) EXCEPT ![b.current] = ScreensOf(u)[b.current]]
  <2>1. PICK f : f = ScreensOf(b)
    OBVIOUS
  <2>2. PICK g : g = ScreensOf(u)
    OBVIOUS
  <2>3. f = [s \in Screens |-> f[s]] /\ g = [s \in Screens |-> g[s]]
    BY <2>1, <2>2 DEF ScreensOf
  <2>4. \A s \in Screens : s # b.current => g[s] = f[s]
    BY <1>5, <2>1, <2>2
  <2>5. g = [f EXCEPT ![b.current] = g[b.current]]
    BY <2>3, <2>4
  <2>6. QED  BY <2>1, <2>2, <2>5
<1>8. QED  BY <1>1, <1>3, <1>6, <1>7 DEF EditOf

(* A row leaves the screen for the log. *)
FeedOf(b, u) ==
  LET all  == Append(LogOf(b), ScreensOf(b)["normal"][0])
      rows == 0..b.height - 1
      old  == ScreensOf(b)["normal"]
      new  == ScreensOf(u)["normal"]
  IN /\ b.current = "normal" /\ u.current = "normal"
     /\ LogOf(u) = SubSeq(all, Most(Len(all) - LogCapacity, 0) + 1, Len(all))
     /\ DOMAIN old = rows /\ DOMAIN new = rows
     /\ \A i \in rows : i + 1 \in rows =>
          IF i + 2 \in rows THEN new[i] = old[i + 1] ELSE new[i].cells = old[i + 1].cells
     /\ ScreensOf(u) = [ScreensOf(b) EXCEPT !["normal"] = new]

(* A screen that is fed moves up a row, and the log takes the top one as   *)
(* it was.                                                                 *)
LEMMA FedFeeds ==
  ASSUME NEW b, NEW u, MemoryOK(b), Fed(b, u) PROVE FeedOf(b, u)
<1> DEFINE c    == Taken(b)
           top  == b.rows[b.lines["normal"][0]]
           old  == LogOf(b)
           all  == Append(old, top)
<1>1. /\ u.height = b.height /\ Lengths(b) = 0..b.height - 1 /\ b.current = "normal"
      /\ u.current = "normal" /\ b.height \in Nat \ {0, 1}
      /\ 0 \in Lengths(b) /\ b.height - 1 \in Lengths(b) /\ b.height - 1 # 0
      /\ Screen(b) = b.lines["normal"] /\ Screens = {"normal", "alternate"} /\ "normal" # "alternate"
  BY Numbers DEF Fed, SameSizes, Lengths, MemoryOK, Screen, Screens
<1>2. /\ c \in Slots /\ b.log[c] \in Places(b.height) /\ b.log \in [Slots -> Places(b.height)]
      /\ b.lines \in [Screens -> [Lengths(b) -> Places(b.height)]]
  BY TakenSlot DEF MemoryOK, MemoryTyped
<1>3. /\ u.log = [b.log EXCEPT ![c] = b.lines["normal"][0]] /\ u.begin = Turned(b)
      /\ u.size = (IF b.size < LogCapacity THEN b.size + 1 ELSE b.size)
      /\ u.lines["alternate"] = b.lines["alternate"]
      /\ \A i \in Lengths(b) :
           u.lines["normal"][i] = IF i < b.height - 1 THEN b.lines["normal"][i + 1] ELSE b.log[c]
      /\ \A p \in Places(b.height) : p # b.log[c] =>
           /\ u.rows[p].cells = b.rows[p].cells
           /\ p # b.lines["normal"][b.height - 1] => u.rows[p] = b.rows[p]
  BY <1>1 DEF Fed
<1>4. /\ LogCapacity \in Nat \ {0} /\ b.size \in 0..LogCapacity /\ b.begin \in 0..LogCapacity - 1
      /\ Slots = 0..LogCapacity - 1
      /\ b.size < LogCapacity => c = b.size /\ Turned(b) = 0 /\ b.begin = 0
      /\ b.size = LogCapacity => c = b.begin /\ Turned(b) = (b.begin + 1) % LogCapacity
  BY TakenSlot DEF MemoryOK, MemoryTyped
<1> HIDE DEF c
<1>5. /\ \A i, j \in Slots : b.log[i] = b.log[j] => i = j
      /\ \A s \in Screens : \A i, j \in Lengths(b) : b.lines[s][i] = b.lines[s][j] => i = j
      /\ \A s \in Screens : \A i \in Lengths(b), k \in Slots : b.lines[s][i] # b.log[k]
      /\ \A i, j \in Lengths(b) : b.lines["normal"][i] # b.lines["alternate"][j]
  BY DEF MemoryOK, Apart
<1>6. /\ u.log[c] = b.lines["normal"][0] /\ u.rows[u.log[c]] = top
      /\ \A k \in Slots : k # c => u.log[k] = b.log[k] /\ u.rows[u.log[k]] = b.rows[b.log[k]]
  <2>1. u.log[c] = b.lines["normal"][0] /\ \A k \in Slots : k # c => u.log[k] = b.log[k]
    BY <1>2, <1>3
  <2>2. u.rows[b.lines["normal"][0]] = top
    <3>1. /\ b.lines["normal"][0] \in Places(b.height) /\ b.lines["normal"][0] # b.log[c]
          /\ b.lines["normal"][0] # b.lines["normal"][b.height - 1]
      BY <1>1, <1>2, <1>5
    <3>2. QED  BY <1>3, <3>1
  <2>3. ASSUME NEW k \in Slots, k # c PROVE u.rows[b.log[k]] = b.rows[b.log[k]]
    <3>1. /\ b.log[k] \in Places(b.height) /\ b.log[k] # b.log[c]
          /\ b.log[k] # b.lines["normal"][b.height - 1]
      BY <1>1, <1>2, <1>5, <2>3
    <3>2. QED  BY <1>3, <3>1
  <2>4. QED  BY <2>1, <2>2, <2>3
<1> HIDE DEF top
<1>7. /\ old \in Seq(RowRecords) /\ Len(old) = b.size /\ top \in RowRecords
      /\ \A k \in 1..b.size : old[k] = b.rows[b.log[(b.begin + (k - 1)) % LogCapacity]]
  <2>1. b.rows \in [Places(b.height) -> RowRecords]
    BY DEF MemoryOK, MemoryTyped
  <2>2. top \in RowRecords
    BY <1>1, <1>2, <2>1 DEF top
  <2>3. PICK n \in Nat : n = b.size
    BY <1>4
  <2>4. old = [k \in 1..n |-> LogRow(b, k - 1)]
    BY <2>3 DEF LogOf
  <2>5. ASSUME NEW k \in 1..n
        PROVE  LogRow(b, k - 1) = b.rows[b.log[(b.begin + (k - 1)) % LogCapacity]] /\ LogRow(b, k - 1) \in RowRecords
    <3>1. k - 1 \in 0..b.size - 1
      BY <2>3
    <3>2. PICK x \in Slots : x = (b.begin + (k - 1)) % LogCapacity
      BY <3>1, LogSlot
    <3>3. QED  BY <1>2, <2>1, <3>2 DEF LogRow
  <2> HIDE DEF old
  <2>6. \A k \in 1..n : old[k] = LogRow(b, k - 1)
    BY <2>4
  <2>7. old \in Seq(RowRecords) /\ Len(old) = n
    BY <2>4, <2>5
  <2>8. QED  BY <2>2, <2>3, <2>5, <2>6, <2>7
<1> HIDE DEF old
<1>8. /\ Len(all) = b.size + 1 /\ all[b.size + 1] = top
      /\ \A k \in 1..b.size : all[k] = old[k]
      /\ all = [k \in 1..b.size + 1 |-> all[k]]
  <2>1. PICK n \in Nat : n = b.size
    BY <1>4
  <2>2. all \in Seq(RowRecords) /\ Len(all) = n + 1 /\ all[n + 1] = top
    BY <1>7, <2>1
  <2>3. \A k \in 1..n : all[k] = old[k]
    BY <1>7, <2>1
  <2> HIDE DEF all
  <2>4. all = [k \in 1..n + 1 |-> all[k]]
    BY <2>2
  <2>5. QED  BY <2>1, <2>2, <2>3, <2>4
<1> HIDE DEF all
<1>9. LogOf(u) = SubSeq(all, Most(Len(all) - LogCapacity, 0) + 1, Len(all))
  <2>1. LogOf(u) = [k \in 1..u.size |-> u.rows[u.log[(u.begin + (k - 1)) % LogCapacity]]]
    BY DEF LogOf, LogRow
  <2>2. CASE b.size < LogCapacity
    <3>1. u.size = b.size + 1 /\ u.begin = 0 /\ c = b.size /\ b.begin = 0
      BY <1>3, <1>4, <2>2
    <3>2. ASSUME NEW k \in 1..b.size + 1
          PROVE  u.rows[u.log[(u.begin + (k - 1)) % LogCapacity]] = all[k]
      <4>1. k - 1 \in Nat /\ k - 1 < LogCapacity /\ 0 + (k - 1) = k - 1 /\ k - 1 \in Slots
        BY <1>4, <2>2
      <4>2. (k - 1) % LogCapacity = k - 1
        BY SMTT(30), <1>4, <4>1
      <4>3. CASE k = b.size + 1
        <5>1. k - 1 = c
          BY <1>4, <3>1, <4>3
        <5>2. QED  BY <1>6, <1>8, <3>1, <4>1, <4>2, <4>3, <5>1
      <4>4. CASE k \in 1..b.size
        <5>1. k - 1 # c
          BY <1>4, <3>1, <4>4
        <5>2. all[k] = b.rows[b.log[k - 1]]
          <6>1. (b.begin + (k - 1)) % LogCapacity = k - 1
            BY <3>1, <4>1, <4>2
          <6>2. QED  BY <1>7, <1>8, <4>4, <6>1
        <5>3. QED  BY <1>6, <3>1, <4>1, <4>2, <5>1, <5>2
      <4>5. QED  BY <1>4, <4>3, <4>4
    <3>3. LogOf(u) = all
      BY <1>8, <2>1, <3>1, <3>2
    <3>4. SubSeq(all, Most(Len(all) - LogCapacity, 0) + 1, Len(all)) = all
      <4>1. Most(Len(all) - LogCapacity, 0) + 1 = 1
        BY <1>4, <1>8, <2>2 DEF Most
      <4>2. PICK n \in Nat : n = Len(all) /\ all = [k \in 1..n |-> all[k]]
        BY <1>4, <1>8
      <4>3. SubSeq(all, 1, n) = all
        BY <4>2
      <4>4. QED  BY <4>1, <4>2, <4>3
    <3>5. QED  BY <3>3, <3>4
  <2>3. CASE b.size = LogCapacity
    <3>1. u.size = LogCapacity /\ u.begin = (b.begin + 1) % LogCapacity /\ c = b.begin
      BY <1>3, <1>4, <2>3
    <3>2. ASSUME NEW k \in 1..LogCapacity
          PROVE  u.rows[u.log[(u.begin + (k - 1)) % LogCapacity]] = all[k + 1]
      <4>1. PICK m \in Nat \ {0} : m = LogCapacity
        BY <1>4
      <4>2. PICK g \in 0..m - 1 : g = b.begin
        BY <1>4, <4>1
      <4>3. PICK e : e = u.begin /\ e = (g + 1) % m
        BY <3>1, <4>1, <4>2
      <4>4. PICK l \in 1..m : l = k
        BY <4>1
      <4>5. /\ (e + (l - 1)) % m \in 0..m - 1 /\ (g + l) % m \in 0..m - 1
            /\ l = m => (e + (l - 1)) % m = g
            /\ l < m => (e + (l - 1)) % m = (g + l) % m /\ (g + l) % m # g
        BY <4>3, Turn
      <4>6. PICK x \in Slots : x = (e + (l - 1)) % m
        BY <1>4, <4>1, <4>5
      <4>7. u.rows[u.log[(u.begin + (k - 1)) % LogCapacity]] = u.rows[u.log[x]]
        BY <4>1, <4>3, <4>4, <4>6
      <4>8. CASE l = m
        <5>1. x = c
          BY <3>1, <4>2, <4>5, <4>6, <4>8
        <5>2. all[k + 1] = top
          BY <1>8, <2>3, <4>1, <4>4, <4>8
        <5>3. QED  BY <1>6, <4>7, <5>1, <5>2
      <4>9. CASE l < m
        <5>1. x = (g + l) % m /\ x # c
          BY <3>1, <4>2, <4>5, <4>6, <4>9
        <5>2. k + 1 \in 1..b.size /\ (k + 1) - 1 = k
          BY <1>4, <2>3, <4>1, <4>4, <4>9
        <5>3. all[k + 1] = b.rows[b.log[(b.begin + ((k + 1) - 1)) % LogCapacity]]
          BY <1>7, <1>8, <5>2
        <5>4. (b.begin + ((k + 1) - 1)) % LogCapacity = x
          BY <4>1, <4>2, <4>4, <5>1, <5>2
        <5>5. QED  BY <1>6, <4>7, <5>1, <5>3, <5>4
      <4>10. QED  BY <4>8, <4>9
    <3>3. LogOf(u) = [k \in 1..LogCapacity |-> all[k + 1]]
      BY <2>1, <3>1, <3>2
    <3>4. SubSeq(all, Most(Len(all) - LogCapacity, 0) + 1, Len(all)) = [k \in 1..LogCapacity |-> all[k + 1]]
      <4>1. Most(Len(all) - LogCapacity, 0) + 1 = 2 /\ Len(all) = LogCapacity + 1
        BY <1>4, <1>8, <2>3 DEF Most
      <4>2. SubSeq(all, 2, LogCapacity + 1) = [k \in 1..LogCapacity |-> all[k + 1]]
        BY <1>4
      <4>3. QED  BY <4>1, <4>2
    <3>5. QED  BY <3>3, <3>4
  <2>4. QED  BY <1>4, <2>2, <2>3
<1>10. /\ ScreensOf(b)["normal"] = [i \in Lengths(b) |-> b.rows[b.lines["normal"][i]]]
       /\ ScreensOf(u)["normal"] = [i \in Lengths(b) |-> u.rows[u.lines["normal"][i]]]
       /\ DOMAIN ScreensOf(u) = Screens
  BY <1>1 DEF ScreensOf
<1>11. ASSUME NEW i \in Lengths(b), i + 1 \in Lengths(b)
       PROVE  /\ ScreensOf(u)["normal"][i].cells = ScreensOf(b)["normal"][i + 1].cells
              /\ i + 2 \in Lengths(b) => ScreensOf(u)["normal"][i] = ScreensOf(b)["normal"][i + 1]
  <2>1. u.lines["normal"][i] = b.lines["normal"][i + 1]
    BY <1>1, <1>3, <1>11
  <2>2. PICK p \in Places(b.height) : p = b.lines["normal"][i + 1] /\ p # b.log[c]
    BY <1>1, <1>2, <1>5, <1>11
  <2>3. u.rows[p].cells = b.rows[p].cells
    BY <1>3, <2>2
  <2>4. i + 2 \in Lengths(b) => u.rows[p] = b.rows[p]
    <3>1. i + 2 \in Lengths(b) => i + 1 # b.height - 1
      BY <1>1
    <3>2. i + 2 \in Lengths(b) => p # b.lines["normal"][b.height - 1]
      BY <1>1, <1>5, <1>11, <2>2, <3>1
    <3>3. QED  BY <1>3, <2>2, <3>2
  <2>5. QED  BY <1>10, <1>11, <2>1, <2>2, <2>3, <2>4, SMTT(30)
<1>12. ScreensOf(u)["alternate"] = ScreensOf(b)["alternate"]
  <2>1. ASSUME NEW i \in Lengths(b)
        PROVE  u.rows[u.lines["alternate"][i]] = b.rows[b.lines["alternate"][i]]
    <3>1. PICK p \in Places(b.height) : p = b.lines["alternate"][i]
      BY <1>1, <1>2
    <3>2. p # b.log[c] /\ p # b.lines["normal"][b.height - 1]
      BY <1>1, <1>2, <1>5, <3>1
    <3>3. QED  BY <1>3, <3>1, <3>2
  <2>2. /\ ScreensOf(b)["alternate"] = [i \in Lengths(b) |-> b.rows[b.lines["alternate"][i]]]
        /\ ScreensOf(u)["alternate"] = [i \in Lengths(b) |-> u.rows[u.lines["alternate"][i]]]
    BY <1>1 DEF ScreensOf
  <2>3. QED  BY <2>1, <2>2
<1>13. ScreensOf(u) = [ScreensOf(b) EXCEPT !["normal"] = ScreensOf(u)["normal"]]
  <2>1. PICK f : f = ScreensOf(b)
    OBVIOUS
  <2>2. PICK g : g = ScreensOf(u)
    OBVIOUS
  <2>3. f = [s \in Screens |-> f[s]] /\ g = [s \in Screens |-> g[s]]
    BY <2>1, <2>2 DEF ScreensOf
  <2>4. \A s \in Screens : s # "normal" => g[s] = f[s]
    BY <1>1, <1>12, <2>1, <2>2
  <2>5. g = [f EXCEPT !["normal"] = g["normal"]]
    BY <1>1, <2>3, <2>4
  <2>6. QED  BY <2>1, <2>2, <2>5
<1>14. ScreensOf(b)["normal"][0] = top
  BY <1>1, <1>10 DEF top
<1>15. DOMAIN ScreensOf(b)["normal"] = 0..b.height - 1 /\ DOMAIN ScreensOf(u)["normal"] = 0..b.height - 1
  BY <1>1, <1>10
<1>16. LogOf(u) = LET every == Append(LogOf(b), ScreensOf(b)["normal"][0])
                  IN SubSeq(every, Most(Len(every) - LogCapacity, 0) + 1, Len(every))
  BY <1>9, <1>14 DEF all, old
<1>17. QED  BY <1>1, <1>11, <1>13, <1>15, <1>16 DEF FeedOf

-----------------------------------------------------------------------------
(* The other screen is shown. *)
SwitchOf(b, u, s) ==
  /\ u.current = s /\ LogOf(u) = LogOf(b)
  /\ DOMAIN ScreensOf(b)[b.current] = 0..b.height - 1
  /\ ScreensOf(u) = [ScreensOf(b) EXCEPT !["alternate"] =
                       IF s = "alternate" THEN [i \in 0..b.height - 1 |-> EmptyRow] ELSE @]

(* f_alternate changes no row of the log or of the normal screen. *)
LEMMA ShowsSwitch ==
  ASSUME NEW b, NEW u, NEW s \in Screens, MemoryOK(b), Shows(b, u, s) PROVE SwitchOf(b, u, s)
<1>1. /\ u.current = s /\ u.height = b.height /\ u.size = b.size /\ u.begin = b.begin
      /\ u.log = b.log /\ b.current \in Screens /\ b.log \in [Slots -> Places(b.height)]
      /\ b.lines \in [Screens -> [Lengths(b) -> Places(b.height)]] /\ u.lines = b.lines
      /\ Lengths(b) = 0..b.height - 1 /\ Screens = {"normal", "alternate"} /\ "normal" # "alternate"
      /\ \A p \in Places(b.height) :
           u.rows[p] = IF s = "alternate" /\ \E i \in Lengths(b) : b.lines["alternate"][i] = p
                       THEN EmptyRow ELSE b.rows[p]
  BY DEF MemoryOK, MemoryTyped, Shows, SameLog, Lengths, Screens
<1>2. /\ \A t1 \in Screens : \A i \in Lengths(b), k \in Slots : b.lines[t1][i] # b.log[k]
      /\ \A i, j \in Lengths(b) : b.lines["normal"][i] # b.lines["alternate"][j]
  BY DEF MemoryOK, Apart
<1>20. \A n \in Screens : \A i \in Lengths(b) : b.lines[n][i] \in Places(b.height)
  BY DEF MemoryOK, MemoryTyped
<1>21. "normal" \in Screens /\ "alternate" \in Screens
  BY DEF Screens
<1>3. ASSUME NEW k \in 1..b.size PROVE LogRow(u, k - 1) = LogRow(b, k - 1)
  <2>1. PICK c \in Slots : c = (b.begin + (k - 1)) % LogCapacity
    <3>1. k - 1 \in 0..b.size - 1
      BY TakenSlot
    <3>2. QED  BY <3>1, LogSlot
  <2>2. b.log[c] \in Places(b.height) /\ \A i \in Lengths(b) : b.lines["alternate"][i] # b.log[c]
    BY <1>1, <1>2
  <2>3. u.rows[b.log[c]] = b.rows[b.log[c]]
    BY <1>1, <2>2
  <2>4. QED  BY <1>1, <2>1, <2>3 DEF LogRow
<1>4. LogOf(u) = LogOf(b)
  BY <1>1, <1>3 DEF LogOf
<1>5. DOMAIN ScreensOf(b)[b.current] = 0..b.height - 1
  BY <1>1 DEF ScreensOf
<1>6. /\ ScreensOf(b)["normal"] = [i \in Lengths(b) |-> b.rows[b.lines["normal"][i]]]
      /\ ScreensOf(u)["normal"] = [i \in Lengths(b) |-> u.rows[b.lines["normal"][i]]]
      /\ ScreensOf(b)["alternate"] = [i \in Lengths(b) |-> b.rows[b.lines["alternate"][i]]]
      /\ ScreensOf(u)["alternate"] = [i \in Lengths(b) |-> u.rows[b.lines["alternate"][i]]]
  BY <1>1 DEF ScreensOf
<1>7. ScreensOf(u)["normal"] = ScreensOf(b)["normal"]
  <2>1. ASSUME NEW i \in Lengths(b) PROVE u.rows[b.lines["normal"][i]] = b.rows[b.lines["normal"][i]]
    <3>1. PICK p \in Places(b.height) : p = b.lines["normal"][i]
      BY <1>20, <1>21
    <3>2. \A j \in Lengths(b) : b.lines["alternate"][j] # p
      BY <1>2, <3>1
    <3>3. QED  BY <1>1, <3>1, <3>2
  <2>2. QED  BY <1>6, <2>1
<1>8. CASE s = "alternate"
  <2>1. ASSUME NEW i \in Lengths(b) PROVE u.rows[b.lines["alternate"][i]] = EmptyRow
    <3>1. PICK p \in Places(b.height) : p = b.lines["alternate"][i]
      BY <1>20, <1>21
    <3>2. QED  BY <1>1, <1>8, <3>1
  <2>2. ScreensOf(u)["alternate"] = [i \in 0..b.height - 1 |-> EmptyRow]
    BY <1>1, <1>6, <2>1
  <2>3. PICK f : f = ScreensOf(b)
    OBVIOUS
  <2>4. PICK g : g = ScreensOf(u)
    OBVIOUS
  <2>5. f = [n \in Screens |-> f[n]] /\ g = [n \in Screens |-> g[n]]
    BY <2>3, <2>4 DEF ScreensOf
  <2>6. g = [f EXCEPT !["alternate"] = [i \in 0..b.height - 1 |-> EmptyRow]]
    BY <1>1, <1>7, <2>2, <2>3, <2>4, <2>5
  <2>7. QED  BY <1>1, <1>4, <1>5, <1>8, <2>3, <2>4, <2>6 DEF SwitchOf
<1>9. CASE s = "normal"
  <2>1. ASSUME NEW i \in Lengths(b)
        PROVE  u.rows[b.lines["alternate"][i]] = b.rows[b.lines["alternate"][i]]
    BY <1>1, <1>9
  <2>2. ScreensOf(u)["alternate"] = ScreensOf(b)["alternate"]
    BY <1>6, <2>1
  <2>3. PICK f : f = ScreensOf(b)
    OBVIOUS
  <2>4. PICK g : g = ScreensOf(u)
    OBVIOUS
  <2>5. f = [n \in Screens |-> f[n]] /\ g = [n \in Screens |-> g[n]]
    BY <2>3, <2>4 DEF ScreensOf
  <2>6. g = [f EXCEPT !["alternate"] = f["alternate"]]
    BY <1>1, <1>7, <2>2, <2>3, <2>4, <2>5
  <2>7. QED  BY <1>1, <1>4, <1>5, <1>9, <2>3, <2>4, <2>6 DEF SwitchOf
<1>10. QED  BY <1>1, <1>8, <1>9

(* All rows are cut to a new width. *)
Shortened(row, width) == [cells |-> Narrowed(row.cells, width), wrapped |-> FALSE]
ResizeOf(b, u, width, height) ==
  /\ u.current = b.current
  /\ DOMAIN ScreensOf(b)[b.current] = 0..b.height - 1
  /\ LogOf(u) = [k \in DOMAIN LogOf(b) |-> Shortened(LogOf(b)[k], width)]
  /\ ScreensOf(u) = [s \in Screens |-> [i \in 0..height - 1 |->
                       IF i \in 0..b.height - 1 THEN Shortened(ScreensOf(b)[s][i], width) ELSE EmptyRow]]

(* f_resize cuts each row of the log and of both screens, in its place. *)
LEMMA ResizeCuts ==
  ASSUME NEW b, TOK(b), NEW width \in Widths, NEW height \in Heights
  PROVE  LET u == Resize(b, width, height) IN EditOf(b, u) \/ ResizeOf(b, u, width, height)
<1> DEFINE r == ResizeBuffer(b, width, height)
           m == Least(Bytes(b.width), Bytes(width))
           u == Resize(b, width, height)
           Line(s, i) == IF i < b.height THEN Shortened(b.rows[b.lines[s][i]], width) ELSE EmptyRow
           rows == [p \in Places(height) |->
                      CASE p < LogCapacity -> Shortened(b.rows[b.log[p]], width)
                        [] p \in LogCapacity..(LogCapacity + height) - 1 -> Line("normal", p - LogCapacity)
                        [] OTHER -> Line("alternate", p - (LogCapacity + height))]
<1>1. /\ MemoryOK(r) /\ r.width = width /\ r.height = height
      /\ r.current = b.current /\ r.begin = b.begin /\ r.size = b.size
  BY ResizedBuffer
<1>2. u = [WholeRegion(r) EXCEPT !.tabs = {x \in @ : x < 8 * m} \cup FirstTabs(m, Bytes(width))]
  BY DEF Resize
<1>3. r = b \/ r = [b EXCEPT !.width = width, !.height = height, !.rows = rows, !.log = FirstPlaces(height).log,
                      !.lines = FirstPlaces(height).lines, !.x = Least(b.x, width - 1),
                      !.y = Least(b.y, height - 1)]
  BY DEF ResizeBuffer, Shortened
<1> HIDE DEF r, u, rows, m
<1>4. DOMAIN r = Fields /\ DOMAIN b = Fields
  BY <1>1, Bounds DEF MemoryOK, MemoryTyped
<1>5. SameMemory(r, u)
  BY <1>1, <1>2, <1>4 DEF Fields, SameMemory, SameSizes, SameLog, WholeRegion
<1>6. CASE r = b
  <2>1. Local(b, u)
    BY <1>5, <1>6, LocalSame DEF TOK
  <2>2. QED  BY <2>1, LocalEdits DEF TOK, u
<1>7. CASE r = [b EXCEPT !.width = width, !.height = height, !.rows = rows, !.log = FirstPlaces(height).log,
                      !.lines = FirstPlaces(height).lines, !.x = Least(b.x, width - 1),
                      !.y = Least(b.y, height - 1)]
  <2>1. r.rows = rows /\ r.log = FirstPlaces(height).log /\ r.lines = FirstPlaces(height).lines
    BY <1>4, <1>7 DEF Fields
  <2>2. /\ LogCapacity \in Nat \ {0} /\ height \in Nat \ {0, 1} /\ Slots = 0..LogCapacity - 1
        /\ Places(height) = 0..LogCapacity + 2 * height - 1 /\ b.height \in Nat \ {0, 1}
        /\ Screens = {"normal", "alternate"} /\ "normal" # "alternate" /\ Lengths(b) = 0..b.height - 1
        /\ b.current \in Screens /\ b.size \in 0..LogCapacity
    BY Bounds, LogAssumption, WindowAssumption DEF Slots, Places, Screens, TOK, MemoryOK, MemoryTyped
  <2>3. \A k \in Slots : r.log[k] = k
    BY <2>1 DEF FirstPlaces
  <2>4. ASSUME NEW i \in 0..height - 1
        PROVE  r.lines["normal"][i] = LogCapacity + i + 0 /\ r.lines["alternate"][i] = LogCapacity + i + height
    BY <2>1, <2>2 DEF FirstPlaces
  <2>5. ASSUME NEW k \in Slots PROVE r.rows[k] = Shortened(b.rows[b.log[k]], width)
    <3>1. k \in Places(height) /\ k < LogCapacity
      BY <2>2
    <3>2. rows[k] = Shortened(b.rows[b.log[k]], width)
      <4> HIDE DEF Line
      <4>1. k \notin LogCapacity..(LogCapacity + height) - 1
        BY <2>2
      <4>2. QED  BY <3>1, <4>1 DEF rows
    <3>3. QED  BY <2>1, <3>2
  <2>6. ASSUME NEW i \in 0..height - 1
        PROVE  /\ r.rows[r.lines["normal"][i]] = Line("normal", i)
               /\ r.rows[r.lines["alternate"][i]] = Line("alternate", i)
    <3>1. PICK p : p = LogCapacity + i + 0
      OBVIOUS
    <3>2. /\ p \in Places(height) /\ ~(p < LogCapacity) /\ p \in LogCapacity..(LogCapacity + height) - 1
          /\ p - LogCapacity = i
      BY <2>2, <3>1
    <3>3. r.rows[p] = Line("normal", i)
      <4> HIDE DEF Line
      <4>1. rows[p] = Line("normal", p - LogCapacity)
        BY <3>2 DEF rows
      <4>2. QED  BY <2>1, <3>2, <4>1
    <3>4. PICK q : q = LogCapacity + i + height
      OBVIOUS
    <3>5. /\ q \in Places(height) /\ ~(q < LogCapacity) /\ q \notin LogCapacity..(LogCapacity + height) - 1
          /\ q - (LogCapacity + height) = i
      BY <2>2, <3>4
    <3>6. r.rows[q] = Line("alternate", i)
      <4> HIDE DEF Line
      <4>1. rows[q] = Line("alternate", q - (LogCapacity + height))
        BY <3>5 DEF rows
      <4>2. QED  BY <2>1, <3>5, <4>1
    <3>7. QED  BY <2>4, <3>1, <3>3, <3>4, <3>6
  <2>7. ASSUME NEW k \in 1..b.size PROVE LogRow(r, k - 1) = Shortened(LogRow(b, k - 1), width)
    <3>1. PICK c \in Slots : c = (b.begin + (k - 1)) % LogCapacity
      <4>1. k - 1 \in 0..b.size - 1
        BY <2>2
      <4>2. QED  BY <4>1, LogSlot DEF TOK
    <3>2. QED  BY <1>1, <2>3, <2>5, <3>1 DEF LogRow
  <2>8. LogOf(r) = [k \in DOMAIN LogOf(b) |-> Shortened(LogOf(b)[k], width)]
    <3>1. DOMAIN LogOf(b) = 1..b.size /\ \A k \in 1..b.size : LogOf(b)[k] = LogRow(b, k - 1)
      BY DEF LogOf
    <3>2. LogOf(r) = [k \in 1..b.size |-> LogRow(r, k - 1)]
      BY <1>1 DEF LogOf
    <3>3. QED  BY <2>7, <3>1, <3>2
  <2>9. DOMAIN ScreensOf(b)[b.current] = 0..b.height - 1
    BY <2>2 DEF ScreensOf
  <2>10. ScreensOf(r) = [s \in Screens |-> [i \in 0..height - 1 |->
                       IF i \in 0..b.height - 1 THEN Shortened(ScreensOf(b)[s][i], width) ELSE EmptyRow]]
    <3>1. ASSUME NEW s \in Screens, NEW i \in 0..height - 1
          PROVE  r.rows[r.lines[s][i]] =
                   IF i \in 0..b.height - 1 THEN Shortened(ScreensOf(b)[s][i], width) ELSE EmptyRow
      <4>1. i \in 0..b.height - 1 => ScreensOf(b)[s][i] = b.rows[b.lines[s][i]]
        BY DEF ScreensOf
      <4>2. i \in 0..b.height - 1 <=> i < b.height
        BY <2>2
      <4>3. r.rows[r.lines[s][i]] = Line(s, i)
        BY <2>2, <2>6
      <4>4. QED  BY <4>1, <4>2, <4>3
    <3>2. ScreensOf(r) = [s \in Screens |-> [i \in 0..height - 1 |-> r.rows[r.lines[s][i]]]]
      BY <1>1 DEF ScreensOf
    <3>3. QED  BY <3>1, <3>2
  <2>11. ResizeOf(b, u, width, height)
    BY <1>1, <1>5, <2>8, <2>9, <2>10, SeenSame DEF ResizeOf
  <2>12. QED  BY <2>11 DEF u
<1>8. QED  BY <1>3, <1>6, <1>7

(* What the terminal is seen to be at first. *)
LEMMA NewSeen ==
  ASSUME NEW width \in Widths, NEW height \in Heights
  PROVE  LET u == NewTerminal(width, height) IN
         /\ LogOf(u) = <<>> /\ u.current = "normal"
         /\ ScreensOf(u) = [s \in Screens |-> [i \in 0..height - 1 |-> EmptyRow]]
<1> DEFINE u == NewTerminal(width, height)
<1>1. /\ u.size = 0 /\ u.current = "normal" /\ u.height = height
      /\ u.rows = [p \in Places(height) |-> EmptyRow] /\ u.lines = FirstPlaces(height).lines
  BY DEF NewTerminal, NewBuffer
<1>2. TOK(u)
  BY NewOK
<1> HIDE DEF u
<1>3. u.lines \in [Screens -> [0..height - 1 -> Places(height)]]
  BY <1>1, <1>2 DEF TOK, MemoryOK, MemoryTyped, Lengths
<1>4. ScreensOf(u) = [s \in Screens |-> [i \in 0..height - 1 |-> EmptyRow]]
  <2>1. ASSUME NEW s \in Screens, NEW i \in 0..height - 1 PROVE u.rows[u.lines[s][i]] = EmptyRow
    <3>1. PICK p \in Places(height) : p = u.lines[s][i]
      BY <1>3
    <3>2. QED  BY <1>1, <3>1
  <2>2. ScreensOf(u) = [s \in Screens |-> [i \in 0..height - 1 |-> u.rows[u.lines[s][i]]]]
    BY <1>1 DEF ScreensOf
  <2>3. QED  BY <2>1, <2>2
<1>5. LogOf(u) = <<>>
  <2>1. 1..u.size = {}
    BY <1>1
  <2>2. QED  BY <2>1 DEF LogOf
<1>6. QED  BY <1>1, <1>4, <1>5 DEF u

-----------------------------------------------------------------------------
(* Each of these is a step of Scrollback. *)
LEMMA KeptEdit ==
  ASSUME EditOf(t, t') PROVE Kept!Edit
BY DEF EditOf, Kept!Edit, Kept!Rows, LogOf, ScreensOf, LogRow

(* A row that leaves the screen is a Feed. *)
LEMMA KeptFeed ==
  ASSUME FeedOf(t, t') PROVE Kept!Feed
BY DEF FeedOf, Kept!Feed, Kept!Rows, Kept!Most, Most, LogOf, ScreensOf, LogRow

(* Showing a screen is a Switch. *)
LEMMA KeptSwitch ==
  ASSUME NEW s \in Screens, SwitchOf(t, t', s) PROVE Kept!Switch(s)
BY DEF SwitchOf, Kept!Switch, Kept!Rows, Kept!EmptyRow, EmptyRow, LogOf, ScreensOf, LogRow

(* Both cut a row alike. *)
LEMMA KeptCut ==
  ASSUME NEW row, NEW width PROVE Kept!Cut(row, width) = Shortened(row, width)
BY DEF Kept!Cut, Shortened, Kept!Narrowed, Narrowed, Kept!Before, Kept!Split, Kept!Joined, Kept!Least,
       Kept!Most, Kept!Rest, Kept!Blank, Before, Split, Joined, Least, Most, Rest, Blank

(* Cutting every row is a Resize. *)
LEMMA KeptResize ==
  ASSUME NEW width \in Widths, NEW height \in Heights, ResizeOf(t, t', width, height)
  PROVE  Kept!Resize(width, height)
BY KeptCut, ZenonT(60) DEF ResizeOf, Kept!Resize, Kept!Rows, Kept!Names, Kept!EmptyRow, EmptyRow, LogOf, ScreensOf, LogRow, Screens

(* What the control function did is what is seen after. *)
LEMMA KeptDoes ==
  ASSUME TOK(t), NEW u, Does(t, u), Becomes(u) PROVE Kept!Next
<1>1. SameMemory(u, t') /\ TOK(u)
  BY BecomesOK DEF Does
<1>2. PICK v : v = t'
  OBVIOUS
<1>3. LogOf(v) = LogOf(u) /\ ScreensOf(v) = ScreensOf(u) /\ v.current = u.current
  BY <1>1, <1>2, SeenSame
<1>4. CASE Local(t, u)
  <2>1. EditOf(t, u)
    BY <1>4, LocalEdits DEF TOK
  <2>2. EditOf(t, t')
    BY <1>2, <1>3, <2>1 DEF EditOf
  <2>3. QED  BY <2>2, KeptEdit DEF Kept!Next
<1>5. CASE Fed(t, u)
  <2>1. FeedOf(t, u)
    BY <1>5, FedFeeds DEF TOK
  <2>2. FeedOf(t, t')
    BY <1>2, <1>3, <2>1 DEF FeedOf
  <2>3. QED  BY <2>2, KeptFeed DEF Kept!Next
<1>6. ASSUME NEW s \in Screens, Shows(t, u, s) PROVE Kept!Next
  <2>1. SwitchOf(t, u, s)
    BY <1>6, ShowsSwitch DEF TOK
  <2>2. SwitchOf(t, t', s)
    BY <1>2, <1>3, <2>1 DEF SwitchOf
  <2>3. QED  BY <2>2, KeptSwitch DEF Kept!Next, Kept!Names, Screens
<1>7. QED  BY <1>4, <1>5, <1>6 DEF Does, Writes

(* The log and both screens of the terminal are those of Scrollback:       *)
(* whatever is printed, scrolled, inserted, erased, switched to or         *)
(* resized, in memory where rows only change places, a row that leaves the *)
(* normal screen at its top is kept in the log as it was until LogCapacity *)
(* more have left, and no other row is.                                    *)
THEOREM RowsKeptCorrect == Spec => RowsKept
<1>1. Init => Kept!Init
  <2> SUFFICES ASSUME Init PROVE Kept!Init
    OBVIOUS
  <2>1. PICK width \in Widths, height \in Heights : t = NewTerminal(width, height)
    BY DEF Init
  <2>2. /\ LogOf(t) = <<>> /\ t.current = "normal"
        /\ ScreensOf(t) = [s \in Screens |-> [i \in 0..height - 1 |-> EmptyRow]]
    BY <2>1, NewSeen
  <2>3. QED  BY <2>2 DEF Kept!Init, Kept!Names, Kept!EmptyRow, EmptyRow, LogOf, ScreensOf, Screens, LogRow
<1>2. Kempt /\ [Next]_vars => [Kept!Next]_Kept!vars
  <2> SUFFICES ASSUME Kempt, [Next]_vars PROVE [Kept!Next]_Kept!vars
    OBVIOUS
  <2>1. TOK(t)
    BY DEF Kempt
  <2>2. CASE t' = t
    BY <2>2 DEF Kept!vars, LogRow
  <2>3. CASE \E u : Does(t, u) /\ Becomes(u)
    BY <2>1, <2>3, KeptDoes
  <2>4. ASSUME NEW width \in Widths, NEW height \in Heights, t' = Resize(t, width, height)
        PROVE  Kept!Next
    <3>1. EditOf(t, t') \/ ResizeOf(t, t', width, height)
      BY <2>1, <2>4, ResizeCuts
    <3>2. QED  BY <3>1, KeptEdit, KeptResize DEF Kept!Next
  <2>5. QED  BY <2>1, <2>2, <2>3, <2>4, StepDoes
<1>3. QED  BY <1>1, <1>2, KemptInvariant, PTL DEF Spec, RowsKept, Kept!Spec

-----------------------------------------------------------------------------
(* What the window is told, call after call: g[n] is the window after n.   *)
Runs(g, v, calls, m) ==
  g = [n \in 0..m |-> IF n = 0 THEN v ELSE Told(g[n - 1], calls[n])]

(* Any calls can be followed. *)
LEMMA RunsExist ==
  ASSUME NEW v, NEW calls, NEW m \in Nat PROVE \E g : Runs(g, v, calls, m)
<1> DEFINE S == {n \in Nat : ~\E g : Runs(g, v, calls, n)}
<1>1. ASSUME NEW n \in Nat, n \in S, \A k \in S : n <= k PROVE FALSE
  <2>1. CASE n = 0
    <3>1. PICK g : g = [k \in 0..0 |-> v]
      OBVIOUS
    <3>2. g = [k \in 0..n |-> IF k = 0 THEN v ELSE Told(g[k - 1], calls[k])]
      BY <2>1, <3>1
    <3>3. QED  BY <1>1, <3>2 DEF Runs
  <2>2. CASE n # 0
    <3>1. PICK l \in Nat : n = l + 1
      BY <2>2
    <3>2. PICK g : Runs(g, v, calls, l)
      BY <1>1, <3>1
    <3>3. g = [k \in 0..l |-> IF k = 0 THEN v ELSE Told(g[k - 1], calls[k])]
      BY <3>2 DEF Runs
    <3>4. PICK h : h = [k \in 0..n |-> IF k = n THEN Told(g[l], calls[n]) ELSE g[k]]
      OBVIOUS
    <3>5. ASSUME NEW k \in 0..n PROVE h[k] = IF k = 0 THEN v ELSE Told(h[k - 1], calls[k])
      <4>1. CASE k = n
        BY <3>1, <3>4, <4>1
      <4>2. CASE k # n
        BY <3>1, <3>3, <3>4, <4>2
      <4>3. QED  BY <4>1, <4>2
    <3>6. h = [k \in 0..n |-> IF k = 0 THEN v ELSE Told(h[k - 1], calls[k])]
      BY <3>4, <3>5
    <3>7. QED  BY <1>1, <3>6 DEF Runs
  <2>3. QED  BY <2>1, <2>2
<1>2. S \in SUBSET Nat
  OBVIOUS
<1>3. S = {}
  BY <1>1, <1>2, LeastExists
<1>4. QED  BY <1>3

(* The same calls leave the same window. *)
LEMMA RunsSame ==
  ASSUME NEW v, NEW s, NEW r, NEW m \in Nat, NEW l \in Nat, m <= l, NEW g, NEW h,
         Runs(g, v, s, m), Runs(h, v, r, l), \A n \in 1..m : s[n] = r[n]
  PROVE  g[m] = h[m]
<1> DEFINE S == {n \in 0..m : g[n] # h[n]}
<1>1. /\ \A n \in 0..m : g[n] = IF n = 0 THEN v ELSE Told(g[n - 1], s[n])
      /\ \A n \in 0..m : h[n] = IF n = 0 THEN v ELSE Told(h[n - 1], r[n])
  BY DEF Runs
<1>2. ASSUME NEW n \in S, \A k \in S : n <= k PROVE FALSE
  <2>1. n # 0
    BY <1>1
  <2>2. n - 1 \in 0..m /\ n - 1 \notin S /\ n \in 1..m
    BY <1>2, <2>1
  <2>3. QED  BY <1>1, <2>1, <2>2
<1>3. S \in SUBSET Nat
  OBVIOUS
<1>4. S = {}
  BY <1>2, <1>3, LeastExists
<1>5. QED  BY <1>4

(* Following calls is any such run of them. *)
LEMMA FollowIs ==
  ASSUME NEW v, NEW calls, NEW g, Len(calls) \in Nat, Runs(g, v, calls, Len(calls))
  PROVE  Follow(v, calls) = g[Len(calls)]
<1> DEFINE h == CHOOSE f : f = [n \in 0..Len(calls) |-> IF n = 0 THEN v ELSE Told(f[n - 1], calls[n])]
<1>1. Follow(v, calls) = h[Len(calls)]
  BY DEF Follow
<1>2. \E f : f = [n \in 0..Len(calls) |-> IF n = 0 THEN v ELSE Told(f[n - 1], calls[n])]
  BY DEF Runs
<1>3. Runs(h, v, calls, Len(calls))
  BY <1>2 DEF Runs
<1> HIDE DEF h
<1>4. QED  BY <1>1, <1>3, RunsSame

(* No call, and one more. *)
LEMMA FollowNone == ASSUME NEW v PROVE Follow(v, <<>>) = v
<1>1. PICK g : Runs(g, v, <<>>, 0)
  BY RunsExist
<1>2. g[0] = v
  BY <1>1 DEF Runs
<1>3. Len(<<>>) = 0 /\ Len(<<>>) \in Nat
  OBVIOUS
<1>4. QED  BY <1>1, <1>2, <1>3, FollowIs

LEMMA FollowNext ==
  ASSUME NEW v, NEW S, NEW calls \in Seq(S), NEW c \in S
  PROVE  Follow(v, Append(calls, c)) = Told(Follow(v, calls), c)
<1> DEFINE m == Len(calls)
           all == Append(calls, c)
<1>1. /\ m \in Nat /\ m + 1 \in Nat /\ Len(all) = m + 1 /\ all[m + 1] = c
      /\ \A n \in 1..m : calls[n] = all[n]
  OBVIOUS
<1> HIDE DEF m, all
<1>2. PICK g : Runs(g, v, calls, m)
  BY <1>1, RunsExist
<1>3. PICK h : Runs(h, v, all, m + 1)
  BY <1>1, RunsExist
<1>4. g[m] = h[m]
  BY <1>1, <1>2, <1>3, RunsSame
<1>5. h[m + 1] = Told(h[m], all[m + 1])
  <2>1. m + 1 \in 0..m + 1 /\ m + 1 # 0 /\ (m + 1) - 1 = m
    BY <1>1
  <2>2. QED  BY <1>3, <2>1 DEF Runs
<1>6. Follow(v, calls) = g[m] /\ Follow(v, all) = h[m + 1]
  BY <1>1, <1>2, <1>3, FollowIs DEF m
<1>7. QED  BY <1>1, <1>4, <1>5, <1>6 DEF all

-----------------------------------------------------------------------------
(* The row i of all there is to scroll to, and what is drawn of it while    *)
(* output is read: its cells only.                                         *)
All(b) == 0..b.size + b.height - 1
RowAt(b, i) == IF i < b.size THEN LogRow(b, i) ELSE At(b, i - b.size)
Plain(b, i) == [cells |-> RowAt(b, i).cells, cursor |-> <<>>, preedit |-> <<>>]

(* The window v is one of the terminal b; what is valid of it is what is to *)
(* be drawn.                                                               *)
Suits(b, v) ==
  /\ v = [position |-> v.position, valid |-> v.valid, shown |-> v.shown]
  /\ v.position \in 0..b.size /\ v.valid \in SUBSET Lengths(b) /\ DOMAIN v.shown = Lengths(b)
Synced(b, v) == Suits(b, v) /\ \A k \in v.valid : v.shown[k] = Plain(b, k + v.position)

CallRecords ==
  [call : {"invalidate", "scroll", "log"}, y : Int, n : Nat, dy : Int, log : Nat]

(* It is, once it has followed the calls that b has made. *)
Sync(v, b) == b.calls \in Seq(CallRecords) /\ Synced(b, Follow(v, b.calls))

(* The row k of the view is one of the n from y of the screen. *)
Among(b, v, k, y, n) ==
  y <= (k + v.position) - b.size /\ (k + v.position) - b.size < y + n

(* f_invalidate: the rows of it that are in view are not valid any more. *)
LEMMA ToldInvalidate ==
  ASSUME NEW b, MemoryTyped(b), NEW v, Suits(b, v), NEW y \in Int, NEW n \in Nat, NEW w,
         w = Told(v, [call |-> "invalidate", y |-> y, n |-> n, dy |-> 0, log |-> b.size])
  PROVE  /\ Suits(b, w) /\ w.position = v.position /\ w.shown = v.shown
         /\ w.valid = {k \in v.valid : ~Among(b, v, k, y, n)}
<1> DEFINE H     == Cardinality(DOMAIN v.shown)
           first == y + b.size - v.position
<1>1. /\ H = b.height /\ b.height \in Nat \ {0, 1} /\ b.size \in Nat /\ v.position \in Nat
      /\ Lengths(b) = 0..b.height - 1 /\ v.valid \in SUBSET (0..b.height - 1)
  <2>1. b.height \in Nat \ {0, 1} /\ b.size \in Nat /\ v.position \in Nat
    BY Numbers DEF MemoryTyped, Suits
  <2>2. Lengths(b) = 0..b.height - 1 /\ DOMAIN v.shown = 0..b.height - 1 /\ v.valid \in SUBSET (0..b.height - 1)
    BY DEF Lengths, Suits
  <2>3. Cardinality(0..b.height - 1) = b.height
    <3>1. PICK m \in Nat : m = b.height /\ m > 0
      BY <2>1
    <3>2. Cardinality(0..m - 1) = IF 0 > m - 1 THEN 0 ELSE m - 1 - 0 + 1
      BY FS_Interval
    <3>3. QED  BY <3>1, <3>2
  <2>4. QED  BY <2>1, <2>2, <2>3
<1> HIDE DEF H
<1>2. \A k \in v.valid : Among(b, v, k, y, n) <=> first <= k /\ k < first + n
  BY <1>1, SMTT(30) DEF Among
<1>3. w = IF first + n < 0 \/ first >= H THEN v
          ELSE Invalidated(v, Most(first, 0), Least(first + n, H))
  BY DEF Told, H
<1> HIDE DEF first
<1>4. first \in Int
  BY <1>1 DEF first
<1>5. CASE first + n < 0 \/ first >= H
  <2>1. w = v
    BY <1>3, <1>5
  <2>2. \A k \in v.valid : ~Among(b, v, k, y, n)
    BY <1>1, <1>2, <1>4, <1>5
  <2>3. QED  BY <2>1, <2>2
<1>6. CASE ~(first + n < 0 \/ first >= H)
  <2> DEFINE gone == Most(first, 0)..Least(first + n, H) - 1
  <2>1. w = [v EXCEPT !.valid = v.valid \ gone]
    BY <1>3, <1>6 DEF Invalidated
  <2>2. \A k \in v.valid : k \in gone <=> Among(b, v, k, y, n)
    BY <1>1, <1>2, <1>4, <1>6 DEF Most, Least
  <2> HIDE DEF gone
  <2>3. /\ w = [position |-> v.position, valid |-> v.valid \ gone, shown |-> v.shown]
        /\ w.position = v.position /\ w.shown = v.shown /\ w.valid = v.valid \ gone
    BY <2>1 DEF Suits
  <2>4. w.valid = {k \in v.valid : ~Among(b, v, k, y, n)}
    BY <2>2, <2>3
  <2>5. Suits(b, w)
    BY <2>3 DEF Suits
  <2>6. QED  BY <2>3, <2>4, <2>5
<1>7. QED  BY <1>5, <1>6

(* f_scroll: what is valid among the rows has moved by dy from rows that    *)
(* were.                                                                   *)
LEMMA ToldScroll ==
  ASSUME NEW b, MemoryTyped(b), NEW v, Suits(b, v), NEW y \in Int, NEW n \in Nat, NEW dy \in Int, NEW w,
         w = Told(v, [call |-> "scroll", y |-> y, n |-> n, dy |-> dy, log |-> b.size])
  PROVE  /\ Suits(b, w) /\ w.position = v.position
         /\ \A k \in w.valid :
              \/ ~Among(b, v, k, y, n) /\ k \in v.valid /\ w.shown[k] = v.shown[k]
              \/ /\ Among(b, v, k, y, n) /\ Among(b, v, k - dy, y, n) /\ k - dy \in v.valid
                 /\ w.shown[k] = v.shown[k - dy]
<1> DEFINE H     == Cardinality(DOMAIN v.shown)
           first == y + b.size - v.position
           from  == Most(first, 0)
           to    == Least(first + n, H)
           In(k) == from <= k /\ k < to
           moved == {k \in from..to - 1 : In(k - dy) /\ k - dy \in v.valid}
<1>1. /\ H = b.height /\ b.height \in Nat \ {0, 1} /\ b.size \in Nat /\ v.position \in Nat
      /\ Lengths(b) = 0..b.height - 1 /\ v.valid \in SUBSET (0..b.height - 1)
      /\ DOMAIN v.shown = 0..b.height - 1
  <2>1. b.height \in Nat \ {0, 1} /\ b.size \in Nat /\ v.position \in Nat
    BY Numbers DEF MemoryTyped, Suits
  <2>2. Lengths(b) = 0..b.height - 1 /\ DOMAIN v.shown = 0..b.height - 1 /\ v.valid \in SUBSET (0..b.height - 1)
    BY DEF Lengths, Suits
  <2>3. Cardinality(0..b.height - 1) = b.height
    <3>1. PICK m \in Nat : m = b.height /\ m > 0
      BY <2>1
    <3>2. Cardinality(0..m - 1) = IF 0 > m - 1 THEN 0 ELSE m - 1 - 0 + 1
      BY FS_Interval
    <3>3. QED  BY <3>1, <3>2
  <2>4. QED  BY <2>1, <2>2, <2>3
<1> HIDE DEF H
<1>2. \A k \in Int : Among(b, v, k, y, n) <=> first <= k /\ k < first + n
  <2> SUFFICES ASSUME NEW k \in Int PROVE Among(b, v, k, y, n) <=> first <= k /\ k < first + n
    OBVIOUS
  <2> HIDE DEF from, to, moved
  <2>1. PICK f \in Int : f = first /\ f = y + b.size - v.position
    BY <1>1
  <2>2. PICK o \in Int, z \in Int : o = v.position /\ z = b.size
    BY <1>1
  <2>3. y <= (k + o) - z /\ (k + o) - z < y + n <=> f <= k /\ k < f + n
    BY <2>1, <2>2
  <2>4. QED  BY <2>1, <2>2, <2>3 DEF Among
<1>3. w = IF first + n < 0 \/ first >= H THEN v ELSE Scrolled(v, from, to, dy)
  BY DEF Told, H
<1>4. first \in Int
  BY <1>1
<1>5. CASE first + n < 0 \/ first >= H
  <2>1. w = v
    BY <1>3, <1>5
  <2>2. \A k \in v.valid : ~Among(b, v, k, y, n)
    BY <1>1, <1>2, <1>4, <1>5
  <2>3. QED  BY <2>1, <2>2
<1>6. CASE ~(first + n < 0 \/ first >= H)
  <2> DEFINE new   == {k \in v.valid : ~In(k)} \cup moved
             pixel == [k \in DOMAIN v.shown |-> IF moved # {} /\ In(k) /\ In(k - dy) THEN v.shown[k - dy]
                                               ELSE v.shown[k]]
  <2>1. w = [v EXCEPT !.valid = new, !.shown = pixel]
    BY <1>3, <1>6 DEF Scrolled
  <2>2. from \in Nat /\ to \in Int /\ to <= b.height
    BY <1>1, <1>4 DEF Most, Least
  <2>3. \A k \in Int : In(k) => Among(b, v, k, y, n) /\ k \in 0..b.height - 1
    BY <1>1, <1>2, <1>4 DEF Most, Least
  <2>4. \A k \in 0..b.height - 1 : Among(b, v, k, y, n) => In(k)
    BY <1>1, <1>2, <1>4 DEF Most, Least
  <2>5. /\ w = [position |-> v.position, valid |-> new, shown |-> pixel]
        /\ w.position = v.position /\ w.shown = pixel /\ w.valid = new
    <3> HIDE DEF new, pixel
    <3>1. QED  BY <2>1 DEF Suits
  <2> HIDE DEF from, to, first
  <2>6. new \in SUBSET (0..b.height - 1) /\ DOMAIN pixel = 0..b.height - 1
    BY <1>1, <2>2
  <2>7. ASSUME NEW k \in new
        PROVE  \/ ~Among(b, v, k, y, n) /\ k \in v.valid /\ pixel[k] = v.shown[k]
               \/ /\ Among(b, v, k, y, n) /\ Among(b, v, k - dy, y, n) /\ k - dy \in v.valid
                  /\ pixel[k] = v.shown[k - dy]
    <3>1. k \in 0..b.height - 1 /\ k \in DOMAIN v.shown /\ k - dy \in Int
      BY <1>1, <2>6
    <3>2. CASE k \in v.valid /\ ~In(k)
      BY <2>4, <3>1, <3>2
    <3>3. CASE k \in moved
      <4>1. In(k) /\ In(k - dy) /\ k - dy \in v.valid
        BY <2>2, <3>1, <3>3
      <4>2. pixel[k] = v.shown[k - dy]
        BY <3>1, <3>3, <4>1
      <4>3. QED  BY <2>3, <3>1, <4>1, <4>2
    <3>4. QED  BY <3>2, <3>3
  <2> HIDE DEF new, pixel
  <2>8. Suits(b, w)
    BY <1>1, <2>5, <2>6 DEF Suits
  <2>9. QED  BY <2>5, <2>7, <2>8
<1>7. QED  BY <1>5, <1>6

-----------------------------------------------------------------------------
(* The numbers of a view. *)
LEMMA ViewNumbers ==
  ASSUME NEW b, MemoryTyped(b), NEW v, Suits(b, v)
  PROVE  /\ b.size \in Nat /\ b.height \in Nat \ {0, 1} /\ Lengths(b) = 0..b.height - 1
         /\ v.position \in Nat /\ v.position <= b.size
         /\ \A k \in v.valid : k \in Lengths(b) /\ k \in Int /\ k + v.position \in All(b)
<1>1. /\ b.size \in Nat /\ b.height \in Nat \ {0, 1} /\ Lengths(b) = 0..b.height - 1
      /\ v.position \in Nat /\ v.position <= b.size
  BY Numbers, LogAssumption DEF MemoryTyped, Suits, Lengths
<1>2. v.valid \in SUBSET Lengths(b)
  BY DEF Suits
<1>3. QED  BY <1>1, <1>2 DEF All

(* The rows of both, but those of R, have the same cells. *)
SameBut(b, u, R) ==
  /\ u.size = b.size /\ u.height = b.height
  /\ \A i \in All(b) : i \in R \/ RowAt(u, i).cells = RowAt(b, i).cells

(* A row is changed only by a change of the memory. *)
LEMMA SameRowAt ==
  ASSUME NEW b, NEW u, SameMemory(b, u)
  PROVE  SameBut(b, u, {}) /\ \A i : RowAt(u, i) = RowAt(b, i)
BY DEF SameMemory, SameSizes, SameLog, SameBut, RowAt, LogRow, At, Screen

(* What changes no row and makes no call. *)
LEMMA SyncSame ==
  ASSUME NEW v, NEW b, NEW u, Sync(v, b), MemoryTyped(b), SameBut(b, u, {}), u.calls = b.calls
  PROVE  Sync(v, u)
<1> DEFINE f == Follow(v, b.calls)
<1>1. Synced(b, f) /\ b.calls \in Seq(CallRecords)
  BY DEF Sync
<1>2. u.size = b.size /\ u.height = b.height /\ \A i \in All(b) : RowAt(u, i).cells = RowAt(b, i).cells
  BY DEF SameBut
<1>3. \A k \in f.valid : Plain(u, k + f.position) = Plain(b, k + f.position)
  BY <1>1, <1>2, ViewNumbers DEF Synced, Plain
<1> HIDE DEF f
<1>4. Synced(u, f)
  BY <1>1, <1>2, <1>3 DEF Synced, Suits, Lengths
<1>5. QED  BY <1>1, <1>4 DEF Sync, f

(* What the cursor, a mode or a stop changes is not seen. *)
LEMMA SyncMemory ==
  ASSUME NEW v, NEW b, NEW u, Sync(v, b), MemoryTyped(b), SameMemory(b, u), u.calls = b.calls
  PROVE  Sync(v, u)
BY SameRowAt, SyncSame

(* The rows n from y of the screen. *)
Band(b, y, n) == {i \in All(b) : y <= i - b.size /\ i - b.size < y + n}

(* They are those of the view that are among them. *)
LEMMA AmongBand ==
  ASSUME NEW b, NEW f, NEW k, k + f.position \in All(b), NEW y, NEW n
  PROVE  Among(b, f, k, y, n) <=> k + f.position \in Band(b, y, n)
<1>1. PICK i : i = k + f.position
  OBVIOUS
<1>2. i \in Band(b, y, n) <=> y <= i - b.size /\ i - b.size < y + n
  BY <1>1 DEF Band
<1>3. Among(b, f, k, y, n) <=> y <= i - b.size /\ i - b.size < y + n
  BY <1>1 DEF Among
<1>4. QED  BY <1>1, <1>2, <1>3

(* Rows that were changed are invalidated. *)
LEMMA SyncInvalidate ==
  ASSUME NEW v, NEW b, NEW u, Sync(v, b), MemoryTyped(b), NEW y \in Int, NEW n \in Nat,
         DOMAIN u = Fields, SameBut(b, u, Band(b, y, n)), u.calls = b.calls
  PROVE  Sync(v, Invalidate(u, y, n))
<1> DEFINE f == Follow(v, b.calls)
           c == [call |-> "invalidate", y |-> y, n |-> n, dy |-> 0, log |-> b.size]
           w == Told(f, c)
           z == Invalidate(u, y, n)
<1>1. Synced(b, f) /\ Suits(b, f) /\ b.calls \in Seq(CallRecords) /\ b.size \in Nat
  BY ViewNumbers DEF Sync, Synced
<1>2. /\ u.size = b.size /\ u.height = b.height
      /\ \A i \in All(b) : i \in Band(b, y, n) \/ RowAt(u, i).cells = RowAt(b, i).cells
  BY DEF SameBut
<1>3. c \in CallRecords
  BY <1>1 DEF CallRecords
<1>4. /\ z.size = b.size /\ z.height = b.height /\ z.calls = Append(b.calls, c)
      /\ \A i : RowAt(z, i) = RowAt(u, i)
  BY <1>2 DEF Invalidate, Fields, RowAt, LogRow, At, Screen
<1> HIDE DEF z, c
<1>5. Follow(v, z.calls) = w /\ z.calls \in Seq(CallRecords)
  BY <1>1, <1>3, <1>4, FollowNext
<1> HIDE DEF f
<1>6. /\ Suits(b, w) /\ w.position = f.position /\ w.shown = f.shown
      /\ w.valid = {k \in f.valid : ~Among(b, f, k, y, n)}
  BY <1>1, ToldInvalidate DEF c
<1> HIDE DEF w
<1>7. ASSUME NEW k \in w.valid PROVE w.shown[k] = Plain(z, k + w.position)
  <2>1. k \in f.valid /\ ~Among(b, f, k, y, n) /\ k + f.position \in All(b)
    BY <1>1, <1>6, ViewNumbers
  <2>2. k + f.position \notin Band(b, y, n)
    BY <1>1, <2>1, AmongBand
  <2>3. f.shown[k] = Plain(b, k + f.position)
    BY <1>1, <2>1 DEF Synced
  <2>4. RowAt(z, k + f.position).cells = RowAt(b, k + f.position).cells
    BY <1>2, <1>4, <2>1, <2>2
  <2>5. QED  BY <1>6, <2>3, <2>4 DEF Plain
<1>8. Synced(z, w)
  BY <1>4, <1>6, <1>7 DEF Synced, Suits, Lengths
<1>9. QED  BY <1>5, <1>8 DEF Sync, z

(* Rows that were moved are scrolled. *)
LEMMA SyncScroll ==
  ASSUME NEW v, NEW b, NEW u, Sync(v, b), MemoryTyped(b), NEW y \in Int, NEW n \in Nat, NEW dy \in Int,
         DOMAIN u = Fields, SameBut(b, u, Band(b, y, n)), u.calls = b.calls,
         \A i \in Band(b, y, n) :
           i - dy \in Band(b, y, n) => RowAt(u, i).cells = RowAt(b, i - dy).cells
  PROVE  Sync(v, Scroll(u, y, n, dy))
<1> DEFINE f == Follow(v, b.calls)
           c == [call |-> "scroll", y |-> y, n |-> n, dy |-> dy, log |-> b.size]
           w == Told(f, c)
           z == Scroll(u, y, n, dy)
<1>1. Synced(b, f) /\ Suits(b, f) /\ b.calls \in Seq(CallRecords) /\ b.size \in Nat
  BY ViewNumbers DEF Sync, Synced
<1>2. /\ u.size = b.size /\ u.height = b.height
      /\ \A i \in All(b) : i \in Band(b, y, n) \/ RowAt(u, i).cells = RowAt(b, i).cells
  BY DEF SameBut
<1>3. c \in CallRecords
  BY <1>1 DEF CallRecords
<1>4. /\ z.size = b.size /\ z.height = b.height /\ z.calls = Append(b.calls, c)
      /\ \A i : RowAt(z, i) = RowAt(u, i)
  BY <1>2 DEF Scroll, Fields, RowAt, LogRow, At, Screen
<1> HIDE DEF z, c
<1>5. Follow(v, z.calls) = w /\ z.calls \in Seq(CallRecords)
  BY <1>1, <1>3, <1>4, FollowNext
<1> HIDE DEF f
<1>6. /\ Suits(b, w) /\ w.position = f.position
      /\ \A k \in w.valid :
           \/ ~Among(b, f, k, y, n) /\ k \in f.valid /\ w.shown[k] = f.shown[k]
           \/ /\ Among(b, f, k, y, n) /\ Among(b, f, k - dy, y, n) /\ k - dy \in f.valid
              /\ w.shown[k] = f.shown[k - dy]
  BY <1>1, ToldScroll DEF c
<1> HIDE DEF w
<1>n. /\ f.position \in Int /\ b.size \in Int
      /\ \A k \in w.valid : k \in Int /\ k + f.position \in All(b)
      /\ \A k \in f.valid : k \in Int /\ k + f.position \in All(b) /\ f.shown[k] = Plain(b, k + f.position)
  BY <1>1, <1>6, ViewNumbers DEF Synced
<1>b. \A k \in Int : k + f.position \in All(b) =>
        (Among(b, f, k, y, n) <=> k + f.position \in Band(b, y, n))
  BY <1>1, AmongBand
<1>7. ASSUME NEW k \in w.valid PROVE w.shown[k] = Plain(z, k + w.position)
  <2>1. CASE ~Among(b, f, k, y, n) /\ k \in f.valid /\ w.shown[k] = f.shown[k]
    <3>1. k + f.position \notin Band(b, y, n) /\ k + f.position \in All(b)
      BY <1>n, <1>b, <2>1
    <3>2. RowAt(z, k + f.position).cells = RowAt(b, k + f.position).cells
      BY <1>2, <1>4, <3>1
    <3>3. QED  BY <1>6, <1>n, <2>1, <3>2 DEF Plain
  <2>2. CASE /\ Among(b, f, k, y, n) /\ Among(b, f, k - dy, y, n) /\ k - dy \in f.valid
             /\ w.shown[k] = f.shown[k - dy]
    <3>1. k + f.position \in Band(b, y, n)
      BY <1>n, <1>b, <2>2
    <3>2. PICK i \in Int : i = k + f.position
      BY <1>n
    <3>3. k - dy \in Int /\ (k - dy) + f.position = i - dy /\ i - dy \in All(b)
      BY <1>n, <2>2, <3>2
    <3>4. i - dy \in Band(b, y, n)
      BY <1>b, <2>2, <3>3
    <3>5. RowAt(u, i).cells = RowAt(b, i - dy).cells
      BY <3>1, <3>2, <3>4
    <3>6. w.shown[k] = Plain(b, i - dy)
      BY <1>n, <2>2, <3>3
    <3>7. QED  BY <1>4, <1>6, <3>2, <3>5, <3>6 DEF Plain
  <2>3. QED  BY <1>6, <2>1, <2>2
<1>8. Synced(z, w)
  BY <1>4, <1>6, <1>7 DEF Synced, Suits, Lengths
<1>9. QED  BY <1>5, <1>8 DEF Sync, z

(* f_scroll tells of the cursor before and after. *)
LEMMA SyncWithCursor ==
  ASSUME NEW v, NEW b, NEW u, Sync(v, b), MemoryTyped(b), NEW y \in Int, NEW n \in Nat, NEW dy \in Int,
         DOMAIN u = Fields, u.y = b.y, b.y \in Int, MemoryTyped(u), SameBut(b, u, Band(b, y, n)),
         u.calls = b.calls,
         \A i \in Band(b, y, n) :
           i - dy \in Band(b, y, n) => RowAt(u, i).cells = RowAt(b, i - dy).cells
  PROVE  Sync(v, ScrollWithCursor(u, y, n, dy))
<1>1. CASE ~(y <= u.y /\ u.y < y + n)
  BY <1>1, SyncScroll DEF ScrollWithCursor
<1>2. CASE y <= u.y /\ u.y < y + n
  <2>1. PICK c : c = Invalidate(b, b.y, 1)
    OBVIOUS
  <2>2. PICK d : d = Invalidate(u, u.y, 1)
    OBVIOUS
  <2>3. DOMAIN b = Fields /\ u.size = b.size
    BY DEF MemoryTyped, SameBut
  <2>4. /\ SameMemory(b, c) /\ SameMemory(u, d) /\ MemoryTyped(c) /\ MemoryTyped(d) /\ d.y = b.y
        /\ d.calls = c.calls /\ DOMAIN d = Fields /\ c.size = b.size /\ c.height = b.height
        /\ d.size = u.size /\ d.height = u.height
    BY <2>1, <2>2, <2>3, ToldMemory
       DEF Fields, Invalidate, SameMemory, SameSizes, SameLog, SamePlace, MemoryTyped, Lengths
  <2>5. Sync(v, c)
    <3>1. SameBut(b, b, Band(b, b.y, 1)) /\ 1 \in Nat
      BY DEF SameBut
    <3>2. QED  BY <2>1, <2>3, <3>1, SyncInvalidate
  <2>6. (\A i : RowAt(c, i) = RowAt(b, i)) /\ \A i : RowAt(d, i) = RowAt(u, i)
    BY <2>4, SameRowAt
  <2>7. All(c) = All(b) /\ Band(c, y, n) = Band(b, y, n)
    BY <2>4 DEF All, Band
  <2>8. SameBut(c, d, Band(c, y, n))
    BY <2>4, <2>6, <2>7 DEF SameBut
  <2>9. PICK e : e = Scroll(d, y, n, dy)
    OBVIOUS
  <2>10. Sync(v, e)
    BY <2>4, <2>5, <2>6, <2>7, <2>8, <2>9, SyncScroll
  <2>11. SameMemory(d, e) /\ DOMAIN e = Fields /\ MemoryTyped(e) /\ e.y = b.y
    BY <2>4, <2>9, ToldMemory
       DEF Fields, Scroll, SameMemory, SameSizes, SameLog, SamePlace, MemoryTyped, Lengths
  <2>12. Sync(v, Invalidate(e, b.y, 1))
    <3>1. SameBut(e, e, Band(e, b.y, 1)) /\ 1 \in Nat
      BY DEF SameBut
    <3>2. QED  BY <2>10, <2>11, <3>1, SyncInvalidate
  <2>13. ScrollWithCursor(u, y, n, dy) = Invalidate(e, b.y, 1)
    BY <1>2, <2>2, <2>9 DEF ScrollWithCursor
  <2>14. QED  BY <2>12, <2>13
<1>3. QED  BY <1>1, <1>2

-----------------------------------------------------------------------------
(* The place of the row i of all there is to scroll to. *)
PlaceOf(b, i) ==
  IF i < b.size THEN b.log[(b.begin + i) % LogCapacity] ELSE Screen(b)[i - b.size]

(* A row of the log is not on the screen. *)
LEMMA RowPlace ==
  ASSUME NEW b, MemoryOK(b), NEW i \in All(b)
  PROVE  /\ RowAt(b, i) = b.rows[PlaceOf(b, i)] /\ PlaceOf(b, i) \in Places(b.height)
         /\ i < b.size => ~OnScreen(b, PlaceOf(b, i))
         /\ ~(i < b.size) => i - b.size \in Lengths(b) /\ PlaceOf(b, i) = Screen(b)[i - b.size]
<1>1. /\ b.size \in Nat /\ b.height \in Nat /\ b.log \in [Slots -> Places(b.height)] /\ b.current \in Screens
      /\ \A y \in Lengths(b) : Screen(b)[y] \in Places(b.height)
  BY TakenSlot, Numbers DEF MemoryOK, MemoryTyped
<1>2. RowAt(b, i) = b.rows[PlaceOf(b, i)]
  BY DEF RowAt, PlaceOf, LogRow, At
<1>3. CASE i < b.size
  <2>1. i \in 0..b.size - 1
    BY <1>1, <1>3 DEF All
  <2>2. PICK c \in Slots : c = (b.begin + i) % LogCapacity
    BY <2>1, LogSlot
  <2>3. PlaceOf(b, i) = b.log[c]
    BY <1>3, <2>2 DEF PlaceOf
  <2>4. \A j \in Lengths(b) : Screen(b)[j] # b.log[c]
    BY <1>1 DEF MemoryOK, Apart, Screen
  <2>5. QED  BY <1>1, <1>2, <1>3, <2>3, <2>4 DEF OnScreen
<1>4. CASE ~(i < b.size)
  <2>1. i - b.size \in Lengths(b)
    BY <1>1, <1>4 DEF All, Lengths
  <2>2. PlaceOf(b, i) = Screen(b)[i - b.size]
    BY <1>4 DEF PlaceOf
  <2>3. QED  BY <1>1, <1>2, <1>4, <2>1, <2>2
<1>5. QED  BY <1>3, <1>4

(* Rows that are in none of the places that change are as before. *)
LEMMA ChangedBut ==
  ASSUME NEW b, NEW u, MemoryOK(b), SameSizes(b, u), SameLog(b, u), u.lines = b.lines, NEW y \in Int, NEW n \in Nat,
         \A p \in Places(b.height) :
           (\E j \in Lengths(b) : y <= j /\ j < y + n /\ Screen(b)[j] = p) \/ u.rows[p].cells = b.rows[p].cells
  PROVE  SameBut(b, u, Band(b, y, n))
<1>1. ASSUME NEW i \in All(b), i \notin Band(b, y, n) PROVE RowAt(u, i).cells = RowAt(b, i).cells
  <2>1. PICK p \in Places(b.height) : p = PlaceOf(b, i)
    BY RowPlace
  <2>2. RowAt(b, i) = b.rows[p] /\ RowAt(u, i) = u.rows[p]
    BY <2>1, RowPlace DEF RowAt, PlaceOf, LogRow, At, SameSizes, SameLog, Screen
  <2>3. ~\E j \in Lengths(b) : y <= j /\ j < y + n /\ Screen(b)[j] = p
    <3>1. CASE i < b.size
      BY <2>1, <3>1, RowPlace DEF OnScreen
    <3>2. CASE ~(i < b.size)
      <4>1. i - b.size \in Lengths(b) /\ p = Screen(b)[i - b.size]
        BY <2>1, <3>2, RowPlace
      <4>2. ~(y <= i - b.size /\ i - b.size < y + n)
        BY <1>1 DEF Band
      <4>3. \A j \in Lengths(b) : Screen(b)[j] = Screen(b)[i - b.size] => j = i - b.size
        BY <4>1 DEF MemoryOK, MemoryTyped, Apart, Screen
      <4>4. QED  BY <4>1, <4>2, <4>3
    <3>3. QED  BY <3>1, <3>2
  <2>4. QED  BY <2>2, <2>3
<1>2. QED  BY <1>1 DEF SameBut, SameSizes, SameLog

(* f_insert, f_put and f_erase: the row is told of. *)
LEMMA SyncEdited ==
  ASSUME NEW v, NEW b, Sync(v, b), MemoryOK(b), NEW y \in Lengths(b), NEW cells
  PROVE  Sync(v, Invalidate(Edited(b, y, cells), y, 1))
<1> DEFINE u == Edited(b, y, cells)
           p == Screen(b)[y]
<1>1. DOMAIN b = Fields /\ p \in Places(b.height) /\ b.rows \in [Places(b.height) -> RowRecords]
      /\ b.height \in Nat /\ y \in Int /\ MemoryTyped(b)
  BY Numbers DEF MemoryOK, MemoryTyped, Lengths
<1>2. u = [b EXCEPT !.rows = [b.rows EXCEPT ![p] = [b.rows[p] EXCEPT !.cells = cells]]]
  BY DEF Edited
<1> HIDE DEF u, p
<1>3. /\ SameSizes(b, u) /\ SameLog(b, u) /\ u.lines = b.lines /\ u.calls = b.calls
      /\ u.rows = [b.rows EXCEPT ![p] = [b.rows[p] EXCEPT !.cells = cells]]
  BY <1>1, <1>2 DEF Fields, SameSizes, SameLog
<1>4. \A q \in Places(b.height) : q = p \/ u.rows[q] = b.rows[q]
  BY <1>1, <1>3
<1>5. \A q \in Places(b.height) :
        (\E j \in Lengths(b) : y <= j /\ j < y + 1 /\ Screen(b)[j] = q) \/ u.rows[q].cells = b.rows[q].cells
  <2>1. y <= y /\ y < y + 1
    BY <1>1
  <2>2. QED  BY <1>4, <2>1 DEF p
<1>6. 1 \in Nat /\ y \in Int /\ DOMAIN u = Fields
  BY <1>1, <1>3 DEF SameSizes
<1>7. SameBut(b, u, Band(b, y, 1))
  BY <1>3, <1>5, <1>6, ChangedBut
<1>8. Sync(v, Invalidate(u, y, 1))
  BY <1>1, <1>3, <1>6, <1>7, SyncInvalidate
<1>9. QED  BY <1>8 DEF u

LEMMA SyncRow ==
  ASSUME NEW v, NEW b, Sync(v, b), MemoryOK(b), NEW y \in Lengths(b), NEW x, NEW n, NEW c, NEW shift
  PROVE  /\ Sync(v, InsertIn(b, x, y, n)) /\ Sync(v, PutIn(b, x, y, c, n, shift))
         /\ Sync(v, EraseIn(b, x, y, n, shift))
BY SyncEdited DEF InsertIn, PutIn, EraseIn

(* f_erase: so are rows that are emptied. *)
LEMMA SyncErased ==
  ASSUME NEW v, NEW b, Sync(v, b), MemoryOK(b), NEW y \in Nat, NEW n \in Nat,
         y + n <= b.height
  PROVE  Sync(v, EraseRows(b, y, n))
<1> DEFINE u == [b EXCEPT !.rows = Cleared(b, y..y + n - 1)]
<1>1. /\ DOMAIN b = Fields /\ DOMAIN b.rows = Places(b.height) /\ MemoryTyped(b)
      /\ b.height \in Nat /\ Lengths(b) = 0..b.height - 1
  BY Numbers DEF MemoryOK, MemoryTyped, Lengths
<1>2. /\ SameSizes(b, u) /\ SameLog(b, u) /\ u.lines = b.lines /\ u.calls = b.calls /\ DOMAIN u = Fields
      /\ u.rows = Cleared(b, y..y + n - 1)
  BY <1>1 DEF Fields, SameSizes, SameLog
<1>3. EraseRows(b, y, n) = Invalidate(u, y, n)
  BY DEF EraseRows
<1> HIDE DEF u
<1>4. ASSUME NEW p \in Places(b.height)
      PROVE  (\E j \in Lengths(b) : y <= j /\ j < y + n /\ Screen(b)[j] = p) \/ u.rows[p].cells = b.rows[p].cells
  <2>1. CASE \E j \in y..y + n - 1 : Screen(b)[j] = p
    <3>1. PICK j \in y..y + n - 1 : Screen(b)[j] = p
      BY <2>1
    <3>2. j \in Lengths(b) /\ y <= j /\ j < y + n
      BY <1>1
    <3>3. QED  BY <3>1, <3>2
  <2>2. CASE ~\E j \in y..y + n - 1 : Screen(b)[j] = p
    BY <1>1, <1>2, <2>2 DEF Cleared
  <2>3. QED  BY <2>1, <2>2
<1>5. SameBut(b, u, Band(b, y, n))
  BY <1>2, <1>4, ChangedBut
<1>6. QED  BY <1>1, <1>2, <1>3, <1>5, SyncInvalidate

(* f_wrap changes no cell. *)
LEMMA SyncWrap ==
  ASSUME NEW v, NEW b, Sync(v, b), MemoryOK(b), NEW y \in Lengths(b)
  PROVE  Sync(v, Wrap(b, y))
<1> DEFINE u == Wrap(b, y)
<1>1. RowEdited(b, u, y) /\ \A p \in Places(b.height) : u.rows[p].cells = b.rows[p].cells
  BY WrappedRow
<1>2. u.calls = b.calls
  BY DEF Wrap, MemoryOK, MemoryTyped, Fields
<1> HIDE DEF u
<1>3. SameBut(b, u, Band(b, 0, 0))
  BY <1>1, ChangedBut DEF RowEdited
<1>4. SameBut(b, u, {})
  <2>1. b.size \in Nat
    BY TakenSlot
  <2>2. Band(b, 0, 0) = {}
    BY <2>1 DEF Band, All
  <2>3. QED  BY <1>3, <2>2
<1>5. QED  BY <1>2, <1>4, SyncSame DEF MemoryOK, u

(* The whole screen is told of. *)
LEMMA SyncScreen ==
  ASSUME NEW v, NEW b, NEW u, Sync(v, b), MemoryOK(b), DOMAIN u = Fields, u.size = b.size,
         u.height = b.height, u.calls = b.calls,
         \A i \in All(b) : i < b.size => RowAt(u, i).cells = RowAt(b, i).cells
  PROVE  Sync(v, Invalidate(u, 0, b.height))
<1>1. b.size \in Nat /\ b.height \in Nat /\ 0 \in Int /\ MemoryTyped(b)
  BY TakenSlot, Numbers DEF MemoryOK
<1>2. \A i \in All(b) : i < b.size \/ i \in Band(b, 0, b.height)
  BY <1>1 DEF All, Band
<1>3. SameBut(b, u, Band(b, 0, b.height))
  BY <1>2 DEF SameBut
<1>4. QED  BY <1>1, <1>3, SyncInvalidate

(* f_alternate, but for the rows. *)
LEMMA SyncSwitch ==
  ASSUME NEW v, NEW b, Sync(v, b), MemoryOK(b), NEW s PROVE Sync(v, SwitchTo(b, s))
<1> DEFINE u == [b EXCEPT !.current = s]
<1>1. /\ DOMAIN u = Fields /\ SameLog(b, u) /\ u.height = b.height /\ u.rows = b.rows
      /\ u.calls = b.calls
  BY DEF MemoryOK, MemoryTyped, Fields, SameLog
<1>2. SwitchTo(b, s) = Invalidate(u, 0, b.height)
  BY DEF SwitchTo
<1> HIDE DEF u
<1>3. \A i \in All(b) : i < b.size => RowAt(u, i).cells = RowAt(b, i).cells
  BY <1>1 DEF SameLog, RowAt, LogRow
<1>4. QED  BY <1>1, <1>2, <1>3, SyncScreen DEF SameLog

(* DECALN *)
LEMMA SyncAlign ==
  ASSUME NEW v, NEW b, Sync(v, b), MemoryOK(b), NEW c PROVE Sync(v, Align(b, c))
<1> DEFINE filled == [i \in 1..b.width |-> c]
           rows   == [p \in DOMAIN b.rows |->
                        IF \E y \in 0..b.height - 1 : Screen(b)[y] = p
                        THEN [b.rows[p] EXCEPT !.cells = filled] ELSE b.rows[p]]
           u      == [b EXCEPT !.rows = rows]
<1>1. /\ DOMAIN b = Fields /\ DOMAIN b.rows = Places(b.height)
  BY DEF MemoryOK, MemoryTyped
<1>2. \A p \in Places(b.height) : OnScreen(b, p) \/ rows[p] = b.rows[p]
  BY <1>1 DEF OnScreen, Lengths
<1>3. Align(b, c) = Invalidate(u, 0, b.height)
  BY DEF Align
<1> HIDE DEF rows
<1>4. /\ DOMAIN u = Fields /\ SameLog(b, u) /\ u.height = b.height /\ u.rows = rows
      /\ u.calls = b.calls
  BY <1>1 DEF Fields, SameLog
<1> HIDE DEF u
<1>5. ASSUME NEW i \in All(b), i < b.size PROVE RowAt(u, i).cells = RowAt(b, i).cells
  <2>1. RowAt(u, i) = u.rows[PlaceOf(b, i)]
    BY <1>4, <1>5 DEF RowAt, PlaceOf, LogRow, SameLog
  <2>2. QED  BY <1>2, <1>4, <1>5, <2>1, RowPlace
<1>6. QED  BY <1>3, <1>4, <1>5, SyncScreen DEF SameLog

-----------------------------------------------------------------------------
(* f_scroll_up and f_scroll_down: h rows from y turn, and those that come   *)
(* in at either end are emptied; the others have moved by dy.              *)
LEMMA SyncRotated ==
  ASSUME NEW v, NEW b, Sync(v, b), MemoryOK(b), b.y \in Int, NEW y \in Nat, NEW h \in Nat, y + h <= b.height,
         NEW n \in 0..h, NEW ys \in SUBSET (y..y + h - 1), NEW dy \in Int,
         \A i \in y..y + h - 1 : i - dy \in y..y + h - 1 =>
           i \notin ys /\ Rotated(Screen(b), y, h, n)[i] = Screen(b)[i - dy]
  PROVE  LET moved   == [b EXCEPT !.lines[b.current] = Rotated(@, y, h, n)]
             cleared == [moved EXCEPT !.rows = Cleared(moved, ys)]
         IN Sync(v, ScrollWithCursor(cleared, y, h, dy))
<1> DEFINE f       == Rotated(Screen(b), y, h, n)
           moved   == [b EXCEPT !.lines[b.current] = Rotated(@, y, h, n)]
           cleared == [moved EXCEPT !.rows = Cleared(moved, ys)]
<1>1. /\ b.height \in Nat /\ Lengths(b) = 0..b.height - 1 /\ Screen(b) = b.lines[b.current]
      /\ OneEach(Screen(b), Lengths(b), Places(b.height)) /\ DOMAIN b = Fields /\ MemoryTyped(b)
      /\ b.size \in Nat
  BY Numbers, TakenSlot, SMTT(30) DEF Lengths, Screen, MemoryOK, Apart, MemoryTyped, OneEach
<1>2. OneEach(f, Lengths(b), Places(b.height)) /\ SameRows(f, Screen(b), Lengths(b))
  <2>1. PICK lines : lines = Screen(b)
    OBVIOUS
  <2>2. OneEach(lines, Lengths(b), Places(b.height))
    BY <1>1, <2>1
  <2>3. PICK H \in Nat : H = b.height /\ y + h <= H /\ Lengths(b) = 0..H - 1
    BY <1>1
  <2>4. PICK D : D = Lengths(b)
    OBVIOUS
  <2>5. PICK P : P = Places(b.height)
    OBVIOUS
  <2>6. OneEach(Rotated(lines, y, h, n), D, P) /\ SameRows(Rotated(lines, y, h, n), lines, D)
    BY <2>2, <2>3, <2>4, <2>5, RotatedRows
  <2>7. QED  BY <1>1, <2>1, <2>4, <2>5, <2>6
<1>3. moved = [b EXCEPT !.lines[b.current] = f]
  BY <1>1
<1>f. \A i \in Lengths(b) : ~(y <= i /\ i < y + h) => f[i] = Screen(b)[i]
  <2>1. DOMAIN Screen(b) = Lengths(b)
    BY <1>1 DEF OneEach
  <2>2. ASSUME NEW i \in Lengths(b), ~(y <= i /\ i < y + h) PROVE f[i] = Screen(b)[i]
    <3>1. ~(y <= i /\ i < y + h - n) /\ ~(y + h - n <= i /\ i < y + h)
      BY <1>1, <2>2
    <3>2. QED  BY <2>1, <3>1 DEF Rotated
  <2>3. QED  BY <2>2
<1>h. \A i \in y..y + h - 1 : i - dy \in y..y + h - 1 => i \notin ys /\ f[i] = Screen(b)[i - dy]
  OBVIOUS
<1> HIDE DEF f, moved
<1>4. Local(b, moved) /\ SamePlace(b, moved) /\ Screen(moved) = f /\ moved.rows = b.rows
  BY <1>2, <1>3, OrderedLocal
<1>5. MemoryOK(moved) /\ Lengths(moved) = Lengths(b)
  BY <1>4, LocalOK DEF Local, SameSizes, Lengths
<1>6. ys \in SUBSET Lengths(moved)
  BY <1>1, <1>5
<1>7. Local(moved, cleared) /\ SamePlace(moved, cleared) /\ cleared.lines = moved.lines
  BY <1>5, <1>6, ClearedLocal
<1>8. /\ DOMAIN moved = Fields /\ moved.calls = b.calls
      /\ cleared.calls = b.calls /\ cleared.rows = Cleared(moved, ys)
  BY <1>1, <1>3 DEF Fields
<1> HIDE DEF cleared
<1>9. /\ MemoryOK(cleared) /\ DOMAIN cleared = Fields /\ cleared.y = b.y /\ SameLog(b, cleared)
      /\ cleared.height = b.height /\ cleared.current = b.current /\ Screen(cleared) = f
  BY <1>4, <1>5, <1>7, LocalOK DEF Local, SameSizes, SameLog, SamePlace, Screen
<1>10. ASSUME NEW p \in Places(b.height), \A j \in ys : f[j] # p PROVE cleared.rows[p] = b.rows[p]
  <2>1. DOMAIN moved.rows = Places(b.height)
    BY <1>4 DEF MemoryOK, MemoryTyped
  <2>2. cleared.rows[p] =
          IF \E j \in ys : Screen(moved)[j] = p THEN EmptyRow ELSE moved.rows[p]
    BY <1>8, <1>10, <2>1 DEF Cleared
  <2>3. ~\E j \in ys : Screen(moved)[j] = p
    BY <1>4, <1>10
  <2>4. QED  BY <1>4, <2>2, <2>3
<1>11. ASSUME NEW i \in All(b), i \notin Band(b, y, h) PROVE RowAt(cleared, i).cells = RowAt(b, i).cells
  <2>1. PICK p \in Places(b.height) : p = PlaceOf(b, i) /\ RowAt(b, i) = b.rows[p]
    BY RowPlace
  <2>2. p = PlaceOf(cleared, i) /\ \A j \in ys : f[j] # p
    <3>1. CASE i < b.size
      <4>1. \A j \in Lengths(b) : f[j] # p
        BY <1>2, <2>1, <3>1, RowPlace DEF OnScreen, SameRows
      <4>2. QED  BY <1>5, <1>6, <1>9, <2>1, <3>1, <4>1 DEF PlaceOf, SameLog
    <3>2. CASE ~(i < b.size)
      <4>1. PICK j \in Lengths(b) : j = i - b.size /\ p = Screen(b)[j]
        BY <2>1, <3>2, RowPlace
      <4>2. ~(y <= j /\ j < y + h)
        BY <1>11, <4>1 DEF Band
      <4>3. f[j] = p /\ j \notin ys
        BY <1>f, <4>1, <4>2
      <4>4. \A k \in ys : f[k] # f[j]
        BY <1>2, <1>5, <1>6, <4>3 DEF OneEach
      <4>5. PlaceOf(cleared, i) = f[j]
        BY <1>9, <3>2, <4>1 DEF PlaceOf, SameLog
      <4>6. QED  BY <4>3, <4>4, <4>5
    <3>3. QED  BY <3>1, <3>2
  <2>3. RowAt(cleared, i) = cleared.rows[PlaceOf(cleared, i)]
    BY DEF RowAt, PlaceOf, LogRow, At
  <2>4. QED  BY <1>10, <2>1, <2>2, <2>3
<1>12. ASSUME NEW i \in Band(b, y, h), i - dy \in Band(b, y, h)
       PROVE  RowAt(cleared, i).cells = RowAt(b, i - dy).cells
  <2>1. i \in Int /\ y <= i - b.size /\ i - b.size < y + h /\ i \in All(b) /\ i >= b.size
    BY <1>1 DEF Band, All
  <2>2. i - dy \in Int /\ y <= (i - dy) - b.size /\ (i - dy) - b.size < y + h /\ i - dy \in All(b)
        /\ i - dy >= b.size
    BY <1>1, <1>12 DEF Band, All
  <2>3. PICK j \in y..y + h - 1 : j = i - b.size /\ j - dy = (i - dy) - b.size
    BY <1>1, <2>1
  <2>4. j - dy \in y..y + h - 1
    BY <1>1, <2>2, <2>3, SMTT(30)
  <2>5. j \notin ys /\ f[j] = Screen(b)[j - dy]
    BY <1>h, <2>3, <2>4
  <2>6. j \in Lengths(b) /\ j - dy \in Lengths(b)
    <3>1. \A k \in y..y + h - 1 : k \in Lengths(b)
      BY <1>1
    <3>2. QED  BY <2>3, <2>4, <3>1
  <2>7. f[j] \in Places(b.height) /\ \A k \in ys : f[k] # f[j]
    BY <1>2, <1>5, <1>6, <2>5, <2>6 DEF OneEach
  <2>8. RowAt(cleared, i) = cleared.rows[f[j]]
    <3>1. ~(i < cleared.size) /\ i - cleared.size = j
      BY <1>1, <1>9, <2>1, <2>3 DEF SameLog
    <3>2. QED  BY <1>9, <3>1 DEF RowAt, At
  <2>9. RowAt(b, i - dy) = b.rows[Screen(b)[j - dy]]
    <3>1. ~(i - dy < b.size)
      BY <1>1, <2>2
    <3>2. QED  BY <2>3, <3>1 DEF RowAt, At
  <2>10. QED  BY <1>10, <2>5, <2>7, <2>8, <2>9
<1>13. SameBut(b, cleared, Band(b, y, h))
  BY <1>9, <1>11 DEF SameBut, SameLog
<1>14. MemoryTyped(cleared) /\ y \in Int
  BY <1>9 DEF MemoryOK
<1>15. Sync(v, ScrollWithCursor(cleared, y, h, dy))
  BY <1>1, <1>8, <1>9, <1>12, <1>13, <1>14, SyncWithCursor
<1>16. QED  BY <1>15 DEF cleared, moved

-----------------------------------------------------------------------------
(* f_scroll_up and f_scroll_down, of any number of rows. *)
LEMMA SyncMoved ==
  ASSUME NEW v, NEW b, Sync(v, b), MemoryOK(b), b.y \in Int, NEW y \in Nat, NEW h \in Nat, y + h <= b.height,
         NEW n \in Nat
  PROVE  Sync(v, ScrollUp(b, y, h, n)) /\ Sync(v, ScrollDown(b, y, h, n))
<1>1. PICK m \in 0..h : m = Least(n, h) /\ h - m \in 0..h
  BY DEF Least
<1>2. b.height \in Nat /\ DOMAIN Screen(b) = 0..b.height - 1
  BY Numbers DEF MemoryOK, Lengths
<1>3. Sync(v, ScrollUp(b, y, h, n))
  <2>1. PICK ys \in SUBSET (y..y + h - 1) : ys = y + h - m..y + h - 1
    OBVIOUS
  <2>2. PICK dy \in Int : dy = -m
    OBVIOUS
  <2>3. ASSUME NEW i \in y..y + h - 1, i - dy \in y..y + h - 1
        PROVE  i \notin ys /\ Rotated(Screen(b), y, h, m)[i] = Screen(b)[i - dy]
    <3>1. /\ i - dy = i + m /\ y <= i /\ i < y + h - m /\ i \in 0..b.height - 1 /\ i \notin ys
      BY <1>2, <2>1, <2>2, <2>3
    <3>2. QED  BY <1>2, <3>1 DEF Rotated
  <2>4. LET moved   == [b EXCEPT !.lines[b.current] = Rotated(@, y, h, m)]
            cleared == [moved EXCEPT !.rows = Cleared(moved, ys)]
        IN Sync(v, ScrollWithCursor(cleared, y, h, dy))
    BY <1>1, <2>3, SyncRotated
  <2>5. QED  BY <1>1, <2>1, <2>2, <2>4 DEF ScrollUp
<1>4. Sync(v, ScrollDown(b, y, h, n))
  <2>1. PICK ys \in SUBSET (y..y + h - 1) : ys = y..y + m - 1
    OBVIOUS
  <2>2. PICK k \in 0..h : k = h - m
    BY <1>1
  <2>3. ASSUME NEW i \in y..y + h - 1, i - m \in y..y + h - 1
        PROVE  i \notin ys /\ Rotated(Screen(b), y, h, k)[i] = Screen(b)[i - m]
    <3>1. /\ i \in 0..b.height - 1 /\ i \notin ys /\ ~(y <= i /\ i < y + h - k)
          /\ y + h - k <= i /\ i < y + h /\ i + k - h = i - m
      BY <1>2, <2>1, <2>2, <2>3
    <3>2. QED  BY <1>2, <3>1 DEF Rotated
  <2>4. LET moved   == [b EXCEPT !.lines[b.current] = Rotated(@, y, h, k)]
            cleared == [moved EXCEPT !.rows = Cleared(moved, ys)]
        IN Sync(v, ScrollWithCursor(cleared, y, h, m))
    <3>1. m \in Int
      OBVIOUS
    <3>2. QED  BY <2>2, <2>3, <3>1, SyncRotated
  <2>5. QED  BY <1>1, <2>1, <2>2, <2>4 DEF ScrollDown
<1>5. QED  BY <1>3, <1>4

-----------------------------------------------------------------------------
(* Where the rows are after the screen is fed: the log grows by the row at  *)
(* the top, so that those that follow are where they were; or all move up. *)
LEMMA FedRows ==
  ASSUME NEW b, NEW u, MemoryOK(b), Fed(b, u)
  PROVE  /\ b.size < LogCapacity =>
              u.size = b.size + 1 /\ \A i \in All(b) : RowAt(u, i).cells = RowAt(b, i).cells
         /\ ~(b.size < LogCapacity) =>
              u.size = b.size /\ \A i \in All(b) : i + 1 \in All(b) => RowAt(u, i).cells = RowAt(b, i + 1).cells
<1> DEFINE old == LogOf(b)
           top == At(b, 0)
           all == Append(old, top)
<1>1. FeedOf(b, u)
  BY FedFeeds
<1>2. /\ LogCapacity \in Nat \ {0} /\ b.size \in 0..LogCapacity /\ b.height \in Nat \ {0, 1}
      /\ b.current = "normal" /\ u.current = "normal" /\ u.height = b.height
      /\ u.size = IF b.size < LogCapacity THEN b.size + 1 ELSE b.size
  BY TakenSlot, Numbers DEF MemoryOK, Fed, SameSizes
<1>3. /\ ScreensOf(b)["normal"] = [i \in 0..b.height - 1 |-> At(b, i)]
      /\ ScreensOf(u)["normal"] = [i \in 0..b.height - 1 |-> At(u, i)]
  BY <1>2 DEF ScreensOf, Screens, At, Screen
<1>4. ASSUME NEW i \in 0..b.height - 2 PROVE At(u, i).cells = At(b, i + 1).cells
  <2>1. i \in 0..b.height - 1 /\ i + 1 \in 0..b.height - 1
    BY <1>2
  <2>2. \/ ScreensOf(u)["normal"][i] = ScreensOf(b)["normal"][i + 1]
        \/ ScreensOf(u)["normal"][i].cells = ScreensOf(b)["normal"][i + 1].cells
    BY <1>1, <2>1 DEF FeedOf
  <2>3. QED  BY <1>3, <2>1, <2>2
<1>5. LogOf(u) = SubSeq(all, Most(Len(all) - LogCapacity, 0) + 1, Len(all))
  <2>1. ScreensOf(b)["normal"][0] = top
    BY <1>2, <1>3
  <2>2. QED  BY <1>1, <2>1 DEF FeedOf
<1>6. /\ old \in Seq(RowRecords) /\ Len(old) = b.size /\ top \in RowRecords
      /\ \A k \in 0..b.size - 1 : old[k + 1] = LogRow(b, k)
  <2>1. b.rows \in [Places(b.height) -> RowRecords]
    BY DEF MemoryOK, MemoryTyped
  <2>2. ASSUME NEW i \in All(b) PROVE RowAt(b, i) \in RowRecords
    BY <2>1, RowPlace
  <2>3. PICK n \in Nat : n = b.size
    BY <1>2
  <2>4. ASSUME NEW k \in 1..n PROVE LogRow(b, k - 1) \in RowRecords
    <3>1. k - 1 \in All(b) /\ k - 1 < b.size
      BY <1>2, <2>3 DEF All
    <3>2. QED  BY <2>2, <3>1 DEF RowAt
  <2>5. old = [k \in 1..n |-> LogRow(b, k - 1)]
    BY <2>3 DEF LogOf
  <2>6. old \in Seq(RowRecords) /\ Len(old) = n
    BY <2>4, <2>5
  <2>7. top \in RowRecords
    <3>1. n \in All(b) /\ ~(n < b.size) /\ n - b.size = 0
      BY <1>2, <2>3 DEF All
    <3>2. RowAt(b, n) = top
      BY <3>1 DEF RowAt
    <3>3. QED  BY <2>2, <3>1, <3>2
  <2>8. \A k \in 0..n - 1 : k + 1 \in 1..n /\ (k + 1) - 1 = k
    OBVIOUS
  <2>9. QED  BY <2>3, <2>5, <2>6, <2>7, <2>8
<1>7. \A k \in 0..u.size - 1 : LogRow(u, k) = LogOf(u)[k + 1]
  <2>1. PICK n \in Nat : n = u.size
    BY <1>2
  <2>2. LogOf(u) = [k \in 1..n |-> LogRow(u, k - 1)]
    BY <2>1 DEF LogOf
  <2>3. \A k \in 0..n - 1 : k + 1 \in 1..n /\ (k + 1) - 1 = k
    OBVIOUS
  <2>4. QED  BY <2>1, <2>2, <2>3
<1> HIDE DEF old, top
<1>8. /\ all \in Seq(RowRecords) /\ Len(all) = b.size + 1 /\ all[b.size + 1] = top
      /\ \A k \in 0..b.size - 1 : all[k + 1] = LogRow(b, k)
  <2>1. PICK n \in Nat : n = b.size
    BY <1>2
  <2>2. PICK s \in Seq(RowRecords) : s = old /\ Len(s) = n
    BY <1>6, <2>1
  <2>3. PICK r \in RowRecords : r = top
    BY <1>6
  <2>4. /\ Append(s, r) \in Seq(RowRecords) /\ Len(Append(s, r)) = n + 1 /\ Append(s, r)[n + 1] = r
        /\ \A k \in 1..n : Append(s, r)[k] = s[k]
    BY <2>2
  <2>5. \A k \in 0..n - 1 : Append(s, r)[k + 1] = s[k + 1]
    BY <2>4
  <2>6. QED  BY <1>6, <2>1, <2>2, <2>3, <2>4, <2>5
<1> HIDE DEF all
<1>9. \A i \in All(b) : i \in Int /\ 0 <= i /\ i < b.size + b.height
  BY <1>2 DEF All
<1>10. CASE b.size < LogCapacity
  <2>1. \A k \in 0..b.size : LogRow(u, k) = all[k + 1]
    <3>1. PICK n \in Nat : n = b.size + 1
      BY <1>2
    <3>2. PICK s \in Seq(RowRecords) : s = all /\ Len(s) = n
      BY <1>8, <3>1
    <3>3. LogOf(u) = SubSeq(s, 1, n)
      <4>1. Most(Len(all) - LogCapacity, 0) + 1 = 1
        BY <1>2, <1>8, <1>10 DEF Most
      <4>2. QED  BY <1>5, <3>2, <4>1
    <3>4. \A k \in 1..n : SubSeq(s, 1, n)[k] = s[k]
      BY <3>2
    <3>5. \A k \in 0..n - 1 : LogOf(u)[k + 1] = s[k + 1]
      BY <3>3, <3>4
    <3>6. u.size = n /\ b.size = n - 1
      BY <1>2, <1>10, <3>1
    <3>7. QED  BY <1>7, <3>2, <3>5, <3>6
  <2>2. ASSUME NEW i \in All(b) PROVE RowAt(u, i).cells = RowAt(b, i).cells
    <3>1. CASE i < b.size
      BY <1>2, <1>8, <1>9, <1>10, <2>1, <3>1 DEF RowAt
    <3>2. CASE i = b.size
      BY <1>2, <1>8, <1>9, <1>10, <2>1, <3>2 DEF RowAt, top
    <3>3. CASE i > b.size
      <4>1. /\ ~(i < u.size) /\ ~(i < b.size) /\ i - u.size \in 0..b.height - 2
            /\ (i - u.size) + 1 = i - b.size
        BY <1>2, <1>9, <1>10, <3>3
      <4>2. QED  BY <1>4, <4>1 DEF RowAt
    <3>4. QED  BY <1>2, <1>9, <3>1, <3>2, <3>3
  <2>3. QED  BY <1>2, <1>10, <2>2
<1>11. CASE ~(b.size < LogCapacity)
  <2>1. \A k \in 0..b.size - 1 : LogRow(u, k) = all[k + 2]
    <3>1. PICK n \in Nat : n = b.size
      BY <1>2
    <3>2. PICK s \in Seq(RowRecords) : s = all /\ Len(s) = n + 1
      BY <1>8, <3>1
    <3>3. LogOf(u) = SubSeq(s, 2, n + 1)
      <4>1. Most(Len(all) - LogCapacity, 0) + 1 = 2
        BY <1>2, <1>8, <1>11 DEF Most
      <4>2. QED  BY <1>5, <3>2, <4>1
    <3>4. \A k \in 1..n : SubSeq(s, 2, n + 1)[k] = s[k + 1]
      BY <3>2
    <3>5. \A k \in 0..n - 1 : k + 1 \in 1..n /\ (k + 1) + 1 = k + 2
      OBVIOUS
    <3>6. \A k \in 0..n - 1 : LogOf(u)[k + 1] = s[k + 2]
      BY <3>3, <3>4, <3>5
    <3>7. u.size = n
      BY <1>2, <1>11, <3>1
    <3>8. QED  BY <1>7, <3>1, <3>2, <3>6, <3>7
  <2>2. ASSUME NEW i \in All(b), i + 1 \in All(b) PROVE RowAt(u, i).cells = RowAt(b, i + 1).cells
    <3>1. CASE i + 1 < b.size
      <4>1. i \in 0..b.size - 1 /\ i + 1 \in 0..b.size - 1 /\ (i + 1) + 1 = i + 2 /\ i < u.size
        BY <1>2, <1>9, <1>11, <3>1
      <4>2. LogRow(u, i) = all[i + 2] /\ all[(i + 1) + 1] = LogRow(b, i + 1)
        BY <1>8, <2>1, <4>1
      <4>3. QED  BY <3>1, <4>1, <4>2 DEF RowAt
    <3>2. CASE i + 1 = b.size
      <4>1. i \in 0..b.size - 1 /\ i + 2 = b.size + 1 /\ i < u.size /\ ~(i + 1 < b.size) /\ (i + 1) - b.size = 0
        BY <1>2, <1>9, <1>11, <3>2
      <4>2. LogRow(u, i) = all[i + 2]
        BY <2>1, <4>1
      <4>3. LogRow(u, i) = top
        BY <1>8, <4>1, <4>2
      <4>4. QED  BY <4>1, <4>3 DEF RowAt, top
    <3>3. CASE i + 1 > b.size
      <4>1. /\ ~(i < u.size) /\ ~(i + 1 < b.size) /\ i - u.size \in 0..b.height - 2
            /\ (i - u.size) + 1 = (i + 1) - b.size
        BY <1>2, <1>9, <1>11, <2>2, <3>3
      <4>2. QED  BY <1>4, <4>1 DEF RowAt
    <3>4. QED  BY <1>2, <1>9, <2>2, <3>1, <3>2, <3>3
  <2>3. QED  BY <1>2, <1>11, <2>2
<1>12. QED  BY <1>10, <1>11

(* f_scroll_log: the window is told that the log has a row more, which      *)
(* moves it with the rows it shows, and then that all rows have moved up.   *)
LEMMA SyncLog ==
  ASSUME NEW v, NEW b, Sync(v, b), MemoryOK(b), b.current = "normal", b.y \in Int
  PROVE  Sync(v, ScrollLog(b))
<1> DEFINE full  == ~(b.size < LogCapacity)
           told  == Invalidate(b, b.y, 1)
           grown == IF b.size < LogCapacity THEN Logged([told EXCEPT !.size = @ + 1]) ELSE told
           row   == b.log[Taken(b)]
           lines == [i \in 0..b.height - 1 |-> IF i < b.height - 1 THEN Screen(b)[i + 1] ELSE row]
           moved == [grown EXCEPT !.log[Taken(b)] = Screen(b)[0], !.begin = Turned(b),
                                  !.lines[b.current] = lines, !.rows[row] = EmptyRow]
           x     == Scroll(moved, -moved.size, moved.size + b.height, -1)
           u     == Invalidate(x, b.y, 1)
           c     == [call |-> "log", y |-> 0, n |-> 0, dy |-> 0, log |-> b.size + 1]
<1>1. u = ScrollLog(b)
  BY DEF ScrollLog
<1>2. Fed(b, u) /\ MemoryOK(u) /\ MemoryTyped(u) /\ MemoryTyped(b)
  BY <1>1, ScrolledLog, FedOK DEF MemoryOK
<1>3. /\ b.size \in 0..LogCapacity /\ LogCapacity \in Nat \ {0} /\ b.height \in Nat \ {0, 1}
      /\ DOMAIN b = Fields /\ u.height = b.height
  BY <1>2, TakenSlot, Numbers DEF MemoryTyped, Fed, SameSizes
<1>4. SameMemory(b, told) /\ MemoryTyped(told) /\ DOMAIN told = Fields
  <2>1. SameMemory(b, told)
    BY <1>2, ToldMemory
  <2> HIDE DEF told
  <2>2. QED  BY <1>2, <2>1 DEF MemoryTyped, SameMemory, SameSizes, SameLog, Lengths
<1>5. Sync(v, told)
  <2>1. SameBut(b, b, Band(b, b.y, 1)) /\ 1 \in Nat
    BY DEF SameBut
  <2>2. QED  BY <1>2, <1>3, <2>1, SyncInvalidate
<1>6. (\A i : RowAt(told, i) = RowAt(b, i)) /\ told.size = b.size /\ told.height = b.height
  BY <1>4, SameRowAt DEF SameBut
<1> HIDE DEF told
<1>7. /\ DOMAIN grown = Fields /\ grown.height = b.height /\ grown.width = b.width
      /\ grown.size = IF full THEN b.size ELSE b.size + 1
      /\ grown.calls = IF full THEN told.calls ELSE Append(told.calls, c)
  BY <1>4, <1>6 DEF Fields, Logged, SameMemory, SameSizes
<1> HIDE DEF grown, lines, row, c
<1>8. /\ DOMAIN moved = Fields /\ moved.size = grown.size /\ moved.calls = grown.calls
      /\ moved.height = b.height
  BY <1>7 DEF Fields
<1> HIDE DEF moved
<1>9. DOMAIN x = Fields /\ SameMemory(moved, x) /\ x.calls = Append(moved.calls,
        [call |-> "scroll", y |-> -moved.size, n |-> moved.size + b.height, dy |-> -1, log |-> moved.size])
  BY <1>8 DEF Fields, Scroll, SameMemory, SameSizes, SameLog
<1>10. SameMemory(x, u)
  BY <1>9 DEF Fields, Invalidate, SameMemory, SameSizes, SameLog
<1> HIDE DEF u
<1>11. MemoryTyped(x) /\ SameMemory(moved, u)
  <2>1. MemoryTyped(x)
    BY <1>2, <1>9, <1>10 DEF MemoryTyped, SameMemory, SameSizes, SameLog, Lengths
  <2>2. SameMemory(moved, u)
    BY <1>9, <1>10 DEF SameMemory, SameSizes, SameLog
  <2>3. QED  BY <2>1, <2>2
<1>12. /\ \A i : RowAt(moved, i) = RowAt(u, i) /\ RowAt(x, i) = RowAt(u, i)
       /\ u.size = moved.size /\ x.size = moved.size /\ x.height = b.height
  <2>1. \A i : RowAt(u, i) = RowAt(moved, i)
    BY <1>11, SameRowAt
  <2>2. \A i : RowAt(u, i) = RowAt(x, i)
    BY <1>10, SameRowAt
  <2>3. QED  BY <1>8, <1>9, <1>10, <1>11, <2>1, <2>2 DEF SameMemory, SameSizes, SameLog
<1>13. ASSUME full PROVE Sync(v, x)
  <2>1. moved.size = b.size /\ moved.calls = told.calls
    BY <1>7, <1>8, <1>13
  <2>2. PICK y \in Int : y = -b.size
    BY <1>3
  <2>3. PICK n \in Nat : n = b.size + b.height
    BY <1>3
  <2>4. PICK dy \in Int : dy = -1
    OBVIOUS
  <2>5. Band(told, y, n) = All(b)
    BY <1>3, <1>6, <2>2, <2>3 DEF Band, All
  <2>6. SameBut(told, moved, Band(told, y, n))
    BY <1>6, <1>8, <2>1, <2>5 DEF SameBut, All
  <2>7. \A i \in Band(told, y, n) : i - dy \in Band(told, y, n) =>
           RowAt(moved, i).cells = RowAt(told, i - dy).cells
    <3>1. \A i \in All(b) : i - dy = i + 1
      BY <1>3, <2>4 DEF All
    <3>2. \A i \in All(b) : i + 1 \in All(b) => RowAt(u, i).cells = RowAt(b, i + 1).cells
      BY <1>2, <1>13, FedRows
    <3>3. QED  BY <1>6, <1>12, <2>5, <3>1, <3>2
  <2>8. Sync(v, Scroll(moved, y, n, dy))
    BY <1>4, <1>5, <1>8, <2>1, <2>6, <2>7, SyncScroll
  <2>9. x = Scroll(moved, y, n, dy)
    BY <2>1, <2>2, <2>3, <2>4
  <2>10. QED  BY <2>8, <2>9
<1>14. ASSUME ~full PROVE Sync(v, x)
  <2> DEFINE f == Follow(v, told.calls)
             g == [position |-> f.position + 1, valid |-> f.valid, shown |-> f.shown]
             s == [call |-> "scroll", y |-> -moved.size, n |-> moved.size + b.height, dy |-> -1,
                   log |-> moved.size]
             w == Told(g, s)
  <2> HIDE DEF x
  <2>1. /\ moved.size = b.size + 1 /\ moved.calls = Append(told.calls, c) /\ x.calls = Append(moved.calls, s)
        /\ u.size = b.size + 1
    BY <1>7, <1>8, <1>9, <1>12, <1>14
  <2>2. /\ Suits(told, f) /\ told.calls \in Seq(CallRecords)
        /\ \A k \in f.valid : f.shown[k] = Plain(told, k + f.position)
    BY <1>5 DEF Sync, Synced
  <2>3. c \in CallRecords /\ s \in CallRecords
    BY <1>3, <2>1, SMTT(30) DEF CallRecords, c
  <2> HIDE DEF s
  <2>4. moved.calls \in Seq(CallRecords) /\ x.calls \in Seq(CallRecords)
    <3>1. moved.calls \in Seq(CallRecords)
      BY <2>1, <2>2, <2>3
    <3>2. QED  BY <2>1, <2>3, <3>1
  <2>5. Follow(v, moved.calls) = Told(f, c) /\ Follow(v, x.calls) = Told(Follow(v, moved.calls), s)
    <3>1. Follow(v, Append(told.calls, c)) = Told(f, c)
      BY <2>2, <2>3, FollowNext
    <3>2. Follow(v, Append(moved.calls, s)) = Told(Follow(v, moved.calls), s)
      BY <2>3, <2>4, FollowNext
    <3>3. QED  BY <2>1, <3>1, <3>2
  <2> HIDE DEF f
  <2>6. Told(f, c) = g
    <3>1. Told(f, c) = [f EXCEPT !.position = f.position + 1]
      BY DEF Told, c
    <3>2. f = [position |-> f.position, valid |-> f.valid, shown |-> f.shown]
      BY <2>2 DEF Suits
    <3>3. QED  BY <3>1, <3>2
  <2>7. Follow(v, x.calls) = w
    BY <2>5, <2>6
  <2>8. /\ Lengths(u) = 0..b.height - 1 /\ Lengths(told) = 0..b.height - 1
        /\ f.position \in 0..b.size /\ f.valid \in SUBSET (0..b.height - 1)
    BY <1>3, <1>6, <2>2 DEF Lengths, Suits
  <2>9. Suits(u, g)
    <3>1. f.position + 1 \in 0..u.size
      BY <1>3, <2>1, <2>8, SMTT(30)
    <3>2. DOMAIN f.shown = Lengths(u)
      BY <2>2, <2>8 DEF Suits
    <3>3. g.position = f.position + 1 /\ g.valid = f.valid /\ g.shown = f.shown
      OBVIOUS
    <3>4. QED  BY <2>8, <3>1, <3>2, <3>3 DEF Suits
  <2>10. g.position = f.position + 1 /\ g.valid = f.valid /\ g.shown = f.shown
    OBVIOUS
  <2> HIDE DEF g
  <2>11. PICK y \in Int : y = -moved.size
    BY <1>3, <2>1
  <2>12. PICK n \in Nat : n = moved.size + b.height
    BY <1>3, <2>1
  <2>13. PICK dy \in Int : dy = -1
    OBVIOUS
  <2>14. s = [call |-> "scroll", y |-> y, n |-> n, dy |-> dy, log |-> u.size]
    BY <1>12, <2>11, <2>12, <2>13 DEF s
  <2>15. /\ Suits(u, w) /\ w.position = g.position
         /\ \A k \in w.valid :
              \/ ~Among(u, g, k, y, n) /\ k \in g.valid /\ w.shown[k] = g.shown[k]
              \/ /\ Among(u, g, k, y, n) /\ Among(u, g, k - dy, y, n) /\ k - dy \in g.valid
                 /\ w.shown[k] = g.shown[k - dy]
    BY <1>2, <2>9, <2>14, ToldScroll
  <2> HIDE DEF w
  <2>16. ASSUME NEW k \in w.valid PROVE w.shown[k] = Plain(x, k + w.position)
    <3>1. k \in 0..b.height - 1
      BY <2>8, <2>15 DEF Suits
    <3>2. Among(u, g, k, y, n)
      <4>1. PICK p \in Nat : p = g.position /\ p <= b.size + 1
        BY <1>3, <2>8, <2>10
      <4>2. PICK l \in Nat : l = u.size /\ p <= l /\ y = -l /\ n = l + b.height
        BY <1>3, <2>1, <2>11, <2>12, <4>1
      <4>3. y <= (k + p) - l /\ (k + p) - l < y + n
        BY <1>3, <3>1, <4>2
      <4>4. QED  BY <4>1, <4>2, <4>3 DEF Among
    <3>3. k - dy = k + 1 /\ k + 1 \in f.valid /\ w.shown[k] = f.shown[k + 1]
      <4>1. k - dy = k + 1
        BY <2>13, <3>1
      <4>2. QED  BY <2>10, <2>15, <3>2, <4>1
    <3>4. PICK i \in All(b) : i = (k + 1) + f.position /\ i = k + w.position
      <4>1. PICK p \in Nat : p = f.position /\ p <= b.size /\ w.position = p + 1
        BY <1>3, <2>8, <2>10, <2>15
      <4>2. k + 1 \in 0..b.height - 1
        BY <2>8, <3>3
      <4>3. (k + 1) + p \in All(b) /\ (k + 1) + p = k + (p + 1)
        BY <1>3, <3>1, <4>1, <4>2 DEF All
      <4>4. QED  BY <4>1, <4>3
    <3>5. w.shown[k] = Plain(told, i)
      BY <2>2, <3>3, <3>4
    <3>6. RowAt(u, i).cells = RowAt(b, i).cells
      BY <1>2, <1>14, FedRows
    <3>7. QED  BY <1>6, <1>12, <3>4, <3>5, <3>6 DEF Plain
  <2>17. Suits(x, w)
    <3>1. x.size = u.size /\ Lengths(x) = Lengths(u)
      BY <1>3, <1>12 DEF Lengths
    <3>2. QED  BY <2>15, <3>1 DEF Suits
  <2>18. QED  BY <2>4, <2>7, <2>16, <2>17 DEF Sync, Synced
<1>15. Sync(v, x)
  BY <1>13, <1>14
<1>16. Sync(v, Invalidate(x, b.y, 1))
  <2> HIDE DEF x
  <2>1. SameBut(x, x, Band(x, b.y, 1)) /\ 1 \in Nat
    BY DEF SameBut
  <2>2. QED  BY <1>9, <1>11, <1>15, <2>1, SyncInvalidate
<1>17. QED  BY <1>1, <1>16 DEF u

-----------------------------------------------------------------------------
(* Neither the memory changes nor is the host called. *)
Keeps(b, u) == SameMemory(b, u) /\ u.calls = b.calls

(* Then the window is in step, and the memory in order. *)
LEMMA KeepsSync ==
  ASSUME NEW v, NEW b, Sync(v, b), MemoryOK(b), NEW u, Keeps(b, u)
  PROVE  Sync(v, u) /\ MemoryOK(u) /\ DOMAIN u = Fields
BY SyncMemory, LocalSame, LocalOK DEF Keeps, MemoryOK, SameMemory, SameSizes

(* So do the functions that move the cursor, or save and restore it, *)
LEMMA CursorKeeps ==
  ASSUME NEW b, DOMAIN b = Fields, NEW p, NEW cursor
  PROVE  /\ Keeps(b, CursorUp(b, p)) /\ Keeps(b, CursorDown(b, p))
         /\ Keeps(b, CursorForward(b, p)) /\ Keeps(b, CursorBackward(b, p))
         /\ Keeps(b, CharacterAbsolute(b, p)) /\ Keeps(b, LineAbsolute(b, p))
         /\ Keeps(b, BackSpace(b)) /\ Keeps(b, CarriageReturn(b)) /\ Keeps(b, Tab(b))
         /\ Keeps(b, SaveCursor(b)) /\ Keeps(b, Restore(b, cursor))
<1>1. ASSUME NEW e
      PROVE  Keeps(b, [b EXCEPT !.x = e]) /\ Keeps(b, [b EXCEPT !.y = e]) /\ Keeps(b, [b EXCEPT !.saved[b.current] = e])
  BY DEF Fields, Keeps, SameMemory, SameSizes, SameLog
<1>2. Keeps(b, Restore(b, cursor))
  <2> DEFINE r == RestoreCursor(b, cursor)
             x == Least(r.x, b.width - 1)
             y == Most(Least(r.y, Bottom(b) - 1), Top(b))
  <2>1. DOMAIN r = Fields /\ Keeps(b, r)
    BY DEF Fields, Keeps, SameMemory, SameSizes, SameLog, RestoreCursor
  <2>2. Restore(b, cursor) = [r EXCEPT !.x = x, !.y = y]
    BY DEF Restore
  <2> HIDE DEF r, x, y
  <2>3. Keeps(r, [r EXCEPT !.x = x, !.y = y])
    BY <2>1 DEF Fields, Keeps, SameMemory, SameSizes, SameLog
  <2>4. QED  BY <2>1, <2>2, <2>3 DEF Keeps, SameMemory, SameSizes, SameLog
<1>3. Keeps(b, Tab(b))
  BY <1>1 DEF Tab
<1>4. Keeps(b, SaveCursor(b))
  BY <1>1 DEF SaveCursor
<1>5. Keeps(b, CursorUp(b, p)) /\ Keeps(b, CursorDown(b, p)) /\ Keeps(b, LineAbsolute(b, p))
  BY <1>1 DEF CursorUp, CursorDown, LineAbsolute
<1>6. /\ Keeps(b, CursorForward(b, p)) /\ Keeps(b, CursorBackward(b, p))
      /\ Keeps(b, CharacterAbsolute(b, p)) /\ Keeps(b, BackSpace(b)) /\ Keeps(b, CarriageReturn(b))
  BY <1>1 DEF CursorForward, CursorBackward, CharacterAbsolute, BackSpace, CarriageReturn
<1>7. QED  BY <1>2, <1>3, <1>4, <1>5, <1>6

(* and those that set stops, modes and the region. *)
LEMMA ModeKeeps ==
  ASSUME NEW b, DOMAIN b = Fields, NEW on, NEW p, NEW q
  PROVE  /\ Keeps(b, TabSet(b)) /\ Keeps(b, TabClear(b)) /\ Keeps(b, TabClearAll(b))
         /\ Keeps(b, InsertMode(b, on)) /\ Keeps(b, OriginMode(b, on)) /\ Keeps(b, WraparoundMode(b, on))
         /\ Keeps(b, SetRegion(b, p, q)) /\ Keeps(b, WholeRegion(b))
<1>1. ASSUME NEW e, NEW g, NEW x, NEW y
      PROVE  /\ Keeps(b, [b EXCEPT !.tabs = e]) /\ Keeps(b, [b EXCEPT !.insert = e])
             /\ Keeps(b, [b EXCEPT !.wraparound = e]) /\ Keeps(b, [b EXCEPT !.origin = e, !.x = x, !.y = y])
             /\ Keeps(b, [b EXCEPT !.regionBegin = e, !.regionSize = g])
             /\ Keeps(b, [b EXCEPT !.regionBegin = e, !.regionSize = g, !.x = x, !.y = y])
  BY DEF Fields, Keeps, SameMemory, SameSizes, SameLog
<1>2. Keeps(b, b)
  BY DEF Keeps, SameMemory, SameSizes, SameLog
<1>3. Keeps(b, TabSet(b)) /\ Keeps(b, TabClear(b)) /\ Keeps(b, TabClearAll(b))
  BY <1>1, <1>2 DEF TabSet, TabClear, TabClearAll
<1>4. Keeps(b, InsertMode(b, on)) /\ Keeps(b, WraparoundMode(b, on)) /\ Keeps(b, WholeRegion(b))
  BY <1>1 DEF InsertMode, WraparoundMode, WholeRegion
<1>5. Keeps(b, OriginMode(b, on))
  BY <1>1 DEF OriginMode
<1>6. Keeps(b, SetRegion(b, p, q))
  <2> DEFINE begin == Least(p - 1, b.height - 2)
             size  == Most(q, begin + 2) - begin
             row   == IF b.origin THEN begin ELSE 0
  <2>1. SetRegion(b, p, q) =
          [b EXCEPT !.regionBegin = begin, !.regionSize = size, !.x = 0, !.y = row]
    BY DEF SetRegion
  <2> HIDE DEF begin, size, row
  <2>2. QED  BY <2>1 DEF Fields, Keeps, SameMemory, SameSizes, SameLog
<1>7. QED  BY <1>3, <1>4, <1>5, <1>6

(* Two movements of the cursor. *)
LEMMA CursorsKeep ==
  ASSUME NEW b, DOMAIN b = Fields, NEW p, NEW q
  PROVE  /\ Keeps(b, CursorNextLine(b, p)) /\ Keeps(b, CursorPrecedingLine(b, p))
         /\ Keeps(b, CursorPosition(b, p, q))
<1>1. ASSUME NEW u, Keeps(b, u), NEW w, Keeps(u, w) PROVE Keeps(b, w)
  BY <1>1 DEF Keeps, SameMemory, SameSizes, SameLog
<1>2. ASSUME NEW u, Keeps(b, u) PROVE Keeps(b, CarriageReturn(u)) /\ Keeps(b, CharacterAbsolute(u, q))
  <2>1. DOMAIN u = Fields
    BY <1>2 DEF Keeps, SameMemory, SameSizes
  <2>2. QED  BY <1>1, <1>2, <2>1, CursorKeeps
<1>3. Keeps(b, CursorDown(b, p)) /\ Keeps(b, CursorUp(b, p)) /\ Keeps(b, LineAbsolute(b, p))
  BY CursorKeeps
<1>4. QED  BY <1>2, <1>3 DEF CursorNextLine, CursorPrecedingLine, CursorPosition

-----------------------------------------------------------------------------
(* f_index *)
LEMMA SyncIndex ==
  ASSUME NEW v, NEW b, Sync(v, b), TOK(b) PROVE Sync(v, Index(b))
<1> DEFINE down == [b EXCEPT !.y = @ + 1]
<1>1. Keeps(b, down) /\ down.y = b.y + 1 /\ MemoryOK(b) /\ b.y \in Int
      /\ down.regionBegin = b.regionBegin /\ down.regionSize = b.regionSize
  BY Bounds DEF Fields, Keeps, SameMemory, SameSizes, SameLog, TOK
<1>2. Sync(v, down) /\ MemoryOK(down) /\ DOMAIN down = Fields
  BY <1>1, KeepsSync
<1>3. CASE b.y + 1 = RegionEnd(b)
  <2> DEFINE scrolled == ScrollRegion(down)
  <2>1. Index(b) = [scrolled EXCEPT !.y = scrolled.y - 1]
    BY <1>3 DEF Index
  <2> HIDE DEF down
  <2>2. down.y \in Int /\ down.height = b.height /\ down.current \in Screens
    BY <1>1, <1>2 DEF Keeps, SameMemory, SameSizes, MemoryOK, MemoryTyped
  <2>3. Sync(v, scrolled) /\ MemoryOK(scrolled)
    <3>1. CASE down.current = "alternate" \/ down.regionBegin > 0 \/ down.regionSize < down.height
      <4>1. /\ down.regionBegin \in Nat /\ down.regionSize \in Nat /\ 1 \in Nat
            /\ down.regionBegin + down.regionSize <= down.height
        BY <1>1, <1>3, <2>2, Bounds
      <4>2. scrolled = ScrollUp(down, down.regionBegin, down.regionSize, 1)
        BY <3>1 DEF ScrollRegion
      <4>3. Sync(v, scrolled)
        BY <1>2, <2>2, <4>1, <4>2, SyncMoved
      <4>4. MemoryOK(scrolled)
        BY <1>2, <4>1, <4>2, ScrolledRows, LocalOK
      <4>5. QED  BY <4>3, <4>4
    <3>2. CASE ~(down.current = "alternate" \/ down.regionBegin > 0 \/ down.regionSize < down.height)
      <4>1. scrolled = ScrollLog(down) /\ down.current = "normal"
        BY <2>2, <3>2 DEF ScrollRegion, Screens
      <4>2. QED  BY <1>2, <2>2, <4>1, SyncLog, ScrolledLog, FedOK
    <3>3. QED  BY <3>1, <3>2
  <2> HIDE DEF scrolled
  <2>4. Keeps(scrolled, [scrolled EXCEPT !.y = scrolled.y - 1])
    BY <2>3 DEF Fields, Keeps, SameMemory, SameSizes, SameLog, MemoryOK, MemoryTyped
  <2>5. QED  BY <2>1, <2>3, <2>4, KeepsSync
<1>4. CASE b.y + 1 # RegionEnd(b) /\ b.y + 1 >= b.height
  <2>1. Index(b) = [b EXCEPT !.y = b.height - 1]
    BY <1>4 DEF Index
  <2>2. Keeps(b, Index(b))
    BY <2>1, Bounds DEF Fields, Keeps, SameMemory, SameSizes, SameLog
  <2>3. QED  BY <1>1, <2>2, KeepsSync
<1>5. CASE b.y + 1 # RegionEnd(b) /\ ~(b.y + 1 >= b.height)
  <2>1. Index(b) = down
    BY <1>5 DEF Index
  <2>2. QED  BY <1>2, <2>1
<1>6. QED  BY <1>3, <1>4, <1>5

(* f_next_line *)
LEMMA SyncNextLine ==
  ASSUME NEW v, NEW b, Sync(v, b), TOK(b) PROVE Sync(v, NextLine(b))
<1>1. PICK u : u = CarriageReturn(b)
  OBVIOUS
<1>2. Keeps(b, u) /\ MemoryOK(b)
  BY <1>1, Bounds, CursorKeeps DEF TOK
<1>3. TOK(u)
  <2>1. 1 \in Nat \ {0}
    OBVIOUS
  <2>2. QED  BY <1>1, <2>1, CursorEdits, EditsOK
<1>4. QED  BY <1>1, <1>2, <1>3, KeepsSync, SyncIndex DEF NextLine

(* f_put *)
LEMMA SyncPut ==
  ASSUME NEW v, NEW b, Sync(v, b), TOK(b), NEW c \in Characters PROVE Sync(v, Put(b, c))
<1> DEFINE n    == Columns(c)
           wrap == b.wraparound /\ b.x + n > b.width
           here == IF wrap THEN NextLine(Wrap(b, b.y)) ELSE b
           put  == PutIn(here, here.x, here.y, c, n, b.insert)
           u    == [put EXCEPT !.x = @ + n]
<1>1. Put(b, c) = u
  BY DEF Put
<1> HIDE DEF wrap
<1>2. Sync(v, here) /\ TOK(here)
  <2>1. CASE wrap
    <3>1. PICK w : w = Wrap(b, b.y)
      OBVIOUS
    <3>2. b.y \in Lengths(b) /\ MemoryOK(b)
      BY Bounds DEF TOK
    <3>3. Sync(v, w) /\ TOK(w)
      BY <3>1, <3>2, SyncWrap, WrappedRow, LocalRow, EditsKept, EditsOK
    <3>4. Sync(v, NextLine(w)) /\ TOK(NextLine(w))
      BY <3>3, SyncNextLine, NextLineWrites, WritesOK
    <3>5. QED  BY <2>1, <3>1, <3>4
  <2>2. CASE ~wrap
    BY <2>2
  <2>3. QED  BY <2>1, <2>2
<1> HIDE DEF here
<1>3. Sync(v, put) /\ MemoryOK(put)
  <2>1. here.y \in Lengths(here) /\ MemoryOK(here) /\ here.x \in Nat
    BY <1>2, Bounds DEF TOK
  <2>2. Sync(v, put)
    BY <1>2, <2>1, SyncRow
  <2>3. RowEdited(here, put, here.y)
    BY <2>1, RowChanges
  <2> HIDE DEF put
  <2>4. QED  BY <2>1, <2>2, <2>3, LocalRow, LocalOK
<1> HIDE DEF put
<1>4. Keeps(put, u)
  BY <1>3 DEF Fields, Keeps, SameMemory, SameSizes, SameLog, MemoryOK, MemoryTyped
<1> HIDE DEF u
<1>5. QED  BY <1>1, <1>3, <1>4, KeepsSync

(* f_reverse_index *)
LEMMA SyncReverse ==
  ASSUME NEW v, NEW b, Sync(v, b), TOK(b), b.y = b.regionBegin => RegionFits(b)
  PROVE  Sync(v, ReverseIndex(b))
<1>1. MemoryOK(b) /\ b.y \in Int /\ DOMAIN b = Fields
  BY Bounds DEF TOK
<1>2. CASE b.y = b.regionBegin
  <2>1. /\ b.regionBegin \in Nat /\ b.regionSize \in Nat /\ 1 \in Nat
        /\ b.regionBegin + b.regionSize <= b.height
    BY <1>2, Bounds
  <2>2. Sync(v, ScrollDown(b, b.regionBegin, b.regionSize, 1))
    BY <1>1, <2>1, SyncMoved
  <2>3. QED  BY <1>2, <2>2 DEF ReverseIndex
<1>3. CASE b.y # b.regionBegin /\ b.y > 0
  <2>1. ReverseIndex(b) = [b EXCEPT !.y = b.y - 1]
    BY <1>3 DEF ReverseIndex
  <2>2. Keeps(b, ReverseIndex(b))
    BY <1>1, <2>1 DEF Fields, Keeps, SameMemory, SameSizes, SameLog
  <2>3. QED  BY <1>1, <2>2, KeepsSync
<1>4. CASE b.y # b.regionBegin /\ ~(b.y > 0)
  BY <1>4 DEF ReverseIndex
<1>5. QED  BY <1>2, <1>3, <1>4

-----------------------------------------------------------------------------
(* Control functions that erase. *)
LEMMA SyncErase ==
  ASSUME NEW v, NEW b, Sync(v, b), TOK(b), NEW p
  PROVE  /\ p \in 0..2 => Sync(v, EraseDisplay(b, p)) /\ Sync(v, EraseLine(b, p))
         /\ Sync(v, EraseCharacter(b, p))
<1>1. b.y \in Lengths(b) /\ MemoryOK(b)
  BY Bounds DEF TOK
<1>2. \A x, n : Sync(v, EraseIn(b, x, b.y, n, FALSE))
  BY <1>1, SyncRow
<1>3. Sync(v, EraseRows(b, b.y, 1)) /\ Sync(v, EraseRows(b, 0, b.height)) /\ Sync(v, EraseRows(b, 0, b.y))
  <2>1. /\ b.y \in Nat /\ 1 \in Nat /\ b.y + 1 <= b.height /\ 0 \in Nat /\ b.height \in Nat
        /\ 0 + b.height <= b.height /\ 0 + b.y <= b.height
    BY Bounds
  <2>2. QED  BY <1>1, <2>1, SyncErased
<1>4. Sync(v, EraseCharacter(b, p))
  BY <1>2 DEF EraseCharacter
<1>5. ASSUME p \in 0..2 PROVE Sync(v, EraseLine(b, p))
  <2>1. p = 0 \/ p = 1 \/ p = 2
    BY <1>5
  <2>2. QED  BY <1>2, <1>3, <2>1 DEF EraseLine
<1>6. ASSUME p = 0 PROVE Sync(v, EraseDisplay(b, p))
  <2>1. PICK u : u = EraseIn(b, b.x, b.y, b.width - b.x, FALSE)
    OBVIOUS
  <2>2. EraseLine(b, 0) = u
    BY <2>1 DEF EraseLine
  <2>3. Local(b, u) /\ TOK(u)
    <3>1. 0 \in Nat /\ 0 \in 0..2
      OBVIOUS
    <3>2. Edits(b, u)
      BY <2>2, <3>1, EraseEdits
    <3>3. QED  BY <3>2, EditsOK DEF Edits
  <2>4. Sync(v, u)
    BY <1>2, <2>1
  <2>5. PICK y \in Nat : y = b.y + 1
    BY Bounds
  <2>6. PICK n \in Nat : n = b.height - b.y - 1
    BY Bounds
  <2>7. y + n <= u.height
    <3>1. u.height = b.height /\ b.height \in Nat /\ b.y \in Nat
      BY <2>3, Bounds DEF Local, SameSizes
    <3>2. QED  BY <2>5, <2>6, <3>1
  <2>8. Sync(v, EraseRows(u, y, n))
    BY <2>3, <2>4, <2>7, SyncErased DEF TOK
  <2>9. EraseDisplay(b, p) = EraseRows(u, y, n)
    BY <1>6, <2>1, <2>5, <2>6 DEF EraseDisplay
  <2>10. QED  BY <2>8, <2>9
<1>7. ASSUME p = 1 PROVE Sync(v, EraseDisplay(b, p))
  <2>1. PICK u : u = EraseRows(b, 0, b.y)
    OBVIOUS
  <2>2. Local(b, u) /\ MemoryOK(u)
    <3>1. 0 \in Nat /\ b.y \in Nat /\ 0 + b.y <= b.height
      BY Bounds
    <3>2. QED  BY <1>1, <2>1, <3>1, ErasedRows, LocalOK
  <2>3. b.y \in Lengths(u)
    BY <1>1, <2>2 DEF Local, SameSizes, Lengths
  <2>4. Sync(v, EraseIn(u, 0, b.y, b.x + 1, FALSE))
    BY <1>3, <2>1, <2>2, <2>3, SyncRow
  <2>5. EraseDisplay(b, p) = EraseIn(u, 0, b.y, b.x + 1, FALSE)
    BY <1>7, <2>1 DEF EraseDisplay
  <2>6. QED  BY <2>4, <2>5
<1>8. ASSUME p = 2 PROVE Sync(v, EraseDisplay(b, p))
  BY <1>3, <1>8 DEF EraseDisplay
<1>9. p \in 0..2 => p = 0 \/ p = 1 \/ p = 2
  OBVIOUS
<1>10. QED  BY <1>4, <1>5, <1>6, <1>7, <1>8, <1>9

(* Control functions that insert, and move rows. *)
LEMMA SyncInsert ==
  ASSUME NEW v, NEW b, Sync(v, b), TOK(b), NEW p \in Nat
  PROVE  /\ Sync(v, InsertCharacter(b, p)) /\ Sync(v, DeleteCharacter(b, p))
         /\ (InRegion(b) => RegionFits(b)) => Sync(v, InsertLine(b, p)) /\ Sync(v, DeleteLine(b, p))
         /\ RegionFits(b) => Sync(v, ScrollUpRegion(b, p)) /\ Sync(v, ScrollDownRegion(b, p))
<1>1. b.y \in Lengths(b) /\ MemoryOK(b) /\ b.y \in Int
  BY Bounds DEF TOK
<1>2. Sync(v, InsertCharacter(b, p)) /\ Sync(v, DeleteCharacter(b, p))
  BY <1>1, SyncRow DEF InsertCharacter, DeleteCharacter
<1>3. ASSUME RegionFits(b) PROVE Sync(v, ScrollUpRegion(b, p)) /\ Sync(v, ScrollDownRegion(b, p))
  <2>1. b.regionBegin \in Nat /\ b.regionSize \in Nat /\ b.regionBegin + b.regionSize <= b.height
    BY <1>3, Bounds
  <2>2. QED  BY <1>1, <2>1, SyncMoved DEF ScrollUpRegion, ScrollDownRegion
<1>4. ASSUME InRegion(b), RegionFits(b) PROVE Sync(v, InsertLine(b, p)) /\ Sync(v, DeleteLine(b, p))
  <2>1. PICK h \in Nat : h = RegionEnd(b) - b.y /\ b.y + h <= b.height
    BY <1>4, Bounds DEF InRegion
  <2>2. PICK y \in Nat : y = b.y /\ y + h <= b.height
    BY <2>1, Bounds
  <2>3. PICK u : u = ScrollUp(b, y, h, p)
    OBVIOUS
  <2>4. PICK w : w = ScrollDown(b, y, h, p)
    OBVIOUS
  <2>5. Sync(v, u) /\ Sync(v, w)
    BY <1>1, <2>2, <2>3, <2>4, SyncMoved
  <2>6. MemoryOK(u) /\ MemoryOK(w)
    BY <1>1, <2>2, <2>3, <2>4, ScrolledRows, LocalOK
  <2>7. Keeps(u, CarriageReturn(u)) /\ Keeps(w, CarriageReturn(w))
    BY <2>6, CursorKeeps DEF MemoryOK, MemoryTyped
  <2>8. Sync(v, CarriageReturn(u)) /\ Sync(v, CarriageReturn(w))
    BY <2>5, <2>6, <2>7, KeepsSync
  <2>9. QED  BY <1>4, <2>1, <2>2, <2>3, <2>4, <2>8 DEF InsertLine, DeleteLine
<1>5. ASSUME ~InRegion(b) PROVE Sync(v, InsertLine(b, p)) /\ Sync(v, DeleteLine(b, p))
  BY <1>5 DEF InsertLine, DeleteLine
<1>6. QED  BY <1>2, <1>3, <1>4, <1>5

(* f_column_mode and f_alternate. *)
LEMMA SyncColumn ==
  ASSUME NEW v, NEW b, Sync(v, b), TOK(b) PROVE Sync(v, ColumnMode(b))
<1> DEFINE u == [WholeRegion(b) EXCEPT !.x = 0, !.y = 0]
<1>1. Keeps(b, u) /\ MemoryOK(b)
  BY Bounds DEF Fields, Keeps, SameMemory, SameSizes, SameLog, WholeRegion, TOK
<1>2. ColumnMode(b) = EraseRows(u, 0, b.height)
  BY DEF ColumnMode
<1> HIDE DEF u
<1>3. Sync(v, u) /\ MemoryOK(u) /\ u.height = b.height
  BY <1>1, KeepsSync DEF Keeps, SameMemory, SameSizes
<1>4. 0 \in Nat /\ b.height \in Nat /\ 0 + b.height <= u.height
  BY <1>3, Bounds
<1>5. QED  BY <1>2, <1>3, <1>4, SyncErased

LEMMA SyncAlternate ==
  ASSUME NEW v, NEW b, Sync(v, b), TOK(b)
  PROVE  Sync(v, EnterAlternate(b)) /\ \A cursor : Sync(v, LeaveAlternate(b, cursor))
<1>1. Sync(v, EnterAlternate(b))
  <2> DEFINE a == SaveCursor(b)
             w == SwitchTo(a, "alternate")
             e == EraseRows(w, 0, b.height)
             u == WholeRegion([e EXCEPT !.x = 0, !.y = 0])
  <2>1. EnterAlternate(b) = u
    BY DEF EnterAlternate
  <2>2. Sync(v, a) /\ TOK(a) /\ a.height = b.height
    <3>1. Keeps(b, a)
      BY Bounds, CursorKeeps
    <3>2. QED  BY <3>1, KeepsSync, SaveEdits, EditsOK DEF TOK, Keeps, SameMemory, SameSizes
  <2> HIDE DEF a
  <2>3. Sync(v, w) /\ MemoryOK(w) /\ w.height = b.height
    <3>1. "alternate" \in Screens
      BY DEF Screens
    <3>2. QED  BY <2>2, <3>1, SyncSwitch, Switched DEF TOK
  <2> HIDE DEF w
  <2>4. Sync(v, e) /\ MemoryOK(e)
    <3>1. 0 \in Nat /\ b.height \in Nat /\ 0 + b.height <= w.height
      BY <2>3, Bounds
    <3>2. QED  BY <2>3, <3>1, SyncErased, ErasedRows, LocalOK
  <2> HIDE DEF e
  <2>5. Keeps(e, u)
    BY <2>4 DEF Fields, Keeps, SameMemory, SameSizes, SameLog, WholeRegion, MemoryOK, MemoryTyped
  <2> HIDE DEF u
  <2>6. QED  BY <2>1, <2>4, <2>5, KeepsSync
<1>2. ASSUME NEW cursor PROVE Sync(v, LeaveAlternate(b, cursor))
  <2>1. PICK w : w = SwitchTo(b, "normal")
    OBVIOUS
  <2>2. PICK r : r = Restore(w, cursor)
    OBVIOUS
  <2>3. Sync(v, w) /\ MemoryOK(w) /\ DOMAIN w = Fields
    <3>1. "normal" \in Screens
      BY DEF Screens
    <3>2. QED  BY <2>1, <3>1, SyncSwitch, Switched DEF TOK
  <2>4. Sync(v, r) /\ MemoryOK(r) /\ DOMAIN r = Fields
    BY <2>2, <2>3, CursorKeeps, KeepsSync
  <2>5. Sync(v, WholeRegion(r))
    BY <2>4, ModeKeeps, KeepsSync
  <2>6. QED  BY <2>1, <2>2, <2>5 DEF LeaveAlternate
<1>3. QED  BY <1>1, <1>2

-----------------------------------------------------------------------------
(* Whatever is read, the window is told of what it changes, unless it goes *)
(* astray.                                                                 *)
Tells(v) == GoAstray \/ \E u : Sync(v, u) /\ TOK(u) /\ Becomes(u)

LEMMA ControlTells == ASSUME NEW v, NEW u, Sync(v, u), TOK(u), Control(u) PROVE Tells(v)
BY DEF Control, Tells

LEMMA MovesTells ==
  ASSUME NEW v, NEW u, Lands(t, u) => Sync(v, u) /\ TOK(u), Moves(u) PROVE Tells(v)
<1>1. CASE u.y < t.height
  BY <1>1, ControlTells DEF Moves, Lands
<1>2. CASE ~(u.y < t.height)
  BY <1>2 DEF Moves, Tells
<1>3. QED  BY <1>1, <1>2

LEMMA ScrollsTells ==
  ASSUME NEW v, NEW u, NEW in \in BOOLEAN, (in => RegionFits(t)) => Sync(v, u) /\ TOK(u), Scrolls(in, u)
  PROVE  Tells(v)
<1>1. CASE in /\ ~RegionFits(t)
  BY <1>1 DEF Scrolls, Tells
<1>2. CASE ~(in /\ ~RegionFits(t))
  BY <1>2, ControlTells DEF Scrolls
<1>3. QED  BY <1>1, <1>2

LEMMA FormatTells ==
  ASSUME NEW v, Sync(v, t), TOK(t), Format PROVE Tells(v)
<1>1. MemoryOK(t) /\ DOMAIN t = Fields
  BY Bounds DEF TOK
<1>2. /\ Sync(v, BackSpace(t)) /\ Sync(v, CarriageReturn(t)) /\ Sync(v, Tab(t))
      /\ Sync(v, TabSet(t)) /\ Sync(v, TabClear(t)) /\ Sync(v, TabClearAll(t))
  BY <1>1, CursorKeeps, ModeKeeps, KeepsSync
<1>3. Sync(v, Index(t)) /\ Sync(v, NextLine(t))
  BY SyncIndex, SyncNextLine
<1>4. 1 \in Nat \ {0}
  OBVIOUS
<1>5. /\ TOK(BackSpace(t)) /\ TOK(CarriageReturn(t)) /\ TOK(Tab(t))
      /\ TOK(TabSet(t)) /\ TOK(TabClear(t)) /\ TOK(TabClearAll(t))
      /\ TOK(Index(t)) /\ TOK(NextLine(t))
  BY <1>4, CursorEdits, TabEdits, NextLineWrites, EditsOK, WritesOK
<1>6. (t.y = t.regionBegin => RegionFits(t)) => Sync(v, ReverseIndex(t)) /\ TOK(ReverseIndex(t))
  BY SyncReverse, ReverseEdits, EditsOK
<1>7. CASE Scrolls(t.y = t.regionBegin, ReverseIndex(t))
  BY <1>6, <1>7, ScrollsTells
<1>8. QED  BY <1>2, <1>3, <1>5, <1>7, ControlTells DEF Format

LEMMA CursorTells ==
  ASSUME NEW v, Sync(v, t), TOK(t), Cursor PROVE Tells(v)
<1>1. MemoryOK(t) /\ DOMAIN t = Fields
  BY Bounds DEF TOK
<1>2. ASSUME NEW u, Keeps(t, u), Edits(t, u) PROVE Sync(v, u) /\ TOK(u)
  BY <1>1, <1>2, KeepsSync, EditsOK
<1>3. CASE Control(SaveCursor(t))
  BY <1>1, <1>2, <1>3, SaveEdits, CursorKeeps, ControlTells
<1>4. ASSUME NEW u, Keeps(t, u), Lands(t, u) => Edits(t, u), Moves(u) PROVE Tells(v)
  BY <1>2, <1>4, MovesTells
<1>5. ASSUME NEW cursor \in SavedCursors(t), Moves(Restore(t, cursor)) PROVE Tells(v)
  <2>1. cursor \in [x : Nat, y : Nat]
    BY SavedTyped
  <2>2. Keeps(t, Restore(t, cursor))
    BY <1>1, CursorKeeps
  <2>3. Lands(t, Restore(t, cursor)) => Edits(t, Restore(t, cursor))
    BY <2>1, RestoreEdits
  <2>4. QED  BY <1>4, <1>5, <2>2, <2>3
<1>6. ASSUME NEW p \in Parameters,
             \/ Moves(CursorUp(t, p)) \/ Moves(CursorDown(t, p))
             \/ Moves(CursorForward(t, p)) \/ Moves(CursorBackward(t, p))
             \/ Moves(CursorNextLine(t, p)) \/ Moves(CursorPrecedingLine(t, p))
             \/ Moves(CharacterAbsolute(t, p)) \/ Moves(LineAbsolute(t, p))
             \/ \E q \in Parameters : Moves(CursorPosition(t, p, q))
      PROVE  Tells(v)
  <2>1. p \in Nat \ {0} /\ Parameters \subseteq Nat \ {0}
    BY WindowAssumption DEF Parameters
  <2>2. /\ Edits(t, CursorUp(t, p)) /\ (Lands(t, CursorDown(t, p)) => Edits(t, CursorDown(t, p)))
        /\ Edits(t, CursorForward(t, p)) /\ Edits(t, CursorBackward(t, p))
        /\ Edits(t, CharacterAbsolute(t, p))
        /\ Lands(t, LineAbsolute(t, p)) => Edits(t, LineAbsolute(t, p))
    BY <2>1, CursorEdits
  <2>3. \A q \in Parameters :
          /\ Lands(t, CursorNextLine(t, p)) => Edits(t, CursorNextLine(t, p))
          /\ Edits(t, CursorPrecedingLine(t, p))
          /\ Lands(t, CursorPosition(t, p, q)) => Edits(t, CursorPosition(t, p, q))
    BY <2>1, CursorsEdit
  <2>4. /\ Keeps(t, CursorUp(t, p)) /\ Keeps(t, CursorDown(t, p))
        /\ Keeps(t, CursorForward(t, p)) /\ Keeps(t, CursorBackward(t, p))
        /\ Keeps(t, CharacterAbsolute(t, p)) /\ Keeps(t, LineAbsolute(t, p))
    BY <1>1, CursorKeeps
  <2>5. \A q \in Parameters : /\ Keeps(t, CursorNextLine(t, p)) /\ Keeps(t, CursorPrecedingLine(t, p))
                              /\ Keeps(t, CursorPosition(t, p, q))
    BY <1>1, CursorsKeep
  <2>6. QED  BY <1>4, <1>6, <2>2, <2>3, <2>4, <2>5
<1>7. QED  BY <1>3, <1>5, <1>6 DEF Cursor

LEMMA EraseTells ==
  ASSUME NEW v, Sync(v, t), TOK(t), EraseControl PROVE Tells(v)
<1>1. ASSUME NEW p \in 0..2
      PROVE  /\ Sync(v, EraseDisplay(t, p)) /\ TOK(EraseDisplay(t, p))
             /\ Sync(v, EraseLine(t, p)) /\ TOK(EraseLine(t, p))
  BY SyncErase, EraseEdits, EditsOK
<1>2. ASSUME NEW p \in Parameters PROVE Sync(v, EraseCharacter(t, p)) /\ TOK(EraseCharacter(t, p))
  <2>1. p \in Nat
    BY WindowAssumption DEF Parameters
  <2>2. QED  BY <2>1, SyncErase, EraseEdits, EditsOK
<1>3. QED  BY <1>1, <1>2, ControlTells DEF EraseControl

LEMMA InsertTells ==
  ASSUME NEW v, Sync(v, t), TOK(t), InsertControl PROVE Tells(v)
<1>1. ASSUME NEW p \in Parameters
      PROVE  /\ Sync(v, InsertCharacter(t, p)) /\ TOK(InsertCharacter(t, p))
             /\ Sync(v, DeleteCharacter(t, p)) /\ TOK(DeleteCharacter(t, p))
             /\ (InRegion(t) => RegionFits(t)) =>
                  /\ Sync(v, InsertLine(t, p)) /\ TOK(InsertLine(t, p))
                  /\ Sync(v, DeleteLine(t, p)) /\ TOK(DeleteLine(t, p))
             /\ RegionFits(t) =>
                  /\ Sync(v, ScrollUpRegion(t, p)) /\ TOK(ScrollUpRegion(t, p))
                  /\ Sync(v, ScrollDownRegion(t, p)) /\ TOK(ScrollDownRegion(t, p))
  <2>1. p \in Nat
    BY WindowAssumption DEF Parameters
  <2>2. QED  BY <2>1, SyncInsert, InsertEdits, EditsOK
<1>2. ASSUME NEW p \in Parameters, Scrolls(InRegion(t), InsertLine(t, p)) \/ Scrolls(InRegion(t), DeleteLine(t, p))
      PROVE  Tells(v)
  <2>1. InRegion(t) \in BOOLEAN
    BY DEF InRegion
  <2>2. QED  BY <1>1, <1>2, <2>1, ScrollsTells
<1>3. ASSUME NEW p \in Parameters, Scrolls(TRUE, ScrollUpRegion(t, p)) \/ Scrolls(TRUE, ScrollDownRegion(t, p))
      PROVE  Tells(v)
  BY <1>1, <1>3, ScrollsTells
<1>4. QED  BY <1>1, <1>2, <1>3, ControlTells DEF InsertControl

LEMMA ModeTells ==
  ASSUME NEW v, Sync(v, t), TOK(t), Mode PROVE Tells(v)
<1>1. MemoryOK(t) /\ DOMAIN t = Fields
  BY Bounds DEF TOK
<1>2. ASSUME NEW on \in BOOLEAN
      PROVE  /\ Sync(v, InsertMode(t, on)) /\ TOK(InsertMode(t, on))
             /\ Sync(v, OriginMode(t, on)) /\ TOK(OriginMode(t, on))
             /\ Sync(v, WraparoundMode(t, on)) /\ TOK(WraparoundMode(t, on))
  BY <1>1, ModeKeeps, KeepsSync, ModeEdits, EditsOK
<1>3. Sync(v, ColumnMode(t)) /\ TOK(ColumnMode(t)) /\ Sync(v, Align(t, Filler)) /\ TOK(Align(t, Filler))
  BY <1>1, SyncColumn, SyncAlign, ColumnEdits, AlignEdits, EditsOK
<1>4. Sync(v, EnterAlternate(t)) /\ TOK(EnterAlternate(t))
  BY SyncAlternate, EnterShows
<1>5. ASSUME NEW cursor \in SavedCursors([t EXCEPT !.current = "normal"]), Moves(LeaveAlternate(t, cursor))
      PROVE  Tells(v)
  <2>1. Lands(t, LeaveAlternate(t, cursor)) =>
          Sync(v, LeaveAlternate(t, cursor)) /\ TOK(LeaveAlternate(t, cursor))
    BY SavedNormal, SyncAlternate, LeaveShows
  <2>2. QED  BY <1>5, <2>1, MovesTells
<1>6. ASSUME NEW p \in 1..t.height + MaxParameter, NEW q \in 1..t.height + MaxParameter
      PROVE  Sync(v, SetRegion(t, p, q)) /\ TOK(SetRegion(t, p, q))
  BY <1>1, ModeKeeps, KeepsSync, RegionNumbers, RegionEdits, EditsOK
<1>7. QED  BY <1>2, <1>3, <1>4, <1>5, <1>6, ControlTells DEF Mode

LEMMA ReadTells ==
  ASSUME NEW v, Sync(v, t), TOK(t), ReadControl PROVE Tells(v)
<1>1. ASSUME PrintCharacter PROVE Tells(v)
  BY <1>1, SyncPut, PutWrites, WritesOK, ControlTells DEF PrintCharacter
<1>2. QED
  BY <1>1, FormatTells, CursorTells, EraseTells, InsertTells, ModeTells DEF ReadControl

-----------------------------------------------------------------------------
(* Look, of any terminal, position, focus and preedit text. *)
LookOf(b, o, f, rows, k) ==
  LET i == k + o
      j == (i - b.size - b.y) + 1
  IN [cells   |-> RowAt(b, i).cells,
      cursor  |-> IF i = b.size + b.y THEN <<b.x, f>> ELSE <<>>,
      preedit |-> IF j \in DOMAIN rows THEN <<rows[j]>> ELSE <<>>]

(* Only the row of the cursor looks different from its cells. *)
LEMMA LookPlain ==
  ASSUME NEW b, b.size \in Int, b.y \in Int, NEW o \in Int, NEW f, NEW rows, DOMAIN rows \subseteq {1},
         NEW k \in Int, k + o # b.size + b.y
  PROVE  LookOf(b, o, f, rows, k) = Plain(b, k + o)
<1>1. (k + o - b.size - b.y) + 1 \notin DOMAIN rows
  OBVIOUS
<1>2. QED  BY <1>1 DEF LookOf, Plain

(* The window is drawn right where it is valid. *)
Drawn(b, v, f, rows) == Suits(b, v) /\ \A k \in v.valid : v.shown[k] = LookOf(b, v.position, f, rows, k)

(* What is not changed but in how the row of the cursor looks, with that    *)
(* row invalidated: it is drawn right whatever the row is to look like.     *)
LEMMA CursorHidden ==
  ASSUME NEW b, MemoryTyped(b), b.y \in Int, NEW v, Suits(b, v),
         \A k \in v.valid : ~Among(b, v, k, b.y, 1) => v.shown[k] = Plain(b, k + v.position),
         NEW w, w = Told(v, [call |-> "invalidate", y |-> b.y, n |-> 1, dy |-> 0, log |-> b.size])
  PROVE  /\ Synced(b, w)
         /\ \A f, rows : DOMAIN rows \subseteq {1} => Drawn(b, w, f, rows)
<1>1. /\ Suits(b, w) /\ w.position = v.position /\ w.shown = v.shown
      /\ w.valid = {k \in v.valid : ~Among(b, v, k, b.y, 1)}
  <2>1. 1 \in Nat
    OBVIOUS
  <2>2. QED  BY <2>1, ToldInvalidate
<1>2. Synced(b, w)
  BY <1>1 DEF Synced
<1>3. ASSUME NEW f, NEW rows, DOMAIN rows \subseteq {1}, NEW k \in w.valid
      PROVE  w.shown[k] = LookOf(b, w.position, f, rows, k)
  <2>1. k \in Int /\ w.position \in Int /\ b.size \in Int
    BY <1>1, ViewNumbers
  <2>2. k + w.position # b.size + b.y
    <3>1. ~Among(b, v, k, b.y, 1)
      BY <1>1
    <3>2. QED  BY <1>1, <2>1, <3>1 DEF Among
  <2>3. w.shown[k] = Plain(b, k + w.position)
    BY <1>2 DEF Synced
  <2>4. QED  BY <1>3, <2>1, <2>2, <2>3, LookPlain
<1>4. QED  BY <1>1, <1>2, <1>3 DEF Drawn

(* What is drawn right is plain but in the row of the cursor. *)
LEMMA DrawnPlain ==
  ASSUME NEW b, MemoryTyped(b), b.y \in Int, NEW v, NEW f, NEW rows, DOMAIN rows \subseteq {1}, Drawn(b, v, f, rows)
  PROVE  \A k \in v.valid : ~Among(b, v, k, b.y, 1) => v.shown[k] = Plain(b, k + v.position)
<1>1. Suits(b, v)
  BY DEF Drawn
<1>2. ASSUME NEW k \in v.valid, ~Among(b, v, k, b.y, 1) PROVE v.shown[k] = Plain(b, k + v.position)
  <2>1. k \in Int /\ v.position \in Int /\ b.size \in Int
    BY <1>1, ViewNumbers
  <2>2. k + v.position # b.size + b.y
    BY <1>2, <2>1 DEF Among
  <2>3. QED  BY <2>1, <2>2, LookPlain DEF Drawn
<1>3. QED  BY <1>2

(* What is told of a terminal is right for one that is the same but for    *)
(* the calls.                                                              *)
LEMMA SyncedMoves ==
  ASSUME NEW u, NEW b, SameMemory(u, b), SamePlace(u, b), NEW w
  PROVE  /\ Suits(u, w) => Suits(b, w)
         /\ Synced(u, w) => Synced(b, w)
         /\ \A f, rows : Drawn(u, w, f, rows) => Drawn(b, w, f, rows)
<1>1. b.size = u.size /\ Lengths(b) = Lengths(u) /\ b.x = u.x /\ b.y = u.y
  BY DEF SameMemory, SameSizes, SameLog, SamePlace, Lengths
<1>2. \A i : RowAt(b, i) = RowAt(u, i)
  BY SameRowAt
<1>3. Suits(u, w) => Suits(b, w)
  BY <1>1 DEF Suits
<1>4. \A i : Plain(b, i) = Plain(u, i)
  BY <1>2 DEF Plain
<1>5. \A o, f, rows, k : LookOf(b, o, f, rows, k) = LookOf(u, o, f, rows, k)
  BY <1>1, <1>2 DEF LookOf
<1>6. QED  BY <1>3, <1>4, <1>5 DEF Synced, Drawn

(* The window is what it has followed to.                                  *)
LEMMA BecomesSeen ==
  ASSUME NEW u, TOK(u), Becomes(u), NEW w, w = Follow(Seen, u.calls), Suits(u, w)
  PROVE  Seen' = w /\ SameMemory(u, t') /\ SamePlace(u, t')
<1>1. position' = w.position /\ valid' = w.valid /\ shown' = w.shown
  BY DEF Becomes
<1>2. w = [position |-> w.position, valid |-> w.valid, shown |-> w.shown]
  BY DEF Suits
<1>3. Seen' = w
  BY <1>1, <1>2 DEF Seen
<1>4. QED  BY <1>3, BecomesOK

(* The first call is followed by the window at once.                       *)
LEMMA FollowFirst == ASSUME NEW v, NEW c PROVE Follow(v, Append(<<>>, c)) = Told(v, c)
<1>1. <<>> \in Seq({c}) /\ c \in {c}
  OBVIOUS
<1>2. Follow(v, Append(<<>>, c)) = Told(Follow(v, <<>>), c)
  BY <1>1, FollowNext
<1>3. QED  BY <1>2, FollowNone

LEMMA FollowOne ==
  ASSUME NEW v, NEW b, b.calls = <<>>, DOMAIN b = Fields, NEW y, NEW n, NEW c,
         c = [call |-> "invalidate", y |-> y, n |-> n, dy |-> 0, log |-> b.size]
  PROVE  /\ Invalidate(b, y, n).calls = Append(<<>>, c)
         /\ Follow(v, Invalidate(b, y, n).calls) = Told(v, c)
<1>1. Invalidate(b, y, n).calls = Append(<<>>, c)
  BY DEF Invalidate, Fields
<1>2. QED  BY <1>1, FollowFirst

(* The row of the cursor is told to be drawn again, and may then look as   *)
(* it likes.                                                               *)
LEMMA CursorTold ==
  ASSUME TOK(t), t.calls = <<>>, Becomes(Invalidate(t, t.y, 1)), Suits(t, Seen),
         \A k \in Seen.valid : ~Among(t, Seen, k, t.y, 1) => Seen.shown[k] = Plain(t, k + Seen.position)
  PROVE  Synced(t', Seen') /\ \A f, rows : DOMAIN rows \subseteq {1} => Drawn(t', Seen', f, rows)
<1> DEFINE c == [call |-> "invalidate", y |-> t.y, n |-> 1, dy |-> 0, log |-> t.size]
<1>1. PICK u : u = Invalidate(t, t.y, 1)
  OBVIOUS
<1>2. DOMAIN t = Fields /\ t.y \in Int /\ MemoryOK(t) /\ MemoryTyped(t)
  BY Bounds DEF TOK, MemoryOK
<1>3. SameMemory(t, u) /\ SamePlace(t, u)
  BY <1>1, <1>2, ToldMemory
<1>4. TOK(u)
  BY <1>1, InvalidateEdits, EditsOK
<1>5. PICK v : v = Seen
  OBVIOUS
<1>6. PICK w : w = Told(v, c)
  OBVIOUS
<1>7. Follow(Seen, u.calls) = w
  BY <1>1, <1>2, <1>5, <1>6, FollowOne
<1>8. Synced(t, w) /\ \A f, rows : DOMAIN rows \subseteq {1} => Drawn(t, w, f, rows)
  BY <1>2, <1>5, <1>6, CursorHidden
<1>9. Synced(u, w) /\ Suits(u, w) /\ \A f, rows : DOMAIN rows \subseteq {1} => Drawn(u, w, f, rows)
  BY <1>3, <1>8, SyncedMoves DEF Synced
<1>10. Seen' = w /\ SameMemory(u, t') /\ SamePlace(u, t')
  BY <1>1, <1>4, <1>7, <1>9, BecomesSeen
<1>11. PICK b : b = t'
  OBVIOUS
<1>12. Synced(b, w) /\ \A f, rows : DOMAIN rows \subseteq {1} => Drawn(b, w, f, rows)
  BY <1>9, <1>10, <1>11, SyncedMoves
<1>13. QED  BY <1>10, <1>11, <1>12

-----------------------------------------------------------------------------
(* One row of preedit text at most.                                        *)
Lays == {<<>>} \cup {<<text>> : text \in Texts}
LEMMA OneRow ==
  ASSUME NEW rows \in Lays
  PROVE  /\ DOMAIN rows \subseteq {1} /\ Len(rows) \in {0, 1}
         /\ Len(rows) = 0 => rows = <<>>
BY DEF Lays

(* What Look is of the window. *)
LEMMA LookIs == ASSUME NEW k PROVE Look(k) = LookOf(t, position, focused, preedit, k)
BY DEF Look, LookOf, RowOf, RowAt, Overlay

(* The inductive invariant.  While output is read, the row of the cursor   *)
(* is not valid unless it is to look plain: t_terminal does not say that   *)
(* the cursor leaves a row, as it is drawn on none before End.  Otherwise  *)
(* what is valid is drawn right.                                           *)
Right ==
  /\ Suits(t, Seen) /\ preedit \in Lays
  /\ reading => Synced(t, Seen)
  /\ ~reading => Drawn(t, Seen, focused, preedit)

(* Either way all but the row of the cursor is plain. *)
LEMMA RightPlain ==
  ASSUME TOK(t), Right
  PROVE  /\ Suits(t, Seen)
         /\ \A k \in Seen.valid : ~Among(t, Seen, k, t.y, 1) => Seen.shown[k] = Plain(t, k + Seen.position)
<1>1. MemoryTyped(t) /\ t.y \in Int
  BY Bounds DEF TOK, MemoryOK
<1>2. DOMAIN preedit \subseteq {1}
  BY OneRow DEF Right
<1>3. CASE reading
  BY <1>3 DEF Right, Synced
<1>4. CASE ~reading
  BY <1>1, <1>2, <1>4, DrawnPlain DEF Right
<1>5. QED  BY <1>3, <1>4 DEF Right

LEMMA RightTold ==
  ASSUME Kempt, Right, Begin \/ End \/ ChangeFocus PROVE Right'
<1>1. TOK(t) /\ t.calls = <<>> /\ Becomes(Invalidate(t, t.y, 1)) /\ preedit' = preedit
  BY DEF Kempt, Begin, End, ChangeFocus
<1>2. Synced(t', Seen') /\ \A f, rows : DOMAIN rows \subseteq {1} => Drawn(t', Seen', f, rows)
  BY <1>1, RightPlain, CursorTold
<1>3. preedit' \in Lays /\ DOMAIN preedit' \subseteq {1}
  BY <1>1, OneRow DEF Right
<1>4. Suits(t', Seen')
  BY <1>2 DEF Synced
<1>5. Drawn(t', Seen', focused', preedit')
  BY <1>2, <1>3
<1>6. QED  BY <1>2, <1>3, <1>4, <1>5 DEF Right

LEMMA RightRead ==
  ASSUME Kempt, Right, ReadControl PROVE Right'
<1>1. TOK(t) /\ t.calls = <<>> /\ reading /\ reading' /\ preedit' = preedit
  BY DEF Kempt, ReadControl
<1>2. PICK v : v = Seen
  OBVIOUS
<1>3. Sync(v, t)
  <2>1. Synced(t, v) /\ <<>> \in Seq(CallRecords)
    BY <1>1, <1>2 DEF Right
  <2>2. QED  BY <1>1, <2>1, FollowNone DEF Sync
<1>4. ASSUME NEW u, Sync(v, u), TOK(u), Becomes(u) PROVE Right'
  <2>1. PICK w : w = Follow(v, u.calls)
    OBVIOUS
  <2>2. Synced(u, w) /\ Suits(u, w)
    BY <1>4, <2>1 DEF Sync, Synced
  <2>3. Seen' = w /\ SameMemory(u, t') /\ SamePlace(u, t')
    BY <1>2, <1>4, <2>1, <2>2, BecomesSeen
  <2>4. PICK b : b = t'
    OBVIOUS
  <2>5. Synced(b, w) /\ Suits(b, w)
    BY <2>2, <2>3, <2>4, SyncedMoves
  <2>6. QED  BY <1>1, <2>3, <2>4, <2>5 DEF Right
<1>5. CASE GoAstray
  <2>1. t' = t /\ Seen' = Seen /\ focused' = focused
    BY <1>5 DEF GoAstray, Seen, ReadControl
  <2>2. QED  BY <1>1, <2>1 DEF Right
<1>6. QED  BY <1>1, <1>3, <1>4, <1>5, ReadTells DEF Tells

(* Preedit text that was laid out is drawn again, and so is what is now.   *)
LEMMA RightLayOut ==
  ASSUME Kempt, Right, NEW rows \in Lays, LayOut(rows) PROVE Right'
<1> DEFINE n == Len(preedit)
           m == Len(rows)
           c == [call |-> "invalidate", y |-> t.y, n |-> n, dy |-> 0, log |-> t.size]
           d == [call |-> "invalidate", y |-> t.y, n |-> m, dy |-> 0, log |-> t.size]
<1>1. /\ TOK(t) /\ t.calls = <<>> /\ ~reading /\ reading' = reading /\ preedit' = rows
      /\ focused' = focused /\ Becomes(Invalidate(Invalidate(t, t.y, n), t.y, m))
  BY DEF Kempt, LayOut
<1>2. PICK v : v = Seen
  OBVIOUS
<1>3. Drawn(t, v, focused, preedit) /\ Suits(t, v) /\ preedit \in Lays
  BY <1>1, <1>2 DEF Right
<1>4. PICK a : a = Invalidate(t, t.y, n)
  OBVIOUS
<1>5. PICK u : u = Invalidate(a, t.y, m)
  OBVIOUS
<1>6. TOK(a) /\ TOK(u) /\ MemoryTyped(t) /\ t.y \in Int /\ DOMAIN t = Fields /\ DOMAIN a = Fields
  <2>1. TOK(a)
    BY <1>1, <1>4, InvalidateEdits, EditsOK
  <2>2. TOK(u)
    BY <1>5, <2>1, InvalidateEdits, EditsOK
  <2>3. MemoryTyped(t)
    BY <1>1 DEF TOK, MemoryOK
  <2>4. t.y \in Int /\ DOMAIN t = Fields /\ DOMAIN a = Fields
    BY <1>1, <2>1, Bounds
  <2>5. QED  BY <2>1, <2>2, <2>3, <2>4
<1>7. /\ SameMemory(t, a) /\ SamePlace(t, a) /\ SameMemory(a, u) /\ SamePlace(a, u)
  <2>1. MemoryTyped(a)
    BY <1>6 DEF TOK, MemoryOK
  <2>2. QED  BY <1>4, <1>5, <1>6, <2>1, ToldMemory
<1>8. SameMemory(t, u) /\ SamePlace(t, u)
  BY <1>7 DEF SameMemory, SamePlace, SameSizes, SameLog
<1>9. n \in {0, 1} /\ m \in {0, 1} /\ (n = 0 => preedit = <<>>) /\ (m = 0 => rows = <<>>)
      /\ DOMAIN preedit \subseteq {1} /\ DOMAIN rows \subseteq {1}
  BY <1>3, OneRow
<1>10. a.calls = Append(<<>>, c) /\ Follow(v, a.calls) = Told(v, c)
  <2> HIDE DEF n
  <2>1. a.calls = Append(<<>>, c)
    BY <1>1, <1>4, <1>6 DEF Invalidate, Fields
  <2> HIDE DEF c
  <2>2. QED  BY <2>1, FollowFirst
<1>11. u.calls = Append(a.calls, d)
  BY <1>5, <1>6, <1>7 DEF Invalidate, Fields, SameMemory, SameLog
<1>12. Follow(v, u.calls) = Told(Told(v, c), d)
  <2> HIDE DEF c, d
  <2>1. a.calls \in Seq({c, d}) /\ d \in {c, d}
    BY <1>10
  <2>2. Follow(v, Append(a.calls, d)) = Told(Follow(v, a.calls), d)
    BY <2>1, FollowNext
  <2>3. QED  BY <1>10, <1>11, <2>2
<1>13. PICK x : x = Told(v, c)
  OBVIOUS
<1>14. PICK w : w = Told(x, d)
  OBVIOUS
<1>15. /\ Suits(t, x) /\ x.position = v.position /\ x.shown = v.shown
       /\ x.valid = {k \in v.valid : ~Among(t, v, k, t.y, n)}
  <2>1. n \in Nat
    BY <1>9
  <2>2. QED  BY <1>3, <1>6, <1>13, <2>1, ToldInvalidate
<1>16. /\ Suits(t, w) /\ w.position = x.position /\ w.shown = x.shown
       /\ w.valid = {k \in x.valid : ~Among(t, x, k, t.y, m)}
  <2>1. m \in Nat
    BY <1>9
  <2>2. QED  BY <1>6, <1>14, <1>15, <2>1, ToldInvalidate
<1> HIDE DEF c, d
<1>17. ASSUME NEW k \in w.valid PROVE w.shown[k] = LookOf(t, w.position, focused, rows, k)
  <2>1. /\ k \in v.valid /\ ~Among(t, v, k, t.y, n) /\ ~Among(t, v, k, t.y, m)
        /\ w.shown[k] = v.shown[k] /\ w.position = v.position
    BY <1>15, <1>16 DEF Among
  <2>2. w.shown[k] = LookOf(t, w.position, focused, preedit, k)
    BY <1>3, <2>1 DEF Drawn
  <2>3. CASE n = 0 /\ m = 0
    BY <1>9, <2>2, <2>3
  <2>4. CASE n = 1 \/ m = 1
    <3>1. k \in Int /\ v.position \in Int /\ t.size \in Int
      <4>1. /\ t.size \in Nat /\ t.height \in Nat \ {0, 1} /\ Lengths(t) = 0..t.height - 1
            /\ v.position \in Nat /\ \A l \in v.valid : l \in Lengths(t)
        BY <1>3, <1>6, ViewNumbers
      <4>2. k \in 0..t.height - 1
        BY <2>1, <4>1
      <4>3. QED  BY <4>1, <4>2
    <3>2. k + w.position # t.size + t.y
      <4>1. ~Among(t, v, k, t.y, 1)
        BY <2>1, <2>4
      <4>2. ~(t.y <= (k + v.position) - t.size /\ (k + v.position) - t.size < t.y + 1)
        BY <4>1 DEF Among
      <4>3. t.y \in Int /\ k + v.position # t.size + t.y
        BY <1>6, <3>1, <4>2
      <4>4. QED  BY <2>1, <4>3
    <3>3. /\ LookOf(t, w.position, focused, preedit, k) = Plain(t, k + w.position)
          /\ LookOf(t, w.position, focused, rows, k) = Plain(t, k + w.position)
      BY <1>6, <1>9, <2>1, <3>1, <3>2, LookPlain
    <3>4. QED  BY <2>2, <3>3
  <2>5. QED  BY <1>9, <2>3, <2>4
<1>18. Drawn(t, w, focused, rows)
  BY <1>16, <1>17 DEF Drawn
<1>19. Drawn(u, w, focused, rows) /\ Suits(u, w)
  BY <1>8, <1>16, <1>18, SyncedMoves
<1>20. Becomes(u) /\ Follow(Seen, u.calls) = w
  BY <1>1, <1>2, <1>4, <1>5, <1>12, <1>13, <1>14
<1>21. Seen' = w /\ SameMemory(u, t') /\ SamePlace(u, t')
  BY <1>6, <1>19, <1>20, BecomesSeen
<1>22. PICK b : b = t'
  OBVIOUS
<1>23. Suits(b, w) /\ Drawn(b, w, focused, rows)
  BY <1>19, <1>21, <1>22, SyncedMoves
<1>24. QED  BY <1>1, <1>21, <1>22, <1>23 DEF Right

(* A frame draws what is not valid, and the preedit text again.            *)
LEMMA RightFrame ==
  ASSUME Kempt, Right, Frame PROVE Right'
<1>1. /\ t' = t /\ position' = position /\ focused' = focused /\ preedit' = preedit
      /\ ~reading /\ ~reading' /\ valid' = View
      /\ shown' = [k \in View |->
                 IF k \notin valid THEN Look(k)
                 ELSE IF Overlay(k + position) = <<>> THEN shown[k]
                 ELSE [shown[k] EXCEPT !.preedit = Overlay(k + position)]]
  BY DEF Frame
<1>2. View = Lengths(t)
  BY DEF View, Lengths
<1>3. ASSUME NEW k \in View PROVE shown'[k] = Look(k)
  <2>1. CASE k \notin valid
    BY <1>1, <2>1
  <2>2. CASE k \in valid
    <3>1. shown[k] = Look(k)
      BY <1>1, <2>2, LookIs DEF Right, Drawn, Seen
    <3>2. Look(k).preedit = Overlay(k + position)
      BY DEF Look
    <3>3. [Look(k) EXCEPT !.preedit = Overlay(k + position)] = Look(k)
      BY DEF Look
    <3>4. QED  BY <1>1, <2>2, <3>1, <3>3
  <2>3. QED  BY <2>1, <2>2
<1>4. Suits(t', Seen')
  <2>1. Seen' = [position |-> position, valid |-> View, shown |-> shown']
    BY <1>1 DEF Seen
  <2>2. position \in 0..t.size
    BY DEF Right, Suits, Seen
  <2>3. DOMAIN shown' = View
    BY <1>1
  <2>4. QED  BY <1>1, <1>2, <2>1, <2>2, <2>3 DEF Suits
<1>5. Drawn(t', Seen', focused', preedit')
  <2>1. Seen'.valid = View /\ Seen'.shown = shown' /\ Seen'.position = position
    BY <1>1 DEF Seen
  <2>2. \A k \in View : shown'[k] = LookOf(t, position, focused, preedit, k)
    BY <1>3, LookIs
  <2>3. QED  BY <1>1, <1>4, <2>1, <2>2 DEF Drawn
<1>6. QED  BY <1>1, <1>4, <1>5 DEF Right

(* The user scrolls: the pixels of a row stay those of the row.            *)
LEMMA RightScroll ==
  ASSUME Kempt, Right, NEW p, ScrollTo(p) PROVE Right'
<1> DEFINE dy == position - p
           In(k) == 0 <= k /\ k < t.height
           moved == {k \in 0..t.height - 1 : In(k - dy) /\ k - dy \in valid}
<1>1. /\ t' = t /\ position' = p /\ focused' = focused /\ preedit' = preedit
      /\ ~reading /\ ~reading' /\ p \in 0..t.size
      /\ valid' = Scrolled(Seen, 0, t.height, dy).valid
      /\ shown' = Scrolled(Seen, 0, t.height, dy).shown
  BY DEF ScrollTo
<1>2. /\ MemoryTyped(t) /\ Suits(t, Seen) /\ Drawn(t, Seen, focused, preedit)
      /\ Seen = [position |-> position, valid |-> valid, shown |-> shown]
  BY <1>1 DEF Kempt, TOK, MemoryOK, Right, Seen
<1>3. /\ t.size \in Nat /\ t.height \in Nat /\ Lengths(t) = 0..t.height - 1
      /\ position \in Nat /\ p \in Nat /\ valid \subseteq 0..t.height - 1 /\ DOMAIN shown = 0..t.height - 1
  <2>1. /\ t.size \in Nat /\ t.height \in Nat /\ Lengths(t) = 0..t.height - 1
    BY <1>2, ViewNumbers
  <2>2. position \in 0..t.size /\ valid \in SUBSET Lengths(t) /\ DOMAIN shown = Lengths(t)
    BY <1>2 DEF Suits
  <2>3. QED  BY <1>1, <2>1, <2>2
<1>4. /\ valid' = {k \in valid : ~In(k)} \cup moved
      /\ shown' = [k \in DOMAIN shown |->
                     IF moved # {} /\ In(k) /\ In(k - dy) THEN shown[k - dy] ELSE shown[k]]
  BY <1>1, <1>2 DEF Scrolled
<1>5. valid' = moved
  <2>1. \A k \in valid : In(k)
    BY <1>3
  <2>2. QED  BY <1>4, <2>1
<1>6. ASSUME NEW k \in moved PROVE shown'[k] = LookOf(t, p, focused, preedit, k)
  <2>1. k \in 0..t.height - 1 /\ In(k - dy) /\ k - dy \in valid /\ k \in Int
    BY <1>3
  <2>2. shown'[k] = shown[k - dy]
    <3>1. In(k) /\ k \in DOMAIN shown
      BY <1>3, <2>1
    <3>3. moved # {}
      OBVIOUS
    <3>2. QED
      <4> HIDE DEF moved, In
      <4>1. QED  BY <1>4, <2>1, <3>1, <3>3
  <2>3. shown[k - dy] = LookOf(t, position, focused, preedit, k - dy)
    BY <1>2, <2>1 DEF Drawn
  <2>4. (k - dy) + position = k + p
    BY <1>3, <2>1
  <2>5. LookOf(t, position, focused, preedit, k - dy) = LookOf(t, p, focused, preedit, k)
    BY <2>4 DEF LookOf
  <2>6. QED  BY <2>2, <2>3, <2>5
<1>7. Suits(t, Seen') /\ Seen'.valid = moved /\ Seen'.shown = shown' /\ Seen'.position = p
  <2>1. Seen' = [position |-> p, valid |-> moved, shown |-> shown']
    BY <1>1, <1>5 DEF Seen
  <2>2. DOMAIN shown' = Lengths(t) /\ moved \in SUBSET Lengths(t)
    BY <1>3, <1>4
  <2>3. QED  BY <1>1, <2>1, <2>2 DEF Suits
<1> HIDE DEF moved
<1>8. Drawn(t, Seen', focused, preedit)
  BY <1>6, <1>7 DEF Drawn
<1>9. QED  BY <1>1, <1>7, <1>8 DEF Right

(* After a new size nothing is valid.                                      *)
LEMMA RightSize ==
  ASSUME Kempt, Right, NEW width \in Widths, NEW height \in Heights, ChangeSize(width, height) PROVE Right'
<1>1. /\ t' = Resize(t, width, height) /\ valid' = {} /\ shown' = [k \in 0..height - 1 |-> Nothing]
      /\ position' = position /\ focused' = focused /\ preedit' = preedit /\ ~reading /\ ~reading'
  BY DEF ChangeSize
<1>2. TOK(t)
  BY DEF Kempt
<1>3. PICK r : r = ResizeBuffer(t, width, height)
  OBVIOUS
<1>4. r.height = height /\ r.size = t.size /\ DOMAIN r = Fields
  BY <1>2, <1>3, ResizedBuffer DEF MemoryOK, MemoryTyped
<1>5. PICK b : b = Resize(t, width, height)
  OBVIOUS
<1>6. b.height = height /\ b.size = t.size
  BY <1>3, <1>4, <1>5 DEF Resize, WholeRegion, Fields
<1>7. Seen' = [position |-> position, valid |-> {}, shown |-> [k \in 0..height - 1 |-> Nothing]]
  BY <1>1 DEF Seen
<1>8. position \in 0..t.size
  BY DEF Right, Suits, Seen
<1>9. Suits(b, Seen') /\ Seen'.valid = {}
  BY <1>6, <1>7, <1>8 DEF Suits, Lengths
<1>10. Drawn(b, Seen', focused', preedit')
  BY <1>9 DEF Drawn
<1>11. QED  BY <1>1, <1>5, <1>9, <1>10 DEF Right

LEMMA RightFirst == ASSUME Init PROVE Right
<1>1. PICK width \in Widths, height \in Heights :
        t = NewTerminal(width, height) /\ shown = [k \in 0..height - 1 |-> Nothing]
  BY DEF Init
<1>2. position = 0 /\ valid = {} /\ preedit = <<>> /\ ~reading
  BY DEF Init
<1>3. t.size = 0 /\ t.height = height
  BY <1>1 DEF NewTerminal, NewBuffer
<1>4. Seen = [position |-> 0, valid |-> {}, shown |-> [k \in 0..height - 1 |-> Nothing]]
  BY <1>1, <1>2 DEF Seen
<1>5. Suits(t, Seen) /\ Seen.valid = {}
  BY <1>3, <1>4 DEF Suits, Lengths
<1>6. QED  BY <1>2, <1>5 DEF Right, Drawn, Lays

LEMMA RightStep ==
  ASSUME Kempt, Right, [Next]_vars PROVE Right'
<1>1. CASE Begin \/ End \/ ChangeFocus
  BY <1>1, RightTold
<1>2. CASE ReadControl
  BY <1>2, RightRead
<1>3. CASE Frame
  BY <1>3, RightFrame
<1>4. CASE \E p \in 0..LogCapacity : ScrollTo(p)
  BY <1>4, RightScroll
<1>5. CASE \E rows \in {<<>>} \cup {<<text>> : text \in Texts} : LayOut(rows)
  BY <1>5, RightLayOut DEF Lays
<1>6. CASE \E width \in Widths, height \in Heights : ChangeSize(width, height)
  BY <1>6, RightSize
<1>7. CASE UNCHANGED vars
  <2>1. /\ t' = t /\ position' = position /\ valid' = valid /\ shown' = shown /\ focused' = focused
        /\ preedit' = preedit /\ reading' = reading
    BY <1>7 DEF vars
  <2>2. Seen' = Seen
    BY <2>1 DEF Seen
  <2>3. QED  BY <2>1, <2>2 DEF Right
<1>8. QED  BY <1>1, <1>2, <1>3, <1>4, <1>5, <1>6, <1>7 DEF Next

(* DamageComplete: whatever is read, however the screen and the log scroll *)
(* under the window, and wherever the user has scrolled to, a row that is  *)
(* not drawn again at the next frame looks as it would if it were: every   *)
(* change t_buffer and t_terminal make is told to the host in an order in  *)
(* which t_window can follow it.                                           *)
THEOREM DamageCorrect == Spec => []DamageComplete
<1>1. Init => Right
  BY RightFirst
<1>2. Kempt /\ Right /\ [Next]_vars => Right'
  BY RightStep
<1>3. Right => DamageComplete
  <2> SUFFICES ASSUME Right PROVE DamageComplete
    OBVIOUS
  <2>1. WindowOK
    BY DEF Right, Suits, Seen, WindowOK, Lengths, View
  <2>2. ~reading => \A k \in valid : shown[k] = Look(k)
    BY LookIs DEF Right, Drawn, Seen
  <2>3. QED  BY <2>1, <2>2 DEF DamageComplete
<1>4. QED  BY <1>1, <1>2, <1>3, KemptInvariant, PTL DEF Spec
=============================================================================
