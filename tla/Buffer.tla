------------------------------- MODULE Buffer -------------------------------
(***************************************************************************)
(* The terminal buffer: t_buffer of vt/buffer.h.  A buffer is a record of  *)
(* its members, and each operator is a member function: the buffer after   *)
(* the call.  Rows live in v_buffer and are moved by pointer; a pointer is *)
(* the number of the row's place in v_buffer.                              *)
(***************************************************************************)
EXTENDS Row, SequencesExt

CONSTANT LogCapacity
ASSUME LogAssumption == LogCapacity \in Nat \ {0}

Screens == {"normal", "alternate"}

EmptyRow == [cells |-> <<>>, wrapped |-> FALSE]

Slots == 0..LogCapacity - 1
Places(height) == 0..LogCapacity + 2 * height - 1

(* The places in the order the constructor and f_resize hand them out. *)
FirstPlaces(height) ==
  [log |-> [i \in Slots |-> i],
   lines |-> [s \in Screens |-> [i \in 0..height - 1 |->
                LogCapacity + i + IF s = "normal" THEN 0 ELSE height]]]

(* t_buffer::t_buffer *)
NewBuffer(width, height) ==
  [width   |-> width,
   height  |-> height,
   rows    |-> [p \in Places(height) |-> EmptyRow],
   log     |-> FirstPlaces(height).log,
   begin   |-> 0,
   size    |-> 0,
   lines   |-> FirstPlaces(height).lines,
   current |-> "normal",
   saved   |-> [s \in Screens |-> {}],
   x       |-> 0,
   y       |-> 0,
   calls   |-> <<>>]

Screen(b) == b.lines[b.current]

(* f_log(a_y) and f_at(a_y) *)
LogRow(b, y) == b.rows[b.log[(b.begin + y) % LogCapacity]]
At(b, y) == b.rows[Screen(b)[y]]

(* What the host is told: v_host.f_invalidate, f_scroll and f_log.  They   *)
(* read v_log_size when they are called.                                   *)
Invalidate(b, y, n) ==
  [b EXCEPT !.calls = Append(@, [call |-> "invalidate", y |-> y, n |-> n,
                                 dy |-> 0, log |-> b.size])]
Scroll(b, y, n, dy) ==
  [b EXCEPT !.calls = Append(@, [call |-> "scroll", y |-> y, n |-> n,
                                 dy |-> dy, log |-> b.size])]
Logged(b) ==
  [b EXCEPT !.calls = Append(@, [call |-> "log", y |-> 0, n |-> 0,
                                 dy |-> 0, log |-> b.size])]

(* f_scroll, between two calls to f_invalidate if the cursor is in it. *)
ScrollWithCursor(b, y, n, dy) ==
  IF y <= b.y /\ b.y < y + n
  THEN Invalidate(Scroll(Invalidate(b, b.y, 1), y, n, dy), b.y, 1)
  ELSE Scroll(b, y, n, dy)

Cleared(b, ys) ==
  [p \in DOMAIN b.rows |->
     IF \E y \in ys : Screen(b)[y] = p THEN EmptyRow ELSE b.rows[p]]

(* f_alternate__ *)
SwitchTo(b, screen) ==
  Invalidate([b EXCEPT !.current = screen], 0, b.height)

(* f_save_cursor, f_restore_cursor.  Nothing is saved at first, and the    *)
(* members are not initialized.                                            *)
SaveCursor(b) == [b EXCEPT !.saved[b.current] = {[x |-> b.x, y |-> b.y]}]
RestoreCursor(b, cursor) == [b EXCEPT !.x = cursor.x, !.y = cursor.y]

(* The slot of the log that the top row goes to, and the row comes from. *)
Taken(b) == IF b.size < LogCapacity THEN b.size ELSE b.begin

(* A mutant: the log does not turn. *)
Unturned(b) == 0

Turned(b) ==
  IF b.size < LogCapacity THEN b.begin ELSE (b.begin + 1) % LogCapacity

(* f_scroll_log: the top row changes places with the oldest of the log,    *)
(* which is cleared and comes in at the bottom.                            *)
ScrollLog(b) ==
  LET told   == Invalidate(b, b.y, 1)
      grown  == IF b.size < LogCapacity
                THEN Logged([told EXCEPT !.size = @ + 1]) ELSE told
      screen == Screen(b)
      row    == b.log[Taken(b)]
      moved  == [grown EXCEPT
                   !.log[Taken(b)] = screen[0],
                   !.begin = Turned(b),
                   !.lines[b.current] =
                     [i \in 0..b.height - 1 |->
                        IF i < b.height - 1 THEN screen[i + 1] ELSE row],
                   !.rows[row] = EmptyRow]
  IN Invalidate(Scroll(moved, -moved.size, moved.size + b.height, -1), b.y, 1)

(* A mutant: the rows are copied up and not rotated. *)
RotatedCopy(lines, y, h, n) ==
  [i \in DOMAIN lines |->
     IF y <= i /\ i < y + h - n THEN lines[i + n] ELSE lines[i]]

(* std::rotate of h rows from y by n towards the top. *)
Rotated(lines, y, h, n) ==
  [i \in DOMAIN lines |->
     CASE y <= i /\ i < y + h - n -> lines[i + n]
       [] y + h - n <= i /\ i < y + h -> lines[i + n - h]
       [] OTHER -> lines[i]]

(* f_scroll_up, f_scroll_down *)
ScrollUp(b, y, h, n) ==
  LET m     == Least(n, h)
      moved == [b EXCEPT !.lines[b.current] = Rotated(@, y, h, m)]
  IN IF m <= 0 THEN b
     ELSE ScrollWithCursor(
            [moved EXCEPT !.rows = Cleared(moved, y + h - m..y + h - 1)],
            y, h, -m)

ScrollDown(b, y, h, n) ==
  LET m     == Least(n, h)
      moved == [b EXCEPT !.lines[b.current] = Rotated(@, y, h, h - m)]
  IN IF m <= 0 THEN b
     ELSE ScrollWithCursor(
            [moved EXCEPT !.rows = Cleared(moved, y..y + m - 1)], y, h, m)

(* f_erase of n rows from y *)
EraseRows(b, y, n) ==
  Invalidate([b EXCEPT !.rows = Cleared(b, y..y + n - 1)], y, n)

Edited(b, y, cells) == [b EXCEPT !.rows[Screen(b)[y]].cells = cells]

(* f_insert, f_put and f_erase within a row, and f_wrap *)
InsertIn(b, x, y, n) ==
  IF x >= b.width THEN b
  ELSE Invalidate(
         Edited(b, y, InsertSpaces(At(b, y).cells, x, n, b.width)), y, 1)

PutIn(b, x, y, c, n, shift) ==
  IF n <= 0 \/ x >= b.width THEN b
  ELSE Invalidate(
         Edited(b, y, PutCharacter(At(b, y).cells, x, c, n, shift, b.width)),
         y, 1)

EraseIn(b, x, y, n, shift) ==
  IF x >= Len(At(b, y).cells) THEN b
  ELSE Invalidate(Edited(b, y, EraseColumns(At(b, y).cells, x, n, shift)),
                  y, 1)

Wrap(b, y) == [b EXCEPT !.rows[Screen(b)[y]].wrapped = TRUE]

(* f_resize: every row is copied to a new v_buffer, the top rows of each   *)
(* screen are kept, and the cursor is kept on the screen.                  *)
ResizeBuffer(b, width, height) ==
  LET Copied(p) == [cells |-> Narrowed(b.rows[p].cells, width),
                    wrapped |-> FALSE]
      Line(s, i) == IF i < b.height THEN Copied(b.lines[s][i]) ELSE EmptyRow
      alternate == LogCapacity + height
  IN IF width = b.width /\ height = b.height THEN b
     ELSE [b EXCEPT
             !.width  = width,
             !.height = height,
             !.rows   = [p \in Places(height) |->
                           CASE p < LogCapacity -> Copied(b.log[p])
                             [] p \in LogCapacity..alternate - 1 ->
                                  Line("normal", p - LogCapacity)
                             [] OTHER -> Line("alternate", p - alternate)],
             !.log    = FirstPlaces(height).log,
             !.lines  = FirstPlaces(height).lines,
             !.x      = Least(@, width - 1),
             !.y      = Least(@, height - 1)]
=============================================================================
