------------------------------ MODULE Terminal ------------------------------
(***************************************************************************)
(* The terminal: t_terminal of vt/terminal.h, which is a t_buffer with     *)
(* modes and a scroll region.  One operator per control function; each is  *)
(* the terminal after it.  Control functions are taken here as a whole:    *)
(* how they are read from characters is not modelled.                      *)
(***************************************************************************)
EXTENDS Buffer

(* Tab stops are kept in bytes of eight columns; at first, and in the      *)
(* bytes that f_resize adds, the first column of each is one.              *)
Bytes(width) == (width + 7) \div 8
FirstTabs(m, n) == {8 * k : k \in m..n - 1}

NewTerminal(width, height) ==
  LET buffer == NewBuffer(width, height)
      modes  == [insert |-> FALSE, origin |-> FALSE, wraparound |-> TRUE,
                 regionBegin |-> 0, regionSize |-> height,
                 tabs |-> FirstTabs(0, Bytes(width))]
  IN [k \in DOMAIN buffer \cup DOMAIN modes |->
        IF k \in DOMAIN buffer THEN buffer[k] ELSE modes[k]]

RegionEnd(t) == t.regionBegin + t.regionSize
RegionFits(t) == RegionEnd(t) <= t.height

(* The rows the cursor may be put in. *)
Top(t) == IF t.origin THEN t.regionBegin ELSE 0
Bottom(t) == IF t.origin THEN RegionEnd(t) ELSE t.height

(* f_scroll *)
ScrollRegion(t) ==
  IF t.current = "alternate" \/ t.regionBegin > 0 \/ t.regionSize < t.height
  THEN ScrollUp(t, t.regionBegin, t.regionSize, 1)
  ELSE ScrollLog(t)

BackSpace(t) == [t EXCEPT !.x = Most(Least(@, t.width - 1) - 1, 0)]

(* f_tab_stop_forward by one, f_tab_set and f_tab_clear *)
Tab(t) ==
  LET stops == {x \in t.tabs : t.x < x /\ x < t.width}
  IN [t EXCEPT !.x = IF stops = {} THEN t.width - 1 ELSE Min(stops)]
TabSet(t) == IF t.x < t.width THEN [t EXCEPT !.tabs = @ \cup {t.x}] ELSE t
TabClear(t) == IF t.x < t.width THEN [t EXCEPT !.tabs = @ \ {t.x}] ELSE t
TabClearAll(t) == [t EXCEPT !.tabs = {}]

CarriageReturn(t) == [t EXCEPT !.x = 0]

(* f_restore_cursor, where the cursor was saved; or, as that is read       *)
(* before it is ever written, anywhere.                                    *)
SavedCursors(t) ==
  IF t.saved[t.current] = {}
  THEN [x : 0..t.width - 1, y : 0..t.height - 1]
  ELSE t.saved[t.current]

(* A mutant: the region is not looked at. *)
RestoreAnywhere(t, cursor) ==
  LET r == RestoreCursor(t, cursor)
  IN [r EXCEPT !.x = Least(@, t.width - 1), !.y = Least(@, t.height - 1)]

Restore(t, cursor) ==
  LET r == RestoreCursor(t, cursor)
  IN [r EXCEPT !.x = Least(@, t.width - 1),
               !.y = Most(Least(@, Bottom(t) - 1), Top(t))]

(* f_index: the cursor is already on the next row while it scrolls. *)
Index(t) ==
  LET down == [t EXCEPT !.y = @ + 1]
  IN CASE t.y + 1 = RegionEnd(t) ->
            LET scrolled == ScrollRegion(down)
            IN [scrolled EXCEPT !.y = @ - 1]
       [] t.y + 1 # RegionEnd(t) /\ t.y + 1 >= t.height ->
            [t EXCEPT !.y = t.height - 1]
       [] OTHER -> down

ReverseIndex(t) ==
  CASE t.y = t.regionBegin -> ScrollDown(t, t.regionBegin, t.regionSize, 1)
    [] t.y # t.regionBegin /\ t.y > 0 -> [t EXCEPT !.y = @ - 1]
    [] OTHER -> t

NextLine(t) == Index(CarriageReturn(t))

CursorUp(t, p) == [t EXCEPT !.y = Most(@ - p, Top(t))]

CursorDown(t, p) == [t EXCEPT !.y = Least(@ + p, Bottom(t) - 1)]
CursorForward(t, p) == [t EXCEPT !.x = Least(@ + p, t.width - 1)]
CursorBackward(t, p) == [t EXCEPT !.x = Most(@ - p, 0)]
CursorNextLine(t, p) == CarriageReturn(CursorDown(t, p))
CursorPrecedingLine(t, p) == CarriageReturn(CursorUp(t, p))
CharacterAbsolute(t, p) == [t EXCEPT !.x = Least(p - 1, t.width - 1)]
LineAbsolute(t, p) == [t EXCEPT !.y = Least(p - 1 + Top(t), Bottom(t) - 1)]
CursorPosition(t, p, q) == CharacterAbsolute(LineAbsolute(t, p), q)

EraseDisplay(t, p) ==
  CASE p = 0 -> EraseRows(EraseIn(t, t.x, t.y, t.width - t.x, FALSE),
                          t.y + 1, t.height - t.y - 1)
    [] p = 1 -> EraseIn(EraseRows(t, 0, t.y), 0, t.y, t.x + 1, FALSE)
    [] p = 2 -> EraseRows(t, 0, t.height)

EraseLine(t, p) ==
  CASE p = 0 -> EraseIn(t, t.x, t.y, t.width - t.x, FALSE)
    [] p = 1 -> EraseIn(t, 0, t.y, t.x + 1, FALSE)
    [] p = 2 -> EraseRows(t, t.y, 1)

EraseCharacter(t, p) ==
  EraseIn(t, t.x, t.y, Least(p, t.width - t.x), FALSE)

(* f_insert_line, f_delete_line *)
InRegion(t) == t.regionBegin <= t.y /\ t.y < RegionEnd(t)
InsertLine(t, p) ==
  IF InRegion(t)
  THEN CarriageReturn(ScrollDown(t, t.y, RegionEnd(t) - t.y, p)) ELSE t
DeleteLine(t, p) ==
  IF InRegion(t)
  THEN CarriageReturn(ScrollUp(t, t.y, RegionEnd(t) - t.y, p)) ELSE t

InsertCharacter(t, p) == InsertIn(t, t.x, t.y, p)
DeleteCharacter(t, p) == EraseIn(t, t.x, t.y, p, TRUE)
ScrollUpRegion(t, p) == ScrollUp(t, t.regionBegin, t.regionSize, p)
ScrollDownRegion(t, p) == ScrollDown(t, t.regionBegin, t.regionSize, p)

(* f_mode: insert (4), and private 3, 6, 7 and 1049. *)
WholeRegion(t) == [t EXCEPT !.regionBegin = 0, !.regionSize = t.height]
InsertMode(t, on) == [t EXCEPT !.insert = on]
ColumnMode(t) ==
  EraseRows([WholeRegion(t) EXCEPT !.x = 0, !.y = 0], 0, t.height)
OriginMode(t, on) ==
  [t EXCEPT !.origin = on, !.x = 0, !.y = IF on THEN t.regionBegin ELSE 0]
WraparoundMode(t, on) == [t EXCEPT !.wraparound = on]
EnterAlternate(t) ==
  LET erased == EraseRows(SwitchTo(SaveCursor(t), "alternate"), 0, t.height)
  IN WholeRegion([erased EXCEPT !.x = 0, !.y = 0])
LeaveAlternate(t, cursor) == WholeRegion(Restore(SwitchTo(t, "normal"), cursor))

(* f_scroll_region, from row p to row q.  Nothing keeps the end of the      *)
(* region on the screen.                                                   *)
SetRegion(t, p, q) ==
  LET begin == Least(p - 1, t.height - 2)
      end   == Most(q, begin + 2)
  IN [t EXCEPT !.regionBegin = begin,
               !.regionSize  = end - begin,
               !.x = 0,
               !.y = IF t.origin THEN begin ELSE 0]

(* f_put *)
Put(t, c) ==
  LET n    == Columns(c)
      here == IF t.wraparound /\ t.x + n > t.width
              THEN NextLine(Wrap(t, t.y)) ELSE t
      put  == PutIn(here, here.x, here.y, c, n, t.insert)
  IN [put EXCEPT !.x = @ + n]

(* DECALN, in f_state_escape_sharp: a character one column wide is put in  *)
(* every column of every row.  What was there is overwritten, so that rows *)
(* end up full of it; the host is told of them all at once here.           *)
Align(t, c) ==
  LET filled == [i \in 1..t.width |-> c]
      rows   == [p \in DOMAIN t.rows |->
                   IF \E y \in 0..t.height - 1 : Screen(t)[y] = p
                   THEN [t.rows[p] EXCEPT !.cells = filled] ELSE t.rows[p]]
  IN Invalidate([t EXCEPT !.rows = rows], 0, t.height)

Resize(t, width, height) ==
  LET resized == WholeRegion(ResizeBuffer(t, width, height))
      m == Least(Bytes(t.width), Bytes(width))
  IN [resized EXCEPT
        !.tabs = {x \in @ : x < 8 * m} \cup FirstTabs(m, Bytes(width))]
=============================================================================
