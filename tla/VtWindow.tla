------------------------------ MODULE VtWindow ------------------------------
(***************************************************************************)
(* The terminal window: what t_window of vt/window.cc keeps of what it has *)
(* drawn while the terminal changes under it.  It reads the shell's output *)
(* in runs, is told by the terminal which rows changed or moved, and draws *)
(* at the next frame only what is not valid.  Heights are counted in rows; *)
(* selections and the scroll bar are left out.                             *)
(***************************************************************************)
EXTENDS Terminal

CONSTANTS
  Widths, Heights,   \* The sizes the window may have.
  Filler,            \* The character that fills the screen for alignment.
  Texts,             \* Rows of preedit text that may be laid out.
  MaxParameter,      \* Bound on the parameter of a control function.
  MaxControls,       \* Bound on the control functions read.
  Read,              \* The kinds of control functions that are read.
  Frames             \* The window is mapped and draws.

ASSUME WindowAssumption ==
  /\ Widths \subseteq Nat \ {0} /\ Heights \subseteq Nat \ {0, 1}
  /\ Filler \in Narrow
  /\ MaxParameter \in Nat \ {0} /\ MaxControls \in Nat
  /\ Read \subseteq {"character", "format", "cursor", "erase", "insert",
                     "mode"}
  /\ Frames \in BOOLEAN

VARIABLES
  t,         \* v_buffer
  position,  \* v_position, in rows
  valid,     \* v_valid, in rows of the view
  shown,     \* what the framebuffer has in each of them
  focused,   \* whether the surface has the keyboard focus
  preedit,   \* v_preedit_rows
  reading,   \* output is being read
  controls,
  astray     \* a control function has gone where there is no row

viewVars == <<position, valid, shown>>
vars == <<t, position, valid, shown, focused, preedit, reading, controls,
          astray>>

View == 0..t.height - 1

-----------------------------------------------------------------------------
(* The window as the host of the terminal.  A record of the three members  *)
(* the calls change.                                                       *)
Seen == [position |-> position, valid |-> valid, shown |-> shown]

(* f__invalidate of the rows from y to z, as far as they are in view. *)
Invalidated(v, y, z) == [v EXCEPT !.valid = @ \ y..z - 1]

(* A mutant: what scrolls in is taken to be valid. *)
ScrolledValid(v, y, z, dy) ==
  [v EXCEPT
     !.valid = {k \in @ : k < y \/ k >= z}
               \cup {k \in y..z - 1 : (k - dy) \in @},
     !.shown = [k \in DOMAIN @ |->
                  IF y <= k /\ k < z /\ (k - dy) \in DOMAIN @ THEN @[k - dy]
                  ELSE @[k]]]

(* f__scroll of the rows from y to z by dy: both the region that is valid  *)
(* and the pixels move, and what moves out of it is lost.  The pixels stay *)
(* if none that are valid would be left.                                   *)
Scrolled(v, y, z, dy) ==
  LET In(k)  == y <= k /\ k < z
      moved  == {k \in y..z - 1 : In(k - dy) /\ k - dy \in v.valid}
  IN [v EXCEPT
        !.valid = {k \in @ : ~In(k)} \cup moved,
        !.shown = [k \in DOMAIN @ |->
                     IF moved # {} /\ In(k) /\ In(k - dy) THEN @[k - dy]
                     ELSE @[k]]]

(* One call of the terminal to f_invalidate, f_scroll or f_log. *)
Told(v, c) ==
  LET height == Cardinality(DOMAIN v.shown)
      first  == c.y + c.log - v.position
      y      == Most(first, 0)
      z      == Least(first + c.n, height)
      away   == first + c.n < 0 \/ first >= height
  IN CASE c.call = "log" -> [v EXCEPT !.position = @ + 1]
       [] c.call # "log" /\ away -> v
       [] c.call = "invalidate" /\ ~away -> Invalidated(v, y, z)
       [] OTHER -> Scrolled(v, y, z, c.dy)

(* The window after the calls, one after the other. *)
Follow(v, calls) ==
  LET after[n \in 0..Len(calls)] ==
        IF n = 0 THEN v ELSE Told(after[n - 1], calls[n])
  IN after[Len(calls)]

(* The terminal becomes u, and the window follows what it was told. *)
Becomes(u) ==
  LET v == Follow(Seen, u.calls)
  IN /\ t' = [u EXCEPT !.calls = <<>>]
     /\ position' = v.position
     /\ valid' = v.valid
     /\ shown' = v.shown

(* A row of the view as a full redraw would have it: its cells, the cursor *)
(* (filled or not, as the focus is), and the preedit text from there on.   *)
RowOf(i) == IF i < t.size THEN LogRow(t, i) ELSE At(t, i - t.size)
Overlay(i) ==
  LET k == i - t.size - t.y
  IN IF k + 1 \in DOMAIN preedit THEN <<preedit[k + 1]>> ELSE <<>>
Look(k) ==
  LET i == k + position
  IN [cells   |-> RowOf(i).cells,
      cursor  |-> IF i = t.size + t.y THEN <<t.x, focused>> ELSE <<>>,
      preedit |-> Overlay(i)]

Nothing == [cells |-> <<>>, cursor |-> <<>>, preedit |-> <<>>]

-----------------------------------------------------------------------------
(* Output of the shell: the poll callback reads it, between two            *)
(* invalidations of the row with the cursor.                               *)
Begin ==
  /\ ~reading
  /\ reading' = TRUE
  /\ Becomes(Invalidate(t, t.y, 1))
  /\ UNCHANGED <<focused, preedit, controls, astray>>

End ==
  /\ reading
  /\ reading' = FALSE
  /\ Becomes(Invalidate(t, t.y, 1))
  /\ UNCHANGED <<focused, preedit, controls, astray>>

Control(u) == Becomes(u) /\ UNCHANGED astray

(* A region may reach below the screen.  What scrolls it then goes past    *)
(* v_rows, and what is kept to it may put the cursor where there is no     *)
(* row: that is undefined, and nothing is modelled after it.               *)
GoAstray == astray' = TRUE /\ UNCHANGED <<t, position, valid, shown>>

Scrolls(inRegion, u) ==
  IF inRegion /\ ~RegionFits(t) THEN GoAstray ELSE Control(u)

Moves(u) == IF u.y < t.height THEN Control(u) ELSE GoAstray

Parameters == 1..MaxParameter

PrintCharacter == \E c \in Characters : Control(Put(t, c))

Format ==
  \/ Control(BackSpace(t)) \/ Control(CarriageReturn(t))
  \/ Control(Tab(t)) \/ Control(TabSet(t)) \/ Control(TabClear(t))
  \/ Control(TabClearAll(t))
  \/ Control(Index(t)) \/ Control(NextLine(t))
  \/ Scrolls(t.y = t.regionBegin, ReverseIndex(t))

Cursor ==
  \/ Control(SaveCursor(t))
  \/ \E cursor \in SavedCursors(t) : Moves(Restore(t, cursor))
  \/ \E p \in Parameters :
       \/ Moves(CursorUp(t, p)) \/ Moves(CursorDown(t, p))
       \/ Moves(CursorForward(t, p)) \/ Moves(CursorBackward(t, p))
       \/ Moves(CursorNextLine(t, p)) \/ Moves(CursorPrecedingLine(t, p))
       \/ Moves(CharacterAbsolute(t, p)) \/ Moves(LineAbsolute(t, p))
       \/ \E q \in Parameters : Moves(CursorPosition(t, p, q))

EraseControl ==
  \/ \E p \in 0..2 : Control(EraseDisplay(t, p)) \/ Control(EraseLine(t, p))
  \/ \E p \in Parameters : Control(EraseCharacter(t, p))

InsertControl ==
  \E p \in Parameters :
    \/ Scrolls(InRegion(t), InsertLine(t, p))
    \/ Scrolls(InRegion(t), DeleteLine(t, p))
    \/ Control(InsertCharacter(t, p)) \/ Control(DeleteCharacter(t, p))
    \/ Scrolls(TRUE, ScrollUpRegion(t, p))
    \/ Scrolls(TRUE, ScrollDownRegion(t, p))

Mode ==
  \/ \E on \in BOOLEAN :
       \/ Control(InsertMode(t, on)) \/ Control(OriginMode(t, on))
       \/ Control(WraparoundMode(t, on))
  \/ Control(ColumnMode(t)) \/ Control(EnterAlternate(t))
  \/ \E cursor \in SavedCursors([t EXCEPT !.current = "normal"]) :
       Moves(LeaveAlternate(t, cursor))
  \/ \E p, q \in 1..t.height + MaxParameter : Control(SetRegion(t, p, q))
  \/ Control(Align(t, Filler))

ReadControl ==
  /\ reading
  /\ controls < MaxControls
  /\ controls' = controls + 1
  /\ \/ "character" \in Read /\ PrintCharacter
     \/ "format" \in Read /\ Format
     \/ "cursor" \in Read /\ Cursor
     \/ "erase" \in Read /\ EraseControl
     \/ "insert" \in Read /\ InsertControl
     \/ "mode" \in Read /\ Mode
  /\ UNCHANGED <<focused, preedit, reading>>

-----------------------------------------------------------------------------
(* v_on_frame: what is not valid is drawn, with the cursor if its row is,  *)
(* and the preedit text over all.                                          *)
Frame ==
  /\ Frames /\ ~reading
  /\ valid # View
  /\ shown' = [k \in View |->
                 IF k \notin valid THEN Look(k)
                 ELSE IF Overlay(k + position) = <<>> THEN shown[k]
                 ELSE [shown[k] EXCEPT !.preedit = Overlay(k + position)]]
  /\ valid' = View
  /\ UNCHANGED <<t, position, focused, preedit, reading, controls, astray>>

(* f_position__: the user scrolls, or a key is pressed. *)
ScrollTo(p) ==
  /\ Frames /\ ~reading
  /\ p \in 0..t.size /\ p # position
  /\ LET v == Scrolled(Seen, 0, t.height, position - p)
     IN valid' = v.valid /\ shown' = v.shown
  /\ position' = p
  /\ UNCHANGED <<t, focused, preedit, reading, controls, astray>>

(* v_on_focus_enter, v_on_focus_leave *)
ChangeFocus ==
  /\ Frames /\ ~reading
  /\ focused' = ~focused
  /\ Becomes(Invalidate(t, t.y, 1))
  /\ UNCHANGED <<preedit, reading, controls, astray>>

(* The idle callback lays preedit text out, which fits in the row here.    *)
LayOut(rows) ==
  /\ Frames /\ ~reading
  /\ preedit' = rows
  /\ Becomes(Invalidate(Invalidate(t, t.y, Len(preedit)), t.y, Len(rows)))
  /\ UNCHANGED <<focused, reading, controls, astray>>

(* v_on_map: the window is mapped, or has a new size. *)
ChangeSize(width, height) ==
  /\ ~reading
  /\ controls < MaxControls
  /\ controls' = controls + 1
  /\ t' = Resize(t, width, height)
  /\ valid' = {}
  /\ shown' = [k \in 0..height - 1 |-> Nothing]
  /\ UNCHANGED <<position, focused, preedit, reading, astray>>

Init ==
  /\ \E width \in Widths, height \in Heights :
       /\ t = NewTerminal(width, height)
       /\ shown = [k \in 0..height - 1 |-> Nothing]
  /\ position = 0 /\ valid = {}
  /\ focused = FALSE /\ preedit = <<>>
  /\ reading = FALSE /\ controls = 0 /\ astray = FALSE

Next ==
  /\ ~astray
  /\ \/ Begin \/ ReadControl \/ End \/ Frame \/ ChangeFocus
     \/ \E p \in 0..LogCapacity : ScrollTo(p)
     \/ \E rows \in {<<>>} \cup {<<text>> : text \in Texts} : LayOut(rows)
     \/ \E width \in Widths, height \in Heights : ChangeSize(width, height)

Spec == Init /\ [][Next]_vars

-----------------------------------------------------------------------------
Lines == [p \in {"normal", "alternate"} |-> Range(t.lines[p])]

(* Every member keeps its type: in particular the row of the cursor stays  *)
(* on the screen, and the position within what there is to scroll.         *)
TerminalOK ==
  /\ t.width \in Widths /\ t.height \in Heights
  /\ t.current \in Screens /\ t.calls = <<>>
  /\ t.begin \in Slots /\ t.size \in 0..LogCapacity
  /\ t.tabs \subseteq 0..8 * Bytes(t.width) - 1
  /\ t.x \in Nat /\ t.y \in 0..t.height - 1
  /\ DOMAIN t.rows = Places(t.height)
WindowOK ==
  position \in 0..t.size /\ valid \subseteq View /\ DOMAIN shown = View

(* No row is in two places, in the log or on either screen, and none is    *)
(* lost: all have been in one place since the constructor.                 *)
RowsApart ==
  /\ IsInjective(t.log) /\ \A s \in Screens : IsInjective(t.lines[s])
  /\ Range(t.log) \cap (Lines["normal"] \cup Lines["alternate"]) = {}
  /\ Lines["normal"] \cap Lines["alternate"] = {}
  /\ Range(t.log) \cup Lines["normal"] \cup Lines["alternate"]
       = Places(t.height)

(* No row has half a character, wherever the cursor went before it was     *)
(* written to, and whatever the window was resized to.                     *)
RowsWhole == \A p \in Places(t.height) : Whole(t.rows[p].cells, t.width)

(* The cursor is on the screen, and while the origin is the region's, does *)
(* not leave the region.  The region begins on the screen, and as long as  *)
(* it ends there no control function goes where there is no row: the       *)
(* parameters alone, which f_scroll_region does not hold to the height,    *)
(* can bring that about.                                                   *)
CursorInRegion ==
  /\ TerminalOK
  /\ t.regionBegin \in 0..t.height - 2 /\ t.regionSize >= 2
  /\ t.origin => t.regionBegin <= t.y /\ t.y < RegionEnd(t)
  /\ astray => ~RegionFits(t)

(* The terminal keeps its log and its screens as Scrollback says. *)
Kept ==
  INSTANCE Scrollback WITH
    log     <- [k \in 1..t.size |-> LogRow(t, k - 1)],
    screens <- [s \in Screens |->
                  [i \in 0..t.height - 1 |-> t.rows[t.lines[s][i]]]],
    current <- t.current
RowsKept == Kept!Spec

(* What the window takes to be valid is what it would draw: every change   *)
(* of a row, of the cursor, of the preedit text and of the position        *)
(* reaches the region to be drawn again.                                   *)
DamageComplete ==
  /\ WindowOK
  /\ ~reading => \A k \in valid : shown[k] = Look(k)
=============================================================================
