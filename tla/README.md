# A model of xade

xade is a small Wayland desktop in C++: a compositor (`src/wm`), a Japanese
input method (`src/im`), a terminal (`src/vt`), a background (`src/bg`) and the
client library they share (`src/xade`, `src/include/xade`) with its bindings to
the xemmai language (`src/xemmai`).  This directory models the parts of it that
are hard to test, checks them with TLC on small instances and proves theorems
about them with TLAPS.

The repository has no tests and no documents besides the protocol description
`src/im/input-method-unstable-v2.xml`; every definition here is read from the
C++ source, and `PROJECT.json` ("map") says which lines it stands for.

## The system

Each process runs one event loop on one thread.  Nothing is shared between
processes except their Wayland connections, which deliver messages in order and
never lose them while both ends live.  So nothing races inside a process; what
is hard is between processes: each acts on what it was told, while what it will
be told next is already on its way.

| component | state | operations | what makes it correct | model |
|---|---|---|---|---|
| input method engine, `im/engine.cc` | buffer of kana and romaji (`v_buffer`), a stack of states (`t_state`: entry, okuri, text, candidate), the mode (`v_mode`), the romaji typed so far (`v_map`), the candidates of the last search | a key; `f_compose` to the context, `f_commit`, dictionary search and register | the offsets of the states partition the buffer; the application is shown what the user will commit; the dictionary learns the word that was asked for | `Engine` |
| input method process, `im/main.cc` | `v_active`, `v_serial`, `v_grab`, the composition `v_cs` | activate, deactivate, done, key, modifiers, repeat timer, popup frames | it holds the keyboard exactly while it is active; the serial it commits with is the number of done events; what it composes reaches the focused input | `ImContext` |
| input method in the compositor, `wm/main.cc` `t_text_input`, `t_input_method`, `t_input_popup` | `v_focused_text_input`, `v_on`, wlroots' active flag, entered surfaces and enabled flags, the popup | focus change; enable, disable, commit, destroy of text inputs; commit, grab, destroy of the input method; the toggle key | the input method serves one text input, which is enabled and focused; the popup is shown with it and at its caret | `ImServer` |
| text input in applications, `client.cc` `t_input`, `vt/window.cc` | `v_input_focus`, `v_serial`/`v_done`, the preedit text, the caret | enter, leave, done; the idle callback that lays out and reports the caret; create, destroy | every commit is answered; the window draws in the end; the preedit shown is the one being composed | `ImClient` |
| dictionary, `im/basic_dictionary.cc` | two maps in memory and a sorted public file | binary search, registration, load and save | a search finds what is there; what is registered comes first, and is still there after a restart | `Seek`, `BasicDictionary` |
| converter, `converter.h` | iconv state and three buffers | push one unit | output is the conversion of the input, wherever a buffer ends | `Converter` |
| frames and event loop, `client.cc` `t_surface`, `t_frame` | pending configure, size, frame callback | configure, ack, resize, draw | the last configure is acknowledged once, and drawn at its size | `Frame` |
| selection and drag, `client.cc`, `vt/window.cc` | offers, sources, transfers | data device events, copy, paste, drag | a source is deleted once and not too early; a paste gets all of it and ends | `DataDevice` |
| keyboard of applications, cursors, `client.cc` | focus, repeat timer, animation timer | enter, leave, key, repeat | nothing repeats without focus | – |
| layered surfaces, `layered.cc` | as a frame | configure, closed | as a frame | – |
| toplevels and outputs, `wm/main.cc` | geometry to restore, pending resize, maximized and fullscreen, the attached output | map, commit, ack, requests, output change and loss | a window ends where the last request put it | `Toplevel`, `Window` |
| focus and stacking, `wm/main.cc` `t_focusable` | the focused surface, the scene lists | map, unmap, click, shortcuts | one window looks active, and it has the keyboard; the walks skip nothing | `Focus` |
| pointer and grabs, `wm/main.cc` | three closures (`v_on_cursor_motion`, `v_on_cursor_button`, `v_on_unmap`) | motion, button, unmap, request move/resize | no closure outlives the surface it holds | `Pointer` |
| keyboard in the compositor, `wm/main.cc` `t_keyboard` | `v_grabbing` | key, modifiers, compositor shortcuts | presses and releases go to the same side | `Keyboard` |
| terminal buffer and emulation, `vt/buffer.h`, `vt/terminal.h` | ring of log rows, rows of the screen, cursor, region, modes | one operation per control sequence | rows are neither lost nor shared; no half of a wide character; the cursor is on the screen | `Row`, `Buffer`, `Terminal` |
| terminal window, `vt/window.cc` | scroll position, the valid region of what is drawn, selection, preedit layout | pty, idle, keys, pointer, frames, resizes | nothing that is taken to be drawn looks otherwise now | `VtWindow` |
| decorations, background, skia glue, xemmai bindings | – | drawing, loading images, binding C++ objects to a scripting language | drawing and pure I/O | – |

`PROJECT.json` lists each of them with its status, and under "hazards" what can
go wrong in each at the line where it bites.

## What is modelled

### Text input: `ImWire`, `ImServer`, `ImClient`, `ImContext`, `ImRelay`

    application (ImClient)  <- toServer / toClient ->  compositor (ImServer)
                                                           ^
                                              toContext / fromContext
                                                           v
                                                input method (ImContext)

- `ImWire` declares the state of all three processes and the connections, what
  a message may be, and `WireTypeOK`.
- `ImServer` has one action for each event of the compositor: the focus change
  listener, a commit request of a text input (wlroots picks the enable, disable
  or commit listener from the change of `current_enabled`), creation and
  destruction of a text input, the toggle key and any other key, and what the
  input method sends: commit, grab and release, the frame of its popup, hangup.
  `Blur`, `Focus`, `Send` and `Placed` are `f_blur_text_input`, `f_focus`,
  `f_send` and `f_move`.
- `ImClient` has the handlers of `t_input` (enter, leave, done, which all
  inputs of an application share through `v_input_focus`), the idle callback of
  the terminal window, which waits for `v_done == v_serial` before it lays the
  preedit text out and reports the caret, output of the shell that moves the
  cursor, and the creation and destruction of inputs.
- `ImContext` has the done event with the grab and release that follow it, keys
  of the grab, the repeat timer, and the process' start and exit.  What the
  engine makes of a key is left open: any sequence of at most `MaxSends`
  compositions, handed back or not.
- `ImRelay` puts the three together, and holds the properties.

The abstractions: a text is a member of `Texts`; a caret is where the terminal
cursor was and the preedit text that was laid out from there, so that two carets
are equal exactly when the program would find them equal; geometry, markup,
surrounding text and content types are left out.  wlroots is modelled from how
`wm/main.cc` uses it and from the protocol: a commit of the input method whose
serial is not the number of done events does not change the state
(`src/im/input-method-unstable-v2.xml`, 66-68 and 302-307).  What the listener
does with such a commit is then left open (`Pass`): it is not called, or relays
the state there is.  `lost` remembers that the last composition was one of
these.  The popup's frame is sent when
the program asks for it rather than at the next frame callback, since nothing in
the server depends on the delay but the order after the grab.

### The engine: `Engine`

The action `Press` is one call of `f_key_pressed` with one of `Keys`: romaji
letters in lower and upper case, another character, the keys that some mode
treats apart (space, `/`, `l`, `q`), Return and the characters that the code
takes for it, BackSpace, and Tab.  There is one operator for each mode
(`ModeLatin`, `ModeWord`, `ModeRoman`, `ModeKanji`, `ModeChoose`) and one for
each function the modes call.  The buffer is the real one, with the stack of
registrations over it.  All kana are one character, and so is any other
character typed; the table of romaji is the part that the keys can reach, as
paths that are unfinished, complete or doubled.  The dictionary answers a search
with any of `Findings`.  `view` mirrors `t_context::v_cs`, edited by position and
length only, as the engine sends its edits, and `undefined` records an edit or a
read outside a vector.  It does not record that `engine.cc` 205 forms the address
one past the last element by subscript when the entry is empty, which is not
read.

`ImContext` assumes of the engine that a key sends at most `MaxSends`
compositions; `SendsFew` of `Engine` shows it for the 2 that the relay runs use.

### The dictionary: `Seek`, `Converter`, `BasicDictionary`

- `Seek` is `t_file::f_seek`: the halving of the range, which compares the line
  after the middle, and the scan that goes over what is left.  What a line is
  compared with is an operator of the constants `Equal` and `Greater`, so that
  the search of the separator and both searches of an entry are the same module.
- `Converter` has the loops of `t_iconv`, `t_encoder` and `t_decoder` as
  functions, with the sizes of their buffers as constants; a character has one
  byte or two, so that every buffer can end within one.  Its operators compute
  what `BasicDictionary` writes and reads.
- `BasicDictionary` is `t_basic_dictionary`: registration, the search of the
  private maps and the public file, load at the start, save at the exit, with
  the escapes of the texts, byte for byte.  `MCDictionary` gives the constants
  of `Seek` the comparisons of the code.

The abstractions: the two comment lines that divide a file are told apart by one
letter; annotations are read over; a public dictionary is one file.  A file is
written whole or not at all.

### The seat: `Focus`, `Pointer`, `Keyboard`, `Seat`

- `Focus` has the life of toplevels, popups and layer surfaces, what each
  mapping, unmapping and click does to the focus and the stack, and the walks
  over the lists of the scene that the shortcuts use.  `Down` and `Up` follow
  the code through the bottom layers, the tree and the top layers of each
  output; nodes of the tree without a `t_focusable` (the input method's) are
  `Strangers`.
- `Pointer` has the closures: a closure is what it does and the surface it has
  captured.  Where the cursor is is left open: any surface in sight may be under
  it, a subsurface as well.  Any toplevel may ask to be moved or resized, mapped
  or not, as the listeners look at nothing but the request; `early` is one that
  asked when it was not mapped.  What a closure does with a surface that is gone
  is undefined, and taken to be nothing.
- `Keyboard` is the key listener of `t_keyboard`: every shortcut, `v_grabbing`,
  and where a key goes that is none.  A key has another symbol while shift is
  down, and the listener compares symbols.
- `Seat` composes them.  `MCSeat` has two instances: one with the pointer, and
  `KeyboardSpec`, with more surfaces and the pointer at rest.

### A window and its client: `Toplevel`, `Frame`, `Window`

- `Toplevel` is a toplevel of the compositor: `f_resize` and what it puts off
  until the client has acknowledged and drawn, maximize, fullscreen, unset,
  the drag of an edge, the mode of the output, its loss.  `onAck` and `onCommit`
  are the handlers that are waiting, with the placement they will carry out.
  wlroots' scheduled, pending and current states and its list of configures are
  there as the code uses them.  Outputs are boxes in the layout (`Outputs`), and
  the window is on any of them; the code places it as if the output began at the
  origin (`main.cc` 297-302 and 316-321 do not use `box.x` and `box.y`).  `Inset`
  is the `geometry.x` of the client: 251-253 save the position with it and 273
  does not subtract it, so a window that is restored moves by it.  It is 0 for a
  `t_frame`.
- `Frame` is `t_frame` of the application: what it keeps of a configure, when it
  resizes, swaps and acknowledges, and its requests.
- `Window` puts them together with a queue each way.  One dimension stands for
  both: the code treats x and y alike and apart.

### Selection and drag: `DataDevice`

The data device of each application (`v_data_device_listener`, `t_data_offer`,
`t_data_source`), the terminal's copy and paste, and pipes with the loop that
writes and the loop that reads, in blocks as large as a pipe.  What wlroots
sends is modelled from how the code uses it: requests reach the compositor at
once, events are queued.  Data is counted, not represented.

### The terminal: `Row`, `RowEdits`, `Buffer`, `Terminal`, `VtWindow`, `Scrollback`

- `Row` has the edits of one row of cells as operators: `t_row::f_split`,
  `f_expand`, `f_insert`, and the parts of `t_buffer::f_insert`, `f_put`,
  `f_erase` and `f_resize` that work on a row.  A character of two columns is a
  cell with the character and one with `Rest`, which is `L'\0'` in the code.
  `RowEdits` applies them in any order and says what each means, column by
  column.
- `Buffer` is `t_buffer`: a record of its members, and one operator for each
  member function.  `rows` is `v_buffer`; the log and the lines of the two
  screens hold places in it, as the code holds pointers.  What the buffer tells
  its host (`f_invalidate`, `f_scroll`, `f_log`) is kept in `calls`, in order,
  with the size of the log at that moment, which the host reads.
- `Terminal` is `t_terminal`: `Buffer` with the modes, the region and the tab
  stops, and one operator for each control function.
- `VtWindow` is the state machine.  The shell's output is read between `Begin`
  and `End`, which are one callback in the code (nothing else happens between
  them); `Frame`, `ScrollTo`, `ChangeFocus`, `LayOut` and `ChangeSize` are the
  others.  `Becomes` makes the window do what the buffer has told it, so that
  `valid` follows `v_valid` and `shown` the pixels.
- `Scrollback` is the abstract specification that `VtWindow` implements: the log
  is the last rows that left the normal screen at its top, as they were; it
  changes in no other way; and the screen that is not shown does not change.

The abstractions: a row is as high as a pixel, so positions within a row are not
there; attributes, selections, the scroll bar, keys and reports are left out; a
control function is read as a whole.  A cursor that is restored and was never
saved is read from members that are not initialized: the model restores any
cursor.  A region may end below the screen, at any row up to `MaxParameter`, as
`f_scroll_region` (`terminal.h` 384-394) holds its end to nothing.  What scrolls
such a region goes past `v_rows`, and what is kept to it can put the cursor where
there is no row: this is undefined, so it ends the behaviour with `astray` set.
(A cursor below the screen counts as astray at once, though the code reaches
past `v_rows` only when it next uses the row.)  The assumptions: a log of at
least one row (`--log=0` divides by zero in `f_log`), a screen of at least two
rows, and characters of 0, 1 or 2 columns.

## What the runs check

| run | cfg | instance | question |
|---|---|---|---|
| `relay_two_windows` | `MCTwoWindows.cfg` | two windows in two applications, one input each, made before the start; 4 user events; about 592 000 states | when all messages are handled, does the focused window show what is composed, with the popup at its caret, and do all three processes agree? |
| `relay_lifecycle` | `MCLifecycle.cfg` | two windows of one application, inputs made and destroyed, the input method exits and restarts; 4 user events; about 601 000 states | are active, focused, enabled, entered and mapped consistent at every moment, and the serials counted right? |
| `relay_comes_to_rest` | `MCRest.cfg` | one window with all of that; 4 user events; about 94 000 states | with users at rest, does everything come to rest, every commit answered? |
| `engine` | `MCEngine.cfg` | buffers of up to 4 characters, up to 3 nested registrations; about 121 000 states | do the stack, the buffer, the preedit and the dictionary agree? |
| `vt_row_edits` | `MCRowEdits.cfg` | rows of up to 5 columns, all edits; 199 rows | is every edit of every row right for every column? |
| `vt_screen` | `MCVtScreen.cfg` | screens of 1 or 2 columns and 2 or 3 rows, a log of 1 row, 3 control functions of any kind, or resizes, with regions that may reach below the screen, frames, scrolling, focus and preedit text; about 325 000 states | do the cursor and the characters stay within their limits, and is everything that changed drawn again? |
| `vt_log` | `MCVtLog.cfg` | 1 column, 2 or 3 rows, a log of 2 rows, 6 control functions of the kinds that move rows; about 801 000 states | are the log and the screens what they should be, and no row shared? |
| `seat_pointer` | `MCPointer.cfg` | two toplevels, a popup and a subsurface of one, two keys at a time out of logo, `h` and shift; about 658 000 states | does no closure keep what is gone, and does every release follow its press? |
| `seat_windows` | `MCKeyboard.cfg` | two toplevels, two layer surfaces on two outputs, the input method's node, the shortcuts that walk; about 234 000 states up to symmetry of the toplevels | has what looks active the keyboard, and do the walks agree? |
| `window` | `MCWindow.cfg` | an output of 7 and beside it one of 9, a geometry that begins at 1, drags to 2 and 5, cells of 2, 3 steps of users, applications and outputs; about 739 000 states | does a window end where the code puts it, and everything waited for arrive? |
| `dictionary` | `MCDictionary.cfg` | three public dictionaries (none, a short one, a longer one), six registrations of which two are made, eight questions, buffers of 2 to 5; about 32 000 states | does every search end and find, before and after a save and a load? |
| `data_device` | `MCDataDevice.cfg` | two applications, two sources (one that fits in a pipe and one that does not), one paste; about 265 000 states | is a source deleted once and in time, and does a paste get all of it and end? |

A *user event* (`MaxEvents`) is anything not caused by a message: a focus
change, a key, output, a repeat, a creation or destruction, a restart.  Four are
enough for a focus change to overtake a toggle, a key and the answer to both,
and for a composition to be lost to an old serial and be followed by one that is
not.  While the models were being made `relay_two_windows` was also run with
five events and one composition for a key (3.5 million states), without a
different outcome.
`MaxBuffer` 4 and `MaxStates` 3 let a registration
be opened inside a registration with an entry, an okuri letter and a text
around it; five characters add only longer texts.

`MaxControls` bounds the control functions and resizes of a run: three let a wide
character be written, the cursor be moved into it and it be cut, or fill a log
of one row and scroll once more with the user scrolled back; six fill a log of
two rows from a screen of two, turn it, and resize or switch screens then.  Five
columns are enough for two wide characters with one column beside them.

`MaxHeld` is the keys held at once: two are a shortcut with its modifier, or two
shortcuts that overlap, or the key of a shortcut and shift pressed before it is
released.  The sizes of `window` make a width that is no multiple
of a cell occur for every kind of placement, so that the client draws smaller
than it was asked to; the second of its outputs does not begin at the origin,
where the middle is not where the code puts it; three steps are a placement, one that overlaps it, and
one that undoes either.  In `data_device`, `MaxQueue` bounds what is under way
when a user acts: a click or a release can overtake one event, and all that
follows from it is then queued.  In `dictionary`, the words have lines of
different lengths, so that the middle of a range falls into each of them.

Three runs take states for the same that differ in nothing the checks depend on:
`seat_windows` when the toplevels have changed places (`Alike`); `seat_pointer`
when only `sent` differs, which every step sets and none reads (`Standing`); and
`vt_screen` when only the pixels of rows differ that are not valid and look wrong
anyway (`Drawn`).  The theorems do not depend on this.

Deadlock is not checked in these runs (`vt_row_edits` excepted): with the users
at rest and the messages handled, or the control functions read, there is nothing
to do, and it is right that the system stops.

### The properties

In `ImRelay`:

- `ActiveIffServing`, `FocusedIsEntered`, `PopupIffActive`: the state of the
  compositor is consistent after every event.
- `SerialsAgree`: the two ends of each connection count the same events, with
  those under way.  `t_input::f_done` compares for equality, so one event too
  many or too few leaves a window waiting for ever.
- `RepeatHasGrab`: key repeat does not outlive the grab.
- `GrabFollowsActivation`, `PreeditShown`, `PopupAtCaret`, `ClientFocusAgrees`,
  `ServesFocus`: what holds once all messages are handled, however they
  crossed.
- `ComesToRest`: the window reports its caret, is sent its preedit text again,
  lays it out again and reports its caret if it moved; this stops, with every
  commit answered.

In `Engine`:

- `StateOK`: the states of the stack partition the buffer, the mode fits what
  the top state holds, and what a registration was opened for is still in the
  buffer when it is closed.
- `ViewOK`: the edits sent by position keep the context's copy equal to what the
  buffer shows, and none reaches outside it.
- `LearnsWhatWasAsked`: what is registered is what was asked for.
- `CommitsWhatIsShown`: what is committed is what the user last saw.

In `Seek` and `BasicDictionary`:

- `Finds`: a search that ends has found the line of the entry if there is one.
- `Answers`: the candidates are what was registered, the last first, then what
  the public file has, with nothing twice; after a restart too.
- `Terminates`: every search ends.

In `Seat`:

- `HeldExists`, `GrabIsWhole`: no closure holds a popup that is gone or a
  toplevel that is not mapped, unless it asked when it was not, and the closures
  always belong to one grab.
- `ActivatedIffFocused`: what looks active is what has the keyboard.
- `WalksAgree`: key k undoes key j, and the digits count what j walks.
- `GrabbingIsHeld`: presses are ignored only while the key of a shortcut is held,
  or after shift went down or up while it was.
- `ReleasesFollow`: the release of a shortcut is not passed on, unless shift is
  down; and a release whose press was passed on is passed on too, whatever was
  pressed, focused or hidden in between, so no application waits for it.

In `Window`:

- `AcksInOrder`: acknowledgements name configures that were sent, once and in
  order; anything else is a protocol error.
- `EdgeStays`: the edge that a drag does not move stays where it is, however
  late and at whatever size the client draws, while it asks for one state at a
  time.
- `PlacedWhole`: once a placement has been carried out, a window that fills its
  output is where it would be in the middle of an output at the origin, with the
  backdrop of its own; and another is back where it was, but for its inset.
- `ComesToRest`: the last size asked for is drawn, and nothing waits for ever.

In `DataDevice`:

- `SourcesLive`, `SourcesEnd`: nothing refers to a source that was deleted, and
  no source is left that nothing can end.
- `PasteWhole`: what is read to its end is all of it.
- `DropKept`: what was dropped stays with the application until it is done.
- `PastesEnd`: every paste is read to its end.

In `RowEdits`, `EditsShow`: after every edit, each column shows what the edit is
to make of it, and no half of a character is left.  In `VtWindow`:

- `CursorInRegion`: regions, the origin mode, saved cursors and resizes leave the
  cursor on the screen and where the region lets it be; a region begins on the
  screen, and nothing goes where there is no row while it also ends there.
  `RowsWhole`: no row has half of a character, with the
  cursor and the sizes the terminal makes of them.
- `RowsApart`: the places in the log and on the screens are a permutation of all
  there are.  `RowsKept`: the terminal implements `Scrollback`.
- `DamageComplete`: a row of the view that is valid looks as a full redraw would
  have it, with the cursor, filled or not, and the preedit text.

Each property of each run has a mutant in `PROJECT.json`: the operator to
replace, and the form of it (next to it in the module, marked as a mutant) that
makes the property fail.

### Where a property stops

These are things the code does that a property would not hold for; those that
are hazards are in "hazards" with the line.

Text input:

- A composition sent with a serial that is no longer the last is dropped, as the
  protocol says, and nothing sends it again before the next key.  So
  `PreeditShown` says nothing while the last composition is such a one (`lost`):
  the window then shows what it showed before, and the next key corrects it.
- An input created while its surface has the focus is not told so, and is served
  only when the focus comes back; so `ClientFocusAgrees`, `PreeditShown`,
  `PopupAtCaret` and `ServesFocus` are checked with the inputs made before, as
  the terminal makes its own.
- With two inputs in one application, the commit of one that comes late can take
  the place of the other: `ServesFocus` is checked for one input each.
- An input method that exits leaves the preedit text where it was shown until
  the window is told something else, so `PreeditShown` says nothing while the
  input method is not active.
- Keys on their way to a grab that is being released are dropped, as in the code.

Seat:

- Only toplevels and popups call `v_on_unmap`.  A grab on a subsurface (the
  listener takes whatever `wl_surface` is under the cursor, `main.cc` 1287-1302,
  and `f_on_unmap_ungrab` finds only xdg surfaces), on a layer surface or on the
  input method's popup is not released when it goes, so `HeldExists` speaks of
  the others.  `seat_pointer` has a subsurface.
- The listeners of requests to move or resize (`main.cc` 665-723) do not ask
  whether the toplevel is mapped.  One that asks before it is, and is destroyed
  without an unmapping, leaves the closures with a pointer to it; `HeldExists`
  excepts it (`early`).
- Nor do they ask whether the button is still down (`// TODO: check the serial`).
- With shift pressed between the press and the release of a shortcut the release
  has another symbol: it is passed on to an application that did not see the
  press, and `v_grabbing` stays set, so that no key is taken until that key is
  pressed and released again without shift.  Both properties of the keyboard
  except this and nothing else.
- A key whose press went to the application and whose release goes to the input
  method's grab, or to another window, leaves the first repeating it.

Window:

- A client that asks for another state before it has drawn at the last one can
  lose its backdrop, or stay maximized at the size it had before; `PlacedWhole`
  is checked until that happens (`hurried`).
- When its output is lost a window is restored, and its flags are not reset
  (`attached = "lost"`).
- On an output that does not begin at the origin of the layout a maximized or
  fullscreen window is not in the middle of it, but where it would be on one that
  did.
- A window whose geometry does not begin at 0 moves by that each time it is
  restored.  The library's own windows begin at 0.
- `EdgeStays` excepts windows that fill their output and applications that
  change their size of their own accord.  It also ends with `hurried`: a state
  that is asked for while another is under way may be the one the window has
  already, and the sizes that were scheduled for the two then arrive with
  nothing waiting to place them.

Dictionary:

- The entries with okuri are searched up to two bytes into the line that ends
  them.  An entry whose first byte is below `;` would be compared the wrong way
  round there; and the letter of an inflection that is `;` is taken for the
  separator when the file is loaded.  The entries of the run are kana.
- A file that was cut short is read without an error.

Selection and drag:

- A selection that wlroots refuses, because its serial is too old, is never
  cancelled: its source stays until the application exits (`refused`).
- A source that is deleted while a transfer is under way leaves the writer a
  pointer into it; what it writes then is undefined (`spoilt`).
- An application that pastes its own selection of more than a pipe takes waits
  for itself in `write` (`WritesToItself`).

Terminal:

- A region that ends below the screen, which any program can ask for, lets the
  next scroll go past the rows.  What happens then is undefined and not modelled
  (`astray`); `RowsApart`, `RowsKept`, `RowsWhole` and `DamageComplete` hold until
  it does, and `CursorInRegion` says that nothing else brings it about.
- Preedit text of two rows is drawn below the cursor's row, and that row is not
  drawn again when output moves the cursor: `DamageComplete` is checked with text
  that fits in one row.

## Fairness

All fairness is weak, and of what an event loop does for itself.  Users, shells,
timers, outputs and restarts owe nothing.

- `ImRelay`: each process dispatches the messages that have arrived, and an
  application runs its idle callbacks when none are left (`f_run` in
  `client.cc` calls `v_on_idle` between dispatches).
- `Window`: both ends read what they are sent, wlroots sends a configure that
  was scheduled, and a visible surface is told of frames.
- `DataDevice`: the event loop of an application serves its connection and its
  pipes (`Receive`, `Write`, `Read`); it does not while it is in a `write`.
- `BasicDictionary`: a search that was begun goes on: it is a loop.
- The engine, the seat and the terminal have none: nothing in them happens
  without a key, a button or output.

## What is proved

`ImRelayProofs`, for any finite set of inputs and applications, any texts, and
any number of events:

- `TypeCorrect`: the types, and nothing more.  Each action has a lemma that says it keeps them.
- `ServerCorrect`, and from it `ActiveCorrect`, `FocusedCorrect`,
  `PopupCorrect`: the three invariants of the compositor.  They are inductive
  only together (`ServerInv`): that the popup is not placed through a null
  pointer (`popup # Wild`, part of `PopupIffActive`) needs the text input served
  to have entered a surface; that the input method is deactivated when the surface is left needs
  the text input served to be among those that leave; and the latter needs what
  has been entered to be the focus.  `BlurServer`, `SendServer` and
  `FocusServer` say what each of the three functions of the code contributes.
- `RepeatCorrect`: the repeat timer runs only with the grab.

The second part begins with lemmas about what is under way, which the third needs
as well: where in a queue the messages of a set are (`Hits`), how many there are
(`Pending`), what the last of them will leave its reader with (`Leaves`), and
what each finds when its turn comes (`InTurn`); and what becomes of these when a
message is sent, taken or taken by a reader that does not listen to it.

It then compares the two ends of each connection.  The invariants
say of the messages under way that they make up for the difference:

- `ContextLinkCorrect` (`MethodLink`, `KeyboardLink`): the done events under way
  are those `v_serial` lacks; the last that switches the input method leaves the
  process as the compositor has it; the last grab or release leaves the
  compositor with the grab the process has.  From it `GrabCorrect`:
  `GrabFollowsActivation`, through exits and restarts.
- `ClientLinkCorrect` (`UpLink`, `DownLink`): the same count for the commits of
  every text input and the done events that answer them, whether they live, are
  being destroyed or are gone.  From both `SerialsCorrect`: `SerialsAgree`.

The third part is about what holds once all messages are handled.  Each
invariant says it of what the messages under way lead to:

- `FocusLinkCorrect` (`Steady`, `NewsLink`): an enter event finds its
  application out of every surface, and the last event leaves it where the
  compositor has the focus.  From it `ClientFocusCorrect`: `ClientFocusAgrees`.
- `ServesCorrect`: `ServesFocus`, from `ServeLink`: the window with the focus is
  served, or the event that will make it enable its input, or the request that
  does, is under way.
- `PopupPlaceCorrect`: `PopupAtCaret`, from `CaretTold` (the compositor knows the
  caret or the last commit tells it), `PopupPlaced` and `PopupDrawn`.
- `PreeditCorrect`: `PreeditShown`.  `CompositionLink` follows the text from the
  process to the compositor, `WordLink` from there to the window: the last done
  event under way shows it, unless nothing is composed to be shown or it was
  dropped for its serial (`lost`).
  It needs that the last the served input hears is a done event (`LastWord`) and
  that applications are only told of their own surfaces (`OwnNews`).

These have hypotheses on the constants, which are the ones the runs have for the
same reasons (see "Where a property stops"): inputs that are made before the
start and kept (`~Lifecycle`), and, but for `ClientFocusCorrect`, one input in an
application (`OneInputEach`).  `PreeditCorrect` also needs a process that does
not exit (`~Restarts`), as what it composed is lost with it.  A terminal is such an application, and the number of them, of texts and of events
is not bounded.  The two link theorems and those from them have no hypotheses.

`WindowProofs`, for any boxes of outputs, inset, sizes and cells, and any number
of steps:

- `AcksCorrect`: `AcksInOrder`.  A serial is given by the compositor, sent, kept
  by `t_frame` until it draws, and acknowledged: at each place it is above those
  further on the way, and was not acknowledged before (`SerialInv`).  `unacked`
  is what of it was sent and not yet read back.
- `EdgeCorrect`: `EdgeStays`.  The edge is fixed once the acknowledgement that
  `f_resize` waited for is read, and has to hold for every commit that follows.
  So the invariant (`EdgeInv`) says that all that is committed from one
  acknowledgement to the next is of one size (`SteadySizes`); that an event as
  late as the one waited for asks for what was asked last (`LastAsked`), and
  what is drawn for it is of that size (`LastDrawn`); that the change of state
  under way is one (`OneChange`), since the width depends on whether the window
  fills its output; and that an acknowledgement is followed by its commit and
  every size is known before it is used (`Paired`, `SizeKnown`, `Unsized`).
  The lemma `Steps` sorts the actions into few classes, by what they may change
  of the queues and the handlers that wait, and the invariant is shown for each
  class (`Adds`, `Draws`, `AckEffect`, `CommitEffect`, ...).
- `PlacedCorrect`: `PlacedWhole`.  What `f_resize` was last called to do
  (`Placing`) waits for an acknowledgement or for the commit behind it, while
  older ones pass; so the invariant (`PlaceInv`) says that it is what the states
  scheduled last ask for on the output there is, and that an event as late as the
  one waited for, and once it is acknowledged what was acknowledged, has states
  that ask for the same.  A request for a state finds the one before it drawn
  (`OneChange`), which is what `hurried` is about.

`SeatProofs`, for any surfaces, outputs and keys, shift among them or not:

- `HeldCorrect`, `GrabCorrect`: the closures.  They are inductive together with
  what a closure may be (`PointerInv`): the handler of unmappings watches the
  surface the others captured, and so replaces them when it goes; a toplevel
  that is held without being mapped is the one that asked early.
- `ActivatedCorrect`: inductive as it stands.
- `GrabbingCorrect`, `ReleasesCorrect`: from `KeyInv`: the key of a shortcut that
  is down is the one `v_grabbing` names, whose press was not passed on; and until
  shift moves, that key is down and shift is not.
- `WalksCorrect`: `WalksAgree`, from `SeatInv`: each list has a surface once and
  no two have the same (`Shelving`), and what is mapped or focused is in the
  tree.  What a layer shows is the lists of its outputs one after another
  (`FlattenFacts`), so a step up from what a step down found ends where it began
  (`StepBack`), also where the walk leaves the tree for the bottom layer; what
  the digits count is written out (`NumberedIs`, for digits up to 3, those of
  the model) and compared with the walk.

`SeekProofs`, for any file, any range, and any comparison that orders the lines:

- `SeekCorrect`: `Finds`.  The invariant (`SeekInv`) is that the line is in what
  is left to search, if it is in the range; the halving keeps it although the
  line it compares may begin far behind the middle.
- `SeekEnds`: every step leaves less to search or goes on to the scan.

`DataDeviceProofs`, for any number of applications, sources, pipes and events
under way and any capacity of a pipe:

- `PasteCorrect`: `PasteWhole`.  What a pipe holds, what was read from it and
  what its writer has left are together the size of its source
  (`WritersCount`); this needs a pipe to have one writer, and so the request to
  write to it to be sent once (`OneSender`), and to be answered before anything
  is written (`SendsFresh`).  All but five kinds of steps leave the pipes alone;
  for these it is enough that they add no request to write to the queues
  (`Grows`, `QuietKeeps`).

- `SourcesCorrect`: `SourcesLive`.  In the queue of an application no event
  about a source comes after one that ends it (`Ordered`), and what something
  may still be sent about, because it is selected, dragged or stands behind an
  offer, is alive and its end was not sent (`LiveInv`).  So what ends a source
  must leave nothing that stands for it, and this is the argument about
  dragging (`DragInv`): the selection is not dragged (`SelectedInv`); what is
  dragged is offered at one place (`OfferedInv`), which heard of no end of the
  drag (`OverInv`); and the events of the moves come to their application in an
  order in which each finds the one before it done (`MovesInv`).
- `DropCorrect`: `DropKept`, since a leave finds nothing that was dropped unless
  the pointer has left, or an enter comes first (`MovesInv`).
- `EndsCorrect`: `SourcesEnd`, from `EndsInv`: a source is selected, dragged, or
  waits where it was or is about to be dropped, or its end is under way.  The
  events that say so are not lost (`Kept`), and what was dropped is given up
  only with its end sent.

`EngineProofs`, for anything the dictionary finds and any bounds on the buffer and
on the nesting:

- `EngineStateCorrect`, `EngineViewCorrect`: `StateOK`, `ViewOK`.  The invariant
  (`EngineInvariant`) is that there are texts the engine is made of: what belongs
  to the states below, and the text, the entry, the okuri and the romaji of the
  top one.  The buffer is these joined, the top state holds their lengths, and
  the view is them with their attributes, the candidate in the place of the
  entry (`Stands`, `Holds`); the mode says which of them are empty (`Fits`); and
  the states below are a stack that is such a partition itself, with what each
  asked for (`IsStack`).  `StateOK` alone is not inductive: it bounds the offsets,
  but an edit by position and length replaces the part of the view it is meant to
  only if that part is as long as the engine takes it to be.  The lemmas go up
  with the code: what an edit makes of the joined texts (`SequenceCuts`, ...),
  what each function of the engine makes of them, what a key does in each mode
  (`LatinKey`, `WordKey`, `RomanKey`, `KanjiKey`, `ChooseKey`), and any key
  (`AnyKey`).
- `EngineLearns`: `LearnsWhatWasAsked`, since a state below the top keeps what was
  asked for it until it is the top again (`Taught`).
- `EngineCommits`: `CommitsWhatIsShown`, since a mode that composes commits the
  texts the view is made of, or shows first what it is left with (`Honest`).

`RowProofs`, for any width of the screen and any characters:

- `RowEditsCorrect`: `EditsShow`.  The rows that edits leave are whole, and that
  is enough: in a row that is whole what a column shows is its cell, or the right
  half of the cell before it (`ShownIs`), and what an edit may keep of a row
  depends on no more than that (`SparedIs`).  So each operator of `Row` has a
  lemma that says what its columns show (`SplitShown`, `BeforeShown`,
  `AfterShown`, `JoinShown`, ...), what is kept of a row that was split once is
  what is kept of the row (`SplitSpared`), and the four edits are put together
  from them.

`VtWindowProofs`, for any capacity of the log, any sizes of the window, any
characters and parameters, and any number of control functions:

- `RowsApartCorrect`, `RowsWholeCorrect`, `CursorCorrect`: they follow from one
  invariant (`Kempt`).  Its part about the memory (`MemoryOK`) says that every
  place is in the log or on one of the screens, once; that each row is whole;
  and that a log that is not full begins at its first slot, as `f_log` and
  `f_feed` take for granted.  Its part about the cursor (`PlaceOK`) is the
  region, the cursor on the screen and where the region lets it be, the cursors
  that were saved and the stops; that only a region that ends below the screen
  leads astray is added to it (`StrayInvariant`).  The lemmas go up with the code:
  those of `RowProofs` about one row that is whole (`SplitCells`, `PutWhole`,
  `EraseWhole`, `NarrowedWhole`, ...); what turning rows around within the screen
  does to its lines (`RotatedRows`, `ScrolledRows`); and each control function.
  All but a few come to a change of rows of the screen and of their order
  (`Local`); the others feed the screen from its bottom (`Fed`), show the other
  screen (`Shows`), or resize.
- `RowsKeptCorrect`: `RowsKept`, i.e. the terminal implements `Scrollback`.  What
  is `Local` is an `Edit`, since a place on the screen is neither in the log nor
  on the other screen; what is `Fed` is a `Feed`, since the slot that is taken is
  the one behind the last row while the log is not full, and that of the first
  when it turns (`Turn`); `Shows` is a `Switch`; and a resize copies each row to
  another place, but leaves it where it is seen (`ResizeCuts`).
- `DamageCorrect`: `DamageComplete`, from `Right`.  While output is read, what is
  valid is plain: as the cells have it, with no cursor and no text over it;
  `Begin` invalidates the row of the cursor, which is why the terminal need not
  say that the cursor leaves a row until `End`.  Between frames it is what `Look`
  would have.  In the middle of a control function the terminal is ahead of the
  calls it has made, so the argument is about a terminal with calls and the
  window that would have followed them (`Sync`).  An edit of rows keeps it
  because they are the rows of the call (`SyncInvalidate`); a scroll because each
  row that stays in it has the cells of the row it came from (`SyncScroll`,
  `SyncRotated`); and `f_scroll_log`, which is hardest, because the log is told
  to have grown before the rows are told to have moved, and its slots turn
  instead when it is full (`FedRows`, `SyncLog`).  A lemma per control function
  follows.  What the window does by itself is shown by `RightFrame`,
  `RightScroll`, `RightLayOut` and `RightSize`.

The assumptions are the named ones of the modules (`WireAssumption`,
`FocusAssumption`, `KeyAssumption`, `ToplevelAssumption`, that of `Seek`, `DataDeviceAssumption`,
`RowAssumption`, `WidthAssumption`, `LogAssumption`, `WindowAssumption`, `EngineAssumption`):
the sets of different things are disjoint, what the dictionary finds are
sequences of words, the bounds are numbers.  TLC checks
each of them of every instance.

Only model-checked: liveness (out of the prover's reach), and what the dictionary
answers (`Answers`: its definitions recurse over data).

## What is left

In this order:

1. `Parser`: how characters are read as control functions; the selection in
   `VtWindow`.
2. Key repeat of applications and the animation of cursors.
3. `InputMethod`: what the protocol promises an input method, implemented by
   `ImRelay`.

## What is not modelled, and why

- Drawing (skia, themes, the background), the choice of keymaps and fonts, the
  parsing of `roman.wide`: no state that outlives a call, or data the properties
  do not tell apart.
- Layered surfaces: one function, and the acknowledgement that `Frame` has.
- The xemmai bindings: glue; what their ring of proxies protects against is
  decided by the garbage collector of another repository.
- Placing popups and arranging layers: wlroots computes it.
- wlroots, libwayland, suisha and iconv are external and appear as the code uses
  them.
