------------------------------ MODULE Toplevel ------------------------------
(***************************************************************************)
(* A toplevel of the compositor and how it is placed (wm/main.cc): what    *)
(* f_resize does once the client has acknowledged the size and drawn at    *)
(* it, for dragging an edge, maximizing, fullscreen and the output going   *)
(* or changing its mode.  One dimension stands for both.  Scheduling       *)
(* configure events and applying what was acknowledged are wlroots', and   *)
(* so is which output has the first buffer of the toplevel.                *)
(***************************************************************************)
EXTENDS Integers, Sequences, SequencesExt

CONSTANTS
  Outputs,      \* boxes that outputs may have in the layout
  Inset,        \* geometry.x of the client, 0 for a t_frame
  Positions,    \* where the user moves the toplevel to
  DragSizes     \* sizes the user drags it to

ASSUME ToplevelAssumption ==
  /\ Outputs \subseteq [x : Int, width : Nat \ {0}] /\ Outputs # {}
  /\ Inset \in Int
  /\ Positions \subseteq Nat
  /\ DragSizes \subseteq Nat \ {0}

VARIABLES
  output,     \* the box of the output it was to fill last
  scheduled,  \* scheduled: the states and the size to be sent next
  serial,     \* the serial given last
  dirty,      \* a configure event with that serial is still to be sent
  unacked,    \* configure_list: those sent and not acknowledged yet
  acked,      \* pending: the states last acknowledged
  current,    \* current: these, as committed
  geom,       \* the committed width, 0 before the first
  pos,        \* v_scene_tree->node.x
  restore,    \* v_restore
  backdrop,   \* v_fullscreen: its width, 0 if there is none
  attached,   \* v_output_commit is linked: "yes", "no", or not because the
              \* output was "lost"
  onAck,      \* v_on_ack_configure: the serial waited for, and what to do
  onCommit,   \* v_on_commit: what to do
  grab,       \* v_on_cursor_motion, when it moves or resizes the toplevel
  initialized,
  toServer, toClient, \* the socket
  edge        \* the right edge a drag of the left one has fixed, if any

shownVars == <<acked, current, geom, pos, restore, backdrop, onCommit, edge>>
configVars == <<scheduled, serial, dirty, onAck>>
toplevelVars == <<output, shownVars, configVars, unacked, attached, grab,
                  initialized>>

Nothing == [place |-> "none", left |-> FALSE, x |-> 0, width |-> 0]
NoAck == [serial |-> 0, do |-> Nothing]
NoGrab == [does |-> "none", left |-> FALSE, x |-> 0, width |-> 0, at |-> 0]
States == [max : BOOLEAN, full : BOOLEAN]
Plain == [max |-> FALSE, full |-> FALSE]

Place(place, width) == [Nothing EXCEPT !.place = place, !.width = width]

(* The middle of a box, by the division of C. *)
Centre(box, width) ==
  IF width <= box THEN (box - width) \div 2 ELSE -((width - box) \div 2)

ToplevelInit ==
  /\ output \in Outputs
  /\ scheduled = [states |-> Plain, size |-> 0]
  /\ serial = 0 /\ dirty = FALSE /\ unacked = {}
  /\ acked = Plain /\ current = Plain
  /\ geom = 0 /\ pos = 0
  /\ restore = [x |-> 0, width |-> 0, from |-> -Inset]
  /\ backdrop = 0 /\ attached = "no"
  /\ onAck = NoAck /\ onCommit = Nothing
  /\ grab = NoGrab
  /\ initialized = FALSE
  /\ edge = {}

-----------------------------------------------------------------------------
(* wlr_xdg_surface_schedule_configure: one event for all that is set before *)
(* it is sent.                                                             *)
NextSerial == IF dirty THEN serial ELSE serial + 1

Schedule(states, size) ==
  /\ scheduled' = [states |-> states, size |-> size]
  /\ serial' = NextSerial
  /\ dirty' = TRUE

SendConfigure ==
  /\ dirty
  /\ dirty' = FALSE
  /\ unacked' = unacked \cup {[serial |-> serial, states |-> scheduled.states]}
  /\ toClient' = Append(toClient, [type |-> "configure", serial |-> serial,
                                   states |-> scheduled.states,
                                   size |-> scheduled.size])
  /\ UNCHANGED <<output, shownVars, scheduled, serial, onAck, attached, grab,
                 initialized, toServer>>

(* t_toplevel::f_resize, after other states were set by the same handler. *)
Resize(states, size, do) ==
  /\ Schedule(states, size)
  /\ onAck' = [serial |-> NextSerial, do |-> do]

(* f_try_save_geometry.  Where the node was, from, is a history. *)
Saved == IF current.max \/ current.full THEN restore
         ELSE [x |-> pos + Inset, width |-> geom, from |-> pos]

(* f_restore, f_maximize and f_fullscreen.  Of the box of the output only  *)
(* the width is looked at.                                                 *)
Restore(states, to) ==
  Resize(states, to.width, Place("restore", 0)) /\ UNCHANGED output
Maximize(states, box) ==
  /\ Resize(states, box.width, Place("maximize", box.width))
  /\ attached' = "yes" /\ output' = box
Fullscreen(states, box) ==
  /\ Resize(states, box.width, Place("fullscreen", box.width))
  /\ attached' = "yes" /\ output' = box

(* A mutant: fullscreen is left for a plain toplevel, maximized or not. *)
UnfullscreenPlain(on, box) ==
  /\ restore' = Saved
  /\ LET states == [scheduled.states EXCEPT !.full = on]
     IN IF on THEN Fullscreen(states, box)
        ELSE Restore(states, restore') /\ attached' = "no"

(* The listeners of request_maximize and request_fullscreen. *)
RequestMaximize(on, box) ==
  /\ restore' = Saved
  /\ LET states == [scheduled.states EXCEPT !.max = on]
     IN IF current.full
        THEN /\ Schedule(states, scheduled.size)
             /\ UNCHANGED <<onAck, attached, output>>
        ELSE IF on THEN Maximize(states, box)
        ELSE Restore(states, restore') /\ attached' = "no"

RequestFullscreen(on, box) ==
  /\ restore' = Saved
  /\ LET states == [scheduled.states EXCEPT !.full = on]
     IN IF on THEN Fullscreen(states, box)
        ELSE IF current.max THEN Maximize(states, box)
        ELSE Restore(states, restore') /\ attached' = "no"

ReceiveState(m) ==
  /\ m.type \in {"maximize", "fullscreen"}
  /\ \E box \in Outputs :
       IF m.type = "maximize" THEN RequestMaximize(m.on, box)
       ELSE RequestFullscreen(m.on, box)
  /\ UNCHANGED <<unacked, acked, current, geom, pos, backdrop, onCommit, grab,
                 initialized, edge>>

(* The listeners of request_move and request_resize. *)
ReceiveMove(m) ==
  /\ m.type = "move"
  /\ grab' = [does |-> "move", left |-> FALSE, x |-> 0, width |-> 0, at |-> pos]
  /\ UNCHANGED <<output, shownVars, configVars, unacked, attached, initialized>>

ReceiveResize(m) ==
  /\ m.type = "resize"
  /\ grab' = [does |-> "resize", left |-> m.left, x |-> pos + Inset,
              width |-> geom, at |-> geom]
  /\ Schedule(scheduled.states, scheduled.size)
  /\ UNCHANGED <<output, shownVars, onAck, unacked, attached, initialized>>

-----------------------------------------------------------------------------
(* The cursor moves, or the button is released. *)
Drag(size) ==
  Resize(scheduled.states, size,
         [place |-> "edge", left |-> grab.left, x |-> grab.x, width |-> grab.width])

MotionMoves(x) ==
  /\ grab.does = "move"
  /\ pos' = x /\ grab' = [grab EXCEPT !.at = x]
  /\ edge' = {}
  /\ UNCHANGED <<output, acked, current, geom, restore, backdrop, onCommit,
                 configVars, unacked, attached, initialized>>

MotionResizes(size) ==
  /\ grab.does = "resize"
  /\ Drag(size) /\ grab' = [grab EXCEPT !.at = size]
  /\ UNCHANGED <<output, shownVars, unacked, attached, initialized>>

ReleaseButton ==
  /\ grab.does # "none"
  /\ grab' = NoGrab
  /\ IF grab.does = "resize" THEN Schedule(scheduled.states, scheduled.size)
     ELSE UNCHANGED <<scheduled, serial, dirty>>
  /\ UNCHANGED <<output, shownVars, onAck, unacked, attached, initialized>>

(* wlr_xdg_toplevel_set_activated, when the focus comes or goes. *)
Activate ==
  /\ geom > 0
  /\ Schedule(scheduled.states, scheduled.size)
  /\ UNCHANGED <<output, shownVars, onAck, unacked, attached, grab, initialized>>

-----------------------------------------------------------------------------
(* v_output_commit and v_output_destroy: the output has another mode, with *)
(* which the toplevel may be on another, or goes.                          *)
ChangeMode(box) ==
  /\ attached = "yes" /\ box # output
  /\ IF current.full THEN Fullscreen(scheduled.states, box)
     ELSE Maximize(scheduled.states, box)
  /\ UNCHANGED <<shownVars, unacked, grab, initialized>>

LoseOutput ==
  /\ attached = "yes" /\ attached' = "lost"
  /\ Restore(scheduled.states, restore)
  /\ UNCHANGED <<shownVars, unacked, grab, initialized>>

-----------------------------------------------------------------------------
(* A mutant: any acknowledgement ends the waiting. *)
AckAny(m) ==
  /\ m.type = "ack"
  /\ unacked' = {c \in unacked : c.serial > m.serial}
  /\ acked' = (CHOOSE c \in unacked : c.serial = m.serial).states
  /\ onCommit' = IF onAck = NoAck THEN onCommit ELSE onAck.do
  /\ onAck' = NoAck
  /\ UNCHANGED <<output, current, geom, pos, restore, backdrop, scheduled, serial,
                 dirty, attached, grab, initialized, edge>>

(* v_on_ack_configure, for every event acknowledged by one. *)
ReceiveAck(m) ==
  /\ m.type = "ack"
  /\ unacked' = {c \in unacked : c.serial > m.serial}
  /\ acked' = (CHOOSE c \in unacked : c.serial = m.serial).states
  /\ onCommit' = IF onAck = NoAck THEN onCommit ELSE onAck.do
  /\ onAck' = IF m.serial >= onAck.serial THEN NoAck ELSE onAck
  /\ UNCHANGED <<output, current, geom, pos, restore, backdrop, scheduled, serial,
                 dirty, attached, grab, initialized, edge>>

(* What v_on_commit does to the node and the backdrop. *)
Placed(do) ==
  LET right == do.x + do.width IN
  CASE do.place = "none"    -> UNCHANGED <<pos, backdrop, edge>>
    [] do.place = "restore" ->
         pos' = restore.x /\ backdrop' = 0 /\ edge' = {}
    [] do.place = "maximize" ->
         pos' = Centre(do.width, geom') /\ backdrop' = 0 /\ edge' = {}
    [] do.place = "fullscreen" ->
         pos' = Centre(do.width, geom') /\ backdrop' = do.width /\ edge' = {}
    [] do.place = "edge" ->
         /\ pos' = (IF do.left THEN right - geom' ELSE do.x) - Inset
         /\ edge' = IF do.left THEN {right} ELSE {}
         /\ UNCHANGED backdrop

(* The commit listener.  Whatever places the toplevel as a whole has the   *)
(* cursor's closure called once more.  Mapping activates the toplevel.     *)
ReceiveCommit(m) ==
  /\ m.type = "commit"
  /\ current' = acked
  /\ geom' = IF m.size > 0 THEN m.size ELSE geom
  /\ onCommit' = Nothing
  /\ initialized' = TRUE
  /\ LET again == onCommit.place \in {"restore", "maximize", "fullscreen"} IN
     /\ IF again /\ grab.does = "move"
        THEN /\ pos' = grab.at /\ edge' = {}
             /\ backdrop' = IF onCommit.place = "fullscreen" THEN onCommit.width ELSE 0
        ELSE Placed(onCommit)
     /\ IF again /\ grab.does = "resize" THEN Drag(grab.at)
        ELSE /\ IF ~initialized \/ (geom = 0 /\ m.size > 0)
                THEN Schedule(scheduled.states, scheduled.size)
                ELSE UNCHANGED <<scheduled, serial, dirty>>
             /\ UNCHANGED onAck
  /\ UNCHANGED <<output, acked, restore, unacked, attached, grab>>

ServerReceives ==
  /\ toServer # <<>>
  /\ LET m == Head(toServer) IN
     \/ ReceiveState(m) \/ ReceiveMove(m) \/ ReceiveResize(m)
     \/ ReceiveAck(m) \/ ReceiveCommit(m)
  /\ toServer' = Tail(toServer)
  /\ UNCHANGED toClient
=============================================================================
