------------------------------- MODULE Frame -------------------------------
(***************************************************************************)
(* A window of an application: t_frame with the size it is configured to,  *)
(* the size it draws at and what it acknowledges, and the frame callback   *)
(* of t_surface (client.h, client.cc).  v_on_measure is the terminal's: it *)
(* rounds down to whole cells.                                             *)
(***************************************************************************)
EXTENDS Toplevel

CONSTANTS
  Cell,     \* the width of a cell
  Default,  \* the width the terminal starts with
  AppSizes  \* sizes the application gives its window by itself

ASSUME FrameAssumption ==
  /\ Cell \in Nat \ {0}
  /\ Default \in Nat /\ Default >= Cell
  /\ AppSizes \subseteq Nat \ {0}

VARIABLES
  width,        \* v_width
  states,       \* v_states
  kept,         \* v_restore_width
  configuring,  \* v_configuring
  configured,   \* v_configure_serial
  egl,          \* the width of v_egl_window, 0 if there is none
  drawn,        \* its attached size
  frame         \* there is a v_frame

frameVars == <<width, states, kept, configuring, configured, egl, drawn, frame>>

FrameInit ==
  /\ width = 0 /\ states = Plain /\ kept = 0
  /\ configuring = FALSE /\ configured = 0
  /\ egl = 0 /\ drawn = 0
  /\ frame = FALSE

Filling(s) == s.max \/ s.full

Commit(size) == [type |-> "commit", size |-> size]
Ack(s) == [type |-> "ack", serial |-> s]

(* v_on_measure of the terminal window: its own width if there is none. *)
Measured(w) ==
  LET of == IF w > 0 THEN w ELSE IF egl > 0 THEN egl ELSE Default
  IN (of \div Cell) * Cell

-----------------------------------------------------------------------------
(* A mutant: what has been acknowledged is acknowledged again. *)
SwapAgain(w, c, s) ==
  /\ toServer' = Append(IF c THEN Append(toServer, Ack(s)) ELSE toServer, Commit(w))
  /\ configuring' = c
  /\ drawn' = w

(* t_frame::f_swap_buffers, at the end of v_on_frame; c tells whether a     *)
(* configure event waits and s which.                                      *)
Swap(w, c, s) ==
  /\ toServer' = Append(IF c THEN Append(toServer, Ack(s)) ELSE toServer, Commit(w))
  /\ configuring' = FALSE
  /\ drawn' = w

(* t_surface::f_request_frame *)
RequestFrame ==
  IF frame THEN UNCHANGED <<frame, toServer>>
  ELSE frame' = TRUE /\ toServer' = Append(toServer, Commit(0))

(* t_frame::f_resize, to the width w with states st; c tells whether a     *)
(* configure event waits and s which.                                      *)
ResizeTo(w, st, c, s) ==
  IF w <= 0
  THEN /\ egl' = 0 /\ drawn' = 0
       /\ toServer' = IF c THEN Append(Append(toServer, Ack(s)), Commit(0)) ELSE toServer
       /\ configuring' = FALSE
       /\ UNCHANGED frame
  ELSE IF egl > 0 /\ ~c /\ w = drawn
  THEN configuring' = FALSE /\ UNCHANGED <<egl, drawn, toServer, frame>>
  ELSE /\ egl' = w
       /\ IF egl = 0 \/ st.max
          THEN Swap(w, c, s) /\ UNCHANGED frame
          ELSE RequestFrame /\ configuring' = c /\ UNCHANGED drawn

(* The listeners of xdg_toplevel.configure and xdg_surface.configure. *)
ReceiveConfigure(m) ==
  LET asked == IF m.size <= 0 THEN kept ELSE m.size
      w == IF Filling(m.states) THEN m.size ELSE Measured(asked)
  IN /\ states' = m.states
     /\ configured' = m.serial
     /\ width' = w
     /\ kept' = IF Filling(m.states) THEN kept ELSE w
     /\ ResizeTo(w, m.states, TRUE, m.serial)

ClientReceives ==
  /\ toClient # <<>>
  /\ ReceiveConfigure(Head(toClient))
  /\ toClient' = Tail(toClient)

(* t_frame::f_resize(width, height), called by the application. *)
AppResize(w) ==
  /\ kept' = w
  /\ IF Filling(states) THEN UNCHANGED <<width, configuring, egl, drawn, frame, toServer>>
     ELSE width' = w /\ ResizeTo(w, states, configuring, configured)
  /\ UNCHANGED <<states, configured, toClient>>

(* The listener of the frame callback: the window is drawn.  The callback  *)
(* was asked for with a commit the compositor has seen.                    *)
FrameDue == frame /\ ~Contains(toServer, Commit(0))

(* A mutant: the callback is not forgotten. *)
FrameDoneKept ==
  /\ FrameDue
  /\ UNCHANGED frame
  /\ Swap(egl, configuring, configured)
  /\ UNCHANGED <<width, states, kept, configured, egl, toClient>>

FrameDone ==
  /\ FrameDue
  /\ frame' = FALSE
  /\ Swap(egl, configuring, configured)
  /\ UNCHANGED <<width, states, kept, configured, egl, toClient>>

(* f_move, f_resize of an edge, and xdg_toplevel_set_maximized and others. *)
Request(m) ==
  /\ egl > 0
  /\ toServer' = Append(toServer, m)
  /\ UNCHANGED <<frameVars, toClient>>

Requests ==
  [type : {"maximize", "fullscreen"}, on : BOOLEAN]
    \cup [type : {"move"}] \cup [type : {"resize"}, left : BOOLEAN]
=============================================================================
