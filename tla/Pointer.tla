------------------------------ MODULE Pointer ------------------------------
(***************************************************************************)
(* The pointer of the compositor: the closures of t_server that a motion,  *)
(* a button or an unmapping calls, and what replaces them (wm/main.cc).    *)
(* A closure is what it does and the surface it has captured.  Where the   *)
(* cursor is is left open: any surface in sight may be under it.           *)
(***************************************************************************)
EXTENDS Focus

VARIABLES
  onMotion,  \* v_on_cursor_motion
  onButton,  \* v_on_cursor_button
  onUnmap,   \* v_on_unmap
  resizing,  \* toplevels told that they are being resized
  pointed,   \* pointer_state.focused_surface
  early      \* for HeldExists: the toplevel that has asked to be moved or
             \* resized when it was not mapped, and has not been since

pointerVars == <<onMotion, onButton, onUnmap, resizing, pointed, early>>

Closure(does, of) == [does |-> does, of |-> of]

Forward  == Closure("forward", None)   \* v_on_cursor_motion_forward
Grab     == Closure("grab", None)      \* v_on_cursor_button_grab
Ungrab   == Closure("ungrab", None)    \* v_on_cursor_button_ungrab
NoUnmap  == Closure("none", None)      \* f_on_unmap_none

PointerTypeOK ==
  /\ onMotion \in [does : {"forward", "follow", "move", "resize"},
                   of : Surfaces \cup {None}]
  /\ onButton \in [does : {"grab", "ungrab", "resized"},
                   of : Toplevels \cup {None}]
  /\ onUnmap \in [does : {"none", "ungrab", "resized"},
                  of : Surfaces \cup {None}]
  /\ resizing \subseteq Toplevels
  /\ pointed \in Surfaces \cup {None}
  /\ early \in Toplevels \cup {None}

PointerInit ==
  /\ onMotion = Forward /\ onButton = Grab /\ onUnmap = NoUnmap
  /\ resizing = {}
  /\ pointed = None /\ early = None

-----------------------------------------------------------------------------
(* f_pointer_motion with s under the cursor. *)
PointAt(s) == pointed' = s

(* A mutant: motion goes on being the grab's. *)
UngrabButMotion(s) ==
  /\ onUnmap' = NoUnmap /\ onButton' = Grab /\ UNCHANGED onMotion
  /\ PointAt(s)

(* t_server::f_ungrab_pointer *)
UngrabPointer(s) ==
  /\ onMotion' = Forward /\ onButton' = Grab /\ onUnmap' = NoUnmap
  /\ PointAt(s)

(* v_on_unmap(surface), with s under the cursor afterwards.  It is called  *)
(* for the surfaces of toplevels and popups: a layer surface or subsurface *)
(* a closure has captured is never the one that is unmapped.               *)
CallOnUnmap(surface, s) ==
  IF onUnmap.does = "none" \/ onUnmap.of # surface THEN UNCHANGED pointerVars
  ELSE /\ resizing' = IF onUnmap.does = "resized" THEN resizing \ {surface}
                      ELSE resizing
       /\ UngrabPointer(s)
       /\ UNCHANGED early

(* The button and motion closures of an ordinary press on s. *)
Hold(s) ==
  /\ onUnmap' = Closure("ungrab", s)
  /\ onMotion' = Closure("follow", s)
  /\ onButton' = Ungrab

-----------------------------------------------------------------------------
(* The cursor moves, or something was placed under it, and s is under it.  *)
(* What "move" and "resize" do to the toplevel is the subject of Toplevel. *)
Motion(s) ==
  /\ s \in Visible(mapped, popups, hidden) \cup {None}
  /\ IF onMotion.does = "forward" THEN PointAt(s) ELSE UNCHANGED pointed
  /\ UNCHANGED <<focusVars, onMotion, onButton, onUnmap, resizing, early>>

(* v_on_cursor_button_grab, which looks at the surface under the cursor    *)
(* whether the button was pressed or released.                             *)
ButtonGrabs(s) ==
  /\ onButton.does = "grab"
  /\ s \in Visible(mapped, popups, hidden) \cup {None}
  /\ IF s # None THEN FocusOn(Focusable(s)) ELSE ClearFocus
  /\ IF s # None THEN Hold(s) ELSE UNCHANGED <<onMotion, onButton, onUnmap>>
  /\ UNCHANGED <<stack, shelf, mapped, popups, resizing, pointed, early>>

(* v_on_cursor_button_ungrab and the one of a resize, on a release. *)
ButtonUngrabs(s) ==
  /\ onButton.does # "grab"
  /\ s \in Visible(mapped, popups, hidden) \cup {None}
  /\ resizing' = resizing \ {onButton.of}
  /\ UngrabPointer(s)
  /\ UNCHANGED <<focusVars, early>>

EarlyIf(t) == IF t \in mapped THEN None ELSE t

(* A mutant: a request to move leaves the handler of unmappings. *)
RequestMoveOnly(t) ==
  /\ t \in Created
  /\ onMotion' = Closure("move", t)
  /\ onButton' = Ungrab
  /\ pointed' = None /\ early' = EarlyIf(t)
  /\ UNCHANGED <<focusVars, resizing, onUnmap>>

(* The listener of request_move.  It looks at neither the serial nor the   *)
(* button, and the toplevel need not be mapped, then or later.             *)
RequestMove(t) ==
  /\ t \in Created
  /\ onUnmap' = Closure("ungrab", t)
  /\ onMotion' = Closure("move", t)
  /\ onButton' = Ungrab
  /\ pointed' = None /\ early' = EarlyIf(t)
  /\ UNCHANGED <<focusVars, resizing>>

(* The listener of request_resize, likewise. *)
RequestResize(t) ==
  /\ t \in Created
  /\ onUnmap' = Closure("resized", t)
  /\ onMotion' = Closure("resize", t)
  /\ onButton' = Closure("resized", t)
  /\ pointed' = None /\ early' = EarlyIf(t)
  /\ resizing' = resizing \cup {t}
  /\ UNCHANGED focusVars

(* The listener of request_start_drag. *)
StartDrag ==
  /\ onMotion' = Forward
  /\ UNCHANGED <<focusVars, onButton, onUnmap, resizing, pointed, early>>

-----------------------------------------------------------------------------
(* The life of surfaces, as far as the pointer has a part in it.  What the *)
(* scene and the seat do about a surface that goes is wlroots'.            *)
UnmapToplevel(t, s) ==
  /\ t \in mapped
  /\ \A p \in popups : ParentOf[p] # t
  /\ s \in Visible(mapped \ {t}, popups, hidden) \cup {None}
  /\ mapped' = mapped \ {t}
  /\ CallOnUnmap(t, s)
  /\ UNCHANGED <<stack, shelf, popups, focus, activated, hidden>>

(* t_toplevel::~t_toplevel, which wlroots has let be unmapped before if it *)
(* was mapped.  The closures stay as they are: what they do with one that  *)
(* asked early, or with a layer surface or a subsurface that is gone, is   *)
(* undefined, and taken to be nothing.                                     *)
DestroyToplevel(t) ==
  /\ t \in Created \ mapped
  /\ stack' = RemoveFirst(stack, t)
  /\ focus' = IF focus = t THEN None ELSE focus
  /\ activated' = activated \ {t}
  /\ hidden' = hidden \ {t}
  /\ resizing' = resizing \ {t}
  /\ pointed' = IF pointed # None /\ Focusable(pointed) = t THEN None ELSE pointed
  /\ UNCHANGED <<shelf, mapped, popups, onMotion, onButton, onUnmap, early>>

(* t_popup::~t_popup *)
DestroyPopup(p, s) ==
  /\ p \in popups
  /\ s \in Visible(mapped, popups \ {p}, hidden) \cup {None}
  /\ popups' = popups \ {p}
  /\ CallOnUnmap(p, s)
  /\ UNCHANGED <<stack, shelf, mapped, focus, activated, hidden>>

PointerNext ==
  \/ \E s \in Surfaces \cup {None} :
       Motion(s) \/ ButtonGrabs(s) \/ ButtonUngrabs(s)
  \/ \E t \in Toplevels : RequestMove(t) \/ RequestResize(t) \/ DestroyToplevel(t)
  \/ StartDrag
  \/ \E t \in Toplevels, s \in Surfaces \cup {None} : UnmapToplevel(t, s)
  \/ \E p \in Popups, s \in Surfaces \cup {None} : DestroyPopup(p, s)
=============================================================================
