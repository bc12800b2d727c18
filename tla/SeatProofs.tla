----------------------------- MODULE SeatProofs -----------------------------
(***************************************************************************)
(* What the seat guarantees for any number of surfaces, outputs and keys:  *)
(* the closures of the pointer keep nothing that was unmapped, one toplevel *)
(* at most looks active, the releases of keys follow their presses, and    *)
(* the walks of the shortcuts agree.                                       *)
(***************************************************************************)
EXTENDS Seat, SequenceTheorems, FiniteSetTheorems, WellFoundedInduction, TLAPS

(* What the three closures are, together.                                  *)
ClosuresOK ==
  /\ onUnmap.of \in Surfaces \cup {None}
  /\ onUnmap.does = "none" => onUnmap = NoUnmap

PointerInv == ClosuresOK /\ HeldExists /\ GrabIsWhole

(* v_grabbing names the only shortcut whose key can be down, and no key    *)
(* that a client knows to be down; unless shift is touched, its key is.    *)
KeyInv ==
  /\ held \subseteq Keys /\ kept \subseteq held /\ passed \subseteq held
  /\ grabbing \in [key : Keys \cup {None}, shifted : {FALSE}]
  /\ kept \subseteq {grabbing.key}
  /\ grabbing.key \notin passed
  /\ grabbing # NoSymbol /\ ~strayed =>
       grabbing.key \in kept /\ "shift" \notin held

-----------------------------------------------------------------------------
(* The pointer.                                                            *)

(* The toplevels and popups that can be under the cursor are there.        *)
LEMMA VisibleExists ==
  ASSUME NEW up, NEW pops, NEW hid, up \subseteq Toplevels, pops \subseteq Popups,
         NEW s \in Visible(up, pops, hid) \cup {None}
  PROVE  /\ s \in Surfaces \cup {None}
         /\ s \in Toplevels => s \in up
         /\ s \in Popups => s \in pops
BY FocusAssumption DEF Visible, Shelved, Surfaces, FocusAssumption

SurfacesTyped == mapped \subseteq Toplevels /\ popups \subseteq Popups

(* A surface the closures do not keep may go. *)
LEMMA CallOnUnmapHolds ==
  ASSUME SurfacesTyped, PointerInv,
         NEW surface \in Toplevels \cup Popups, NEW s, CallOnUnmap(surface, s)
  PROVE  /\ ClosuresOK' /\ GrabIsWhole' /\ early' = early
         /\ \A c \in {onMotion', onButton', onUnmap'} :
              c.of # None =>
                /\ c.of # surface
                /\ c \in {onMotion, onButton, onUnmap}
<1>0. surface # None
  BY FocusAssumption DEF FocusAssumption, Surfaces
<1>1. CASE onUnmap.does = "none" \/ onUnmap.of # surface
  <2>1. UNCHANGED <<onMotion, onButton, onUnmap, early>>
    BY <1>1 DEF CallOnUnmap, pointerVars
  <2>2. onUnmap.of # surface
    BY <1>0, <1>1 DEF PointerInv, ClosuresOK, NoUnmap, Closure
  <2>3. \A c \in {onMotion, onButton, onUnmap} : c.of # None => c.of # surface
    BY <2>2 DEF PointerInv, GrabIsWhole
  <2>. QED
    BY <2>1, <2>3 DEF PointerInv, ClosuresOK, GrabIsWhole
<1>2. CASE ~(onUnmap.does = "none" \/ onUnmap.of # surface)
  <2>1. /\ onMotion' = Forward /\ onButton' = Grab /\ onUnmap' = NoUnmap
        /\ early' = early
    BY <1>2 DEF CallOnUnmap, UngrabPointer
  <2>. QED
    BY <2>1 DEF ClosuresOK, GrabIsWhole, Forward, Grab, NoUnmap, Closure
<1>. QED
  BY <1>1, <1>2

(* Motion, buttons and requests replace the closures together, and capture *)
(* a surface that is there.                                                *)
LEMMA PointerStep ==
  ASSUME SurfacesTyped, PointerInv, PointerNext
  PROVE  SurfacesTyped' /\ PointerInv'
<1>. USE FocusAssumption DEF FocusAssumption, SurfacesTyped
<1>. DEFINE Same == UNCHANGED <<mapped, popups, early>>
<1>1. ASSUME NEW s \in Surfaces \cup {None}, Motion(s)
      PROVE  SurfacesTyped' /\ PointerInv'
  <2>1. UNCHANGED <<mapped, popups, onMotion, onButton, onUnmap, early>>
    BY <1>1 DEF Motion, focusVars
  <2>. QED
    BY <2>1 DEF PointerInv, ClosuresOK, HeldExists, GrabIsWhole
<1>2. ASSUME NEW s \in Surfaces \cup {None}, ButtonGrabs(s)
      PROVE  SurfacesTyped' /\ PointerInv'
  <2>1. Same
    BY <1>2 DEF ButtonGrabs
  <2>2. CASE s = None
    <3>1. UNCHANGED <<onMotion, onButton, onUnmap>>
      BY <1>2, <2>2 DEF ButtonGrabs
    <3>. QED
      BY <2>1, <3>1 DEF PointerInv, ClosuresOK, HeldExists, GrabIsWhole
  <2>3. CASE s # None
    <3>1. s \in Visible(mapped, popups, hidden) \cup {None} /\ Hold(s)
      BY <1>2, <2>3 DEF ButtonGrabs
    <3>2. /\ s \in Toplevels => s \in mapped
          /\ s \in Popups => s \in popups
      BY ZenonT(30), <3>1, VisibleExists
    <3>3. /\ onUnmap' = Closure("ungrab", s)
          /\ onMotion' = Closure("follow", s)
          /\ onButton' = Ungrab
      BY <3>1 DEF Hold
    <3>4. HeldExists'
      BY <2>1, <3>2, <3>3 DEF HeldExists, Closure, Ungrab, Surfaces
    <3>. QED
      BY <2>1, <2>3, <3>3, <3>4
      DEF PointerInv, ClosuresOK, GrabIsWhole, Closure, Ungrab, Grab, NoUnmap
  <2>. QED
    BY <2>2, <2>3
<1>3. ASSUME NEW s \in Surfaces \cup {None}, ButtonUngrabs(s)
      PROVE  SurfacesTyped' /\ PointerInv'
  <2>1. /\ Same
        /\ onMotion' = Forward /\ onButton' = Grab /\ onUnmap' = NoUnmap
    BY <1>3 DEF ButtonUngrabs, UngrabPointer, focusVars
  <2>. QED
    BY <2>1 DEF PointerInv, ClosuresOK, HeldExists, GrabIsWhole, Forward, Grab,
                NoUnmap, Closure, Surfaces
<1>4. ASSUME NEW t \in Toplevels, RequestMove(t)
      PROVE  SurfacesTyped' /\ PointerInv'
  <2>1. /\ UNCHANGED <<mapped, popups>> /\ t \in mapped \cup {early'}
        /\ onUnmap' = Closure("ungrab", t)
        /\ onMotion' = Closure("move", t)
        /\ onButton' = Ungrab
    BY <1>4 DEF RequestMove, EarlyIf, focusVars
  <2>2. HeldExists'
    BY <2>1 DEF HeldExists, Closure, Ungrab, Surfaces
  <2>. QED
    BY <2>1, <2>2 DEF PointerInv, ClosuresOK, GrabIsWhole, Closure, Ungrab, Grab,
                      NoUnmap, Surfaces
<1>5. ASSUME NEW t \in Toplevels, RequestResize(t)
      PROVE  SurfacesTyped' /\ PointerInv'
  <2>1. /\ UNCHANGED <<mapped, popups>> /\ t \in mapped \cup {early'}
        /\ onUnmap' = Closure("resized", t)
        /\ onMotion' = Closure("resize", t)
        /\ onButton' = Closure("resized", t)
    BY <1>5 DEF RequestResize, EarlyIf, focusVars
  <2>2. HeldExists'
    BY <2>1 DEF HeldExists, Closure, Surfaces
  <2>. QED
    BY <2>1, <2>2 DEF PointerInv, ClosuresOK, GrabIsWhole, Closure, Grab,
                      NoUnmap, Surfaces
<1>6. ASSUME NEW t \in Toplevels, DestroyToplevel(t)
      PROVE  SurfacesTyped' /\ PointerInv'
  <2>1. UNCHANGED <<mapped, popups, onMotion, onButton, onUnmap, early>>
    BY <1>6 DEF DestroyToplevel
  <2>. QED
    BY <2>1 DEF PointerInv, ClosuresOK, HeldExists, GrabIsWhole
<1>7. ASSUME StartDrag
      PROVE  SurfacesTyped' /\ PointerInv'
  <2>1. Same /\ onMotion' = Forward /\ UNCHANGED <<onButton, onUnmap>>
    BY <1>7 DEF StartDrag, focusVars
  <2>. QED
    BY <2>1 DEF PointerInv, ClosuresOK, HeldExists, GrabIsWhole, Forward, Closure,
                Surfaces
<1>8. ASSUME NEW t \in Toplevels, NEW s \in Surfaces \cup {None}, UnmapToplevel(t, s)
      PROVE  SurfacesTyped' /\ PointerInv'
  <2>1. mapped' = mapped \ {t} /\ popups' = popups /\ CallOnUnmap(t, s)
    BY <1>8 DEF UnmapToplevel
  <2>2. /\ ClosuresOK' /\ GrabIsWhole'
        /\ \A c \in {onMotion', onButton', onUnmap'} :
             c.of # None => c.of # t /\ c \in {onMotion, onButton, onUnmap}
        /\ early' = early
    BY <2>1, CallOnUnmapHolds
  <2>3. HeldExists'
    BY <2>1, <2>2 DEF PointerInv, HeldExists, Surfaces
  <2>. QED
    BY <2>1, <2>2, <2>3 DEF PointerInv
<1>9. ASSUME NEW p \in Popups, NEW s \in Surfaces \cup {None}, DestroyPopup(p, s)
      PROVE  SurfacesTyped' /\ PointerInv'
  <2>1. mapped' = mapped /\ popups' = popups \ {p} /\ CallOnUnmap(p, s)
    BY <1>9 DEF DestroyPopup
  <2>2. /\ ClosuresOK' /\ GrabIsWhole'
        /\ \A c \in {onMotion', onButton', onUnmap'} :
             c.of # None => c.of # p /\ c \in {onMotion, onButton, onUnmap}
        /\ early' = early
    BY <2>1, CallOnUnmapHolds
  <2>3. HeldExists'
    BY <2>1, <2>2 DEF PointerInv, HeldExists, Surfaces
  <2>. QED
    BY <2>1, <2>2, <2>3 DEF PointerInv
<1>. QED
  BY <1>1, <1>2, <1>3, <1>4, <1>5, <1>6, <1>7, <1>8, <1>9 DEF PointerNext

(* Surfaces that come, and layer surfaces that go, leave the closures. *)
LEMMA SurfaceStepKeepsPointer ==
  ASSUME SurfacesTyped, PointerInv, SurfaceNext
  PROVE  SurfacesTyped' /\ PointerInv'
<1>1. UNCHANGED <<onMotion, onButton, onUnmap>>
  BY DEF SurfaceNext
<1>2. /\ mapped \subseteq mapped' /\ mapped' \subseteq Toplevels
      /\ popups \subseteq popups' /\ popups' \subseteq Popups
  BY DEF SurfaceNext, SurfaceStep, NewToplevel, MapToplevel, NewPopup, NewLayer,
         MoveLayer, DestroyLayer, MapStranger, SurfacesTyped
<1>3. early' = early \/ early \in mapped'
  BY DEF SurfaceNext, SurfaceStep, MapToplevel
<1>. QED
  BY <1>1, <1>2, <1>3 DEF SurfacesTyped, PointerInv, ClosuresOK, HeldExists, GrabIsWhole

LEMMA KeyboardKeepsPointer ==
  ASSUME SurfacesTyped, PointerInv, KeyboardNext, UNCHANGED pointerVars
  PROVE  SurfacesTyped' /\ PointerInv'
<1>1. UNCHANGED <<mapped, popups>>
  BY DEF KeyboardNext, Press, Release, focusVars
<1>. QED
  BY <1>1 DEF SurfacesTyped, PointerInv, ClosuresOK, HeldExists, GrabIsWhole, pointerVars

LEMMA PointerInvariant == Spec => [](SurfacesTyped /\ PointerInv)
<1>1. Init => SurfacesTyped /\ PointerInv
  BY FocusAssumption
  DEF Init, PointerInit, SurfacesTyped, PointerInv, ClosuresOK, HeldExists,
      GrabIsWhole, Forward, Grab, NoUnmap, Closure, Surfaces, FocusAssumption
<1>2. SurfacesTyped /\ PointerInv /\ [Next]_vars => (SurfacesTyped /\ PointerInv)'
  <2>. SUFFICES ASSUME SurfacesTyped, PointerInv, [Next]_vars
               PROVE  SurfacesTyped' /\ PointerInv'
    OBVIOUS
  <2>1. CASE SurfaceNext
    BY <2>1, SurfaceStepKeepsPointer
  <2>2. CASE PointerNext
    BY <2>2, PointerStep
  <2>3. CASE KeyboardNext /\ UNCHANGED pointerVars
    BY <2>3, KeyboardKeepsPointer
  <2>4. CASE UNCHANGED vars
    BY <2>4 DEF vars, focusVars, pointerVars, SurfacesTyped, PointerInv, ClosuresOK,
                HeldExists, GrabIsWhole
  <2>. QED
    BY <2>1, <2>2, <2>3, <2>4 DEF Next
<1>. QED
  BY <1>1, <1>2, PTL DEF Spec

(* No closure of the pointer keeps a toplevel that was unmapped or a popup *)
(* that was destroyed, whatever the requests and buttons that set it: the  *)
(* only toplevel it may keep that is not mapped has asked when it was not. *)
THEOREM HeldCorrect == Spec => []HeldExists
<1>1. SurfacesTyped /\ PointerInv => HeldExists
  BY DEF PointerInv
<1>. QED
  BY <1>1, PointerInvariant, PTL

(* The closures of the pointer are always replaced together. *)
THEOREM GrabCorrect == Spec => []GrabIsWhole
<1>1. SurfacesTyped /\ PointerInv => GrabIsWhole
  BY DEF PointerInv
<1>. QED
  BY <1>1, PointerInvariant, PTL

-----------------------------------------------------------------------------
(* The keyboard focus.                                                     *)

LEMMA FocusOnActivates ==
  ASSUME ActivatedIffFocused, NEW s, FocusOn(s)
  PROVE  ActivatedIffFocused'
<1>. USE FocusAssumption DEF FocusAssumption, ActivatedIffFocused
<1>1. CASE s \in Toplevels
  BY <1>1 DEF FocusOn, FocusToplevel
<1>2. CASE s \notin Toplevels
  BY <1>2 DEF FocusOn, FocusLayer, Surfaces
<1>. QED
  BY <1>1, <1>2

LEMMA ClearFocusActivates ==
  ASSUME ActivatedIffFocused, ClearFocus
  PROVE  ActivatedIffFocused'
BY FocusAssumption DEF FocusAssumption, ActivatedIffFocused, ClearFocus, Surfaces

LEMMA SameFocusActivates ==
  ASSUME ActivatedIffFocused, UNCHANGED <<focus, activated>>
  PROVE  ActivatedIffFocused'
BY DEF ActivatedIffFocused

LEMMA FocusIfNewActivates ==
  ASSUME ActivatedIffFocused, NEW s, NEW from, FocusIfNew(s, from)
  PROVE  ActivatedIffFocused'
<1>1. CASE s # from
  BY <1>1, FocusOnActivates DEF FocusIfNew
<1>2. CASE s = from
  BY <1>2, SameFocusActivates DEF FocusIfNew
<1>. QED
  BY <1>1, <1>2

LEMMA ShortcutActivates ==
  ASSUME ActivatedIffFocused, NEW key, Shortcut(key)
  PROVE  ActivatedIffFocused'
<1>1. CASE FocusIfNew(Numbered(Digits[key]), None)
  BY <1>1, FocusIfNewActivates
<1>2. CASE FocusIfNew(Down(focus), focus)
  BY <1>2, FocusIfNewActivates
<1>3. CASE FocusOn(Up(focus))
  BY <1>3, FocusOnActivates
<1>4. CASE ClearFocus
  BY <1>4, ClearFocusActivates
<1>5. CASE UNCHANGED <<focus, activated>>
  BY <1>5, SameFocusActivates
<1>. QED
  BY <1>1, <1>2, <1>3, <1>4, <1>5 DEF Shortcut

LEMMA KeyboardActivates ==
  ASSUME ActivatedIffFocused, KeyboardNext
  PROVE  ActivatedIffFocused'
<1>1. ASSUME NEW key \in Keys, NEW grabbed \in BOOLEAN, NEW serving \in BOOLEAN,
             Press(key, grabbed, serving)
      PROVE  ActivatedIffFocused'
  <2>1. Shortcut(key) \/ Unfocused
    BY <1>1 DEF Press
  <2>. QED
    BY <2>1, ShortcutActivates, SameFocusActivates DEF Unfocused
<1>2. ASSUME NEW key \in Keys, NEW grabbed \in BOOLEAN, Release(key, grabbed)
      PROVE  ActivatedIffFocused'
  BY <1>2, SameFocusActivates DEF Release, focusVars
<1>. QED
  BY <1>1, <1>2 DEF KeyboardNext

LEMMA PointerActivates ==
  ASSUME ActivatedIffFocused, PointerNext
  PROVE  ActivatedIffFocused'
<1>1. ASSUME NEW s \in Surfaces \cup {None}, ButtonGrabs(s)
      PROVE  ActivatedIffFocused'
  <2>1. FocusOn(Focusable(s)) \/ ClearFocus
    BY <1>1 DEF ButtonGrabs
  <2>. QED
    BY <2>1, FocusOnActivates, ClearFocusActivates
<1>2. ASSUME NEW t \in Toplevels, DestroyToplevel(t)
      PROVE  ActivatedIffFocused'
  BY <1>2, FocusAssumption
  DEF DestroyToplevel, ActivatedIffFocused, FocusAssumption, Surfaces
<1>3. ASSUME UNCHANGED <<focus, activated>>
      PROVE  ActivatedIffFocused'
  BY <1>3, SameFocusActivates
<1>. QED
  BY <1>1, <1>2, <1>3
  DEF PointerNext, Motion, ButtonUngrabs, RequestMove, RequestResize, StartDrag,
      UnmapToplevel, DestroyPopup, focusVars

LEMMA SurfaceActivates ==
  ASSUME ActivatedIffFocused, SurfaceNext
  PROVE  ActivatedIffFocused'
<1>1. ASSUME NEW t \in Toplevels, MapToplevel(t)
      PROVE  ActivatedIffFocused'
  <2>1. FocusOn(t)
    BY <1>1 DEF MapToplevel, FocusOn
  <2>. QED
    BY <2>1, FocusOnActivates
<1>2. ASSUME NEW l \in Layers, DestroyLayer(l)
      PROVE  ActivatedIffFocused'
  BY <1>2, FocusAssumption
  DEF DestroyLayer, ActivatedIffFocused, FocusAssumption, Surfaces
<1>3. ASSUME UNCHANGED <<focus, activated>>
      PROVE  ActivatedIffFocused'
  BY <1>3, SameFocusActivates
<1>. QED
  BY <1>1, <1>2, <1>3
  DEF SurfaceNext, SurfaceStep, NewToplevel, NewPopup, NewLayer, MoveLayer, MapStranger

(* Exactly the focused toplevel looks active, for any number of surfaces   *)
(* and whatever moves the focus.                                           *)
THEOREM ActivatedCorrect == Spec => []ActivatedIffFocused
<1>1. Init => ActivatedIffFocused
  BY FocusAssumption DEF Init, ActivatedIffFocused, FocusAssumption, Surfaces
<1>2. ActivatedIffFocused /\ [Next]_vars => ActivatedIffFocused'
  <2>. SUFFICES ASSUME ActivatedIffFocused, [Next]_vars
               PROVE  ActivatedIffFocused'
    OBVIOUS
  <2>1. CASE SurfaceNext
    BY <2>1, SurfaceActivates
  <2>2. CASE PointerNext
    BY <2>2, PointerActivates
  <2>3. CASE KeyboardNext
    BY <2>3, KeyboardActivates
  <2>4. CASE UNCHANGED vars
    BY <2>4, SameFocusActivates DEF vars, focusVars
  <2>. QED
    BY <2>1, <2>2, <2>3, <2>4 DEF Next
<1>. QED
  BY <1>1, <1>2, PTL DEF Spec

-----------------------------------------------------------------------------
(* The keyboard.                                                           *)

(* Only a key without shift sets v_grabbing. *)
LEMMA GrabbedUnshifted ==
  ASSUME NEW key, NEW serving, Takes(key) \/ Toggles(key, serving)
  PROVE  /\ key # "shift" /\ "shift" \notin held
         /\ Symbol(key) = [key |-> key, shifted |-> FALSE]
<1>1. key # "shift" /\ ~Symbol(key).shifted
  BY DEF Takes, Shortcuts, Digits, Toggles
<1>. QED
  BY <1>1 DEF Symbol

LEMMA PressKeeps ==
  ASSUME KeyInv, NEW key \in Keys, NEW grabbed \in BOOLEAN, NEW serving \in BOOLEAN,
         Press(key, grabbed, serving)
  PROVE  KeyInv' /\ held \subseteq held'
<1>. USE KeyAssumption DEF KeyAssumption, KeyInv
<1>1. /\ held' = held \cup {key} /\ key \notin held
      /\ passed' = IF sent' = NotSent THEN passed ELSE passed \cup {key}
      /\ strayed' = (grabbing' # NoSymbol /\ (strayed \/ key = "shift"))
  BY DEF Press, Strays
<1>2. CASE grabbing # NoSymbol /\ sent' = NotSent /\ UNCHANGED <<grabbing, kept>>
  BY <1>1, <1>2
<1>3. CASE /\ grabbing = NoSymbol
           /\ Takes(key) \/ Toggles(key, serving)
           /\ sent' = NotSent /\ grabbing' = Symbol(key) /\ kept' = kept \cup {key}
  <2>1. /\ key # "shift" /\ "shift" \notin held
        /\ grabbing' = [key |-> key, shifted |-> FALSE]
    BY <1>3, GrabbedUnshifted
  <2>2. kept = {}
    BY <1>3 DEF NoSymbol
  <2>3. kept' = {key} /\ passed' = passed /\ key \notin passed
    BY <1>1, <1>3, <2>2
  <2>. QED
    BY <1>1, <2>1, <2>3
<1>4. CASE grabbing = NoSymbol /\ UNCHANGED <<grabbing, kept>>
  BY <1>1, <1>4 DEF NoSymbol
<1>. QED
  BY <1>1, <1>2, <1>3, <1>4 DEF Press

LEMMA ReleaseKeeps ==
  ASSUME KeyInv, NEW key \in Keys, NEW grabbed \in BOOLEAN, Release(key, grabbed)
  PROVE  /\ KeyInv' /\ held \ held' \subseteq {key}
         /\ key \in kept /\ "shift" \notin held => sent' = NotSent
         /\ key \in passed /\ focus \notin hidden => sent' # NotSent
<1>. USE KeyAssumption DEF KeyAssumption, KeyInv
<1>1. /\ held' = held \ {key} /\ kept' = kept \ {key} /\ passed' = passed \ {key}
      /\ strayed' = (grabbing' # NoSymbol /\ (strayed \/ key = "shift"))
  BY DEF Release, Strays
<1>2. Symbol(key).key = key
  BY DEF Symbol
<1>3. "shift" \notin held => Symbol(key) = [key |-> key, shifted |-> FALSE]
  BY DEF Symbol
<1>4. CASE grabbing = Symbol(key)
  <2>1. grabbing' = NoSymbol /\ sent' = NotSent
    BY <1>4 DEF Release
  <2>2. kept \subseteq {key} /\ key \notin passed
    BY <1>2, <1>4
  <2>. QED
    BY <1>1, <2>1, <2>2 DEF NoSymbol
<1>5. CASE grabbing # Symbol(key)
  <2>1. PassOn(grabbed) /\ grabbing' = grabbing
    BY <1>5 DEF Release
  <2>2. focus \notin hidden => sent' # NotSent
    BY <2>1 DEF PassOn, NotSent
  <2>3. grabbing.key = key => "shift" \in held
    BY <1>3, <1>5
  <2>4. key \in kept => "shift" \in held
    BY <2>3
  <2>5. grabbing # NoSymbol /\ ~strayed => grabbing.key # key
    BY <2>3
  <2>6. KeyInv'
    BY <1>1, <2>1, <2>5
  <2>. QED
    BY <1>1, <2>2, <2>4, <2>6
<1>. QED
  BY <1>4, <1>5

LEMMA KeyStep ==
  ASSUME KeyInv, [Next]_vars
  PROVE  /\ KeyInv'
         /\ [\A key \in held \ held' :
               /\ key \in kept /\ "shift" \notin held => sent' = NotSent
               /\ key \in passed /\ focus \notin hidden => sent' # NotSent]_vars
<1>1. ASSUME NEW key \in Keys, NEW grabbed \in BOOLEAN, NEW serving \in BOOLEAN,
             Press(key, grabbed, serving)
      PROVE  KeyInv' /\ held \ held' = {}
  BY <1>1, PressKeeps
<1>2. ASSUME NEW key \in Keys, NEW grabbed \in BOOLEAN, Release(key, grabbed)
      PROVE  /\ KeyInv' /\ held \ held' \subseteq {key}
             /\ key \in kept /\ "shift" \notin held => sent' = NotSent
             /\ key \in passed /\ focus \notin hidden => sent' # NotSent
  BY <1>2, ReleaseKeeps
<1>3. CASE UNCHANGED heldVars
  BY <1>3 DEF KeyInv, heldVars
<1>. QED
  BY <1>1, <1>2, <1>3 DEF Next, SurfaceNext, KeyboardNext, vars, keyVars

LEMMA KeyInvariant == Spec => []KeyInv
<1>1. Init => KeyInv
  BY KeyAssumption DEF Init, KeyInit, KeyInv, NoSymbol, KeyAssumption
<1>2. KeyInv /\ [Next]_vars => KeyInv'
  BY KeyStep
<1>. QED
  BY <1>1, <1>2, PTL DEF Spec

(* While presses are ignored, the key of the shortcut they are ignored for *)
(* is down, and the keyboard comes back with its release, unless shift has *)
(* been touched since: for any keys, shift and the toggle keys included.   *)
THEOREM GrabbingCorrect == Spec => []GrabbingIsHeld
<1>1. KeyInv => GrabbingIsHeld
  BY DEF KeyInv, GrabbingIsHeld
<1>. QED
  BY <1>1, KeyInvariant, PTL

(* No client sees the release of a key whose press was a shortcut, unless  *)
(* shift is down by then, and every press that was passed on is followed   *)
(* by its release, unless what has the keyboard is hidden.                 *)
THEOREM ReleasesCorrect == Spec => ReleasesFollow
<1>1. KeyInv /\ [Next]_vars =>
        [\A key \in held \ held' :
           /\ key \in kept /\ "shift" \notin held => sent' = NotSent
           /\ key \in passed /\ focus \notin hidden => sent' # NotSent]_vars
  BY KeyStep
<1>. QED
  BY <1>1, KeyInvariant, PTL DEF Spec, ReleasesFollow

-----------------------------------------------------------------------------
(* Lists. *)

(* Numbers that are not below 0 have a least one. *)
LEMMA LeastExists ==
  ASSUME NEW S \in SUBSET Nat, S # {} PROVE \E n \in S : \A m \in S : n <= m
<1> DEFINE R == {pair \in Nat \X Nat : pair[1] < pair[2]}
<1>1. IsWellFoundedOn(R, Nat)
  BY NatLessThanWellFounded DEF OpToRel
<1>2. \A m, n \in Nat : m < n => <<m, n>> \in R
  OBVIOUS
<1> HIDE DEF R
<1>3. PICK n \in S : \A m \in S : ~(<<m, n>> \in R)
  BY <1>1, WFMin
<1>4. \A m \in S : ~(m < n)
  BY <1>2, <1>3
<1>5. QED  BY <1>4

(* ... and if none is above n, a greatest one. *)
LEMMA GreatestExists ==
  ASSUME NEW n \in Nat, NEW S \in SUBSET (0..n), S # {}
  PROVE  \E k \in S : \A m \in S : m <= k
<1> DEFINE T == {n - k : k \in S}
<1>1. T \in SUBSET Nat /\ T # {}
  <2>1. PICK k \in S : TRUE
    OBVIOUS
  <2>2. n - k \in T
    BY <2>1
  <2>3. \A j \in S : n - j \in Nat
    OBVIOUS
  <2>4. QED
    BY <2>2, <2>3
<1>2. PICK d \in T : \A m \in T : d <= m
  BY <1>1, LeastExists
<1>3. PICK k \in S : d = n - k
  OBVIOUS
<1>4. ASSUME NEW m \in S PROVE m <= k
  <2>1. n - m \in T
    OBVIOUS
  <2>2. d <= n - m
    BY <1>2, <2>1
  <2>3. QED
    BY <1>3, <2>2
<1>5. QED
  BY <1>4

(* A place in a list. *)
LEMMA PlaceFacts ==
  ASSUME NEW S, NEW s \in Seq(S), NEW e, Contains(s, e)
  PROVE  /\ Place(s, e) \in 1..Len(s) /\ s[Place(s, e)] = e
         /\ IsInjective(s) => \A i \in 1..Len(s) : s[i] = e => i = Place(s, e)
<1>1. \E i \in DOMAIN s : s[i] = e
  BY DEF Contains
<1>2. Place(s, e) \in DOMAIN s /\ s[Place(s, e)] = e
  BY <1>1 DEF Place
<1>3. QED
  BY <1>2 DEF IsInjective

(* A list to which something new is added. *)
LEMMA AddedList ==
  ASSUME NEW S, NEW s \in Seq(S), NEW e \in S, IsInjective(s), ~Contains(s, e)
  PROVE  /\ Append(s, e) \in Seq(S) /\ IsInjective(Append(s, e))
         /\ \A x : Contains(Append(s, e), x) <=> Contains(s, x) \/ x = e
<1> DEFINE r == Append(s, e)
           n == Len(s)
<1>1. /\ r \in Seq(S) /\ n \in Nat /\ Len(r) = n + 1 /\ DOMAIN r = 1..(n + 1) /\ r[n + 1] = e
      /\ \A i \in 1..n : r[i] = s[i]
  OBVIOUS
<1>2. \A i \in 1..n : s[i] # e
  BY DEF Contains
<1>3. DOMAIN s = 1..n
  OBVIOUS
<1> HIDE DEF r, n
<1>4. \A i \in 1..(n + 1) : i \in 1..n \/ i = n + 1
  BY <1>1
<1>5. \A i \in 1..n : i \in 1..(n + 1)
  BY <1>1
<1>6. IsInjective(r)
  BY <1>1, <1>2, <1>3, <1>4 DEF IsInjective
<1>7. \A x : Contains(r, x) <=> Contains(s, x) \/ x = e
  <2>1. n + 1 \in 1..(n + 1)
    BY <1>1
  <2>2. QED
    BY <1>1, <1>4, <1>5, <2>1 DEF Contains, n
<1>8. QED
  BY <1>1, <1>6, <1>7 DEF r

(* A list without the place k: what follows moves up.                      *)
LEMMA RemoveAtFacts ==
  ASSUME NEW S, NEW s \in Seq(S), NEW k \in 1..Len(s)
  PROVE  /\ RemoveAt(s, k) \in Seq(S) /\ Len(RemoveAt(s, k)) = Len(s) - 1
         /\ \A i \in 1..(Len(s) - 1) : RemoveAt(s, k)[i] = s[IF i < k THEN i ELSE i + 1]
<1> DEFINE n == Len(s)
           a == SubSeq(s, 1, k - 1)
           b == SubSeq(s, k + 1, n)
           r == RemoveAt(s, k)
<1>1. n \in Nat /\ k \in Nat /\ 1 <= k /\ k <= n /\ DOMAIN s = 1..n
  OBVIOUS
<1>2. r = a \o b
  BY DEF RemoveAt
<1> HIDE DEF n, r
<1>3. a \in Seq(S) /\ Len(a) = k - 1 /\ \A i \in 1..(k - 1) : a[i] = s[i]
  <2>1. \A i \in 1..(k - 1) : s[i] \in S
    BY <1>1
  <2>2. /\ a \in Seq(S)
        /\ Len(a) = IF 1 <= k - 1 THEN (k - 1) - 1 + 1 ELSE 0
        /\ \A i \in 1..((k - 1) - 1 + 1) : a[i] = s[1 + i - 1]
    BY <1>1, <2>1, SubSeqProperties
  <2> HIDE DEF a
  <2>3. (k - 1) - 1 + 1 = k - 1 /\ (~(1 <= k - 1) => k - 1 = 0)
    BY <1>1
  <2>4. \A i \in 1..(k - 1) : 1 + i - 1 = i
    OBVIOUS
  <2>5. QED
    BY <2>2, <2>3, <2>4
<1>4. b \in Seq(S) /\ Len(b) = n - k /\ \A i \in 1..(n - k) : b[i] = s[k + i]
  <2>1. \A i \in (k + 1)..n : s[i] \in S
    BY <1>1
  <2>2. /\ b \in Seq(S)
        /\ Len(b) = IF k + 1 <= n THEN n - (k + 1) + 1 ELSE 0
        /\ \A i \in 1..(n - (k + 1) + 1) : b[i] = s[(k + 1) + i - 1]
    BY <1>1, <2>1, SubSeqProperties
  <2> HIDE DEF b
  <2>3. n - (k + 1) + 1 = n - k /\ (~(k + 1 <= n) => n - k = 0)
    BY <1>1
  <2>4. \A i \in 1..(n - k) : (k + 1) + i - 1 = k + i
    BY <1>1
  <2>5. QED
    BY <2>2, <2>3, <2>4
<1> HIDE DEF a, b
<1>5. /\ r \in Seq(S) /\ Len(r) = Len(a) + Len(b)
      /\ \A i \in 1..(Len(a) + Len(b)) :
           r[i] = IF i <= Len(a) THEN a[i] ELSE b[i - Len(a)]
  BY <1>2, <1>3, <1>4, ConcatProperties
<1>6. Len(a) + Len(b) = n - 1
  BY <1>1, <1>3, <1>4
<1>7. ASSUME NEW i \in 1..(n - 1) PROVE r[i] = s[IF i < k THEN i ELSE i + 1]
  <2>1. r[i] = IF i <= k - 1 THEN a[i] ELSE b[i - (k - 1)]
    BY <1>3, <1>5, <1>6
  <2>2. CASE i < k
    <3>1. i \in 1..(k - 1)
      BY <1>1, <2>2
    <3>2. QED
      BY <1>3, <2>1, <2>2, <3>1
  <2>3. CASE ~(i < k)
    <3>1. ~(i <= k - 1) /\ i - (k - 1) \in 1..(n - k) /\ k + (i - (k - 1)) = i + 1
      BY <1>1, <2>3
    <3>2. QED
      BY <1>4, <2>1, <2>3, <3>1
  <2>4. QED
    BY <2>2, <2>3
<1>8. QED
  BY <1>5, <1>6, <1>7 DEF n, r

(* A list from which something is removed, and stays what it was without.  *)
LEMMA RemovedList ==
  ASSUME NEW S, NEW s \in Seq(S), NEW e, IsInjective(s)
  PROVE  /\ RemoveFirst(s, e) \in Seq(S) /\ IsInjective(RemoveFirst(s, e))
         /\ \A x : Contains(RemoveFirst(s, e), x) <=> Contains(s, x) /\ x # e
<1> DEFINE r == RemoveFirst(s, e)
           n == Len(s)
<1>1. n \in Nat /\ DOMAIN s = 1..n
  OBVIOUS
<1>2. CASE \E i \in 1..n : s[i] = e
  <2> DEFINE I == {i \in 1..Len(s) : s[i] = e}
             k == Min(I)
  <2>1. I # {} /\ I \in SUBSET Nat
    BY <1>2
  <2>2. SelectInSeq(s, LAMBDA v : v = e) = k
    BY <2>1 DEF SelectInSeq
  <2>3. \E x \in I : \A y \in I : x <= y
    BY <2>1, LeastExists
  <2>4. k \in I
    BY <2>3 DEF Min
  <2>5. k \in 1..n /\ s[k] = e
    BY <2>4
  <2>6. r = RemoveAt(s, k)
    BY <1>2, <2>2 DEF RemoveFirst
  <2> HIDE DEF I, k
  <2> HIDE DEF r
  <2>8. /\ r \in Seq(S) /\ Len(r) = n - 1 /\ DOMAIN r = 1..(n - 1)
        /\ \A i \in 1..(n - 1) : r[i] = s[IF i < k THEN i ELSE i + 1]
    <3>1. /\ r \in Seq(S) /\ Len(r) = n - 1
          /\ \A i \in 1..(n - 1) : r[i] = s[IF i < k THEN i ELSE i + 1]
      BY <2>5, <2>6, RemoveAtFacts
    <3> HIDE DEF n
    <3>2. DOMAIN r = 1..(n - 1)
      BY <3>1
    <3>3. QED
      BY <3>1, <3>2
  <2>9. \A i \in 1..(n - 1) : /\ (IF i < k THEN i ELSE i + 1) \in 1..n
                              /\ (IF i < k THEN i ELSE i + 1) # k
    BY <1>1, <2>5
  <2>10. IsInjective(r)
    <3>1. ASSUME NEW i \in 1..(n - 1), NEW j \in 1..(n - 1), r[i] = r[j]
          PROVE  i = j
      <4>1. (IF i < k THEN i ELSE i + 1) = (IF j < k THEN j ELSE j + 1)
        BY <1>1, <2>8, <2>9, <3>1 DEF IsInjective
      <4>2. QED
        BY <1>1, <2>5, <4>1
    <3>2. QED
      BY <2>8, <3>1 DEF IsInjective
  <2>11. ASSUME NEW x, Contains(r, x) PROVE Contains(s, x) /\ x # e
    <3>1. PICK i \in 1..(n - 1) : r[i] = x
      BY <2>8, <2>11 DEF Contains
    <3> DEFINE j == IF i < k THEN i ELSE i + 1
    <3>2. j \in 1..n /\ j # k /\ s[j] = x
      BY <2>8, <2>9, <3>1
    <3> HIDE DEF j
    <3>3. s[j] # e
      BY <1>1, <2>5, <3>2 DEF IsInjective
    <3>4. QED
      BY <3>2, <3>3 DEF Contains
  <2>12. ASSUME NEW x, Contains(s, x), x # e PROVE Contains(r, x)
    <3>1. PICK j \in 1..n : s[j] = x
      BY <2>12 DEF Contains
    <3>2. j # k
      BY <2>5, <2>12, <3>1
    <3>3. CASE j < k
      <4>1. j \in 1..(n - 1) /\ r[j] = x
        BY <1>1, <2>5, <2>8, <3>1, <3>3
      <4>2. QED
        BY <2>8, <4>1 DEF Contains
    <3>4. CASE j > k
      <4>1. j - 1 \in 1..(n - 1) /\ ~(j - 1 < k) /\ (j - 1) + 1 = j
        BY <1>1, <2>5, <3>1, <3>4
      <4>2. r[j - 1] = x
        BY <2>8, <3>1, <4>1
      <4>3. QED
        BY <2>8, <4>1, <4>2 DEF Contains
    <3>5. QED
      BY <1>1, <2>5, <3>1, <3>2, <3>3, <3>4
  <2>13. QED
    BY <2>8, <2>10, <2>11, <2>12 DEF r
<1>3. CASE ~\E i \in 1..n : s[i] = e
  <2>1. r = s
    BY <1>3 DEF RemoveFirst
  <2>2. QED
    BY <1>3, <2>1 DEF Contains
<1>4. QED
  BY <1>2, <1>3

(* A list in which two change places. *)
LEMMA ExchangedList ==
  ASSUME NEW S, NEW s \in Seq(S), IsInjective(s), NEW i \in 1..Len(s), NEW j \in 1..Len(s)
  PROVE  /\ Exchanged(s, i, j) \in Seq(S) /\ IsInjective(Exchanged(s, i, j))
         /\ \A x : Contains(Exchanged(s, i, j), x) <=> Contains(s, x)
<1> DEFINE r == Exchanged(s, i, j)
           n == Len(s)
           p(k) == IF k = j THEN i ELSE IF k = i THEN j ELSE k
<1>1. n \in Nat /\ DOMAIN s = 1..n
  OBVIOUS
<1>2. /\ r \in Seq(S) /\ Len(r) = n /\ DOMAIN r = 1..n
      /\ \A k \in 1..n : r[k] = s[p(k)]
  BY DEF Exchanged
<1>3. \A k \in 1..n : p(k) \in 1..n /\ p(p(k)) = k
  OBVIOUS
<1> HIDE DEF r, n, p
<1>4. IsInjective(r)
  BY <1>1, <1>2, <1>3 DEF IsInjective
<1>5. \A x : Contains(r, x) <=> Contains(s, x)
  BY <1>2, <1>3 DEF Contains, n
<1>6. QED
  BY <1>2, <1>4, <1>5 DEF r

(* What the walks find: the last before a place, and the first after one.  *)
LEMMA LastBeforeFacts ==
  ASSUME NEW A, NEW s \in Seq(A), NEW S, None \notin S, NEW i \in Nat, i <= Len(s) + 1
  PROVE  LET l == LastBefore(s, S, i)
         IN \/ l = None /\ \A j \in 1..(i - 1) : s[j] \notin S
            \/ /\ l # None /\ l \in S /\ Contains(s, l)
               /\ \E j \in 1..(i - 1) : s[j] = l /\ \A k \in (j + 1)..(i - 1) : s[k] \notin S
<1> DEFINE js == {j \in 1..(i - 1) : s[j] \in S}
           l == LastBefore(s, S, i)
<1>1. CASE js = {}
  <2>1. l = None
    BY <1>1 DEF LastBefore
  <2>2. \A j \in 1..(i - 1) : s[j] \notin S
    BY <1>1
  <2>3. QED
    BY <2>1, <2>2
<1>2. CASE js # {}
  <2>1. \E j \in js : \A k \in js : k <= j
    <3>1. js \in SUBSET (0..(i - 1)) /\ i - 1 \in Nat
      BY <1>2
    <3> HIDE DEF js
    <3>2. QED
      BY <1>2, <3>1, GreatestExists
  <2> DEFINE j == CHOOSE j \in js : \A k \in js : k <= j
  <2>2. j \in js /\ \A k \in js : k <= j
    BY <2>1
  <2>3. l = s[j]
    BY <1>2 DEF LastBefore
  <2> HIDE DEF j
  <2>4. j \in 1..(i - 1) /\ s[j] \in S
    BY <2>2
  <2>5. \A k \in (j + 1)..(i - 1) : s[k] \notin S
    BY <2>2, <2>4
  <2>6. j \in 1..Len(s)
    BY <2>4
  <2>7. Contains(s, l)
    BY <2>3, <2>6 DEF Contains
  <2>8. QED
    BY <2>3, <2>4, <2>5, <2>7
<1>3. QED
  BY <1>1, <1>2

LEMMA FirstAfterFacts ==
  ASSUME NEW A, NEW s \in Seq(A), NEW S, None \notin S, NEW i \in Nat
  PROVE  LET l == FirstAfter(s, S, i)
         IN \/ l = None /\ \A j \in (i + 1)..Len(s) : s[j] \notin S
            \/ /\ l # None /\ l \in S /\ Contains(s, l)
               /\ \E j \in (i + 1)..Len(s) : s[j] = l /\ \A k \in (i + 1)..(j - 1) : s[k] \notin S
<1> DEFINE js == {j \in (i + 1)..Len(s) : s[j] \in S}
           l == FirstAfter(s, S, i)
<1>1. CASE js = {}
  <2>1. l = None
    BY <1>1 DEF FirstAfter
  <2>2. \A j \in (i + 1)..Len(s) : s[j] \notin S
    BY <1>1
  <2>3. QED
    BY <2>1, <2>2
<1>2. CASE js # {}
  <2>1. \E j \in js : \A k \in js : j <= k
    <3>1. js \in SUBSET Nat
      OBVIOUS
    <3> HIDE DEF js
    <3>2. QED
      BY <1>2, <3>1, LeastExists
  <2> DEFINE j == CHOOSE j \in js : \A k \in js : j <= k
  <2>2. j \in js /\ \A k \in js : j <= k
    BY <2>1
  <2>3. l = s[j]
    BY <1>2 DEF FirstAfter
  <2> HIDE DEF j
  <2>4. j \in (i + 1)..Len(s) /\ s[j] \in S
    BY <2>2
  <2>5. \A k \in (i + 1)..(j - 1) : s[k] \notin S
    BY <2>2, <2>4
  <2>6. j \in 1..Len(s)
    BY <2>4
  <2>7. Contains(s, l)
    BY <2>3, <2>6 DEF Contains
  <2>8. QED
    BY <2>3, <2>4, <2>5, <2>7
<1>3. QED
  BY <1>1, <1>2

(* A list after another. *)
LEMMA ConcatLists ==
  ASSUME NEW S, NEW s \in Seq(S), NEW t \in Seq(S), IsInjective(s), IsInjective(t),
         \A x : ~(Contains(s, x) /\ Contains(t, x))
  PROVE  /\ s \o t \in Seq(S) /\ IsInjective(s \o t)
         /\ \A x : Contains(s \o t, x) <=> Contains(s, x) \/ Contains(t, x)
<1> DEFINE n == Len(s)
           m == Len(t)
           r == s \o t
<1>1. n \in Nat /\ m \in Nat /\ DOMAIN s = 1..n /\ DOMAIN t = 1..m
  OBVIOUS
<1>2. /\ r \in Seq(S) /\ Len(r) = n + m
      /\ \A i \in 1..(n + m) : r[i] = IF i <= n THEN s[i] ELSE t[i - n]
  BY ConcatProperties
<1>3. \A x : Contains(s, x) <=> \E i \in 1..n : s[i] = x
  BY DEF Contains
<1>4. \A x : Contains(t, x) <=> \E i \in 1..m : t[i] = x
  BY DEF Contains
<1>5. \A x : Contains(r, x) <=> \E i \in 1..(n + m) : r[i] = x
  BY <1>2 DEF Contains
<1> HIDE DEF n, m, r
<1>6. DOMAIN r = 1..(n + m)
  BY <1>1, <1>2
<1>7. \A i \in 1..(n + m) : i <= n => i \in 1..n /\ r[i] = s[i] /\ Contains(s, r[i])
  BY <1>1, <1>2, <1>3
<1>8. ASSUME NEW i \in 1..(n + m), ~(i <= n)
      PROVE  i - n \in 1..m /\ r[i] = t[i - n] /\ Contains(t, r[i])
  <2>1. i - n \in 1..m
    BY <1>1, <1>8
  <2>2. r[i] = t[i - n]
    BY <1>2, <1>8
  <2>3. QED
    BY <1>4, <2>1, <2>2
<1>9. IsInjective(r)
  <2>1. ASSUME NEW i \in 1..(n + m), NEW j \in 1..(n + m), r[i] = r[j] PROVE i = j
    <3>1. CASE i <= n /\ j <= n
      BY <1>1, <1>7, <2>1, <3>1 DEF IsInjective
    <3>2. CASE ~(i <= n) /\ ~(j <= n)
      <4>1. i - n = j - n
        BY <1>1, <1>8, <2>1, <3>2 DEF IsInjective
      <4>2. QED
        BY <1>1, <4>1
    <3>3. (i <= n) <=> (j <= n)
      BY <1>7, <1>8, <2>1
    <3>4. QED
      BY <3>1, <3>2, <3>3
  <2>2. QED
    BY <1>6, <2>1 DEF IsInjective
<1>10. ASSUME NEW x, Contains(r, x) PROVE Contains(s, x) \/ Contains(t, x)
  BY <1>5, <1>7, <1>8, <1>10
<1>11. ASSUME NEW x, Contains(s, x) PROVE Contains(r, x)
  <2>1. PICK i \in 1..n : s[i] = x
    BY <1>3, <1>11
  <2>2. i \in 1..(n + m) /\ i <= n
    BY <1>1
  <2>3. QED
    BY <1>5, <1>7, <2>1, <2>2
<1>12. ASSUME NEW x, Contains(t, x) PROVE Contains(r, x)
  <2>1. PICK i \in 1..m : t[i] = x
    BY <1>4, <1>12
  <2>2. n + i \in 1..(n + m) /\ ~(n + i <= n) /\ (n + i) - n = i
    BY <1>1
  <2>3. r[n + i] = x
    BY <1>8, <2>1, <2>2
  <2>4. QED
    BY <1>5, <2>2, <2>3
<1>13. QED
  BY <1>2, <1>9, <1>10, <1>11, <1>12 DEF r

(* Lists that have everything once, all together.                          *)
OnceAll(q, n) ==
  /\ \A o \in 1..n : IsInjective(q[o])
  /\ \A o, p \in 1..n : \A x : Contains(q[o], x) /\ Contains(q[p], x) => o = p

(* The lists of a layer, one after another.                                *)
LEMMA FlattenFacts ==
  ASSUME NEW S, NEW n \in Nat \ {0}, NEW q \in [1..n -> Seq(S)], OnceAll(q, n)
  PROVE  /\ FlattenSeq(q) \in Seq(S) /\ IsInjective(FlattenSeq(q))
         /\ \A x : Contains(FlattenSeq(q), x) <=> \E o \in 1..n : Contains(q[o], x)
<1>0. /\ \A o \in 1..n : IsInjective(q[o])
      /\ \A o, p \in 1..n : \A x : Contains(q[o], x) /\ Contains(q[p], x) => o = p
  BY DEF OnceAll
<1> DEFINE Recurs(f, m) == f = [i \in 1..m |-> IF i = 1 THEN q[i] ELSE f[i - 1] \o q[i]]
<1>1. \E f : Recurs(f, n)
  <2> DEFINE Bad == {m \in 0..n : ~\E f : Recurs(f, m)}
  <2> HIDE DEF Recurs
  <2>1. SUFFICES ASSUME Bad # {} PROVE FALSE
    <3>1. CASE n \in Bad
      BY <3>1
    <3>2. CASE n \notin Bad
      <4>1. n \in 0..n
        OBVIOUS
      <4>2. QED
        BY <3>2, <4>1
    <3>3. QED
      BY <3>1, <3>2
  <2>2. Bad \in SUBSET Nat
    <3>1. \A m \in Bad : m \in Nat
      OBVIOUS
    <3>2. QED
      BY <3>1
  <2> HIDE DEF Bad
  <2>3. PICK m \in Bad : \A k \in Bad : m <= k
    BY <2>1, <2>2, LeastExists
  <2>4. m \in 0..n /\ ~\E f : Recurs(f, m)
    BY <2>3 DEF Bad
  <2>5. m # 0
    <3> DEFINE f == [i \in 1..0 |-> q[i]]
    <3>1. Recurs(f, 0)
      BY DEF Recurs
    <3>2. QED
      BY <2>4, <3>1
  <2>6. m - 1 \in 0..n /\ ~(m <= m - 1)
    BY <2>4, <2>5
  <2>7. PICK f : Recurs(f, m - 1)
    BY <2>3, <2>6 DEF Bad
  <2> DEFINE g == [i \in 1..m |-> IF i = 1 THEN q[i] ELSE f[i - 1] \o q[i]]
  <2>8. \A i \in 1..(m - 1) : g[i] = f[i]
    <3>1. \A i \in 1..(m - 1) : i \in 1..m
      BY <2>4
    <3>2. \A i \in 1..(m - 1) : f[i] = IF i = 1 THEN q[i] ELSE f[i - 1] \o q[i]
      BY <2>7 DEF Recurs
    <3>3. QED
      BY <3>1, <3>2
  <2>9. \A i \in 1..m : i # 1 => i - 1 \in 1..(m - 1)
    BY <2>4
  <2>10. Recurs(g, m)
    <3>1. \A i \in 1..m : i # 1 => g[i - 1] = f[i - 1]
      BY <2>8, <2>9
    <3>2. \A i \in 1..m : (IF i = 1 THEN q[i] ELSE f[i - 1] \o q[i])
                          = (IF i = 1 THEN q[i] ELSE g[i - 1] \o q[i])
      BY <3>1
    <3>3. g = [i \in 1..m |-> IF i = 1 THEN q[i] ELSE g[i - 1] \o q[i]]
      BY <3>2
    <3> HIDE DEF g
    <3>4. QED
      BY <3>3 DEF Recurs
  <2> HIDE DEF g
  <2>11. QED
    BY <2>4, <2>10
<1> DEFINE F == CHOOSE f : f = [i \in 1..Len(q) |-> IF i = 1 THEN q[i] ELSE f[i - 1] \o q[i]]
<1>2. Len(q) = n
  OBVIOUS
<1>3. FlattenSeq(q) = F[n]
  BY <1>2 DEF FlattenSeq
<1>4. F = [i \in 1..n |-> IF i = 1 THEN q[i] ELSE F[i - 1] \o q[i]]
  BY <1>1, <1>2
<1> HIDE DEF F
<1>5. \A i \in 1..n : F[i] = IF i = 1 THEN q[i] ELSE F[i - 1] \o q[i]
  BY <1>4
<1> DEFINE Good(m) == /\ F[m] \in Seq(S) /\ IsInjective(F[m])
                      /\ \A x : Contains(F[m], x) <=> \E o \in 1..m : Contains(q[o], x)
           Bad == {m \in 1..n : ~Good(m)}
<1>6. Bad = {}
  <2>1. SUFFICES ASSUME Bad # {} PROVE FALSE
    OBVIOUS
  <2>2. Bad \in SUBSET Nat
    OBVIOUS
  <2> HIDE DEF Bad
  <2>3. PICK m \in Bad : \A k \in Bad : m <= k
    BY <2>1, <2>2, LeastExists
  <2>4. m \in 1..n /\ ~Good(m)
    BY <2>3 DEF Bad
  <2>5. CASE m = 1
    <3>1. F[m] = q[m]
      BY <1>5, <2>4, <2>5
    <3>2. \A o \in 1..m : o = m
      BY <2>5
    <3>3. m \in 1..m
      BY <2>4
    <3>4. QED
      BY <1>0, <2>4, <3>1, <3>2, <3>3
  <2>6. CASE m # 1
    <3>1. m - 1 \in 1..n /\ ~(m <= m - 1)
      BY <2>4, <2>6
    <3>2. Good(m - 1)
      BY <2>3, <3>1 DEF Bad
    <3>3. F[m] = F[m - 1] \o q[m]
      BY <1>5, <2>4, <2>6
    <3>4. \A o \in 1..(m - 1) : o \in 1..n /\ o # m
      BY <2>4
    <3>5. \A x : ~(Contains(F[m - 1], x) /\ Contains(q[m], x))
      BY <1>0, <2>4, <3>2, <3>4
    <3>6. q[m] \in Seq(S) /\ IsInjective(q[m])
      BY <1>0, <2>4
    <3>7. /\ F[m] \in Seq(S) /\ IsInjective(F[m])
          /\ \A x : Contains(F[m], x) <=> Contains(F[m - 1], x) \/ Contains(q[m], x)
      BY <3>2, <3>3, <3>5, <3>6, ConcatLists
    <3>8. 1..m = 1..(m - 1) \cup {m}
      BY <2>4
    <3>9. \A x : Contains(F[m], x) <=> \E o \in 1..m : Contains(q[o], x)
      BY <3>2, <3>7, <3>8
    <3>10. QED
      BY <2>4, <3>7, <3>9
  <2>7. QED
    BY <2>5, <2>6
<1> HIDE DEF Good
<1>7. Good(n)
  <2>1. n \in 1..n
    OBVIOUS
  <2>2. QED
    BY <1>6, <2>1
<1> USE DEF Good
<1>8. QED
  BY <1>3, <1>7

-----------------------------------------------------------------------------
(* The lists of the seat. *)

(* No layer surface is in two of the lists, and each list has one once.    *)
Shelving ==
  /\ shelf \in [Shelves -> [1..NOutputs -> Seq(Layers)]]
  /\ \A x \in Shelves, o \in 1..NOutputs : IsInjective(shelf[x][o])
  /\ \A x, y \in Shelves, o, q \in 1..NOutputs : \A l :
       Contains(shelf[x][o], l) /\ Contains(shelf[y][q], l) => x = y /\ o = q

Stacking == stack \in Seq(Toplevels \cup Strangers) /\ IsInjective(stack)

(* The surfaces that are mapped, or focused, are in the tree.              *)
Listed ==
  /\ Stacking /\ Shelving
  /\ mapped \subseteq Created
  /\ focus \in Toplevels \cup Layers \cup {None}
  /\ focus \in Toplevels => focus \in Created

LEMMA ListTyped ==
  ASSUME Shelving, NEW x \in Shelves, NEW o \in 1..NOutputs
  PROVE  shelf[x][o] \in Seq(Layers) /\ IsInjective(shelf[x][o])
<1>1. shelf \in [Shelves -> [1..NOutputs -> Seq(Layers)]]
  BY DEF Shelving
<1>2. shelf[x] \in [1..NOutputs -> Seq(Layers)]
  BY <1>1
<1>3. shelf[x][o] \in Seq(Layers)
  BY <1>2
<1>4. IsInjective(shelf[x][o])
  BY DEF Shelving
<1>5. QED
  BY <1>3, <1>4

LEMMA ListsApart ==
  ASSUME Shelving, NEW x \in Shelves, NEW y \in Shelves,
         NEW o \in 1..NOutputs, NEW q \in 1..NOutputs, NEW l,
         Contains(shelf[x][o], l), Contains(shelf[y][q], l)
  PROVE  x = y /\ o = q
BY DEF Shelving

LEMMA ListsAreOnce ==
  ASSUME Stacking, Shelving PROVE ListedOnce
<1>1. IsInjective(stack)
  BY DEF Stacking
<1>2. ASSUME NEW x \in Shelves, NEW y \in Shelves, NEW o \in 1..NOutputs, NEW q \in 1..NOutputs,
             NEW i \in DOMAIN shelf[x][o], NEW j \in DOMAIN shelf[y][q],
             shelf[x][o][i] = shelf[y][q][j]
      PROVE  x = y /\ o = q /\ i = j
  <2>1. shelf[x][o] \in Seq(Layers) /\ shelf[y][q] \in Seq(Layers)
    BY ListTyped
  <2>2. i \in 1..Len(shelf[x][o]) /\ j \in 1..Len(shelf[y][q])
    BY <2>1
  <2>3. Contains(shelf[x][o], shelf[x][o][i]) /\ Contains(shelf[y][q], shelf[x][o][i])
    BY <1>2, <2>2 DEF Contains
  <2>4. x = y /\ o = q
    BY <2>3, ListsApart
  <2>5. i = j
    BY <1>2, <2>4, ListTyped DEF IsInjective
  <2>6. QED
    BY <2>4, <2>5
<1>3. QED
  BY <1>1, <1>2 DEF ListedOnce

(* What a layer shows: the lists of its outputs, one after another.        *)
LEMMA RowFacts ==
  ASSUME Shelving, NEW x \in Shelves
  PROVE  /\ Row(x) \in Seq(Layers) /\ IsInjective(Row(x))
         /\ \A l : Contains(Row(x), l) <=> \E o \in 1..NOutputs : Contains(shelf[x][o], l)
<1> DEFINE q == shelf[x]
           n == NOutputs
<1>1. n \in Nat \ {0}
  BY FocusAssumption DEF FocusAssumption
<1>2. q \in [1..n -> Seq(Layers)]
  BY DEF Shelving
<1>3. OnceAll(q, n)
  BY ListTyped, ListsApart DEF OnceAll
<1>5. Row(x) = FlattenSeq(q)
  BY DEF Row
<1> HIDE DEF q, n
<1>6. /\ FlattenSeq(q) \in Seq(Layers) /\ IsInjective(FlattenSeq(q))
      /\ \A l : Contains(FlattenSeq(q), l) <=> \E o \in 1..n : Contains(q[o], l)
  BY <1>1, <1>2, <1>3, FlattenFacts
<1>7. QED
  BY <1>5, <1>6 DEF q, n

LEMMA ShelvedFacts ==
  ASSUME Shelving
  PROVE  /\ \A x \in Shelves, o \in 1..NOutputs : \A l : Contains(shelf[x][o], l) => l \in Shelved
         /\ \A x, y \in Shelves : \A l : Contains(Row(x), l) /\ Contains(Row(y), l) => x = y
         /\ \A x \in Shelves : \A l : Contains(Row(x), l) => l \in Layers
<1>1. ASSUME NEW x \in Shelves, NEW l, Contains(Row(x), l) PROVE l \in Layers
  BY <1>1, RowFacts DEF Contains
<1>2. ASSUME NEW x \in Shelves, NEW o \in 1..NOutputs, NEW l, Contains(shelf[x][o], l)
      PROVE  l \in Shelved
  <2>1. Contains(Row(x), l)
    BY <1>2, RowFacts
  <2>2. QED
    BY <1>1, <2>1 DEF Shelved
<1>3. ASSUME NEW x \in Shelves, NEW y \in Shelves, NEW l, Contains(Row(x), l), Contains(Row(y), l)
      PROVE  x = y
  <2>1. PICK o \in 1..NOutputs : Contains(shelf[x][o], l)
    BY <1>3, RowFacts
  <2>2. PICK q \in 1..NOutputs : Contains(shelf[y][q], l)
    BY <1>3, RowFacts
  <2>3. QED
    BY <2>1, <2>2 DEF Shelving
<1>4. QED
  BY <1>1, <1>2, <1>3

(* Each list becomes one that has no more than what it had: they remain    *)
(* disjoint.                                                               *)
LEMMA ShelvesStay ==
  ASSUME Shelving, shelf' \in [Shelves -> [1..NOutputs -> Seq(Layers)]],
         \A x \in Shelves, o \in 1..NOutputs :
           /\ IsInjective(shelf'[x][o])
           /\ \A l : Contains(shelf'[x][o], l) => Contains(shelf[x][o], l)
  PROVE  Shelving'
BY DEF Shelving

(* ... or a layer surface that was in none of the others is added to one.  *)
Grown(e, z, w) ==
  \A x \in Shelves, o \in 1..NOutputs :
    /\ IsInjective(shelf'[x][o])
    /\ \A l : Contains(shelf'[x][o], l) =>
         IF l = e THEN x = z /\ o = w ELSE Contains(shelf[x][o], l)

LEMMA ShelvesGrow ==
  ASSUME Shelving, shelf' \in [Shelves -> [1..NOutputs -> Seq(Layers)]],
         NEW e, NEW z, NEW w, Grown(e, z, w)
  PROVE  Shelving'
<1> USE DEF Grown
<1>1. ASSUME NEW x \in Shelves, NEW y \in Shelves, NEW o \in 1..NOutputs, NEW q \in 1..NOutputs,
             NEW l, Contains(shelf'[x][o], l), Contains(shelf'[y][q], l)
      PROVE  x = y /\ o = q
  <2>1. CASE l = e
    BY <1>1, <2>1
  <2>2. CASE l # e
    <3>1. Contains(shelf[x][o], l) /\ Contains(shelf[y][q], l)
      BY <1>1, <2>2
    <3>2. QED
      BY <3>1 DEF Shelving
  <2>3. QED
    BY <2>1, <2>2
<1>2. QED
  BY <1>1 DEF Shelving

LEMMA NewLayerLists ==
  ASSUME Shelving, NEW e \in Layers, NEW z \in Shelves, NewLayer(e, z)
  PROVE  Shelving'
<1>1. OutputOf[e] \in 1..NOutputs
  BY FocusAssumption DEF FocusAssumption
<1> DEFINE w == OutputOf[e]
<1>2. e \notin Shelved /\ shelf' = [shelf EXCEPT ![z][w] = Append(@, e)]
  BY DEF NewLayer
<1>3. \A x \in Shelves, o \in 1..NOutputs :
        shelf'[x][o] = IF x = z /\ o = w THEN Append(shelf[x][o], e) ELSE shelf[x][o]
  BY <1>1, <1>2 DEF Shelving
<1>4. \A x \in Shelves, o \in 1..NOutputs : ~Contains(shelf[x][o], e)
  BY <1>2, ShelvedFacts
<1>5. /\ Append(shelf[z][w], e) \in Seq(Layers) /\ IsInjective(Append(shelf[z][w], e))
      /\ \A l : Contains(Append(shelf[z][w], e), l) <=> Contains(shelf[z][w], l) \/ l = e
  <2>1. shelf[z][w] \in Seq(Layers) /\ IsInjective(shelf[z][w]) /\ ~Contains(shelf[z][w], e)
    BY <1>1, <1>4 DEF Shelving
  <2>2. QED
    BY <2>1, AddedList
<1>6. shelf' \in [Shelves -> [1..NOutputs -> Seq(Layers)]]
  BY <1>1, <1>2, <1>5 DEF Shelving
<1> HIDE DEF w
<1>7. ASSUME NEW x \in Shelves, NEW o \in 1..NOutputs
      PROVE  /\ IsInjective(shelf'[x][o])
             /\ \A l : Contains(shelf'[x][o], l) =>
                  IF l = e THEN x = z /\ o = w ELSE Contains(shelf[x][o], l)
  <2>1. CASE x = z /\ o = w
    BY <1>3, <1>5, <2>1
  <2>2. CASE ~(x = z /\ o = w)
    <3>1. shelf'[x][o] = shelf[x][o]
      BY <1>3, <2>2
    <3>2. IsInjective(shelf[x][o])
      BY DEF Shelving
    <3>3. QED
      BY <1>4, <3>1, <3>2
  <2>3. QED
    BY <2>1, <2>2
<1>8. Grown(e, z, w)
  BY <1>7 DEF Grown
<1>9. QED
  BY <1>6, <1>8, ShelvesGrow

LEMMA MoveLayerLists ==
  ASSUME Shelving, NEW e \in Layers, NEW z \in Shelves, MoveLayer(e, z)
  PROVE  Shelving'
<1> DEFINE w == OutputOf[e]
<1>1. w \in 1..NOutputs
  BY FocusAssumption DEF FocusAssumption
<1>2. /\ ~Contains(Row(z), e)
      /\ shelf' = [y \in Shelves |-> [o \in 1..NOutputs |->
           IF y = z /\ o = w THEN Append(shelf[y][o], e)
           ELSE RemoveFirst(shelf[y][o], e)]]
  BY DEF MoveLayer
<1> HIDE DEF w
<1>3. \A x \in Shelves, o \in 1..NOutputs :
        shelf'[x][o] = IF x = z /\ o = w THEN Append(shelf[x][o], e)
                       ELSE RemoveFirst(shelf[x][o], e)
  BY <1>2
<1>4. /\ Append(shelf[z][w], e) \in Seq(Layers) /\ IsInjective(Append(shelf[z][w], e))
      /\ \A l : Contains(Append(shelf[z][w], e), l) <=> Contains(shelf[z][w], l) \/ l = e
  <2>1. ~Contains(shelf[z][w], e)
    BY <1>1, <1>2, RowFacts
  <2>2. shelf[z][w] \in Seq(Layers) /\ IsInjective(shelf[z][w])
    BY <1>1 DEF Shelving
  <2>3. QED
    BY <2>1, <2>2, AddedList
<1>5. \A x \in Shelves, o \in 1..NOutputs :
        /\ RemoveFirst(shelf[x][o], e) \in Seq(Layers) /\ IsInjective(RemoveFirst(shelf[x][o], e))
        /\ \A l : Contains(RemoveFirst(shelf[x][o], e), l) <=> Contains(shelf[x][o], l) /\ l # e
  <2>1. ASSUME NEW x \in Shelves, NEW o \in 1..NOutputs
        PROVE  shelf[x][o] \in Seq(Layers) /\ IsInjective(shelf[x][o])
    BY ListTyped
  <2>2. QED
    BY <2>1, RemovedList
<1>6. shelf' \in [Shelves -> [1..NOutputs -> Seq(Layers)]]
  BY <1>2, <1>4, <1>5
<1>7. ASSUME NEW x \in Shelves, NEW o \in 1..NOutputs
      PROVE  /\ IsInjective(shelf'[x][o])
             /\ \A l : Contains(shelf'[x][o], l) =>
                  IF l = e THEN x = z /\ o = w ELSE Contains(shelf[x][o], l)
  <2>1. CASE x = z /\ o = w
    BY <1>3, <1>4, <2>1
  <2>2. CASE ~(x = z /\ o = w)
    <3>1. shelf'[x][o] = RemoveFirst(shelf[x][o], e)
      BY <1>3, <2>2
    <3>2. QED
      BY <1>5, <3>1
  <2>3. QED
    BY <2>1, <2>2
<1>8. Grown(e, z, w)
  BY <1>7 DEF Grown
<1>9. QED
  BY <1>6, <1>8, ShelvesGrow

LEMMA DestroyLayerLists ==
  ASSUME Shelving, NEW e \in Layers, DestroyLayer(e)
  PROVE  Shelving'
<1>1. shelf' = [x \in Shelves |-> [o \in 1..NOutputs |-> RemoveFirst(shelf[x][o], e)]]
  BY DEF DestroyLayer
<1>2. \A x \in Shelves, o \in 1..NOutputs :
        /\ RemoveFirst(shelf[x][o], e) \in Seq(Layers) /\ IsInjective(RemoveFirst(shelf[x][o], e))
        /\ \A l : Contains(RemoveFirst(shelf[x][o], e), l) <=> Contains(shelf[x][o], l) /\ l # e
  <2>1. ASSUME NEW x \in Shelves, NEW o \in 1..NOutputs
        PROVE  shelf[x][o] \in Seq(Layers) /\ IsInjective(shelf[x][o])
    BY ListTyped
  <2>2. QED
    BY <2>1, RemovedList
<1>3. shelf' \in [Shelves -> [1..NOutputs -> Seq(Layers)]]
  BY <1>1, <1>2
<1>4. \A x \in Shelves, o \in 1..NOutputs : shelf'[x][o] = RemoveFirst(shelf[x][o], e)
  BY <1>1
<1>5. \A x \in Shelves, o \in 1..NOutputs :
        /\ IsInjective(shelf'[x][o])
        /\ \A l : Contains(shelf'[x][o], l) => Contains(shelf[x][o], l)
  BY <1>2, <1>4
<1>6. QED
  BY <1>3, <1>5, ShelvesStay

(* Keys n and p. *)
LEMMA RestackLists ==
  ASSUME Stacking, Shelving, focus \in Toplevels => focus \in Created, NEW d \in {-1, 1}, Restack(d)
  PROVE  /\ Stacking' /\ Shelving' /\ \A x : Contains(stack', x) <=> Contains(stack, x)
<1>1. CASE focus \in Toplevels
  <2> DEFINE i == Place(stack, focus)
  <2>1. /\ stack' = IF i + d \in DOMAIN stack THEN Exchanged(stack, i, i + d) ELSE stack
        /\ shelf' = shelf
    BY <1>1 DEF Restack
  <2>2. stack \in Seq(Toplevels \cup Strangers) /\ IsInjective(stack)
    BY DEF Stacking
  <2>3. Contains(stack, focus)
    BY <1>1 DEF Created
  <2>4. i \in 1..Len(stack)
    BY <2>2, <2>3, PlaceFacts
  <2>5. DOMAIN stack = 1..Len(stack)
    BY <2>2
  <2> HIDE DEF i
  <2>6. /\ stack' \in Seq(Toplevels \cup Strangers) /\ IsInjective(stack')
        /\ \A x : Contains(stack', x) <=> Contains(stack, x)
    <3>1. CASE i + d \in 1..Len(stack)
      <4>1. stack' = Exchanged(stack, i, i + d)
        BY <2>1, <2>5, <3>1
      <4>2. QED
        BY <2>2, <2>4, <3>1, <4>1, ExchangedList
    <3>2. CASE i + d \notin 1..Len(stack)
      BY <2>1, <2>2, <2>5, <3>2
    <3>3. QED
      BY <3>1, <3>2
  <2>7. QED
    BY <2>1, <2>6 DEF Stacking, Shelving
<1>2. CASE focus \notin Toplevels
  <2> DEFINE to(seq) == LET i == Place(seq, focus)
                        IN IF Contains(seq, focus) /\ i + d \in DOMAIN seq
                           THEN Exchanged(seq, i, i + d) ELSE seq
  <2>1. stack' = stack /\ shelf' = [x \in Shelves |-> [o \in 1..NOutputs |-> to(shelf[x][o])]]
    BY <1>2 DEF Restack
  <2>2. ASSUME NEW x \in Shelves, NEW o \in 1..NOutputs
        PROVE  /\ to(shelf[x][o]) \in Seq(Layers) /\ IsInjective(to(shelf[x][o]))
               /\ \A l : Contains(to(shelf[x][o]), l) => Contains(shelf[x][o], l)
    <3> DEFINE seq == shelf[x][o]
               i == Place(seq, focus)
    <3>1. seq \in Seq(Layers) /\ IsInjective(seq)
      BY DEF Shelving
    <3>2. CASE Contains(seq, focus) /\ i + d \in DOMAIN seq
      <4>1. i \in 1..Len(seq)
        BY <3>1, <3>2, PlaceFacts
      <4>2. i + d \in 1..Len(seq)
        BY <3>1, <3>2
      <4>3. to(seq) = Exchanged(seq, i, i + d)
        BY <3>2
      <4> HIDE DEF seq, i, to
      <4>4. /\ to(seq) \in Seq(Layers) /\ IsInjective(to(seq))
            /\ \A l : Contains(to(seq), l) <=> Contains(seq, l)
        BY <3>1, <4>1, <4>2, <4>3, ExchangedList
      <4>5. QED
        BY <4>4 DEF seq
    <3>3. CASE ~(Contains(seq, focus) /\ i + d \in DOMAIN seq)
      <4>1. to(seq) = seq
        BY <3>3
      <4> HIDE DEF to
      <4>2. QED
        BY <3>1, <4>1
    <3>4. QED
      BY <3>2, <3>3
  <2> HIDE DEF to
  <2>3. shelf' \in [Shelves -> [1..NOutputs -> Seq(Layers)]]
    BY <2>1, <2>2
  <2>4. \A x \in Shelves, o \in 1..NOutputs : shelf'[x][o] = to(shelf[x][o])
    BY <2>1
  <2>5. \A x \in Shelves, o \in 1..NOutputs :
          /\ IsInjective(shelf'[x][o])
          /\ \A l : Contains(shelf'[x][o], l) => Contains(shelf[x][o], l)
    BY <2>2, <2>4
  <2>6. Shelving'
    BY <2>3, <2>5, ShelvesStay
  <2>7. QED
    BY <2>1, <2>6 DEF Stacking
<1>3. QED
  BY <1>1, <1>2

-----------------------------------------------------------------------------
(* The walks. *)

(* The first member after a place, when there is none before another one.  *)
LEMMA FirstAfterIs ==
  ASSUME NEW A, NEW s \in Seq(A), NEW S, None \notin S, NEW j \in 0..Len(s),
         NEW i \in (j + 1)..(Len(s) + 1), \A k \in (j + 1)..(i - 1) : s[k] \notin S
  PROVE  /\ i <= Len(s) /\ s[i] \in S => FirstAfter(s, S, j) = s[i]
         /\ i = Len(s) + 1 => FirstAfter(s, S, j) = None
<1> DEFINE l == FirstAfter(s, S, j)
           n == Len(s)
<1>1. n \in Nat /\ j \in Nat /\ i \in Nat
  OBVIOUS
<1>2. \/ l = None /\ \A k \in (j + 1)..n : s[k] \notin S
      \/ /\ l # None /\ l \in S
         /\ \E m \in (j + 1)..n : s[m] = l /\ \A k \in (j + 1)..(m - 1) : s[k] \notin S
  BY <1>1, FirstAfterFacts
<1> HIDE DEF l, n
<1>3. i \in (j + 1)..(n + 1)
  BY DEF n
<1>4. ASSUME i <= n, s[i] \in S PROVE l = s[i]
  <2>1. i \in (j + 1)..n
    BY <1>1, <1>3, <1>4
  <2>2. PICK m \in (j + 1)..n : s[m] = l /\ \A k \in (j + 1)..(m - 1) : s[k] \notin S
    BY <1>2, <1>4, <2>1
  <2>3. s[m] \in S
    BY <1>2, <1>4, <2>1, <2>2
  <2>4. ~(i < m)
    <3>1. ASSUME i < m PROVE FALSE
      <4>1. i \in (j + 1)..(m - 1)
        BY <1>1, <2>1, <2>2, <3>1
      <4>2. QED
        BY <1>4, <2>2, <4>1
    <3>2. QED
      BY <3>1
  <2>5. ~(m < i)
    <3>1. ASSUME m < i PROVE FALSE
      <4>1. m \in (j + 1)..(i - 1)
        BY <1>1, <2>1, <2>2, <3>1
      <4>2. QED
        BY <2>3, <4>1
    <3>2. QED
      BY <3>1
  <2>6. m = i
    BY <1>1, <2>1, <2>2, <2>4, <2>5
  <2>7. QED
    BY <2>2, <2>6
<1>5. ASSUME i = n + 1 PROVE l = None
  <2>1. i - 1 = n
    BY <1>1, <1>5
  <2>2. QED
    BY <1>2, <2>1
<1>6. QED
  BY <1>4, <1>5 DEF l, n

(* A step up undoes a step down, in a list that has everything once.       *)
LEMMA StepBack ==
  ASSUME NEW A, NEW s \in Seq(A), IsInjective(s), NEW S, None \notin S, NEW i \in 1..(Len(s) + 1)
  PROVE  LET l == LastBefore(s, S, i)
             up == IF l = None THEN FirstAfter(s, S, 0) ELSE FirstAfter(s, S, Place(s, l))
         IN /\ i <= Len(s) /\ s[i] \in S => up = s[i]
            /\ i = Len(s) + 1 => up = None
<1> DEFINE l == LastBefore(s, S, i)
<1>1. i \in Nat /\ i <= Len(s) + 1 /\ Len(s) \in Nat
  OBVIOUS
<1>2. \/ l = None /\ \A j \in 1..(i - 1) : s[j] \notin S
      \/ /\ l # None /\ l \in S /\ Contains(s, l)
         /\ \E j \in 1..(i - 1) : s[j] = l /\ \A k \in (j + 1)..(i - 1) : s[k] \notin S
  BY <1>1, LastBeforeFacts
<1> HIDE DEF l
<1>3. CASE l = None
  <2>1. 0 \in 0..Len(s) /\ i \in (0 + 1)..(Len(s) + 1) /\ \A k \in (0 + 1)..(i - 1) : s[k] \notin S
    BY <1>1, <1>2, <1>3
  <2>2. /\ i <= Len(s) /\ s[i] \in S => FirstAfter(s, S, 0) = s[i]
        /\ i = Len(s) + 1 => FirstAfter(s, S, 0) = None
    BY <2>1, FirstAfterIs
  <2>3. QED
    BY <1>3, <2>2 DEF l
<1>4. CASE l # None
  <2>1. PICK j \in 1..(i - 1) : s[j] = l /\ \A k \in (j + 1)..(i - 1) : s[k] \notin S
    BY <1>2, <1>4
  <2>2. j \in 1..Len(s) /\ j \in 0..Len(s) /\ i \in (j + 1)..(Len(s) + 1)
    BY <1>1, <2>1
  <2>3. Place(s, l) = j
    <3>1. Contains(s, l)
      BY <1>2, <1>4
    <3>2. QED
      BY <2>1, <2>2, <3>1, PlaceFacts
  <2>4. /\ i <= Len(s) /\ s[i] \in S => FirstAfter(s, S, j) = s[i]
        /\ i = Len(s) + 1 => FirstAfter(s, S, j) = None
    BY <2>1, <2>2, FirstAfterIs
  <2>5. QED
    BY <1>4, <2>3, <2>4 DEF l
<1>5. QED
  BY <1>3, <1>4

(* What is found before something is in the list, and is something else.   *)
LEMMA StepDown ==
  ASSUME NEW A, NEW s \in Seq(A), IsInjective(s), NEW S, None \notin S, NEW e, Contains(s, e),
         LastBefore(s, S, Place(s, e)) # None
  PROVE  LET l == LastBefore(s, S, Place(s, e)) IN l \in S /\ Contains(s, l) /\ l # e
<1> DEFINE i == Place(s, e)
           l == LastBefore(s, S, i)
<1>1. i \in 1..Len(s) /\ s[i] = e
  BY PlaceFacts
<1> HIDE DEF i
<1>2. i \in Nat /\ i <= Len(s) + 1
  BY <1>1
<1>3. /\ l \in S /\ Contains(s, l)
      /\ \E j \in 1..(i - 1) : s[j] = l
  <2>1. l # None
    BY DEF i
  <2>2. QED
    BY <1>2, <2>1, LastBeforeFacts
<1> HIDE DEF l
<1>4. PICK j \in 1..(i - 1) : s[j] = l
  BY <1>3
<1>5. j \in 1..Len(s) /\ j # i
  BY <1>1, <1>4
<1>6. l # e
  BY <1>1, <1>4, <1>5 DEF IsInjective
<1>7. QED
  BY <1>3, <1>6 DEF l, i

LEMMA StepFromEnd ==
  ASSUME NEW A, NEW s \in Seq(A), NEW S, None \notin S, LastBefore(s, S, Len(s) + 1) # None
  PROVE  LET l == LastBefore(s, S, Len(s) + 1) IN l \in S /\ Contains(s, l)
<1>1. Len(s) + 1 \in Nat /\ Len(s) + 1 <= Len(s) + 1
  OBVIOUS
<1>2. QED
  BY <1>1, LastBeforeFacts

LEMMA StepUp ==
  ASSUME NEW A, NEW s \in Seq(A), NEW S, None \notin S, NEW i \in Nat, FirstAfter(s, S, i) # None
  PROVE  LET l == FirstAfter(s, S, i) IN l \in S /\ Contains(s, l)
BY FirstAfterFacts

(* The layer surfaces of the bottom that take the keyboard, and the steps  *)
(* that keys j and k take in the tree and in the bottom.                   *)
Bottom == Row("bottom")
Bottoms == {l \in Interactive : Contains(Bottom, l)}
Below(t) == LastBefore(stack, Toplevels, Place(stack, t))
BelowLayer(l) == LastBefore(Bottom, Interactive, Place(Bottom, l))

(* Nothing of one kind is of another. *)
LEMMA KindsApart ==
  /\ None \notin Toplevels /\ None \notin Layers /\ None \notin Interactive
  /\ \A t \in Toplevels : t \notin Layers /\ t \notin Strangers /\ t \notin Popups
  /\ Interactive \subseteq Layers
BY FocusAssumption DEF FocusAssumption, Surfaces

LEMMA StackSteps ==
  ASSUME Stacking
  PROVE  /\ Topmost \in Created \cup {None}
         /\ \A t \in Created : Below(t) \in Created \cup {None} /\ Below(t) # t
<1>1. stack \in Seq(Toplevels \cup Strangers) /\ IsInjective(stack) /\ None \notin Toplevels
  BY KindsApart DEF Stacking
<1>2. Topmost \in Created \cup {None}
  <2>1. CASE Topmost # None
    <3>1. Topmost \in Toplevels /\ Contains(stack, Topmost)
      BY <1>1, <2>1, StepFromEnd DEF Topmost
    <3>2. QED
      BY <3>1 DEF Created
  <2>2. QED
    BY <2>1
<1>3. ASSUME NEW t \in Created PROVE Below(t) \in Created \cup {None} /\ Below(t) # t
  <2>1. Contains(stack, t) /\ t # None
    BY KindsApart DEF Created
  <2>2. CASE Below(t) # None
    <3>1. Below(t) \in Toplevels /\ Contains(stack, Below(t)) /\ Below(t) # t
      BY <1>1, <2>1, <2>2, StepDown DEF Below
    <3>2. QED
      BY <3>1 DEF Created
  <2>3. QED
    BY <2>1, <2>2
<1>4. QED
  BY <1>2, <1>3

LEMMA BottomSteps ==
  ASSUME Shelving
  PROVE  /\ LastBottom \in Bottoms \cup {None}
         /\ \A l \in Bottoms : BelowLayer(l) \in Bottoms \cup {None} /\ BelowLayer(l) # l
<1>1. Bottom \in Seq(Layers) /\ IsInjective(Bottom) /\ None \notin Interactive
  BY RowFacts, KindsApart DEF Bottom, Shelves
<1>2. LastBottom \in Bottoms \cup {None}
  <2>1. CASE LastBottom # None
    <3>1. LastBottom \in Interactive /\ Contains(Bottom, LastBottom)
      BY <1>1, <2>1, StepFromEnd DEF LastBottom, Bottom
    <3>2. QED
      BY <3>1 DEF Bottoms
  <2>2. QED
    BY <2>1
<1>3. ASSUME NEW l \in Bottoms PROVE BelowLayer(l) \in Bottoms \cup {None} /\ BelowLayer(l) # l
  <2>1. Contains(Bottom, l) /\ l # None
    BY KindsApart DEF Bottoms
  <2>2. CASE BelowLayer(l) # None
    <3>1. BelowLayer(l) \in Interactive /\ Contains(Bottom, BelowLayer(l)) /\ BelowLayer(l) # l
      BY <1>1, <2>1, <2>2, StepDown DEF BelowLayer
    <3>2. QED
      BY <3>1 DEF Bottoms
  <2>3. QED
    BY <2>1, <2>2
<1>4. QED
  BY <1>2, <1>3

(* Which layer something is in. *)
LEMMA LayersOf ==
  ASSUME Shelving
  PROVE  /\ \A l \in Bottoms : {x \in Shelves : Contains(Row(x), l)} = {"bottom"}
         /\ \A f : f \notin Layers => {x \in Shelves : Contains(Row(x), f)} = {}
<1>1. ASSUME NEW l \in Bottoms PROVE {x \in Shelves : Contains(Row(x), l)} = {"bottom"}
  <2>1. Contains(Row("bottom"), l) /\ "bottom" \in Shelves
    BY DEF Bottoms, Bottom, Shelves
  <2>2. \A x \in Shelves : Contains(Row(x), l) => x = "bottom"
    BY <2>1, ShelvedFacts
  <2>3. QED
    BY <2>1, <2>2
<1>2. \A f : f \notin Layers => {x \in Shelves : Contains(Row(x), f)} = {}
  BY ShelvedFacts
<1>3. QED
  BY <1>1, <1>2

(* Key j. *)
LEMMA DownIs ==
  ASSUME Stacking, Shelving
  PROVE  /\ Down(None) = IF Topmost # None THEN Topmost ELSE LastBottom
         /\ \A t \in Created : Down(t) = IF Below(t) # None THEN Below(t)
                                         ELSE IF LastBottom # None THEN LastBottom ELSE t
         /\ \A l \in Bottoms : Down(l) = IF BelowLayer(l) # None THEN BelowLayer(l) ELSE l
<1>1. Down(None) = IF Topmost # None THEN Topmost ELSE LastBottom
  <2>1. {x \in Shelves : Contains(Row(x), None)} = {} /\ None \notin Toplevels
    BY LayersOf, KindsApart
  <2>2. QED
    BY <2>1 DEF Down, Topmost
<1>2. ASSUME NEW t \in Created
      PROVE  Down(t) = IF Below(t) # None THEN Below(t)
                       ELSE IF LastBottom # None THEN LastBottom ELSE t
  <2>1. {x \in Shelves : Contains(Row(x), t)} = {} /\ t \in Toplevels
    BY LayersOf, KindsApart DEF Created
  <2>2. QED
    BY <2>1 DEF Down, Below
<1>3. ASSUME NEW l \in Bottoms
      PROVE  Down(l) = IF BelowLayer(l) # None THEN BelowLayer(l) ELSE l
  <2>1. {x \in Shelves : Contains(Row(x), l)} = {"bottom"}
    BY LayersOf
  <2>2. (CHOOSE x \in {"bottom"} : TRUE) = "bottom"
    OBVIOUS
  <2>3. QED
    BY <2>1, <2>2 DEF Down, BelowLayer, Bottom
<1>4. QED
  BY <1>1, <1>2, <1>3

(* Key k. *)
LEMMA UpIs ==
  ASSUME Stacking, Shelving
  PROVE  /\ \A t \in Created : Up(t) = FirstAfter(stack, Toplevels, Place(stack, t))
         /\ \A l \in Bottoms : Up(l) = LET m == FirstAfter(Bottom, Interactive, Place(Bottom, l))
                                       IN IF m # None THEN m ELSE FirstAfter(stack, Toplevels, 0)
         /\ Up(None) = None
<1>1. ASSUME NEW t \in Created PROVE Up(t) = FirstAfter(stack, Toplevels, Place(stack, t))
  <2>1. {x \in Shelves : Contains(Row(x), t)} = {} /\ t \in Toplevels
    BY LayersOf, KindsApart DEF Created
  <2>2. QED
    BY <2>1 DEF Up
<1>2. ASSUME NEW l \in Bottoms
      PROVE  Up(l) = LET m == FirstAfter(Bottom, Interactive, Place(Bottom, l))
                     IN IF m # None THEN m ELSE FirstAfter(stack, Toplevels, 0)
  <2>1. {x \in Shelves : Contains(Row(x), l)} = {"bottom"} /\ l \notin Toplevels
    BY LayersOf, KindsApart DEF Bottoms
  <2>2. (CHOOSE x \in {"bottom"} : TRUE) = "bottom" /\ {"bottom"} # {}
    OBVIOUS
  <2>3. QED
    BY <2>1, <2>2 DEF Up, Bottom
<1>3. Up(None) = None
  <2>1. {x \in Shelves : Contains(Row(x), None)} = {} /\ None \notin Toplevels
    BY LayersOf, KindsApart
  <2>2. QED
    BY <2>1 DEF Up
<1>4. QED
  BY <1>1, <1>2, <1>3

(* Key k undoes key j. *)
LEMMA UpUndoes ==
  ASSUME Stacking, Shelving PROVE UpUndoesDown
<1>1. stack \in Seq(Toplevels \cup Strangers) /\ IsInjective(stack) /\ None \notin Toplevels
  BY KindsApart DEF Stacking
<1>2. Bottom \in Seq(Layers) /\ IsInjective(Bottom) /\ None \notin Interactive
  BY RowFacts, KindsApart DEF Bottom, Shelves
<1> DEFINE n == Len(stack)
           m == Len(Bottom)
<1>3. n + 1 \in 1..(n + 1) /\ m + 1 \in 1..(m + 1) /\ ~(n + 1 <= n) /\ ~(m + 1 <= m)
  BY <1>1, <1>2
(* From the end of the bottom, to the first toplevel. *)
<1>4. LastBottom # None => Up(LastBottom) = FirstAfter(stack, Toplevels, 0)
  <2>1. ASSUME LastBottom # None PROVE Up(LastBottom) = FirstAfter(stack, Toplevels, 0)
    <3>1. LastBottom = LastBefore(Bottom, Interactive, m + 1) /\ LastBottom \in Bottoms
      BY <2>1, BottomSteps DEF LastBottom, Bottom
    <3>2. FirstAfter(Bottom, Interactive, Place(Bottom, LastBottom)) = None
      BY <1>2, <1>3, <2>1, <3>1, StepBack
    <3>3. QED
      BY <3>1, <3>2, UpIs
  <2>2. QED
    BY <2>1
<1>5. Down(None) # None => Up(Down(None)) = None
  <2>1. Topmost = LastBefore(stack, Toplevels, n + 1)
    BY DEF Topmost
  <2>2. CASE Topmost # None
    <3>1. Down(None) = Topmost /\ Topmost \in Created
      BY <2>2, DownIs, StackSteps
    <3>2. FirstAfter(stack, Toplevels, Place(stack, Topmost)) = None
      BY <1>1, <1>3, <2>1, <2>2, StepBack
    <3>3. QED
      BY <3>1, <3>2, UpIs
  <2>3. CASE Topmost = None
    <3>1. Down(None) = LastBottom
      BY <2>3, DownIs
    <3>2. FirstAfter(stack, Toplevels, 0) = None
      BY <1>1, <1>3, <2>1, <2>3, StepBack
    <3>3. QED
      BY <1>4, <3>1, <3>2
  <2>4. QED
    BY <2>2, <2>3
<1>6. ASSUME NEW t \in Created, Down(t) # t PROVE Up(Down(t)) = t
  <2> DEFINE i == Place(stack, t)
  <2>1. i \in 1..n /\ stack[i] = t /\ t \in Toplevels
    BY <1>1, PlaceFacts DEF Created
  <2>2. Below(t) = LastBefore(stack, Toplevels, i)
    BY DEF Below
  <2> HIDE DEF i
  <2>3. i \in 1..(n + 1) /\ i <= n /\ stack[i] \in Toplevels
    BY <1>1, <2>1
  <2>4. CASE Below(t) # None
    <3>1. Down(t) = Below(t) /\ Below(t) \in Created
      BY <2>4, DownIs, StackSteps
    <3>2. FirstAfter(stack, Toplevels, Place(stack, Below(t))) = stack[i]
      BY <1>1, <2>2, <2>3, <2>4, StepBack
    <3>3. QED
      BY <2>1, <3>1, <3>2, UpIs
  <2>5. CASE Below(t) = None
    <3>1. Down(t) = LastBottom /\ LastBottom # None
      BY <1>6, <2>5, DownIs
    <3>2. FirstAfter(stack, Toplevels, 0) = stack[i]
      BY <1>1, <2>2, <2>3, <2>5, StepBack
    <3>3. QED
      BY <1>4, <2>1, <3>1, <3>2
  <2>6. QED
    BY <2>4, <2>5
<1>7. ASSUME NEW l \in Bottoms, Down(l) # l PROVE Up(Down(l)) = l
  <2> DEFINE i == Place(Bottom, l)
  <2>1. i \in 1..m /\ Bottom[i] = l /\ l \in Interactive /\ l # None
    BY <1>2, PlaceFacts DEF Bottoms
  <2>2. BelowLayer(l) = LastBefore(Bottom, Interactive, i)
    BY DEF BelowLayer
  <2> HIDE DEF i
  <2>3. i \in 1..(m + 1) /\ i <= m /\ Bottom[i] \in Interactive
    BY <1>2, <2>1
  <2>4. BelowLayer(l) # None /\ Down(l) = BelowLayer(l) /\ BelowLayer(l) \in Bottoms
    BY <1>7, DownIs, BottomSteps
  <2>5. FirstAfter(Bottom, Interactive, Place(Bottom, BelowLayer(l))) = Bottom[i]
    BY <1>2, <2>2, <2>3, <2>4, StepBack
  <2>6. QED
    BY <2>1, <2>4, <2>5, UpIs
<1>8. QED
  BY <1>5, <1>6, <1>7 DEF UpUndoesDown, Bottoms, Bottom

(* What the digits count: the first toplevels from above, ...              *)
Top2 == IF Topmost = None THEN None ELSE Below(Topmost)
Top3 == IF Top2 = None THEN None ELSE Below(Top2)

(* ... and the last layer surfaces of the bottom. *)
Bottom2 == IF LastBottom = None THEN None ELSE BelowLayer(LastBottom)
Bottom3 == IF Bottom2 = None THEN None ELSE BelowLayer(Bottom2)

(* Which of the first n there are. *)
Somes(f, n) == {i \in 1..n : f[i] # None}

LEMMA Counting ==
  ASSUME NEW n \in 1..3, NEW a, NEW b, NEW c, a = None => b = None, b = None => c = None,
         NEW f, \A i \in 1..n : f[i] = IF i = 1 THEN a ELSE IF i = 2 THEN b ELSE c,
         f[n] = None
  PROVE  n - Cardinality(Somes(f, n))
           = IF a = None THEN n ELSE IF b = None THEN n - 1 ELSE n - 2
<1> DEFINE found == {i \in 1..n : f[i] # None}
<1>0. SUFFICES n - Cardinality(found)
                 = IF a = None THEN n ELSE IF b = None THEN n - 1 ELSE n - 2
  BY DEF Somes
<1>1. f[n] = None
  OBVIOUS
<1>2. n = 1 \/ n = 2 \/ n = 3
  OBVIOUS
<1>3. \A i \in 1..n : f[i] = IF i = 1 THEN a ELSE IF i = 2 THEN b ELSE c
  OBVIOUS
<1>4. n \in 1..n /\ \A i \in 1..n : i = 1 \/ i = 2 \/ i = 3
  OBVIOUS
<1>5. CASE a = None
  <2>1. found = {}
    BY <1>3, <1>4, <1>5
  <2>2. Cardinality(found) = 0
    BY <2>1, FS_EmptySet
  <2> HIDE DEF found
  <2>3. QED
    BY <1>5, <2>2
<1>6. CASE a # None /\ b = None
  <2>1. found = {1}
    <3>1. 1 \in 1..n
      OBVIOUS
    <3>2. QED
      BY <1>3, <1>4, <1>6, <3>1
  <2>2. Cardinality(found) = 1
    BY <2>1, FS_Singleton
  <2> HIDE DEF found
  <2>3. QED
    BY <1>6, <2>2
<1>7. CASE a # None /\ b # None
  <2>1. f[n] = IF n = 1 THEN a ELSE IF n = 2 THEN b ELSE c
    BY <1>3, <1>4
  <2>2. n = 3 /\ c = None
    BY <1>1, <1>2, <1>7, <2>1
  <2>3. found = {1} \cup {2}
    <3>1. 1 \in 1..n /\ 2 \in 1..n
      BY <2>2
    <3>2. \A i \in found : i = 1 \/ i = 2
      BY <1>3, <1>4, <2>2
    <3>3. 1 \in found /\ 2 \in found
      BY <1>3, <1>7, <3>1
    <3>4. QED
      BY <3>2, <3>3
  <2>4. Cardinality(found) = 2
    <3>1. IsFiniteSet({1}) /\ Cardinality({1}) = 1
      BY FS_Singleton
    <3>2. 2 \notin {1}
      OBVIOUS
    <3>3. Cardinality({1} \cup {2}) = Cardinality({1}) + 1
      BY <3>1, <3>2, FS_AddElement
    <3>4. QED
      BY <2>3, <3>1, <3>3
  <2> HIDE DEF found
  <2>5. QED
    BY <1>7, <2>4
<1>8. QED
  BY <1>5, <1>6, <1>7

(* What key n focuses. *)
LEMMA NumberedIs ==
  ASSUME NEW n \in 1..3
  PROVE  LET top == IF n = 1 THEN Topmost ELSE IF n = 2 THEN Top2 ELSE Top3
             i   == IF Topmost = None THEN n ELSE IF Top2 = None THEN n - 1 ELSE n - 2
         IN Numbered(n) = IF top # None THEN top
                          ELSE IF i = 1 THEN LastBottom ELSE IF i = 2 THEN Bottom2 ELSE Bottom3
<1> DEFINE tops == [i \in 1..n |-> IF i = 1 THEN Topmost ELSE IF i = 2 THEN Top2 ELSE Top3]
           bots == [i \in 1..n |-> IF i = 1 THEN LastBottom ELSE IF i = 2 THEN Bottom2 ELSE Bottom3]
           isTop(f) == f = [i \in 1..n |->
             IF i = 1 THEN Topmost
             ELSE IF f[i - 1] = None THEN None
             ELSE LastBefore(stack, Toplevels, Place(stack, f[i - 1]))]
           isBot(f) == f = [i \in 1..n |->
             IF i = 1 THEN LastBottom
             ELSE IF f[i - 1] = None THEN None
             ELSE LastBefore(Bottom, Interactive, Place(Bottom, f[i - 1]))]
<1>1. /\ \A i \in 1..n : i = 1 \/ i = 2 \/ i = 3
      /\ \A i \in 1..n : i # 1 => i - 1 \in 1..n
      /\ 2 - 1 = 1 /\ 3 - 1 = 2 /\ n \in 1..n
  OBVIOUS
<1>2. isTop(tops)
  <2>1. \A i \in 1..n : tops[i] = IF i = 1 THEN Topmost ELSE IF i = 2 THEN Top2 ELSE Top3
    OBVIOUS
  <2>2. ASSUME NEW i \in 1..n
        PROVE  (IF i = 1 THEN Topmost ELSE IF i = 2 THEN Top2 ELSE Top3)
                 = IF i = 1 THEN Topmost
                   ELSE IF tops[i - 1] = None THEN None
                   ELSE LastBefore(stack, Toplevels, Place(stack, tops[i - 1]))
    <3> HIDE DEF tops
    <3>1. CASE i = 1
      BY <3>1
    <3>2. CASE i = 2
      <4>1. tops[i - 1] = Topmost
        BY <1>1, <2>1, <3>2
      <4>2. QED
        BY <3>2, <4>1 DEF Top2, Below
    <3>3. CASE i = 3
      <4>1. tops[i - 1] = Top2
        BY <1>1, <2>1, <3>3
      <4>2. QED
        BY <3>3, <4>1 DEF Top3, Below
    <3>4. QED
      BY <1>1, <3>1, <3>2, <3>3
  <2>3. QED
    BY <2>2
<1>3. isBot(bots)
  <2>1. \A i \in 1..n : bots[i] = IF i = 1 THEN LastBottom ELSE IF i = 2 THEN Bottom2 ELSE Bottom3
    OBVIOUS
  <2>2. ASSUME NEW i \in 1..n
        PROVE  (IF i = 1 THEN LastBottom ELSE IF i = 2 THEN Bottom2 ELSE Bottom3)
                 = IF i = 1 THEN LastBottom
                   ELSE IF bots[i - 1] = None THEN None
                   ELSE LastBefore(Bottom, Interactive, Place(Bottom, bots[i - 1]))
    <3> HIDE DEF bots
    <3>1. CASE i = 1
      BY <3>1
    <3>2. CASE i = 2
      <4>1. bots[i - 1] = LastBottom
        BY <1>1, <2>1, <3>2
      <4>2. QED
        BY <3>2, <4>1 DEF Bottom2, BelowLayer
    <3>3. CASE i = 3
      <4>1. bots[i - 1] = Bottom2
        BY <1>1, <2>1, <3>3
      <4>2. QED
        BY <3>3, <4>1 DEF Bottom3, BelowLayer
    <3>4. QED
      BY <1>1, <3>1, <3>2, <3>3
  <2>3. QED
    BY <2>2
<1> DEFINE T == CHOOSE f : isTop(f)
           B == CHOOSE f : isBot(f)
<1>4. isTop(T)
  BY <1>2
<1>5. isBot(B)
  BY <1>3
<1>6. Numbered(n) = IF T[n] # None THEN T[n] ELSE B[n - Cardinality(Somes(T, n))]
  BY DEF Numbered, Bottom, Somes
<1> HIDE DEF T, B, tops, bots
<1>7. T = tops
  <2>1. \A i \in 1..n : T[i] = IF i = 1 THEN Topmost
                               ELSE IF T[i - 1] = None THEN None
                               ELSE LastBefore(stack, Toplevels, Place(stack, T[i - 1]))
    BY <1>4
  <2>2. ASSUME NEW i \in 1..n
        PROVE  T[i] = IF i = 1 THEN Topmost ELSE IF i = 2 THEN Top2 ELSE Top3
    <3>1. i # 1 => 1 \in 1..n
      OBVIOUS
    <3>2. i # 1 => T[1] = Topmost
      BY <2>1, <3>1
    <3>3. i = 2 => T[i] = Top2
      BY <1>1, <2>1, <3>2 DEF Top2, Below
    <3>4. i = 3 => 2 \in 1..n
      OBVIOUS
    <3>5. i = 3 => T[2] = Top2
      BY <1>1, <2>1, <3>2, <3>4 DEF Top2, Below
    <3>6. i = 3 => T[i] = Top3
      BY <1>1, <2>1, <3>5 DEF Top3, Below
    <3>7. i = 1 => T[i] = Topmost
      BY <2>1
    <3>8. QED
      BY <1>1, <3>3, <3>6, <3>7
  <2>3. QED
    BY <1>4, <2>2 DEF tops
<1>8. \A i \in 1..n : B[i] = IF i = 1 THEN LastBottom ELSE IF i = 2 THEN Bottom2 ELSE Bottom3
  <2>1. \A i \in 1..n : B[i] = IF i = 1 THEN LastBottom
                               ELSE IF B[i - 1] = None THEN None
                               ELSE LastBefore(Bottom, Interactive, Place(Bottom, B[i - 1]))
    BY <1>5
  <2>2. ASSUME NEW i \in 1..n
        PROVE  B[i] = IF i = 1 THEN LastBottom ELSE IF i = 2 THEN Bottom2 ELSE Bottom3
    <3>1. i # 1 => 1 \in 1..n
      OBVIOUS
    <3>2. i # 1 => B[1] = LastBottom
      BY <2>1, <3>1
    <3>3. i = 2 => B[i] = Bottom2
      BY <1>1, <2>1, <3>2 DEF Bottom2, BelowLayer
    <3>4. i = 3 => 2 \in 1..n
      OBVIOUS
    <3>5. i = 3 => B[2] = Bottom2
      BY <1>1, <2>1, <3>2, <3>4 DEF Bottom2, BelowLayer
    <3>6. i = 3 => B[i] = Bottom3
      BY <1>1, <2>1, <3>5 DEF Bottom3, BelowLayer
    <3>7. i = 1 => B[i] = LastBottom
      BY <2>1
    <3>8. QED
      BY <1>1, <3>3, <3>6, <3>7
  <2>3. QED
    BY <2>2
<1> DEFINE found == Somes(tops, n)
           rest == IF Topmost = None THEN n ELSE IF Top2 = None THEN n - 1 ELSE n - 2
<1>9. tops[n] = IF n = 1 THEN Topmost ELSE IF n = 2 THEN Top2 ELSE Top3
  BY <1>1 DEF tops
<1>10. tops[n] = None => n - Cardinality(found) = rest
  <2>1. Topmost = None => Top2 = None
    BY DEF Top2
  <2>2. Top2 = None => Top3 = None
    BY DEF Top3
  <2>3. \A i \in 1..n : tops[i] = IF i = 1 THEN Topmost ELSE IF i = 2 THEN Top2 ELSE Top3
    BY DEF tops
  <2>4. QED
    BY <2>1, <2>2, <2>3, Counting
<1>11. tops[n] = None => rest \in 1..n
  BY <1>1, <1>9
<1>12. Numbered(n) = IF tops[n] # None THEN tops[n] ELSE B[n - Cardinality(found)]
  BY <1>6, <1>7
<1> HIDE DEF found, rest
<1>13. tops[n] = None => B[rest] = IF rest = 1 THEN LastBottom ELSE IF rest = 2 THEN Bottom2 ELSE Bottom3
  BY <1>8, <1>11
<1>14. QED
  BY <1>9, <1>10, <1>12, <1>13 DEF rest

(* Counting down with a digit is walking down that often. *)
LEMMA DigitsFollow ==
  ASSUME Stacking, Shelving PROVE DigitsFollowDown
<1> DEFINE W1 == Down(None)
           W2 == Down(W1)
           W3 == Down(W2)
           isWalk(w) == w = [n \in 0..3 |-> IF n = 0 THEN None ELSE Down(w[n - 1])]
           v == [n \in 0..3 |-> IF n = 0 THEN None ELSE IF n = 1 THEN W1
                                ELSE IF n = 2 THEN W2 ELSE W3]
           walk == CHOOSE w : isWalk(w)
<1>1. isWalk(v)
  <2>1. \A n \in 0..3 : v[n] = IF n = 0 THEN None ELSE IF n = 1 THEN W1
                               ELSE IF n = 2 THEN W2 ELSE W3
    OBVIOUS
  <2>2. ASSUME NEW n \in 0..3
        PROVE  (IF n = 0 THEN None ELSE IF n = 1 THEN W1 ELSE IF n = 2 THEN W2 ELSE W3)
                 = IF n = 0 THEN None ELSE Down(v[n - 1])
    <3> HIDE DEF v
    <3>1. n = 0 \/ n = 1 \/ n = 2 \/ n = 3
      OBVIOUS
    <3>2. v[0] = None /\ v[1] = W1 /\ v[2] = W2
      BY <2>1
    <3>3. n = 1 => n - 1 = 0
      OBVIOUS
    <3>4. n = 2 => n - 1 = 1
      OBVIOUS
    <3>5. n = 3 => n - 1 = 2
      OBVIOUS
    <3>6. QED
      BY <3>1, <3>2, <3>3, <3>4, <3>5
  <2>3. QED
    BY <2>2
<1>2. isWalk(walk)
  BY <1>1
<1> HIDE DEF walk, v
<1>3. walk[0] = None /\ walk[1] = W1 /\ walk[2] = W2 /\ walk[3] = W3
  <2>1. \A n \in 0..3 : walk[n] = IF n = 0 THEN None ELSE Down(walk[n - 1])
    BY <1>2
  <2>2. walk[0] = None
    BY <2>1
  <2>3. walk[1] = Down(walk[0])
    BY <2>1
  <2>4. walk[2] = Down(walk[1])
    BY <2>1
  <2>5. walk[3] = Down(walk[2])
    BY <2>1
  <2>6. QED
    BY <2>2, <2>3, <2>4, <2>5
<1>4. /\ Topmost \in Created \cup {None}
      /\ \A t \in Created : Below(t) \in Created \cup {None} /\ Below(t) # t
  BY StackSteps
<1>5. /\ LastBottom \in Bottoms \cup {None}
      /\ \A l \in Bottoms : BelowLayer(l) \in Bottoms \cup {None} /\ BelowLayer(l) # l
  BY BottomSteps
<1>6. /\ Down(None) = IF Topmost # None THEN Topmost ELSE LastBottom
      /\ \A t \in Created : Down(t) = IF Below(t) # None THEN Below(t)
                                      ELSE IF LastBottom # None THEN LastBottom ELSE t
      /\ \A l \in Bottoms : Down(l) = IF BelowLayer(l) # None THEN BelowLayer(l) ELSE l
  BY DownIs
<1>7. \A t \in Created, l \in Bottoms : t # l
  BY KindsApart DEF Created, Bottoms
<1> HIDE DEF W1, W2, W3
<1>8. Numbered(1) = W1
  <2>1. Numbered(1) = IF Topmost # None THEN Topmost ELSE LastBottom
    BY NumberedIs
  <2>2. QED
    BY <1>6, <2>1 DEF W1
<1>9. Numbered(2) = IF W2 # W1 THEN W2 ELSE None
  <2>1. Numbered(2) = IF Top2 # None THEN Top2
                      ELSE IF Topmost = None THEN Bottom2 ELSE LastBottom
    <3>1. Top2 # None => Topmost # None
      BY DEF Top2
    <3>2. QED
      BY <3>1, NumberedIs
  <2>2. CASE Topmost = None /\ LastBottom = None
    BY <1>6, <2>1, <2>2 DEF W1, W2, Top2, Bottom2
  <2>3. CASE Topmost = None /\ LastBottom # None
    BY <1>5, <1>6, <2>1, <2>3 DEF W1, W2, Top2, Bottom2
  <2>4. CASE Topmost # None
    BY <1>4, <1>5, <1>6, <1>7, <2>1, <2>4 DEF W1, W2, Top2
  <2>5. QED
    BY <2>2, <2>3, <2>4
<1>10. Numbered(3) = IF W2 # W1 /\ W3 # W2 THEN W3 ELSE None
  <2>1. Numbered(3) = IF Top3 # None THEN Top3
                      ELSE IF Topmost = None THEN Bottom3
                      ELSE IF Top2 = None THEN Bottom2 ELSE LastBottom
    <3>1. (Top3 # None => Top2 # None) /\ (Top2 # None => Topmost # None)
      BY DEF Top2, Top3
    <3>2. QED
      BY <3>1, NumberedIs
  <2>2. CASE Topmost = None /\ LastBottom = None
    BY <1>6, <2>1, <2>2 DEF W1, W2, W3, Top2, Top3, Bottom2, Bottom3
  <2>3. CASE Topmost = None /\ LastBottom # None
    <3>1. W1 = LastBottom /\ LastBottom \in Bottoms /\ Bottom2 = BelowLayer(LastBottom)
      BY <1>5, <1>6, <2>3 DEF W1, Bottom2
    <3>2. Top2 = None /\ Top3 = None
      BY <2>3 DEF Top2, Top3
    <3>3. W2 = IF Bottom2 # None THEN Bottom2 ELSE LastBottom
      BY <1>6, <3>1 DEF W2
    <3>4. Bottom2 # LastBottom /\ Bottom2 \in Bottoms \cup {None}
      BY <1>5, <3>1
    <3>5. Bottom2 # None => Bottom3 # Bottom2 /\ W3 = IF Bottom3 # None THEN Bottom3 ELSE Bottom2
      BY <1>5, <1>6, <3>3, <3>4 DEF W3, Bottom3
    <3>6. Bottom2 = None => Bottom3 = None
      BY DEF Bottom3
    <3>7. QED
      BY <2>1, <2>3, <3>1, <3>2, <3>3, <3>4, <3>5, <3>6
  <2>4. CASE Topmost # None /\ Top2 = None
    <3>1. W1 = Topmost /\ Topmost \in Created /\ Below(Topmost) = None
      BY <1>4, <1>6, <2>4 DEF W1, Top2
    <3>2. Top3 = None
      BY <2>4 DEF Top3
    <3>3. W2 = IF LastBottom # None THEN LastBottom ELSE Topmost
      BY <1>6, <3>1 DEF W2
    <3>4. LastBottom # None =>
            /\ LastBottom \in Bottoms /\ LastBottom # Topmost
            /\ Bottom2 = BelowLayer(LastBottom) /\ Bottom2 # LastBottom
            /\ W3 = IF Bottom2 # None THEN Bottom2 ELSE LastBottom
      BY <1>5, <1>6, <1>7, <3>1, <3>3 DEF W3, Bottom2
    <3>5. LastBottom = None => Bottom2 = None
      BY DEF Bottom2
    <3>6. QED
      BY <2>1, <2>4, <3>1, <3>2, <3>3, <3>4, <3>5
  <2>5. CASE Topmost # None /\ Top2 # None
    <3>1. W1 = Topmost /\ Topmost \in Created /\ Below(Topmost) = Top2
      BY <1>4, <1>6, <2>5 DEF W1, Top2
    <3>2. W2 = Top2 /\ Top2 \in Created /\ Top2 # Topmost /\ Top3 = Below(Top2)
      BY <1>4, <1>6, <2>5, <3>1 DEF W2, Top3
    <3>3. W3 = IF Top3 # None THEN Top3 ELSE IF LastBottom # None THEN LastBottom ELSE Top2
      BY <1>6, <3>2 DEF W3
    <3>4. Top3 # Top2 /\ (LastBottom # None => LastBottom # Top2)
      BY <1>4, <1>5, <1>7, <3>2
    <3>5. QED
      BY <2>1, <2>5, <3>1, <3>2, <3>3, <3>4
  <2>6. QED
    BY <2>2, <2>3, <2>4, <2>5
<1>11. (W1 = None => W2 = W1) /\ (W2 = None => W1 = None) /\ (W3 = None => W2 = None)
  <2>1. \A f \in Created \cup Bottoms : Down(f) # None
    <3>1. None \notin Created /\ None \notin Bottoms
      BY KindsApart DEF Created, Bottoms
    <3>2. QED
      BY <1>6, <3>1
  <2>2. W1 \in Created \cup Bottoms \cup {None}
    BY <1>4, <1>5, <1>6 DEF W1
  <2>3. W2 \in Created \cup Bottoms \cup {None}
    BY <1>4, <1>5, <1>6, <2>2 DEF W1, W2
  <2>4. QED
    BY <2>1, <2>2, <2>3 DEF W1, W2, W3
<1> DEFINE new(n) == n = 1 \/ walk[n] # walk[n - 1]
<1>12. ASSUME NEW n \in 1..3
       PROVE  Numbered(n) = IF walk[n] # None /\ \A m \in 1..n : new(m) THEN walk[n] ELSE None
  <2>1. n = 1 \/ n = 2 \/ n = 3
    OBVIOUS
  <2>2. new(1) /\ (new(2) <=> W2 # W1) /\ (new(3) <=> W3 # W2)
    BY <1>3
  <2> HIDE DEF new
  <2>3. CASE n = 1
    <3>1. \A m \in 1..n : m = 1
      BY <2>3
    <3>2. \A m \in 1..n : new(m)
      BY <2>2, <3>1
    <3>3. QED
      BY <1>3, <1>8, <2>3, <3>2
  <2>4. CASE n = 2
    <3>1. 1..n = {1, 2}
      BY <2>4
    <3>2. (\A m \in 1..n : new(m)) <=> W2 # W1
      BY <2>2, <3>1
    <3>3. QED
      BY <1>3, <1>9, <2>4, <3>2
  <2>5. CASE n = 3
    <3>1. 1..n = {1, 2, 3}
      BY <2>5
    <3>2. (\A m \in 1..n : new(m)) <=> W2 # W1 /\ W3 # W2
      BY <2>2, <3>1
    <3>3. QED
      BY <1>3, <1>10, <2>5, <3>2
  <2>6. QED
    BY <2>1, <2>3, <2>4, <2>5
<1>13. QED
  BY <1>12 DEF DigitsFollowDown, walk

-----------------------------------------------------------------------------
(* What the lists hold stays so. *)

SurfacesOK ==
  /\ popups \subseteq Popups
  /\ activated \subseteq Toplevels
  /\ hidden \subseteq Toplevels \cup Layers

(* A walk finds toplevels that are in the tree. *)
LEMMA DownListed ==
  ASSUME Listed, NEW f, f \in Toplevels => f \in Created, Down(f) \in Toplevels
  PROVE  Down(f) \in Created \/ Down(f) = f
<1> DEFINE shelves == {x \in Shelves : Contains(Row(x), f)}
<1>1. Stacking /\ Shelving
  BY DEF Listed
<1>2. CASE shelves # {}
  <2> DEFINE x == CHOOSE x \in shelves : TRUE
             l == LastBefore(Row(x), Interactive, Place(Row(x), f))
  <2>1. x \in Shelves /\ Contains(Row(x), f)
    BY <1>2
  <2>2. Down(f) = IF l # None THEN l ELSE f
    BY <1>2 DEF Down
  <2> HIDE DEF x
  <2>3. Row(x) \in Seq(Layers) /\ IsInjective(Row(x))
    BY <1>1, <2>1, RowFacts
  <2>4. CASE l # None
    <3>1. l \in Interactive
      BY <2>1, <2>3, <2>4, KindsApart, StepDown
    <3>2. QED
      BY <2>2, <2>4, <3>1, KindsApart
  <2>5. QED
    BY <2>2, <2>4
<1>3. CASE shelves = {}
  <2>1. CASE f \in Toplevels
    <3>1. Down(f) = IF Below(f) # None THEN Below(f)
                    ELSE IF LastBottom # None THEN LastBottom ELSE f
      BY <1>3, <2>1 DEF Down, Below
    <3>2. Below(f) \in Created \cup {None}
      BY <1>1, <2>1, StackSteps
    <3>3. LastBottom \in Bottoms \cup {None}
      BY <1>1, BottomSteps
    <3>4. QED
      BY <3>1, <3>2, <3>3, KindsApart DEF Bottoms
  <2>2. CASE f \notin Toplevels
    <3>1. Down(f) = IF Topmost # None THEN Topmost
                    ELSE IF LastBottom # None THEN LastBottom ELSE f
      BY <1>3, <2>2 DEF Down, Topmost
    <3>2. Topmost \in Created \cup {None} /\ LastBottom \in Bottoms \cup {None}
      BY <1>1, StackSteps, BottomSteps
    <3>3. QED
      BY <3>1, <3>2, KindsApart DEF Bottoms
  <2>3. QED
    BY <2>1, <2>2
<1>4. QED
  BY <1>2, <1>3

LEMMA UpListed ==
  ASSUME Listed, NEW f, f \in Toplevels => f \in Created, Up(f) \in Toplevels
  PROVE  Up(f) \in Created
<1> DEFINE shelves == {x \in Shelves : Contains(Row(x), f)}
<1>1. Stacking /\ Shelving /\ None \notin Toplevels /\ None \notin Interactive
  BY KindsApart DEF Listed
<1>2. ASSUME NEW i \in Nat, FirstAfter(stack, Toplevels, i) # None
      PROVE  FirstAfter(stack, Toplevels, i) \in Created
  <2>1. stack \in Seq(Toplevels \cup Strangers)
    BY <1>1 DEF Stacking
  <2>2. QED
    BY <1>1, <1>2, <2>1, StepUp DEF Created
<1>3. CASE shelves # {}
  <2> DEFINE x == CHOOSE x \in shelves : TRUE
             l == FirstAfter(Row(x), Interactive, Place(Row(x), f))
  <2>1. x \in Shelves /\ Contains(Row(x), f)
    BY <1>3
  <2>2. Up(f) = IF l # None THEN l ELSE FirstAfter(stack, Toplevels, 0)
    <3>1. f \notin Toplevels
      BY <1>1, <2>1, ShelvedFacts, KindsApart
    <3>2. QED
      BY <1>3, <3>1 DEF Up
  <2> HIDE DEF x
  <2>3. Row(x) \in Seq(Layers) /\ IsInjective(Row(x))
    BY <1>1, <2>1, RowFacts
  <2>4. CASE l # None
    <3>1. Place(Row(x), f) \in Nat
      BY <2>1, <2>3, PlaceFacts
    <3>2. l \in Interactive
      BY <1>1, <2>3, <2>4, <3>1, StepUp
    <3>3. QED
      BY <2>2, <2>4, <3>2, KindsApart
  <2>5. CASE l = None
    BY <1>1, <1>2, <2>2, <2>5
  <2>6. QED
    BY <2>4, <2>5
<1>4. CASE shelves = {} /\ f \in Toplevels
  <2>1. Up(f) = FirstAfter(stack, Toplevels, Place(stack, f))
    BY <1>4 DEF Up
  <2>2. stack \in Seq(Toplevels \cup Strangers) /\ Contains(stack, f)
    BY <1>1, <1>4 DEF Stacking, Created
  <2>3. Place(stack, f) \in Nat
    BY <2>2, PlaceFacts
  <2>4. QED
    BY <1>1, <1>2, <2>1, <2>3
<1>5. CASE shelves = {} /\ f \notin Toplevels
  BY <1>1, <1>5 DEF Up
<1>6. QED
  BY <1>3, <1>4, <1>5

LEMMA NumberedListed ==
  ASSUME Listed, NEW n \in 1..3, Numbered(n) \in Toplevels
  PROVE  Numbered(n) \in Created
<1>1. /\ Topmost \in Created \cup {None}
      /\ \A t \in Created : Below(t) \in Created \cup {None}
  BY StackSteps DEF Listed
<1>2. /\ LastBottom \in Bottoms \cup {None}
      /\ \A l \in Bottoms : BelowLayer(l) \in Bottoms \cup {None}
  BY BottomSteps DEF Listed
<1>3. Top2 \in Created \cup {None}
  BY <1>1 DEF Top2
<1>4. Top3 \in Created \cup {None}
  BY <1>1, <1>3 DEF Top3
<1>5. Bottom2 \in Bottoms \cup {None}
  BY <1>2 DEF Bottom2
<1>6. Bottom3 \in Bottoms \cup {None}
  BY <1>2, <1>5 DEF Bottom3
<1>7. Numbered(n) \in Created \cup Bottoms \cup {None}
  <2>1. Numbered(n) \in {Topmost, Top2, Top3, LastBottom, Bottom2, Bottom3}
    BY NumberedIs
  <2>2. QED
    BY <1>1, <1>2, <1>3, <1>4, <1>5, <1>6, <2>1
<1>8. QED
  BY <1>7, KindsApart DEF Bottoms

(* Steps that leave the lists. *)
LEMMA ListsStay ==
  ASSUME Listed, SurfacesOK, UNCHANGED <<stack, shelf>>,
         mapped' \subseteq mapped \cup Created, popups' \subseteq Popups,
         focus' \in Created \cup Layers \cup {None},
         activated' \subseteq Toplevels, hidden' \subseteq Toplevels \cup Layers
  PROVE  Listed' /\ SurfacesOK'
<1>1. Stacking' /\ Shelving'
  BY DEF Listed, Stacking, Shelving
<1>2. Created' = Created /\ Created \subseteq Toplevels
  BY DEF Created
<1>3. mapped' \subseteq Created'
  BY <1>2 DEF Listed
<1>4. focus' \in Toplevels \cup Layers \cup {None} /\ (focus' \in Toplevels => focus' \in Created')
  BY <1>2, KindsApart
<1>5. QED
  BY <1>1, <1>3, <1>4 DEF Listed, SurfacesOK

LEMMA FocusOnLists ==
  ASSUME Listed, SurfacesOK, NEW s, s \in Toplevels => s \in Created, FocusOn(s)
  PROVE  /\ focus' \in Created \cup Layers \cup {None}
         /\ activated' \subseteq Toplevels /\ hidden' \subseteq Toplevels \cup Layers
<1>1. focus \in Created \cup Layers \cup {None}
  BY DEF Listed
<1>2. CASE s \in Toplevels
  <2>1. FocusToplevel(s) /\ s \in Created
    BY <1>2 DEF FocusOn
  <2>2. QED
    BY <1>1, <1>2, <2>1 DEF FocusToplevel, SurfacesOK
<1>3. CASE s \notin Toplevels
  <2>1. FocusLayer(s)
    BY <1>3 DEF FocusOn
  <2>2. QED
    BY <1>1, <2>1, KindsApart DEF FocusLayer, SurfacesOK
<1>4. QED
  BY <1>2, <1>3

LEMMA ClearFocusLists ==
  ASSUME Listed, SurfacesOK, ClearFocus
  PROVE  /\ focus' \in Created \cup Layers \cup {None}
         /\ activated' \subseteq Toplevels /\ hidden' \subseteq Toplevels \cup Layers
BY DEF ClearFocus, SurfacesOK

(* Steps that leave the shelves, and the toplevels that are focused or mapped *)
(* in the tree.                                                            *)
LEMMA StackChanges ==
  ASSUME Listed, SurfacesOK, Stacking', Shelving', mapped' \subseteq mapped, popups' = popups,
         focus' \in {focus, None}, activated' \subseteq activated, hidden' \subseteq hidden,
         \A t \in mapped' \cup {focus'} : Contains(stack, t) => Contains(stack', t)
  PROVE  Listed' /\ SurfacesOK'
<1>1. \A t \in mapped' : t \in Created'
  BY DEF Listed, Created
<1>2. focus' \in Toplevels => focus' \in Created'
  <2>1. ASSUME focus' \in Toplevels PROVE focus' \in Created'
    <3>1. focus' = focus /\ focus \in Created
      BY <2>1, KindsApart DEF Listed
    <3>2. Contains(stack', focus')
      BY <3>1 DEF Created
    <3>3. QED
      BY <2>1, <3>2 DEF Created
  <2>2. QED
    BY <2>1
<1>3. QED
  BY <1>1, <1>2 DEF Listed, SurfacesOK

LEMMA ShortcutLists ==
  ASSUME Listed, SurfacesOK, NEW key, Shortcut(key), UNCHANGED <<mapped, popups>>
  PROVE  Listed' /\ SurfacesOK'
<1>1. /\ focus \in Created \cup Layers \cup {None} /\ mapped \subseteq Created
      /\ popups \subseteq Popups /\ activated \subseteq Toplevels
      /\ hidden \subseteq Toplevels \cup Layers /\ Created \subseteq Toplevels
  BY DEF Listed, SurfacesOK, Created
<1>2. ASSUME NEW s, s \in Toplevels => s \in Created, FocusOn(s), UNCHANGED <<stack, shelf>>
      PROVE  Listed' /\ SurfacesOK'
  <2>1. /\ focus' \in Created \cup Layers \cup {None}
        /\ activated' \subseteq Toplevels /\ hidden' \subseteq Toplevels \cup Layers
    BY <1>2, FocusOnLists
  <2>2. QED
    BY <1>1, <1>2, <2>1, ListsStay
<1>3. ASSUME UNCHANGED <<stack, shelf, focus, activated, hidden>>
      PROVE  Listed' /\ SurfacesOK'
  BY <1>1, <1>3, ListsStay
<1>4. CASE /\ key = "h" /\ ToggleHidden
           /\ UNCHANGED <<stack, shelf, focus, activated>>
  <2>1. hidden' \subseteq Toplevels \cup Layers
    BY <1>1, <1>4 DEF ToggleHidden
  <2>2. QED
    BY <1>1, <1>4, <2>1, ListsStay
<1>5. CASE ClearFocus /\ UNCHANGED <<stack, shelf>>
  <2>1. /\ focus' \in Created \cup Layers \cup {None}
        /\ activated' \subseteq Toplevels /\ hidden' \subseteq Toplevels \cup Layers
    BY <1>5, ClearFocusLists
  <2>2. QED
    BY <1>1, <1>5, <2>1, ListsStay
<1>6. CASE /\ key \in DOMAIN Digits /\ FocusIfNew(Numbered(Digits[key]), None)
           /\ UNCHANGED <<stack, shelf>>
  <2>1. Digits[key] \in 1..3
    BY <1>6 DEF Digits
  <2>2. CASE Numbered(Digits[key]) # None
    BY <1>2, <1>6, <2>1, <2>2, NumberedListed DEF FocusIfNew
  <2>3. CASE Numbered(Digits[key]) = None
    BY <1>3, <1>6, <2>3 DEF FocusIfNew
  <2>4. QED
    BY <2>2, <2>3
<1>7. CASE /\ key = "j" /\ FocusIfNew(Down(focus), focus)
           /\ UNCHANGED <<stack, shelf>>
  <2>1. CASE Down(focus) # focus
    <3>1. focus \in Toplevels => focus \in Created
      BY DEF Listed
    <3>2. Down(focus) \in Toplevels => Down(focus) \in Created
      BY <2>1, <3>1, DownListed
    <3>3. QED
      BY <1>2, <1>7, <2>1, <3>2 DEF FocusIfNew
  <2>2. CASE Down(focus) = focus
    BY <1>3, <1>7, <2>2 DEF FocusIfNew
  <2>3. QED
    BY <2>1, <2>2
<1>8. CASE /\ key = "k" /\ Up(focus) # None /\ FocusOn(Up(focus))
           /\ UNCHANGED <<stack, shelf>>
  <2>1. focus \in Toplevels => focus \in Created
    BY DEF Listed
  <2>2. Up(focus) \in Toplevels => Up(focus) \in Created
    BY <2>1, UpListed
  <2>3. QED
    BY <1>2, <1>8, <2>2
<1>9. CASE /\ key \in {"n", "p"} /\ Restack(IF key = "n" THEN -1 ELSE 1)
           /\ UNCHANGED <<focus, activated, hidden>>
  <2> DEFINE d == IF key = "n" THEN -1 ELSE 1
  <2>1. d \in {-1, 1} /\ Restack(d)
    BY <1>9
  <2> HIDE DEF d
  <2>2. Stacking /\ Shelving /\ (focus \in Toplevels => focus \in Created)
    BY DEF Listed
  <2>3. Stacking' /\ Shelving' /\ \A x : Contains(stack', x) <=> Contains(stack, x)
    BY <2>1, <2>2, RestackLists
  <2>4. QED
    BY <1>9, <2>3, StackChanges
<1>10. QED
  BY <1>4, <1>5, <1>6, <1>7, <1>8, <1>9 DEF Shortcut

LEMMA KeyboardLists ==
  ASSUME Listed, SurfacesOK, KeyboardNext
  PROVE  Listed' /\ SurfacesOK'
<1>1. ASSUME UNCHANGED <<stack, shelf, focus, activated, hidden, mapped, popups>>
      PROVE  Listed' /\ SurfacesOK'
  BY <1>1 DEF Listed, SurfacesOK, Stacking, Shelving, Created
<1>2. ASSUME NEW key \in Keys, NEW grabbed \in BOOLEAN, NEW serving \in BOOLEAN,
             Press(key, grabbed, serving)
      PROVE  Listed' /\ SurfacesOK'
  <2>1. Shortcut(key) \/ Unfocused
    BY <1>2 DEF Press
  <2>2. UNCHANGED <<mapped, popups>>
    BY <1>2 DEF Press
  <2>3. QED
    BY <1>1, <2>1, <2>2, ShortcutLists DEF Unfocused
<1>3. ASSUME NEW key \in Keys, NEW grabbed \in BOOLEAN, Release(key, grabbed)
      PROVE  Listed' /\ SurfacesOK'
  BY <1>1, <1>3 DEF Release, focusVars
<1>4. QED
  BY <1>2, <1>3 DEF KeyboardNext

LEMMA SurfaceLists ==
  ASSUME Listed, SurfacesOK, SurfaceNext
  PROVE  Listed' /\ SurfacesOK'
<1>1. /\ focus \in Created \cup Layers \cup {None} /\ mapped \subseteq Created
      /\ popups \subseteq Popups /\ activated \subseteq Toplevels
      /\ hidden \subseteq Toplevels \cup Layers /\ Created \subseteq Toplevels
      /\ Stacking /\ Shelving
      /\ stack \in Seq(Toplevels \cup Strangers) /\ IsInjective(stack)
  BY DEF Listed, SurfacesOK, Created, Stacking
<1>2. ASSUME NEW t \in Toplevels, NewToplevel(t) PROVE Listed' /\ SurfacesOK'
  <2>1. ~Contains(stack, t) /\ stack' = Append(stack, t)
        /\ UNCHANGED <<shelf, mapped, popups, focus, activated, hidden>>
    BY <1>2 DEF NewToplevel, Created
  <2>2. /\ stack' \in Seq(Toplevels \cup Strangers) /\ IsInjective(stack')
        /\ \A x : Contains(stack', x) <=> Contains(stack, x) \/ x = t
    BY <1>1, <2>1, AddedList
  <2>3. Stacking' /\ Shelving'
    BY <1>1, <2>1, <2>2 DEF Stacking, Shelving
  <2>4. QED
    BY <2>1, <2>2, <2>3, StackChanges
<1>3. ASSUME NEW t \in Toplevels, MapToplevel(t) PROVE Listed' /\ SurfacesOK'
  <2>1. t \in Created /\ mapped' = mapped \cup {t} /\ FocusOn(t) /\ UNCHANGED <<stack, shelf, popups>>
    BY <1>3 DEF MapToplevel, FocusOn
  <2>2. /\ focus' \in Created \cup Layers \cup {None}
        /\ activated' \subseteq Toplevels /\ hidden' \subseteq Toplevels \cup Layers
    BY <2>1, FocusOnLists
  <2>3. QED
    BY <1>1, <2>1, <2>2, ListsStay
<1>4. ASSUME NEW p \in Popups, NewPopup(p) PROVE Listed' /\ SurfacesOK'
  <2>1. popups' = popups \cup {p} /\ UNCHANGED <<stack, shelf, mapped, focus, activated, hidden>>
    BY <1>4 DEF NewPopup
  <2>2. QED
    BY <1>1, <2>1, ListsStay
<1>5. ASSUME Shelving', UNCHANGED <<stack, mapped, popups>>, focus' \in {focus, None},
             activated' \subseteq activated, hidden' \subseteq hidden
      PROVE  Listed' /\ SurfacesOK'
  <2>1. Stacking'
    BY <1>1, <1>5 DEF Stacking
  <2>2. QED
    BY <1>5, <2>1, StackChanges
<1>6. ASSUME NEW l \in Layers, NEW x \in Shelves, NewLayer(l, x) \/ MoveLayer(l, x)
      PROVE  Listed' /\ SurfacesOK'
  <2>1. Shelving'
    BY <1>1, <1>6, NewLayerLists, MoveLayerLists
  <2>2. UNCHANGED <<stack, mapped, popups, focus, activated, hidden>>
    BY <1>6 DEF NewLayer, MoveLayer
  <2>3. QED
    BY <1>5, <2>1, <2>2
<1>7. ASSUME NEW l \in Layers, DestroyLayer(l) PROVE Listed' /\ SurfacesOK'
  <2>1. Shelving'
    BY <1>1, <1>7, DestroyLayerLists
  <2>2. /\ UNCHANGED <<stack, mapped, popups, activated>>
        /\ focus' \in {focus, None} /\ hidden' \subseteq hidden
    BY <1>7 DEF DestroyLayer
  <2>3. QED
    BY <1>5, <2>1, <2>2
<1>8. ASSUME NEW e \in Strangers, MapStranger(e) PROVE Listed' /\ SurfacesOK'
  <2>1. /\ stack' = IF Contains(stack, e) THEN RemoveFirst(stack, e) ELSE Append(stack, e)
        /\ UNCHANGED <<shelf, mapped, popups, focus, activated, hidden>>
    BY <1>8 DEF MapStranger
  <2>2. /\ stack' \in Seq(Toplevels \cup Strangers) /\ IsInjective(stack')
        /\ \A x : Contains(stack, x) /\ x # e => Contains(stack', x)
    <3>1. CASE Contains(stack, e)
      BY <1>1, <2>1, <3>1, RemovedList
    <3>2. CASE ~Contains(stack, e)
      BY <1>1, <2>1, <3>2, AddedList
    <3>3. QED
      BY <3>1, <3>2
  <2>3. Stacking' /\ Shelving'
    BY <1>1, <2>1, <2>2 DEF Stacking, Shelving
  <2>4. \A t \in mapped' \cup {focus'} : t # e
    BY <1>1, <2>1, FocusAssumption DEF FocusAssumption, Surfaces
  <2>5. QED
    BY <2>1, <2>2, <2>3, <2>4, StackChanges
<1>9. QED
  BY <1>2, <1>3, <1>4, <1>6, <1>7, <1>8 DEF SurfaceNext, SurfaceStep

LEMMA PointerLists ==
  ASSUME Listed, SurfacesOK, PointerNext
  PROVE  Listed' /\ SurfacesOK'
<1>1. /\ focus \in Created \cup Layers \cup {None} /\ mapped \subseteq Created
      /\ popups \subseteq Popups /\ activated \subseteq Toplevels
      /\ hidden \subseteq Toplevels \cup Layers /\ Created \subseteq Toplevels
      /\ Stacking /\ Shelving
      /\ stack \in Seq(Toplevels \cup Strangers) /\ IsInjective(stack)
  BY DEF Listed, SurfacesOK, Created, Stacking
<1>2. ASSUME UNCHANGED <<stack, shelf, focus, activated, hidden>>, mapped' \subseteq mapped,
             popups' \subseteq popups
      PROVE  Listed' /\ SurfacesOK'
  BY <1>1, <1>2, ListsStay
<1>3. ASSUME NEW s \in Surfaces \cup {None}, ButtonGrabs(s) PROVE Listed' /\ SurfacesOK'
  <2>1. UNCHANGED <<stack, shelf, mapped, popups>>
    BY <1>3 DEF ButtonGrabs
  <2>2. /\ focus' \in Created \cup Layers \cup {None}
        /\ activated' \subseteq Toplevels /\ hidden' \subseteq Toplevels \cup Layers
    <3>1. CASE s = None
      BY <1>3, <3>1, ClearFocusLists DEF ButtonGrabs
    <3>2. CASE s # None
      <4>1. FocusOn(Focusable(s)) /\ s \in Visible(mapped, popups, hidden)
        BY <1>3, <3>2 DEF ButtonGrabs
      <4>2. Focusable(s) \in Toplevels => Focusable(s) \in mapped
        <5>1. CASE s \in Popups \cup Subsurfaces
          <6>1. ParentOf[s] \in mapped
            BY <4>1, <5>1, FocusAssumption, <1>1, KindsApart
            DEF Visible, Shelved, FocusAssumption
          <6>2. QED
            BY <5>1, <6>1 DEF Focusable
        <5>2. CASE s \notin Popups \cup Subsurfaces
          BY <1>1, <4>1, <5>2, KindsApart DEF Focusable, Visible, Shelved
        <5>3. QED
          BY <5>1, <5>2
      <4>3. QED
        BY <1>1, <4>1, <4>2, FocusOnLists
    <3>3. QED
      BY <3>1, <3>2
  <2>3. QED
    BY <1>1, <2>1, <2>2, ListsStay
<1>4. ASSUME NEW t \in Toplevels, DestroyToplevel(t) PROVE Listed' /\ SurfacesOK'
  <2>1. /\ t \notin mapped /\ stack' = RemoveFirst(stack, t)
        /\ focus' = IF focus = t THEN None ELSE focus
        /\ activated' = activated \ {t} /\ hidden' = hidden \ {t}
        /\ UNCHANGED <<shelf, mapped, popups>>
    BY <1>4 DEF DestroyToplevel
  <2>2. /\ stack' \in Seq(Toplevels \cup Strangers) /\ IsInjective(stack')
        /\ \A x : Contains(stack', x) <=> Contains(stack, x) /\ x # t
    BY <1>1, <2>1, RemovedList
  <2>3. Stacking' /\ Shelving'
    BY <1>1, <2>1, <2>2 DEF Stacking, Shelving
  <2>4. \A u \in mapped' \cup {focus'} : u # t
    BY <1>4, <2>1, KindsApart
  <2>5. QED
    BY <2>1, <2>2, <2>3, <2>4, StackChanges
<1>5. QED
  BY <1>2, <1>3, <1>4
  DEF PointerNext, Motion, ButtonUngrabs, RequestMove, RequestResize, StartDrag,
      UnmapToplevel, DestroyPopup, focusVars

-----------------------------------------------------------------------------
(* What the closures and the keys are. *)

LEMMA CallOnUnmapTyped ==
  ASSUME PointerTypeOK, NEW surface, NEW s \in Surfaces \cup {None}, CallOnUnmap(surface, s)
  PROVE  PointerTypeOK'
<1>1. CASE onUnmap.does = "none" \/ onUnmap.of # surface
  BY <1>1 DEF CallOnUnmap, pointerVars, PointerTypeOK
<1>2. CASE ~(onUnmap.does = "none" \/ onUnmap.of # surface)
  BY <1>2 DEF CallOnUnmap, UngrabPointer, PointAt, PointerTypeOK, Forward, Grab, NoUnmap, Closure
<1>3. QED
  BY <1>1, <1>2

LEMMA PointerTyped ==
  ASSUME SurfacesOK, mapped \subseteq Toplevels, PointerTypeOK, PointerNext
  PROVE  PointerTypeOK'
<1>0. Toplevels \subseteq Surfaces
  BY DEF Surfaces
<1>1. ASSUME NEW s \in Surfaces \cup {None}, Motion(s) PROVE PointerTypeOK'
  BY <1>1 DEF Motion, PointAt, PointerTypeOK
<1>2. ASSUME NEW s \in Surfaces \cup {None}, ButtonGrabs(s) PROVE PointerTypeOK'
  <2>1. UNCHANGED <<resizing, pointed, early>>
    BY <1>2 DEF ButtonGrabs
  <2>2. CASE s # None
    <3>1. Hold(s)
      BY <1>2, <2>2 DEF ButtonGrabs
    <3>2. QED
      BY <2>1, <3>1 DEF Hold, PointerTypeOK, Closure, Ungrab
  <2>3. CASE s = None
    <3>1. UNCHANGED <<onMotion, onButton, onUnmap>>
      BY <1>2, <2>3 DEF ButtonGrabs
    <3>2. QED
      BY <2>1, <3>1 DEF PointerTypeOK
  <2>4. QED
    BY <2>2, <2>3
<1>3. ASSUME NEW s \in Surfaces \cup {None}, ButtonUngrabs(s) PROVE PointerTypeOK'
  BY <1>3 DEF ButtonUngrabs, UngrabPointer, PointAt, PointerTypeOK, Forward, Grab, NoUnmap, Closure
<1>4. ASSUME NEW t \in Toplevels, RequestMove(t) PROVE PointerTypeOK'
  BY <1>0, <1>4 DEF RequestMove, EarlyIf, PointerTypeOK, Closure, Ungrab
<1>5. ASSUME NEW t \in Toplevels, RequestResize(t) PROVE PointerTypeOK'
  BY <1>0, <1>5 DEF RequestResize, EarlyIf, PointerTypeOK, Closure
<1>6. ASSUME NEW t \in Toplevels, DestroyToplevel(t) PROVE PointerTypeOK'
  BY <1>6 DEF DestroyToplevel, PointerTypeOK
<1>7. ASSUME StartDrag PROVE PointerTypeOK'
  BY <1>7 DEF StartDrag, PointerTypeOK, Forward, Closure
<1>8. ASSUME NEW t \in Toplevels, NEW s \in Surfaces \cup {None}, UnmapToplevel(t, s)
      PROVE  PointerTypeOK'
  BY <1>8, CallOnUnmapTyped DEF UnmapToplevel
<1>9. ASSUME NEW p \in Popups, NEW s \in Surfaces \cup {None}, DestroyPopup(p, s)
      PROVE  PointerTypeOK'
  BY <1>9, CallOnUnmapTyped DEF DestroyPopup
<1>10. QED
  BY <1>1, <1>2, <1>3, <1>4, <1>5, <1>6, <1>7, <1>8, <1>9 DEF PointerNext

LEMMA SurfacesPointer ==
  ASSUME PointerTypeOK, SurfaceNext PROVE PointerTypeOK'
<1>1. UNCHANGED <<onMotion, onButton, onUnmap, resizing>> /\ pointed' \in {pointed, None}
      /\ early' \in {early, None}
  BY DEF SurfaceNext, SurfaceStep
<1>2. QED
  BY <1>1 DEF PointerTypeOK

LEMMA KeysTyped ==
  ASSUME KeyTypeOK, KeyboardNext PROVE KeyTypeOK'
<1>1. ASSUME NEW grabbed \in BOOLEAN, PassOn(grabbed)
      PROVE  sent' \in {NotSent, "seat", "grab"}
  BY <1>1 DEF PassOn
<1>2. \A key \in Keys : Symbol(key) \in [key : Keys, shifted : BOOLEAN]
  BY DEF Symbol
<1>3. ASSUME NEW key \in Keys, NEW grabbed \in BOOLEAN, NEW serving \in BOOLEAN,
             Press(key, grabbed, serving)
      PROVE  KeyTypeOK'
  <2>1. /\ held' = held \cup {key} /\ passed' \subseteq passed \cup {key}
        /\ strayed' \in BOOLEAN
    BY <1>3 DEF Press, Strays
  <2>2. CASE UNCHANGED <<grabbing, kept>> /\ sent' = NotSent
    BY <2>1, <2>2 DEF KeyTypeOK
  <2>3. CASE UNCHANGED <<grabbing, kept>> /\ PassOn(grabbed)
    BY <1>1, <2>1, <2>3 DEF KeyTypeOK
  <2>4. CASE sent' = NotSent /\ grabbing' = Symbol(key) /\ kept' = kept \cup {key}
    BY <1>2, <2>1, <2>4 DEF KeyTypeOK
  <2>5. QED
    BY <1>3, <2>2, <2>3, <2>4 DEF Press
<1>4. ASSUME NEW key \in Keys, NEW grabbed \in BOOLEAN, Release(key, grabbed) PROVE KeyTypeOK'
  <2>1. /\ held' = held \ {key} /\ kept' = kept \ {key} /\ passed' = passed \ {key}
        /\ strayed' \in BOOLEAN
    BY <1>4 DEF Release, Strays
  <2>2. CASE grabbing' = NoSymbol /\ sent' = NotSent
    BY <2>1, <2>2 DEF KeyTypeOK
  <2>3. CASE PassOn(grabbed) /\ UNCHANGED grabbing
    BY <1>1, <2>1, <2>3 DEF KeyTypeOK
  <2>4. QED
    BY <1>4, <2>2, <2>3 DEF Release
<1>5. QED
  BY <1>3, <1>4 DEF KeyboardNext

SeatInv == Listed /\ SurfacesOK /\ PointerTypeOK /\ KeyTypeOK

LEMMA SeatStarts == Init => SeatInv
<1>. SUFFICES ASSUME Init PROVE SeatInv
  OBVIOUS
<1>2. Stacking
  <2>1. stack = <<>>
    BY DEF Init
  <2>2. DOMAIN stack = 1..0
    BY <2>1
  <2>3. IsInjective(stack)
    BY <2>2 DEF IsInjective
  <2>4. QED
    BY <2>1, <2>3 DEF Stacking
<1>3. Shelving
  <2>1. shelf = [x \in Shelves |-> [o \in 1..NOutputs |-> <<>>]]
    BY DEF Init
  <2>2. \A x \in Shelves, o \in 1..NOutputs : shelf[x][o] = <<>>
    BY <2>1
  <2>3. IsInjective(<<>>) /\ \A l : ~Contains(<<>>, l)
    BY DEF IsInjective, Contains
  <2>4. shelf \in [Shelves -> [1..NOutputs -> Seq(Layers)]]
    BY <2>1
  <2>5. QED
    BY <2>2, <2>3, <2>4 DEF Shelving
<1>4. Listed /\ SurfacesOK
  BY <1>2, <1>3, KindsApart DEF Listed, SurfacesOK, Init
<1>5. PointerTypeOK
  BY DEF Init, PointerInit, PointerTypeOK, Forward, Grab, NoUnmap, Closure
<1>6. KeyTypeOK
  BY DEF Init, KeyInit, KeyTypeOK
<1>7. QED
  BY <1>4, <1>5, <1>6 DEF SeatInv

LEMMA SeatStays == SeatInv /\ [Next]_vars => SeatInv'
<1>. SUFFICES ASSUME SeatInv, [Next]_vars PROVE SeatInv'
  OBVIOUS
<1>2. mapped \subseteq Toplevels
  BY DEF SeatInv, Listed, Created
<1>3. ASSUME UNCHANGED pointerVars PROVE PointerTypeOK'
  BY <1>3 DEF SeatInv, PointerTypeOK, pointerVars
<1>4. ASSUME UNCHANGED heldVars, sent' = NotSent PROVE KeyTypeOK'
  BY <1>4 DEF SeatInv, KeyTypeOK, heldVars
<1>5. CASE SurfaceNext
  <2>1. UNCHANGED heldVars /\ sent' = NotSent
    BY <1>5 DEF SurfaceNext
  <2>2. QED
    BY <1>4, <1>5, <2>1, SurfaceLists, SurfacesPointer DEF SeatInv
<1>6. CASE PointerNext /\ sent' = NotSent /\ UNCHANGED heldVars
  BY <1>2, <1>4, <1>6, PointerLists, PointerTyped DEF SeatInv
<1>7. CASE KeyboardNext /\ UNCHANGED pointerVars
  BY <1>3, <1>7, KeyboardLists, KeysTyped DEF SeatInv
<1>8. CASE UNCHANGED vars
  <2>1. UNCHANGED <<stack, shelf, mapped, popups, focus, activated, hidden>> /\ UNCHANGED pointerVars
        /\ UNCHANGED <<held, grabbing, kept, passed, strayed, sent>>
    BY <1>8 DEF vars, focusVars, keyVars, heldVars
  <2>2. Listed' /\ SurfacesOK'
    BY <2>1 DEF SeatInv, Listed, SurfacesOK, Stacking, Shelving, Created
  <2>3. KeyTypeOK'
    BY <2>1 DEF SeatInv, KeyTypeOK
  <2>4. QED
    BY <1>3, <2>1, <2>2, <2>3 DEF SeatInv
<1>9. QED
  BY <1>5, <1>6, <1>7, <1>8 DEF Next

(* For any number of surfaces and outputs: key k undoes key j, the digits  *)
(* count what j walks, and every list they walk has each window once.      *)
THEOREM WalksCorrect == Spec => []WalksAgree
<1>1. SeatInv => WalksAgree
  <2>. SUFFICES ASSUME SeatInv PROVE WalksAgree
    OBVIOUS
  <2>2. Stacking /\ Shelving
    BY DEF SeatInv, Listed
  <2>3. TypeOK
    <3>1. ListedOnce
      BY <2>2, ListsAreOnce
    <3>2. mapped \subseteq Toplevels
      BY DEF SeatInv, Listed, Created
    <3>3. QED
      BY <2>2, <3>1, <3>2 DEF SeatInv, Listed, SurfacesOK, Stacking, Shelving, TypeOK
  <2>4. QED
    BY <2>2, <2>3, UpUndoes, DigitsFollow DEF WalksAgree
<1>2. QED
  BY <1>1, SeatStarts, SeatStays, PTL DEF Spec
=============================================================================
