------------------------------- MODULE Focus -------------------------------
(***************************************************************************)
(* Which surface of the compositor has the keyboard focus, and what is     *)
(* above what: t_focusable and its two implementations, the scene lists    *)
(* that the shortcuts walk through, and the life of toplevels, popups and  *)
(* layer surfaces (wm/main.cc).  The seat is wlroots': it drops a surface  *)
(* that is destroyed.  There is a keyboard from the start.                 *)
(***************************************************************************)
EXTENDS Integers, Sequences, SequencesExt

CONSTANTS
  Toplevels, Popups, Layers, Subsurfaces, \* surfaces
  ParentOf,     \* the toplevel of a popup or of a subsurface
  OutputOf,     \* the output of a layer surface, a position in v_outputs
  Interactive,  \* layer surfaces with keyboard interactivity
  Strangers,    \* nodes of v_tree without a t_focusable: the input method's
  NOutputs,
  None

Shelves == {"bottom", "top"}
Surfaces == Toplevels \cup Popups \cup Layers \cup Subsurfaces

ASSUME FocusAssumption ==
  /\ Toplevels \cap Popups = {} /\ Toplevels \cap Layers = {}
  /\ Popups \cap Layers = {} /\ Strangers \cap Surfaces = {}
  /\ Subsurfaces \cap (Toplevels \cup Popups \cup Layers) = {}
  /\ ParentOf \in [Popups \cup Subsurfaces -> Toplevels]
  /\ NOutputs \in Nat \ {0}
  /\ OutputOf \in [Layers -> 1..NOutputs]
  /\ Interactive \subseteq Layers
  /\ None \notin Surfaces \cup Strangers

VARIABLES
  stack,     \* v_tree's children, the bottom one first
  shelf,     \* the layers' children, of each output in turn
  mapped,    \* toplevels that are mapped
  popups,    \* popups there are
  focus,     \* keyboard_state.focused_surface
  activated, \* toplevels told to look active
  hidden     \* surfaces whose node is disabled

focusVars == <<stack, shelf, mapped, popups, focus, activated, hidden>>

Created == {t \in Toplevels : Contains(stack, t)}
Row(x) == FlattenSeq(shelf[x])
Shelved == {l \in Layers : \E x \in Shelves : Contains(Row(x), l)}

(* What can be under the cursor, or under the cursor first: any of the     *)
(* surfaces in the scene, a subsurface with its toplevel.                  *)
Visible(up, pops, hid) ==
  (up \ hid) \cup {p \in pops \cup Subsurfaces : ParentOf[p] \in up \ hid}
    \cup (Shelved \ hid)

(* t_server::f_focusable: the nodes of popups and of subsurfaces are below *)
(* their toplevel's.                                                       *)
Focusable(s) == IF s \in Popups \cup Subsurfaces THEN ParentOf[s] ELSE s

-----------------------------------------------------------------------------
(* wlr_xdg_toplevel_set_activated and the clearing of the focus, as key 0,  *)
(* key k and a click beside all surfaces do it.                            *)
ClearFocus ==
  /\ activated' = activated \ {focus}
  /\ focus' = None
  /\ UNCHANGED hidden

(* A mutant: the toplevel that loses the focus is not told. *)
FocusToplevelOnly(t) ==
  IF focus = t THEN UNCHANGED <<focus, activated, hidden>>
  ELSE /\ activated' = activated \cup {t}
       /\ focus' = t
       /\ hidden' = hidden \ {t}

(* t_toplevel::f_focus *)
FocusToplevel(t) ==
  IF focus = t THEN UNCHANGED <<focus, activated, hidden>>
  ELSE /\ activated' = (activated \ {focus}) \cup {t}
       /\ focus' = t
       /\ hidden' = hidden \ {t}

(* t_layer_surface::f_focus: one without interactivity takes it away. *)
FocusLayer(l) ==
  LET s == IF l \in Interactive THEN l ELSE None IN
  IF focus = s THEN UNCHANGED <<focus, activated, hidden>>
  ELSE /\ activated' = activated \ {focus}
       /\ focus' = s
       /\ hidden' = hidden \ {l}

FocusOn(s) ==
  IF s \in Toplevels THEN FocusToplevel(s) ELSE FocusLayer(s)

-----------------------------------------------------------------------------
(* find and find_layer: the next member of S before or after a position.   *)
LastBefore(seq, S, i) ==
  LET js == {j \in 1..(i - 1) : seq[j] \in S}
  IN IF js = {} THEN None ELSE seq[CHOOSE j \in js : \A k \in js : k <= j]

FirstAfter(seq, S, i) ==
  LET js == {j \in (i + 1)..Len(seq) : seq[j] \in S}
  IN IF js = {} THEN None ELSE seq[CHOOSE j \in js : \A k \in js : j <= k]

Place(seq, s) == CHOOSE i \in DOMAIN seq : seq[i] = s

(* find(&v_tree->children, prev) and find_layer from find_bottom_tree(). *)
Topmost == LastBefore(stack, Toplevels, Len(stack) + 1)
LastBottom == LastBefore(Row("bottom"), Interactive, Len(Row("bottom")) + 1)

(* What key j focuses from f: the toplevel below, or else the last layer   *)
(* surface of the bottom, or else nothing new.                             *)
Down(f) ==
  LET shelves == {x \in Shelves : Contains(Row(x), f)}
  IN IF shelves # {}
     THEN LET r == Row(CHOOSE x \in shelves : TRUE)
              l == LastBefore(r, Interactive, Place(r, f))
          IN IF l # None THEN l ELSE f
     ELSE LET i == IF f \in Toplevels THEN Place(stack, f) ELSE Len(stack) + 1
              t == LastBefore(stack, Toplevels, i)
          IN IF t # None THEN t
             ELSE IF LastBottom # None THEN LastBottom ELSE f

(* A mutant: from the layers to the topmost toplevel. *)
UpToTop(f) ==
  LET shelves == {x \in Shelves : Contains(Row(x), f)}
  IN CASE shelves # {} ->
            LET r == Row(CHOOSE x \in shelves : TRUE)
                l == FirstAfter(r, Interactive, Place(r, f))
            IN IF l # None THEN l ELSE Topmost
       [] f \in Toplevels -> FirstAfter(stack, Toplevels, Place(stack, f))
       [] OTHER -> None

(* What key k focuses from f: the surface above, or nothing. *)
Up(f) ==
  LET shelves == {x \in Shelves : Contains(Row(x), f)}
  IN CASE shelves # {} ->
            LET r == Row(CHOOSE x \in shelves : TRUE)
                l == FirstAfter(r, Interactive, Place(r, f))
            IN IF l # None THEN l ELSE FirstAfter(stack, Toplevels, 0)
       [] f \in Toplevels -> FirstAfter(stack, Toplevels, Place(stack, f))
       [] OTHER -> None

(* What a key from 1 to 9 focuses: n is counted down over the toplevels,   *)
(* and what remains of it over the layer surfaces of the bottom.           *)
Numbered(n) ==
  LET top[i \in 1..n] ==
        IF i = 1 THEN Topmost
        ELSE IF top[i - 1] = None THEN None
        ELSE LastBefore(stack, Toplevels, Place(stack, top[i - 1]))
      found == {i \in 1..n : top[i] # None}
      r == Row("bottom")
      bottom[i \in 1..n] ==
        IF i = 1 THEN LastBottom
        ELSE IF bottom[i - 1] = None THEN None
        ELSE LastBefore(r, Interactive, Place(r, bottom[i - 1]))
  IN IF top[n] # None THEN top[n] ELSE bottom[n - Cardinality(found)]

-----------------------------------------------------------------------------
(* Key n and key p: the focused node changes places with its neighbour, in *)
(* the tree it is in.                                                      *)
Exchanged(seq, i, j) == [seq EXCEPT ![i] = seq[j], ![j] = seq[i]]

Restack(d) ==
  IF focus \in Toplevels
  THEN LET i == Place(stack, focus) IN
       /\ stack' = IF i + d \in DOMAIN stack THEN Exchanged(stack, i, i + d)
                   ELSE stack
       /\ UNCHANGED shelf
  ELSE /\ shelf' = [x \in Shelves |-> [o \in 1..NOutputs |->
            LET seq == shelf[x][o]
                i   == Place(seq, focus)
            IN IF Contains(seq, focus) /\ i + d \in DOMAIN seq
               THEN Exchanged(seq, i, i + d) ELSE seq]]
       /\ UNCHANGED stack

(* space and h: the focused node is disabled or enabled. *)
ToggleHidden ==
  hidden' = IF focus = None THEN hidden
            ELSE IF focus \in hidden THEN hidden \ {focus} ELSE hidden \cup {focus}

-----------------------------------------------------------------------------
(* The life of surfaces, as far as the pointer has no part in it.          *)
NewToplevel(t) ==
  /\ t \notin Created
  /\ stack' = Append(stack, t)
  /\ UNCHANGED <<shelf, mapped, popups, focus, activated, hidden>>

MapToplevel(t) ==
  /\ t \in Created \ mapped
  /\ mapped' = mapped \cup {t}
  /\ FocusToplevel(t)
  /\ UNCHANGED <<stack, shelf, popups>>

NewPopup(p) ==
  /\ p \notin popups /\ ParentOf[p] \in mapped
  /\ popups' = popups \cup {p}
  /\ UNCHANGED <<stack, shelf, mapped, focus, activated, hidden>>

(* t_layer_surface::t_layer_surface, in the layer it was asked for. *)
NewLayer(l, x) ==
  /\ l \notin Shelved
  /\ shelf' = [shelf EXCEPT ![x][OutputOf[l]] = Append(@, l)]
  /\ UNCHANGED <<stack, mapped, popups, focus, activated, hidden>>

(* A commit of a layer surface that changes its layer. *)
MoveLayer(l, x) ==
  /\ l \in Shelved /\ ~Contains(Row(x), l)
  /\ shelf' = [y \in Shelves |-> [o \in 1..NOutputs |->
       IF y = x /\ o = OutputOf[l] THEN Append(shelf[y][o], l)
       ELSE RemoveFirst(shelf[y][o], l)]]
  /\ UNCHANGED <<stack, mapped, popups, focus, activated, hidden>>

(* The listener of the destruction of a layer surface, and wlroots. *)
DestroyLayer(l) ==
  /\ l \in Shelved
  /\ shelf' = [x \in Shelves |-> [o \in 1..NOutputs |->
       RemoveFirst(shelf[x][o], l)]]
  /\ focus' = IF focus = l THEN None ELSE focus
  /\ hidden' = hidden \ {l}
  /\ UNCHANGED <<stack, mapped, popups, activated>>

(* The input popup is mapped, and put on top of v_tree, or unmapped. *)
MapStranger(n) ==
  /\ stack' = IF Contains(stack, n) THEN RemoveFirst(stack, n)
              ELSE Append(stack, n)
  /\ UNCHANGED <<shelf, mapped, popups, focus, activated, hidden>>
=============================================================================
