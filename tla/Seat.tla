-------------------------------- MODULE Seat --------------------------------
(***************************************************************************)
(* The seat of the compositor: its pointer, its keyboard and the surfaces  *)
(* they act on, together (wm/main.cc), and what must hold of them.         *)
(***************************************************************************)
EXTENDS Pointer, Keyboard

vars == <<focusVars, pointerVars, keyVars>>

(* A toplevel is in the tree once, and a layer surface in one layer of one *)
(* output: the walks of the shortcuts follow these lists.                  *)
ListedOnce ==
  /\ IsInjective(stack)
  /\ \A x, y \in Shelves, o, q \in 1..NOutputs :
       \A i \in DOMAIN shelf[x][o], j \in DOMAIN shelf[y][q] :
         shelf[x][o][i] = shelf[y][q][j] => x = y /\ o = q /\ i = j

TypeOK ==
  /\ stack \in Seq(Toplevels \cup Strangers)
  /\ shelf \in [Shelves -> [1..NOutputs -> Seq(Layers)]]
  /\ mapped \subseteq Toplevels
  /\ popups \subseteq Popups
  /\ focus \in Toplevels \cup Layers \cup {None}
  /\ activated \subseteq Toplevels
  /\ hidden \subseteq Toplevels \cup Layers
  /\ ListedOnce
  /\ PointerTypeOK
  /\ KeyTypeOK

Init ==
  /\ stack = <<>>
  /\ shelf = [x \in Shelves |-> [o \in 1..NOutputs |-> <<>>]]
  /\ mapped = {} /\ popups = {}
  /\ focus = None /\ activated = {} /\ hidden = {}
  /\ PointerInit
  /\ KeyInit

(* Surfaces come, go and move without the pointer. *)
SurfaceStep ==
  \/ /\ \/ \E t \in Toplevels : NewToplevel(t)
        \/ \E p \in Popups : NewPopup(p)
        \/ \E l \in Layers, x \in Shelves : NewLayer(l, x) \/ MoveLayer(l, x)
        \/ \E n \in Strangers : MapStranger(n)
     /\ UNCHANGED <<pointed, early>>
  \/ \E t \in Toplevels :
       /\ MapToplevel(t)
       /\ early' = IF early = t THEN None ELSE early
       /\ UNCHANGED pointed
  \/ \E l \in Layers :
       /\ DestroyLayer(l)
       /\ pointed' = IF pointed = l THEN None ELSE pointed
       /\ UNCHANGED early

SurfaceNext ==
  /\ SurfaceStep
  /\ sent' = NotSent
  /\ UNCHANGED <<onMotion, onButton, onUnmap, resizing, heldVars>>

Next ==
  \/ SurfaceNext
  \/ PointerNext /\ sent' = NotSent /\ UNCHANGED heldVars
  \/ KeyboardNext /\ UNCHANGED pointerVars

Spec == Init /\ [][Next]_vars

(* The same with the pointer at rest: toplevels still come and go. *)
KeyboardOnly ==
  \/ SurfaceNext
  \/ /\ \E t \in Toplevels : UnmapToplevel(t, None) \/ DestroyToplevel(t)
     /\ sent' = NotSent
     /\ UNCHANGED heldVars
  \/ KeyboardNext /\ UNCHANGED pointerVars

KeyboardSpec == Init /\ [][KeyboardOnly]_vars

-----------------------------------------------------------------------------
(* The pointer.                                                            *)

(* No closure keeps a popup that is gone, nor a toplevel that is not       *)
(* mapped unless it asked to be moved or resized when it was not: every    *)
(* closure follows pointers into what it has captured, and an unmapping is *)
(* all that ends it.  Nothing of the kind holds of layer surfaces and      *)
(* subsurfaces, which v_on_unmap is never called for.                      *)
HeldExists ==
  \A c \in {onMotion, onButton, onUnmap} :
    /\ c.of \in Toplevels => c.of \in mapped \cup {early}
    /\ c.of \in Popups => c.of \in popups

(* The three closures are replaced together: while the pointer is free,    *)
(* all are the ordinary ones, and otherwise the handler of unmappings      *)
(* watches the surface the others have captured.                           *)
GrabIsWhole ==
  /\ (onButton = Grab) <=> (onUnmap = NoUnmap)
  /\ onButton = Grab => onMotion = Forward
  /\ \A c \in {onMotion, onButton} : c.of # None => c.of = onUnmap.of

(* The keyboard focus.                                                     *)

(* Exactly the toplevel with the keyboard focus looks active, whichever of *)
(* the shortcuts, clicks, mappings and destructions moved it.              *)
ActivatedIffFocused == activated = {focus} \cap Toplevels

(* Key k undoes key j, across toplevels, outputs and layers. *)
UpUndoesDown ==
  \A f \in Created \cup {None} \cup {l \in Interactive : Contains(Row("bottom"), l)} :
    Down(f) # f => Up(Down(f)) = f

(* Counting down with a digit finds what key j finds, pressed that often. *)
DigitsFollowDown ==
  LET walk[n \in 0..3] == IF n = 0 THEN None ELSE Down(walk[n - 1])
      new(n) == n = 1 \/ walk[n] # walk[n - 1]
  IN \A n \in 1..3 :
       Numbered(n) = IF walk[n] # None /\ \A m \in 1..n : new(m) THEN walk[n]
                     ELSE None

(* The keys that walk over the windows agree, and every list they walk has *)
(* each window once.                                                       *)
WalksAgree == TypeOK /\ UpUndoesDown /\ DigitsFollowDown

(* The keyboard.                                                           *)

(* The keyboard ignores presses only while the key of a shortcut is held,  *)
(* or after shift has gone down or up while it was: then the symbol of its *)
(* release may be another, v_grabbing outlives the key, and no key is taken *)
(* until it is pressed and released once more without shift.               *)
GrabbingIsHeld == grabbing # NoSymbol => grabbing.key \in kept \/ strayed

(* A release follows its press, whatever has been pressed, focused, hidden *)
(* or made into a shortcut in between: that of a shortcut is not passed on, *)
(* unless shift is down by then; and one whose press was passed on is, to  *)
(* whoever has the keyboard by then, unless that surface is hidden.        *)
ReleasesFollow ==
  [][\A key \in held \ held' :
       /\ key \in kept /\ "shift" \notin held => sent' = NotSent
       /\ key \in passed /\ focus \notin hidden => sent' # NotSent]_vars
=============================================================================
