------------------------------ MODULE Keyboard ------------------------------
(***************************************************************************)
(* A keyboard of the compositor: the key listener of t_keyboard, with all  *)
(* of its shortcuts (wm/main.cc).  A key that acts as a shortcut is kept   *)
(* for the compositor until it is released; any other goes to the input    *)
(* method's grab, if there is one, or else to the focused surface.         *)
(***************************************************************************)
EXTENDS Focus

CONSTANTS
  Keys,   \* what the user presses, by the symbol on the key
  MaxHeld \* a bound: the keys held at once

ASSUME KeyAssumption == None \notin Keys /\ MaxHeld \in Nat

VARIABLES
  held,     \* keys that are down
  grabbing, \* v_grabbing
  sent,     \* whom the last event was passed on to as a key event, if anyone
  \* for the properties:
  kept,     \* keys that are down and whose press was the compositor's
  passed,   \* keys that are down and whose press was passed on
  strayed   \* shift has gone down or up since v_grabbing was set

heldVars == <<held, grabbing, kept, passed, strayed>>
keyVars == <<heldVars, sent>>

(* xkb_state_key_get_one_sym *)
Symbol(key) == [key |-> key, shifted |-> "shift" \in held /\ key # "shift"]
NoSymbol == [key |-> None, shifted |-> FALSE]

NotSent == "none"

KeyTypeOK ==
  /\ held \subseteq Keys
  /\ grabbing \in [key : Keys, shifted : BOOLEAN] \cup {NoSymbol}
  /\ kept \subseteq held /\ passed \subseteq held
  /\ strayed \in BOOLEAN
  /\ sent \in {NotSent, "seat", "grab"}

KeyInit ==
  /\ held = {} /\ grabbing = NoSymbol /\ sent = NotSent
  /\ kept = {} /\ passed = {} /\ strayed = FALSE

Digits == [d \in {"1", "2", "3"} |-> CASE d = "1" -> 1 [] d = "2" -> 2 [] d = "3" -> 3]

-----------------------------------------------------------------------------
(* What a walk has found is focused, unless it has found what it began at. *)
FocusIfNew(s, from) ==
  IF s # from THEN FocusOn(s) ELSE UNCHANGED <<focus, activated, hidden>>

(* The switch over v_grabbing, with the LOGO modifier.  Escape, which ends *)
(* the compositor, is left out.                                            *)
Shortcut(key) ==
  \/ /\ key = "h" /\ ToggleHidden
     /\ UNCHANGED <<stack, shelf, focus, activated>>
  \/ /\ key = "0" /\ ClearFocus
     /\ UNCHANGED <<stack, shelf>>
  \/ /\ key \in DOMAIN Digits /\ FocusIfNew(Numbered(Digits[key]), None)
     /\ UNCHANGED <<stack, shelf>>
  \/ /\ key = "j" /\ FocusIfNew(Down(focus), focus)
     /\ UNCHANGED <<stack, shelf>>
  \/ /\ key = "k" /\ Up(focus) # None /\ FocusOn(Up(focus))
     /\ UNCHANGED <<stack, shelf>>
  \/ /\ key = "k" /\ Up(focus) = None /\ ClearFocus
     /\ UNCHANGED <<stack, shelf>>
  \/ /\ key \in {"n", "p"} /\ Restack(IF key = "n" THEN -1 ELSE 1)
     /\ UNCHANGED <<focus, activated, hidden>>

Shortcuts == {"h", "0", "j", "k", "n", "p"} \cup DOMAIN Digits

(* With the LOGO modifier, and neither shift nor another shortcut.         *)
Takes(key) == "logo" \in held /\ key \in Shortcuts /\ ~Symbol(key).shifted

(* The toggle keys, whose symbol is theirs without shift only.             *)
Toggles(key, serving) == key = "toggle" /\ serving /\ ~Symbol(key).shifted

Unfocused == UNCHANGED <<stack, shelf, focus, activated, hidden>>

(* The end of the listener: the key is passed on, grabbed being whether    *)
(* the input method has a keyboard grab.                                   *)
PassOn(grabbed) ==
  sent' = IF focus \in hidden THEN NotSent ELSE IF grabbed THEN "grab" ELSE "seat"

Strays(key) ==
  strayed' = (grabbing' # NoSymbol /\ (strayed \/ key = "shift"))

(* A key goes down.  The toggle keys do what ImServer says if there is an  *)
(* input method and a text input it serves.                                *)
Press(key, grabbed, serving) ==
  /\ key \in Keys \ held /\ Cardinality(held) < MaxHeld
  /\ held' = held \cup {key}
  /\ \/ /\ grabbing # NoSymbol
        /\ Unfocused
        /\ sent' = NotSent
        /\ UNCHANGED <<grabbing, kept>>
     \/ /\ grabbing = NoSymbol
        /\ \/ Takes(key) /\ Shortcut(key)
           \/ ~Takes(key) /\ Toggles(key, serving) /\ Unfocused
        /\ sent' = NotSent
        /\ grabbing' = Symbol(key)
        /\ kept' = kept \cup {key}
     \/ /\ grabbing = NoSymbol
        /\ ~Takes(key) /\ ~Toggles(key, serving)
        /\ Unfocused
        /\ PassOn(grabbed)
        /\ UNCHANGED <<grabbing, kept>>
  /\ passed' = IF sent' = NotSent THEN passed ELSE passed \cup {key}
  /\ Strays(key)
  /\ UNCHANGED <<mapped, popups>>

(* A mutant: any key that is released ends a shortcut. *)
ReleaseAny(key, grabbed) ==
  /\ key \in held
  /\ held' = held \ {key}
  /\ kept' = kept \ {key} /\ passed' = passed \ {key}
  /\ IF grabbing # NoSymbol
     THEN grabbing' = NoSymbol /\ sent' = NotSent
     ELSE PassOn(grabbed) /\ UNCHANGED grabbing
  /\ Strays(key)
  /\ UNCHANGED focusVars

(* A mutant: the symbol of the shortcut is not forgotten. *)
ReleaseStaying(key, grabbed) ==
  /\ key \in held
  /\ held' = held \ {key}
  /\ kept' = kept \ {key} /\ passed' = passed \ {key}
  /\ IF grabbing = Symbol(key) THEN sent' = NotSent
     ELSE PassOn(grabbed)
  /\ UNCHANGED <<focusVars, grabbing>>
  /\ Strays(key)

(* A key goes up. *)
Release(key, grabbed) ==
  /\ key \in held
  /\ held' = held \ {key}
  /\ kept' = kept \ {key} /\ passed' = passed \ {key}
  /\ IF grabbing = Symbol(key)
     THEN grabbing' = NoSymbol /\ sent' = NotSent
     ELSE PassOn(grabbed) /\ UNCHANGED grabbing
  /\ Strays(key)
  /\ UNCHANGED focusVars

KeyboardNext ==
  \/ \E key \in Keys, grabbed, serving \in BOOLEAN : Press(key, grabbed, serving)
  \/ \E key \in Keys, grabbed \in BOOLEAN : Release(key, grabbed)
=============================================================================
