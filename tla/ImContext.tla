----------------------------- MODULE ImContext -----------------------------
(***************************************************************************)
(* The input method process: t_context of im/main.cc.  What the engine     *)
(* makes of a key is left open here (module Engine has it): a key changes  *)
(* the composition, commits it, both in turn, or is handed back.           *)
(***************************************************************************)
EXTENDS ImWire, SequencesExt

Composed(n, t) ==
  [type |-> "commit", serial |-> n, preedit |-> t, forward |-> FALSE]
Frame == [type |-> "frame"]

(* The process starts: get_input_method, and the popup surface with its    *)
(* first buffer; the server makes its t_input_method, which starts off.    *)
Start ==
  /\ Restarts /\ UserEvent
  /\ ~running /\ ~present
  /\ running' = TRUE /\ iactive' = FALSE /\ iserial' = 0 /\ igrab' = FALSE
  /\ cs' = Empty /\ repeating' = FALSE
  /\ present' = TRUE /\ on' = FALSE
  /\ fromContext' = <<Frame>>
  /\ UNCHANGED <<textVars, active, dones, current, grab, buffered, popup, lost,
                 clientVars, toServer, toClient, toContext>>

(* The process exits; the server finds out from its connection. *)
Exit ==
  /\ Restarts /\ UserEvent
  /\ running
  /\ running' = FALSE /\ iactive' = FALSE /\ iserial' = 0 /\ igrab' = FALSE
  /\ cs' = Empty /\ repeating' = FALSE
  /\ fromContext' = Append(fromContext, [type |-> "hangup"])
  /\ UNCHANGED <<textVars, methodVars, clientVars, toServer, toClient,
                 toContext>>

(* A mutant: only the done events that change the activation are counted. *)
CountChange == iserial' = IF iactive' = igrab THEN iserial ELSE iserial + 1

CountDone == iserial' = iserial + 1

(* Take the keyboard, and show again what was being composed.  Mutant: not. *)
TakeKeyboardOnly ==
  /\ fromContext' = fromContext \o <<[type |-> "grab"], Frame>>
  /\ UNCHANGED repeating

TakeKeyboard ==
  LET resend == IF cs = Empty THEN <<>> ELSE <<Composed(iserial', cs)>>
  IN /\ fromContext' = fromContext \o <<[type |-> "grab"]>>
                                    \o resend \o <<Frame>>
     /\ UNCHANGED repeating

(* Give it back.  Mutants: the key repeat goes on, the grab is not released. *)
GiveBackRepeating ==
  /\ fromContext' = Append(fromContext, [type |-> "release"])
  /\ UNCHANGED repeating

ForgetKeyboard == repeating' = FALSE /\ UNCHANGED fromContext

GiveBackKeyboard ==
  /\ fromContext' = Append(fromContext, [type |-> "release"])
  /\ repeating' = FALSE

(* The done event: v_active and v_grab follow each other. *)
ContextDone ==
  LET set == Head(toContext).set
  IN /\ running /\ Arrives(toContext, {"done"})
     /\ iactive' = CASE set = "activate" -> TRUE
                     [] set = "deactivate" -> FALSE
                     [] OTHER -> iactive
     /\ CountDone
     /\ igrab' = iactive'
     /\ CASE iactive' /\ ~igrab -> TakeKeyboard
          [] ~iactive' /\ igrab -> GiveBackKeyboard
          [] OTHER -> UNCHANGED <<fromContext, repeating>>
     /\ toContext' = Tail(toContext)
     /\ UNCHANGED <<textVars, methodVars, clientVars, running, cs, toServer,
                    toClient, events>>

(* What the engine does with a key: the compositions it goes through, at   *)
(* most MaxSends (SendsFew of module Engine), and whether the popup is     *)
(* redrawn.                                                                *)
EngineTakesKey(back) ==
  \E out \in SeqOf(Texts, MaxSends), redraw \in {<<>>, <<Frame>>} :
    /\ cs' = IF out = <<>> THEN cs ELSE out[Len(out)]
    /\ fromContext' = fromContext
                      \o [k \in DOMAIN out |-> Composed(iserial, out[k])]
                      \o redraw \o back

(* A key handed back, as t_context's forward encodes it. *)
HandedBack == <<[Composed(iserial, cs') EXCEPT !.forward = TRUE]>>

(* A key event: the key grab's listener, while the grab is there.  The     *)
(* engine takes a press and may also hand it back; a release and a change  *)
(* of modifiers are handed back.  The repeat timer is stopped, and armed   *)
(* again if this press repeats.                                            *)
ContextKey ==
  /\ running /\ Arrives(toContext, {"key"})
  /\ IF ~igrab THEN UNCHANGED <<cs, fromContext, repeating>>
     ELSE /\ \/ EngineTakesKey(<<>>)
             \/ EngineTakesKey(HandedBack)
          /\ repeating' \in BOOLEAN
  /\ toContext' = Tail(toContext)
  /\ UNCHANGED <<textVars, methodVars, clientVars, running, iactive, iserial,
                 igrab, toServer, toClient, events>>

(* The repeat timer fires: nothing is handed back. *)
Repeat ==
  /\ UserEvent
  /\ running /\ repeating
  /\ EngineTakesKey(<<>>)
  /\ UNCHANGED <<textVars, methodVars, clientVars, running, iactive, iserial,
                 igrab, repeating, toServer, toClient, toContext>>

ContextReceives == ContextDone \/ ContextKey

ContextNext == Start \/ Exit \/ ContextReceives \/ Repeat
=============================================================================
