------------------------------ MODULE ImClient ------------------------------
(***************************************************************************)
(* The applications' part of text input: t_input and t_surface::f_input__  *)
(* of xade/client.cc, used as the terminal window of vt/window.cc uses     *)
(* them.                                                                   *)
(***************************************************************************)
EXTENDS ImWire

Live == {i \in Inputs : life[i] = "live"}

(* t_input::f_commit, after enabling, disabling or moving the caret. *)
ClientCommit(i, request) ==
  /\ cserial' = [cserial EXCEPT ![i] = @ + 1]
  /\ toServer' = [toServer EXCEPT ![Owner[i]] = Append(@,
       [type |-> "commit", input |-> i, request |-> request,
        rect |-> caret'[i]])]

NoCommit == UNCHANGED <<cserial, toServer>>

(* The window is shown text t, to be laid out when the loop is next idle:  *)
(* v_on_input_done, or with nothing v_on_input_disable, of t_window.       *)
Show(i, t) ==
  /\ preedit' = [preedit EXCEPT ![i] = t]
  /\ valid' = [valid EXCEPT ![i] = FALSE]

-----------------------------------------------------------------------------
(* zwp_text_input_v3.enter and .leave: the first input of the application  *)
(* to hear of it acts, the others find it done.                            *)
ReceiveEnter(c) ==
  LET m == Head(toClient[c])
  IN /\ Arrives(toClient[c], {"enter"})
     /\ UNCHANGED caret
     /\ IF m.inputs \cap Live = {} \/ cfocus[c] # None
        THEN UNCHANGED cfocus /\ NoCommit
        ELSE /\ cfocus' = [cfocus EXCEPT ![c] = m.surface]
             /\ IF m.surface \in Live THEN ClientCommit(m.surface, "enable")
                ELSE NoCommit
     /\ toClient' = [toClient EXCEPT ![c] = Tail(@)]
     /\ UNCHANGED <<textVars, methodVars, contextVars, life, cdone, preedit,
                    valid, position, toContext, fromContext, events>>

(* A mutant: v_input_focus survives the leave event. *)
ReceiveLeaveFocused(c) ==
  /\ Arrives(toClient[c], {"leave"})
  /\ toClient' = [toClient EXCEPT ![c] = Tail(@)]
  /\ UNCHANGED <<textVars, methodVars, contextVars, clientVars, toServer,
                 toContext, fromContext, events>>

ReceiveLeave(c) ==
  LET m == Head(toClient[c])
  IN /\ Arrives(toClient[c], {"leave"})
     /\ IF m.inputs \cap Live = {} \/ cfocus[c] = None
        THEN UNCHANGED <<cfocus, preedit, valid>>
        ELSE /\ cfocus' = [cfocus EXCEPT ![c] = None]
             /\ IF m.surface \in Live THEN Show(cfocus[c], Empty)
                ELSE UNCHANGED <<preedit, valid>>
     /\ toClient' = [toClient EXCEPT ![c] = Tail(@)]
     /\ UNCHANGED <<textVars, methodVars, contextVars, life, cserial, cdone,
                    caret, position, toServer, toContext, fromContext,
                    events>>

(* zwp_text_input_v3.done: the focused surface reads its own input, which  *)
(* holds nothing unless the event was for it.                              *)
ReceiveDone(c) ==
  LET m == Head(toClient[c])
      f == cfocus[c]
  IN /\ Arrives(toClient[c], {"done"})
     /\ IF m.input \notin Live THEN UNCHANGED <<cdone, preedit, valid>>
        ELSE /\ cdone' = [cdone EXCEPT ![m.input] = m.serial]
             /\ IF f = None THEN UNCHANGED <<preedit, valid>>
                ELSE Show(f, IF f = m.input THEN m.preedit ELSE Empty)
     /\ toClient' = [toClient EXCEPT ![c] = Tail(@)]
     /\ UNCHANGED <<textVars, methodVars, contextVars, life, cfocus, cserial,
                    caret, position, toServer, toContext, fromContext,
                    events>>

(* The idle callback of t_window: once the server has answered every       *)
(* commit, lay the preedit text out and report the caret if it moved.      *)
Idle(i) ==
  /\ i \in Live
  /\ cdone[i] = cserial[i]
  /\ ~valid[i]
  /\ valid' = [valid EXCEPT ![i] = TRUE]
  /\ caret' = [caret EXCEPT ![i] = <<position[i], preedit[i]>>]
  /\ IF caret' # caret /\ cfocus[Owner[i]] = i THEN ClientCommit(i, "keep")
     ELSE NoCommit
  /\ UNCHANGED <<textVars, methodVars, contextVars, life, cfocus, cdone,
                 preedit, position, toClient, toContext, fromContext, events>>

(* Output of the shell moves the cursor of the terminal. *)
Output(i) ==
  /\ UserEvent
  /\ \E p \in Positions \ {position[i]} :
       position' = [position EXCEPT ![i] = p]
  /\ valid' = [valid EXCEPT ![i] = FALSE]
  /\ UNCHANGED <<textVars, methodVars, contextVars, life, cfocus, cserial,
                 cdone, preedit, caret, channels>>

-----------------------------------------------------------------------------
(* t_surface::f_input__ with a new input, and with none.                   *)
CreateInput(i) ==
  /\ Lifecycle /\ UserEvent
  /\ life[i] = "none"
  /\ life' = [life EXCEPT ![i] = "live"]
  /\ UNCHANGED caret
  /\ LET created == Append(toServer[Owner[i]],
                           [type |-> "create", input |-> i])
         entered == cfocus[Owner[i]] = i
     IN /\ cserial' = [cserial EXCEPT ![i] = IF entered THEN @ + 1 ELSE @]
        /\ toServer' = [toServer EXCEPT ![Owner[i]] =
             IF ~entered THEN created
             ELSE Append(created,
                         [type |-> "commit", input |-> i,
                          request |-> "enable", rect |-> caret[i]])]
  /\ UNCHANGED <<textVars, methodVars, contextVars, cfocus, cdone, preedit,
                 valid, position, toClient, toContext, fromContext>>

DestroyInput(i) ==
  /\ Lifecycle /\ UserEvent
  /\ life[i] = "live"
  /\ life' = [life EXCEPT ![i] = "gone"]
  /\ LET destroy == [type |-> "destroy", input |-> i]
     IN IF cfocus[Owner[i]] = i
        THEN /\ Show(i, Empty)
             /\ cserial' = [cserial EXCEPT ![i] = @ + 1]
             /\ toServer' = [toServer EXCEPT ![Owner[i]] = @ \o
                  <<[type |-> "commit", input |-> i, request |-> "disable",
                     rect |-> caret[i]], destroy>>]
        ELSE /\ toServer' = [toServer EXCEPT ![Owner[i]] = Append(@, destroy)]
             /\ UNCHANGED <<preedit, valid, cserial>>
  /\ UNCHANGED <<textVars, methodVars, contextVars, cfocus, cdone, caret,
                 position, toClient, toContext, fromContext>>

ClientReceives(c) == ReceiveEnter(c) \/ ReceiveLeave(c) \/ ReceiveDone(c)

ClientNext ==
  \/ \E c \in Clients : ClientReceives(c)
  \/ \E i \in Inputs : \/ Idle(i) \/ Output(i)
                       \/ CreateInput(i) \/ DestroyInput(i)
=============================================================================
