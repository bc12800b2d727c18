------------------------------ MODULE ImServer ------------------------------
(***************************************************************************)
(* The compositor's part of text input: t_text_input, t_input_method and   *)
(* t_input_popup of wm/main.cc, the focus change listener of t_server, and *)
(* what the wlroots objects do around them.  One action per event the      *)
(* compositor handles.                                                     *)
(***************************************************************************)
EXTENDS ImWire

(* wlr_input_method_v2_send_done, n times over, applying set. *)
SendDone(set, n) ==
  /\ toContext' = toContext \o [k \in 1..n |-> [type |-> "done", set |-> set]]
  /\ dones' = dones + n

(* wlr_text_input_v3_send_done with the serial of the last commit. *)
Reply(i, n, text) ==
  toClient' = [toClient EXCEPT ![Owner[i]] = Append(@,
    [type |-> "done", input |-> i, serial |-> n, preedit |-> text])]

(* A mutant: the popup is put where the caret was before this commit. *)
PlacedBefore(mapped, i) ==
  CASE ~mapped -> None
    [] mapped /\ i \in Inputs /\ surface[i] # None -> anchor[i]
    [] OTHER -> Wild

(* A mutant: the popup is put at the terminal cursor, preedit text or not. *)
PlacedAtCursor(mapped, i) ==
  CASE ~mapped -> None
    [] mapped /\ i \in Inputs /\ surface[i] # None -> anchor'[i][1]
    [] OTHER -> Wild

(* t_input_popup::f_move puts a mapped popup at the text input it is given, *)
(* reading through that input and the surface it has entered.               *)
Placed(mapped, i) ==
  CASE ~mapped -> None
    [] mapped /\ i \in Inputs /\ surface[i] # None -> anchor'[i]
    [] OTHER -> Wild

(* A mutant: v_focused_text_input is cleared, the input method left active. *)
BlurOnly(n) ==
  /\ focused' = None
  /\ UNCHANGED <<active, popup, toContext, dones>>

(* t_server::f_blur_text_input, called n times. *)
Blur(n) ==
  /\ focused' = None
  /\ IF present /\ on
     THEN active' = FALSE /\ popup' = None /\ SendDone("deactivate", n)
     ELSE UNCHANGED <<active, popup, toContext, dones>>

(* t_text_input::f_send, after activating the input method or as it is. *)
Send(i, set) ==
  /\ active' = (active \/ set = "activate")
  /\ SendDone(set, 1)
  /\ popup' = Placed(active' /\ buffered, i)

(* t_text_input::f_focus *)
Focus(i) ==
  /\ focused' = i
  /\ IF present /\ on
     THEN Send(i, "activate")
     ELSE UNCHANGED <<active, popup, toContext, dones>>

Unrelayed == UNCHANGED <<focused, active, popup, toContext, dones>>

-----------------------------------------------------------------------------
(* The keyboard focus moves to surface s, or to none.                      *)
FocusChange(s) ==
  LET left    == {i \in exists : focus # None /\ surface[i] = focus}
      entered == {i \in exists : s # None /\ Owner[i] = Owner[s]}
      Tell(c, type, s1, is) ==
        IF is = {} \/ \E i \in is : Owner[i] # c THEN <<>>
        ELSE <<[type |-> type, surface |-> s1, inputs |-> is]>>
  IN /\ s # focus
     /\ UserEvent
     /\ focus' = s
     /\ surface' = [i \in Inputs |-> IF i \in entered THEN s
                                     ELSE IF i \in left THEN None
                                     ELSE surface[i]]
     /\ IF left = {} THEN Unrelayed ELSE Blur(Cardinality(left))
     /\ toClient' = [c \in Clients |->
          toClient[c] \o Tell(c, "leave", focus, left)
                      \o Tell(c, "enter", s, entered)]
     /\ UNCHANGED <<exists, enabled, serial, anchor, present, on, current,
                    grab, buffered, lost, clientVars, contextVars, toServer,
                    fromContext>>

(* Mutants: an enable event that is not answered, one that does not take    *)
(* the focus, and a commit event taken from an input that has left its      *)
(* surface.                                                                 *)
EnableUnanswered(i) ==
  /\ IF surface[i] # None THEN Focus(i) ELSE Unrelayed
  /\ UNCHANGED toClient

EnableUnfocused(i) == Unrelayed /\ Reply(i, serial[i] + 1, Empty)

CommitAfterLeaving(i) ==
  /\ CASE enabled'[i] /\ focused = None -> Focus(i)
       [] enabled'[i] /\ focused # None /\ present /\ on ->
            Send(i, "keep") /\ UNCHANGED focused
       [] OTHER -> Unrelayed
  /\ Reply(i, serial[i] + 1, Empty)

(* The listeners of t_text_input: v_enable, v_disable and v_commit. *)
Enable(i) ==
  /\ IF surface[i] # None THEN Focus(i) ELSE Unrelayed
  /\ Reply(i, serial[i] + 1, Empty)

Disable(i) ==
  /\ IF focused = i THEN Blur(1) ELSE Unrelayed
  /\ Reply(i, serial[i] + 1, Empty)

Commit(i) ==
  LET listened == surface[i] # None /\ enabled'[i]
      relayed  == listened /\ focused # None /\ present /\ on
  IN /\ CASE listened /\ focused = None -> Focus(i)
          [] relayed -> Send(i, "keep") /\ UNCHANGED focused
          [] OTHER -> Unrelayed
     /\ Reply(i, serial[i] + 1, IF relayed THEN current ELSE Empty)

(* A text input's commit request: wlroots applies the pending state and    *)
(* calls the listener the change of current_enabled selects.               *)
ReceiveCommit(c) ==
  LET m == Head(toServer[c])
      i == m.input
  IN /\ Arrives(toServer[c], {"commit"})
     /\ enabled' = [enabled EXCEPT ![i] = \/ m.request = "enable"
                                          \/ m.request = "keep" /\ @]
     /\ serial' = [serial EXCEPT ![i] = @ + 1]
     /\ anchor' = IF m.request = "disable" THEN anchor
                  ELSE [anchor EXCEPT ![i] = m.rect]
     /\ CASE enabled'[i] /\ ~enabled[i] -> Enable(i)
          [] enabled[i] /\ ~enabled'[i] -> Disable(i)
          [] OTHER -> Commit(i)
     /\ toServer' = [toServer EXCEPT ![c] = Tail(@)]
     /\ UNCHANGED <<focus, exists, surface, present, on, current, grab,
                    buffered, lost, clientVars, contextVars, fromContext,
                    events>>

(* zwp_text_input_manager_v3.get_text_input: the new text input has        *)
(* entered no surface, and enters none before the focus next changes.      *)
ReceiveCreate(c) ==
  /\ Arrives(toServer[c], {"create"})
  /\ exists' = exists \cup {Head(toServer[c]).input}
  /\ toServer' = [toServer EXCEPT ![c] = Tail(@)]
  /\ UNCHANGED <<focus, surface, enabled, serial, anchor, focused, methodVars,
                 clientVars, contextVars, toClient, toContext, fromContext,
                 events>>

(* The text input is destroyed: t_text_input::~t_text_input. *)
ReceiveDestroy(c) ==
  LET i == Head(toServer[c]).input
  IN /\ Arrives(toServer[c], {"destroy"})
     /\ exists' = exists \ {i}
     /\ surface' = [surface EXCEPT ![i] = None]
     /\ IF focused = i THEN Blur(1) ELSE Unrelayed
     /\ toServer' = [toServer EXCEPT ![c] = Tail(@)]
     /\ UNCHANGED <<focus, enabled, serial, anchor, present, on, current,
                    grab, buffered, lost, clientVars, contextVars, toClient,
                    fromContext, events>>

-----------------------------------------------------------------------------
(* The Zenkaku_Hankaku key: the key listener of t_keyboard turns the input *)
(* method on or off, when there is one and a text input to serve.          *)
ToggleKey ==
  /\ UserEvent
  /\ present /\ focused # None
  /\ on' = ~on
  /\ UNCHANGED anchor
  /\ IF on'
     THEN Send(focused, "activate") /\ UNCHANGED toClient
     ELSE /\ active' = FALSE /\ popup' = None /\ SendDone("deactivate", 1)
          /\ Reply(focused, serial[focused], Empty)
  /\ UNCHANGED <<focus, exists, surface, enabled, serial, focused, present,
                 current, grab, buffered, lost, clientVars, contextVars,
                 toServer, fromContext>>

(* Any other key while the input method holds the keyboard. *)
GrabbedKey ==
  /\ UserEvent
  /\ present /\ grab
  /\ toContext' = Append(toContext, [type |-> "key"])
  /\ UNCHANGED <<textVars, methodVars, clientVars, contextVars, toServer,
                 toClient, fromContext>>

(* The input method commits: the listener of t_input_method relays it to   *)
(* the focused text input, unless it hands back a key.                     *)
Take(m) ==
  /\ current' = m.preedit
  /\ IF m.forward \/ focused = None THEN UNCHANGED toClient
     ELSE Reply(focused, serial[focused], m.preedit)
  /\ lost' = (lost /\ m.forward)

(* A commit whose serial is not the number of done events sent does not    *)
(* change the state (input-method-unstable-v2.xml); what the state was may *)
(* be relayed once more.                                                   *)
Pass(m) ==
  /\ \/ UNCHANGED toClient
     \/ focused # None /\ Reply(focused, serial[focused], current)
  /\ lost' = (lost \/ ~m.forward)
  /\ UNCHANGED current

ReceiveContextCommit ==
  LET m == Head(fromContext)
  IN /\ Arrives(fromContext, {"commit"})
     /\ IF m.serial = dones THEN Take(m) ELSE Pass(m)
     /\ fromContext' = Tail(fromContext)
     /\ UNCHANGED <<textVars, present, on, active, dones, grab, buffered,
                    popup, clientVars, contextVars, toServer, toContext,
                    events>>

(* The keyboard grab is created or released. *)
ReceiveGrab ==
  /\ Arrives(fromContext, {"grab", "release"})
  /\ grab' = (Head(fromContext).type = "grab")
  /\ fromContext' = Tail(fromContext)
  /\ UNCHANGED <<textVars, present, on, active, dones, current, buffered,
                 popup, lost, clientVars, contextVars, toServer, toClient,
                 toContext, events>>

(* The popup surface is committed: with a buffer and an active input       *)
(* method it is mapped and moved (v_map and v_commit of t_input_popup).    *)
ReceiveFrame ==
  /\ Arrives(fromContext, {"frame"})
  /\ buffered' = TRUE
  /\ UNCHANGED anchor
  /\ popup' = Placed(active, focused)
  /\ fromContext' = Tail(fromContext)
  /\ UNCHANGED <<focus, exists, surface, enabled, serial, focused, present,
                 on, active, dones, current, grab, lost, clientVars,
                 contextVars, toServer, toClient, toContext, events>>

(* The input method's connection closes: t_input_method::~t_input_method,  *)
(* with its popup and its grab; v_focused_text_input stays.                *)
ReceiveHangup ==
  /\ Arrives(fromContext, {"hangup"})
  /\ present' = FALSE /\ on' = FALSE /\ active' = FALSE
  /\ dones' = 0 /\ current' = Empty /\ grab' = FALSE
  /\ buffered' = FALSE /\ popup' = None /\ lost' = FALSE
  /\ toContext' = <<>> /\ fromContext' = <<>>
  /\ UNCHANGED <<textVars, clientVars, contextVars, toServer, toClient,
                 events>>

ServerReceives(c) == ReceiveCommit(c) \/ ReceiveCreate(c) \/ ReceiveDestroy(c)
ServerReceivesContext ==
  \/ ReceiveContextCommit \/ ReceiveGrab \/ ReceiveFrame \/ ReceiveHangup

ServerNext ==
  \/ \E s \in NullableInput : FocusChange(s)
  \/ \E c \in Clients : ServerReceives(c)
  \/ ToggleKey \/ GrabbedKey
  \/ ServerReceivesContext
=============================================================================
