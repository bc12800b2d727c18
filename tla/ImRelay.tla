------------------------------ MODULE ImRelay ------------------------------
(***************************************************************************)
(* Text input in xade: the compositor, the applications and the input      *)
(* method process together.                                                *)
(***************************************************************************)
EXTENDS ImServer, ImClient, ImContext

(* Applications may start with their text inputs made (t_window makes its  *)
(* own before it is mapped) or make them later; the input method runs, its *)
(* popup surface on the way, and is off.                                   *)
Init ==
  /\ exists \in {Inputs} \cup (IF Lifecycle THEN {{}} ELSE {})
  /\ life = [i \in Inputs |-> IF i \in exists THEN "live" ELSE "none"]
  /\ focus = None /\ focused = None
  /\ surface = [i \in Inputs |-> None]
  /\ enabled = [i \in Inputs |-> FALSE]
  /\ serial = [i \in Inputs |-> 0]
  /\ anchor = [i \in Inputs |-> <<Home, Empty>>]
  /\ present = TRUE /\ running = TRUE
  /\ on = FALSE /\ active = FALSE /\ dones = 0 /\ current = Empty
  /\ grab = FALSE /\ buffered = FALSE /\ popup = None /\ lost = FALSE
  /\ cfocus = [c \in Clients |-> None]
  /\ cserial = [i \in Inputs |-> 0]
  /\ cdone = [i \in Inputs |-> 0]
  /\ preedit = [i \in Inputs |-> Empty]
  /\ valid = [i \in Inputs |-> FALSE]
  /\ caret = [i \in Inputs |-> <<Home, Empty>>]
  /\ position = [i \in Inputs |-> Home]
  /\ iactive = FALSE /\ iserial = 0 /\ igrab = FALSE
  /\ cs = Empty /\ repeating = FALSE
  /\ toServer = [c \in Clients |-> <<>>]
  /\ toClient = [c \in Clients |-> <<>>]
  /\ toContext = <<>> /\ fromContext = <<Frame>>
  /\ events = 0

Quiet ==
  /\ \A c \in Clients : toServer[c] = <<>> /\ toClient[c] = <<>>
  /\ toContext = <<>> /\ fromContext = <<>>

(* Nothing is on its way and every window has laid out what it shows. *)
Settled == Quiet /\ \A i \in Live : valid[i]

Next == ServerNext \/ ClientNext \/ ContextNext

(* The three event loops run: each dispatches the messages it has, and an  *)
(* application calls its idle callbacks when it has none to dispatch.      *)
(* Users and applications owe nothing.                                     *)
Fairness ==
  /\ \A c \in Clients : WF_vars(ServerReceives(c)) /\ WF_vars(ClientReceives(c))
  /\ \A i \in Inputs : WF_vars(Idle(i))
  /\ WF_vars(ServerReceivesContext) /\ WF_vars(ContextReceives)

Spec == Init /\ [][Next]_vars /\ Fairness

-----------------------------------------------------------------------------
TypeOK == WireTypeOK

(* The input method object is active exactly while it is on and a text     *)
(* input has it: t_server::f_blur_text_input, t_text_input::f_focus and    *)
(* the toggle key keep v_on, v_focused_text_input and wlroots together.    *)
ActiveIffServing == active <=> present /\ on /\ focused # None

(* A text input has entered no surface but the one with the keyboard       *)
(* focus, and the one that has the input method is enabled and has entered *)
(* it, whatever order focus changes, late commits and destructions come in.*)
FocusedIsEntered ==
  /\ \A i \in Inputs : surface[i] # None => surface[i] = focus /\ i \in exists
  /\ focused # None => surface[focused] # None /\ enabled[focused]

(* The popup is mapped exactly while the input method is active and has    *)
(* drawn it, and t_input_popup::f_move never reads through a null          *)
(* v_focused_text_input or focused_surface.                                *)
PopupIffActive ==
  /\ popup # Wild
  /\ popup # None <=> active /\ buffered

Count(seq, types) == Cardinality({k \in DOMAIN seq : seq[k].type \in types})

(* t_context::v_serial and the done events under way make up the number of *)
(* done events sent.                                                       *)
ContextSerial ==
  running => iserial + Count(toContext, {"done"}) = dones

(* Every commit of a text input is answered by one done event with its     *)
(* serial, whichever listener handles it: t_input::v_serial counts the     *)
(* commits, and the last done event under way brings v_done up to the      *)
(* serial of the server.                                                   *)
ClientSerial ==
  \A i \in Live :
    LET c     == Owner[i]
        asked == {k \in DOMAIN toServer[c] : /\ toServer[c][k].type = "commit"
                                             /\ toServer[c][k].input = i}
        told  == {k \in DOMAIN toClient[c] : /\ toClient[c][k].type = "done"
                                             /\ toClient[c][k].input = i}
        last  == IF told = {} THEN cdone[i]
                 ELSE toClient[c][CHOOSE k \in told : \A j \in told : j <= k].serial
    IN cserial[i] = serial[i] + Cardinality(asked) /\ last = serial[i]

(* No done event is missed or counted twice on either side, so that what   *)
(* is committed next carries the right serial.                             *)
SerialsAgree == ContextSerial /\ ClientSerial

(* The key repeat timer of the input method runs only with its grab. *)
RepeatHasGrab == repeating => igrab

(* Once the messages are handled, the keyboard goes to the input method    *)
(* exactly while it is active, on both sides of the connection.            *)
GrabFollowsActivation ==
  Quiet /\ running => (grab <=> active) /\ (igrab <=> active)

(* Once the messages are handled, the text input that has the active       *)
(* input method shows what is being composed, however the focus, the       *)
(* toggle, the caret and the keys crossed on the way, unless the last      *)
(* composition the process sent crossed a done event: the compositor does  *)
(* not take that one, t_context does not send it again, and the window     *)
(* stays behind until the next composition, which puts it right.           *)
PreeditShown ==
  Quiet /\ active /\ ~lost => preedit[focused] = cs

(* ... and the popup is where its caret is. *)
PopupAtCaret ==
  Settled /\ active => popup = caret[focused]

(* Once the messages are handled, applications agree with the server on    *)
(* where the text input focus is.                                          *)
ClientFocusAgrees ==
  Quiet => \A c \in Clients :
    cfocus[c] = IF focus # None /\ Owner[focus] = c THEN focus ELSE None

(* The input method serves the window with the keyboard focus. *)
ServesFocus == Quiet /\ focus # None => focused = focus

(* Reporting the caret to the server and being sent the preedit text again *)
(* does not go round for ever, and no window is left waiting for an answer *)
(* to a commit before its idle callback may draw: with the users at rest,  *)
(* all comes to rest.                                                      *)
ComesToRest ==
  <>[](Settled /\ \A i \in Live : cdone[i] = cserial[i])
=============================================================================
