------------------------------- MODULE ImWire -------------------------------
(***************************************************************************)
(* The state shared by the three parties of text input in xade, and the    *)
(* messages they exchange over their Wayland connections:                  *)
(*                                                                         *)
(*   server    the compositor xadewm (wm/main.cc) with the wlroots objects *)
(*             it drives: the seat, the text inputs, the input method      *)
(*   clients   applications on libxade (xade/client.cc: t_input), with the *)
(*             terminal window's use of it (vt/window.cc)                  *)
(*   context   the input method process xadeim (im/main.cc: t_context)     *)
(*                                                                         *)
(* A surface has at most one t_input (t_surface::v_input), so a surface is *)
(* named by its input.  A message stands for the events one handler sends  *)
(* up to and including the "done" (or the "commit" request) that applies   *)
(* them: what precedes it only sets pending state.                         *)
(***************************************************************************)
EXTENDS Integers, Sequences, FiniteSets

CONSTANTS
  Inputs,      \* the text inputs, each naming the surface it belongs to
  Clients,     \* the applications
  Owner,       \* Owner[i]: the application input i belongs to
  Texts,       \* what a composition can be
  Empty,       \* the empty composition
  Positions,   \* where the text cursor of a window can be
  Home,        \* where it starts
  None,        \* a null pointer
  Wild,        \* what a read through a null pointer gives
  MaxSends,    \* how many compositions a key goes through at most
  MaxEvents,   \* bound: user and application events in a behaviour
  Lifecycle,   \* whether applications create and drop text inputs
  Restarts     \* whether the input method process exits and comes back

(* Where the caret of a window is on screen: it depends on the cursor of   *)
(* the terminal and on the preedit text drawn before it.                   *)
Rects == Positions \X Texts

ASSUME WireAssumption ==
  /\ IsFiniteSet(Inputs)
  /\ Owner \in [Inputs -> Clients]
  /\ Empty \in Texts
  /\ Home \in Positions
  /\ None \notin Inputs \cup Rects
  /\ Wild \notin Rects \cup {None}
  /\ MaxSends \in Nat /\ MaxEvents \in Nat
  /\ {Lifecycle, Restarts} \subseteq BOOLEAN

NullableInput == Inputs \cup {None}

ToServer ==
       [type : {"create", "destroy"}, input : Inputs]
  \cup [type : {"commit"}, input : Inputs,
        request : {"enable", "disable", "keep"}, rect : Rects]
ToClient ==
       [type : {"enter", "leave"}, surface : Inputs, inputs : SUBSET Inputs]
  \cup [type : {"done"}, input : Inputs, serial : Nat, preedit : Texts]
ToContext ==
       [type : {"key"}]
  \cup [type : {"done"}, set : {"activate", "deactivate", "keep"}]
FromContext ==
       [type : {"grab", "release", "frame", "hangup"}]
  \cup [type : {"commit"}, serial : Nat, preedit : Texts, forward : BOOLEAN]

-----------------------------------------------------------------------------
VARIABLES
  \* server: seat and text inputs
  focus,     \* wlr_seat::keyboard_state.focused_surface
  exists,    \* the text inputs whose t_text_input exists
  surface,   \* wlr_text_input_v3::focused_surface
  enabled,   \* wlr_text_input_v3::current_enabled
  serial,    \* wlr_text_input_v3::current_serial
  anchor,    \* wlr_text_input_v3::current.cursor_rectangle
  focused,   \* t_server::v_focused_text_input
  \* server: the input method
  present,   \* t_server::v_input_method is not null
  on,        \* t_input_method::v_on
  active,    \* wlr_input_method_v2::active
  dones,     \* done events sent to the input method
  current,   \* wlr_input_method_v2::current.preedit
  grab,      \* wlr_input_method_v2::keyboard_grab is not null
  buffered,  \* the popup surface has a buffer
  popup,     \* where the popup is placed; None while it is unmapped
  lost       \* history: the last composition sent here had an old serial

textVars == <<focus, exists, surface, enabled, serial, anchor, focused>>
methodVars ==
  <<present, on, active, dones, current, grab, buffered, popup, lost>>

VARIABLES
  \* clients
  life,      \* t_surface::v_input: "none" yet, "live" or "gone"
  cfocus,    \* t_client::v_input_focus
  cserial,   \* t_input::v_serial
  cdone,     \* t_input::v_done
  preedit,   \* t_window::v_preedit_text
  valid,     \* t_window::v_preedit_valid
  caret,     \* t_window::v_preedit_cursor
  position   \* the cursor of the terminal
clientVars == <<life, cfocus, cserial, cdone, preedit, valid, caret, position>>

VARIABLES
  \* the input method process
  running,   \* the process runs
  iactive,   \* t_context::v_active
  iserial,   \* t_context::v_serial
  igrab,     \* t_context::v_grab is not null
  cs,        \* t_context::v_cs
  repeating  \* t_xkb::v_timer is armed
contextVars == <<running, iactive, iserial, igrab, cs, repeating>>

VARIABLES
  toServer,  \* [Clients -> Seq(ToServer)]
  toClient,  \* [Clients -> Seq(ToClient)]
  toContext, \* Seq(ToContext)
  fromContext, \* Seq(FromContext)
  events     \* user and application events so far
channels == <<toServer, toClient, toContext, fromContext>>

vars == <<textVars, methodVars, clientVars, contextVars, channels, events>>

TextTypeOK ==
  /\ focus \in NullableInput
  /\ exists \in SUBSET Inputs
  /\ surface \in [Inputs -> NullableInput]
  /\ enabled \in [Inputs -> BOOLEAN]
  /\ serial \in [Inputs -> Nat]
  /\ anchor \in [Inputs -> Rects]
  /\ focused \in NullableInput

MethodTypeOK ==
  /\ present \in BOOLEAN
  /\ on \in BOOLEAN
  /\ active \in BOOLEAN
  /\ grab \in BOOLEAN
  /\ buffered \in BOOLEAN
  /\ dones \in Nat
  /\ current \in Texts
  /\ popup \in Rects \cup {None, Wild}
  /\ lost \in BOOLEAN

ClientTypeOK ==
  /\ life \in [Inputs -> {"none", "live", "gone"}]
  /\ cfocus \in [Clients -> NullableInput]
  /\ cserial \in [Inputs -> Nat]
  /\ cdone \in [Inputs -> Nat]
  /\ preedit \in [Inputs -> Texts]
  /\ valid \in [Inputs -> BOOLEAN]
  /\ caret \in [Inputs -> Rects]
  /\ position \in [Inputs -> Positions]

ContextTypeOK ==
  /\ running \in BOOLEAN
  /\ iactive \in BOOLEAN
  /\ igrab \in BOOLEAN
  /\ repeating \in BOOLEAN
  /\ iserial \in Nat
  /\ cs \in Texts

ChannelTypeOK ==
  /\ toServer \in [Clients -> Seq(ToServer)]
  /\ toClient \in [Clients -> Seq(ToClient)]
  /\ toContext \in Seq(ToContext)
  /\ fromContext \in Seq(FromContext)
  /\ events \in Nat

WireTypeOK ==
  TextTypeOK /\ MethodTypeOK /\ ClientTypeOK /\ ContextTypeOK /\ ChannelTypeOK

-----------------------------------------------------------------------------
(* An event of the environment, counted against the bound. *)
UserEvent == events < MaxEvents /\ events' = events + 1

(* The next message of a channel is of one of these types. *)
Arrives(channel, types) == channel # <<>> /\ Head(channel).type \in types
=============================================================================
