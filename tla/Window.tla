------------------------------- MODULE Window -------------------------------
(***************************************************************************)
(* A toplevel of the compositor and the t_frame of an application behind   *)
(* it, with the socket between them.                                       *)
(***************************************************************************)
EXTENDS Frame

CONSTANT MaxSteps \* a bound: what the user, applications and outputs do

ASSUME WindowAssumption == MaxSteps \in Nat

VARIABLES
  steps,  \* of these, so far
  hurried, \* a state was asked for before the last one was the current one
  resized  \* the application has changed its size of its own accord

vars == <<toplevelVars, frameVars, toServer, toClient, steps, hurried, resized>>

Init ==
  /\ ToplevelInit
  /\ FrameInit
  /\ toServer = <<Commit(0)>> /\ toClient = <<>> \* by t_frame::t_frame
  /\ steps = 0 /\ hurried = FALSE /\ resized = FALSE

(* No change of state is on its way. *)
Agreed ==
  /\ scheduled.states = current
  /\ \A i \in DOMAIN toServer : toServer[i].type \notin {"maximize", "fullscreen"}

StateStep ==
  \/ /\ LoseOutput \/ \E box \in Outputs : ChangeMode(box)
     /\ UNCHANGED <<frameVars, toServer, toClient>>
  \/ \E m \in Requests :
       m.type \in {"maximize", "fullscreen"} /\ Request(m) /\ UNCHANGED toplevelVars

PlainStep ==
  \/ /\ \/ \E x \in Positions : MotionMoves(x)
        \/ \E w \in DragSizes : MotionResizes(w)
        \/ ReleaseButton
        \/ Activate
     /\ UNCHANGED <<frameVars, toServer, toClient>>
  \/ \E m \in Requests :
       m.type \notin {"maximize", "fullscreen"} /\ Request(m) /\ UNCHANGED toplevelVars

UserStep ==
  \/ StateStep /\ hurried' = (hurried \/ ~Agreed) /\ UNCHANGED resized
  \/ PlainStep /\ UNCHANGED <<hurried, resized>>
  \/ /\ \E w \in AppSizes : egl > 0 /\ AppResize(w) /\ UNCHANGED toplevelVars
     /\ resized' = TRUE /\ UNCHANGED hurried

Next ==
  \/ steps < MaxSteps /\ steps' = steps + 1 /\ UserStep
  \/ /\ \/ SendConfigure /\ UNCHANGED frameVars
        \/ ServerReceives /\ UNCHANGED frameVars
        \/ ClientReceives /\ UNCHANGED toplevelVars
        \/ FrameDone /\ UNCHANGED toplevelVars
     /\ UNCHANGED <<steps, hurried, resized>>

(* Both processes go on reading what they are sent, wlroots sends what was *)
(* scheduled, and a visible surface is told of frames.                     *)
Fairness ==
  /\ WF_vars(SendConfigure /\ UNCHANGED <<frameVars, steps, hurried, resized>>)
  /\ WF_vars(ServerReceives /\ UNCHANGED <<frameVars, steps, hurried, resized>>)
  /\ WF_vars(ClientReceives /\ UNCHANGED <<toplevelVars, steps, hurried, resized>>)
  /\ WF_vars(FrameDone /\ UNCHANGED <<toplevelVars, steps, hurried, resized>>)

Spec == Init /\ [][Next]_vars /\ Fairness

-----------------------------------------------------------------------------
(* Every acknowledgement on its way is of an event that was sent and has   *)
(* not been acknowledged yet, and they are in order: anything else would   *)
(* be an error that ends the application.                                  *)
Acks == {i \in DOMAIN toServer : toServer[i].type = "ack"}

AcksInOrder ==
  /\ \A i \in Acks : \E c \in unacked : c.serial = toServer[i].serial
  /\ \A i, j \in Acks : i < j => toServer[i].serial < toServer[j].serial

(* The right edge that a drag of the left one has fixed stays where it is, *)
(* however late the application draws and at whatever size, until the      *)
(* toplevel is moved, placed as a whole, fills its output, or takes another *)
(* size of its own accord; provided no state was asked for before the last *)
(* one had been drawn.                                                     *)
EdgeStays ==
  hurried \/ resized \/ Filling(current)
    \/ \A x \in edge : pos + Inset + geom = x

(* Where a toplevel is in the middle of its output. *)
Middle(box, size) == box.x + Centre(box.width, size)

(* Once the last placement is carried out, a toplevel that fills its       *)
(* output is where it would be in its middle if the output began at the    *)
(* origin of the layout, with a backdrop if it is fullscreen; and another, *)
(* or one whose output is gone, is where it was before, but for the inset  *)
(* of its geometry; provided no state was asked for before the last one    *)
(* had been drawn.                                                         *)
PlacedWhole ==
  [][(/\ ~hurried /\ onCommit.place \notin {"none", "edge"} /\ onCommit' = Nothing
      /\ onAck' = NoAck /\ grab.does = "none")
     => IF Filling(current') /\ attached # "lost"
        THEN /\ pos' = Middle(output, geom') - output.x
             /\ attached = "yes"
             /\ backdrop' = IF current'.full THEN output.width ELSE 0
        ELSE pos' = restore.from + Inset /\ backdrop' = 0]_vars

(* Everything comes to rest: the last size asked for has been drawn and    *)
(* acknowledged, and no handler of the toplevel is left waiting to move it *)
(* later.                                                                  *)
AtRest ==
  /\ ~dirty /\ toServer = <<>> /\ toClient = <<>> /\ ~frame
  /\ unacked = {} /\ ~configuring
  /\ onAck = NoAck /\ onCommit = Nothing
  /\ geom = egl /\ geom > 0 /\ current = scheduled.states

ComesToRest == <>[]AtRest
=============================================================================
