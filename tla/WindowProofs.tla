---------------------------- MODULE WindowProofs ----------------------------
(***************************************************************************)
(* That an application acknowledges what it was sent, in order and once,   *)
(* that a drag of the left edge leaves the right one where it is, and that *)
(* a toplevel is placed where the last states ask for, for any sizes and   *)
(* however many steps are taken.                                           *)
(*                                                                         *)
(* A serial goes the whole way: given by the compositor, sent, kept by     *)
(* t_frame until it draws, acknowledged.  At each place the serials are    *)
(* above those further on the way, and none was acknowledged before        *)
(* (SerialInv).                                                            *)
(*                                                                         *)
(* An edge stays where it is because all that is committed from one        *)
(* acknowledgement to the next is of one size: that of the event           *)
(* acknowledged, if f_resize has waited for it (EdgeInv).                  *)
(*                                                                         *)
(* What is still to be done to a toplevel is what the last states ask for  *)
(* on the last output it was to fill (PlaceInv).                           *)
(***************************************************************************)
EXTENDS Window, TLAPS

Acknowledgements == [type : {"ack"}, serial : Nat]
Commits == [type : {"commit"}, size : Nat]
Messages == Acknowledgements \cup Commits \cup Requests
Configures == [type : {"configure"}, serial : Nat, states : States, size : Nat]
Configured == [serial : Nat, states : States]
Doings == [place : {"none", "restore", "maximize", "fullscreen", "edge"},
           left : BOOLEAN, x : Int, width : Int]
Boxes == [x : Int, width : Nat \ {0}]
Grabs == [does : {"none", "move", "resize"}, left : BOOLEAN, x : Int, width : Int,
          at : Int]

ServerTyped ==
  /\ output \in Boxes
  /\ scheduled \in [states : States, size : Nat]
  /\ serial \in Nat /\ dirty \in BOOLEAN
  /\ unacked \in SUBSET Configured
  /\ acked \in States /\ current \in States
  /\ geom \in Nat /\ pos \in Int /\ edge \in SUBSET Int
  /\ restore \in [x : Int, width : Nat, from : Int]
  /\ restore.x = restore.from + Inset
  /\ onAck \in [serial : Nat, do : Doings] /\ onCommit \in Doings
  /\ grab \in Grabs /\ (grab.does = "resize" => grab.at \in Nat)

ClientTyped ==
  /\ states \in States /\ kept \in Int
  /\ configuring \in BOOLEAN /\ configured \in Nat
  /\ egl \in Nat /\ drawn \in Nat

ChannelsTyped ==
  /\ toClient \in Seq(Configures)
  /\ toServer \in Seq(Messages)

TypeInv == ServerTyped /\ ClientTyped /\ ChannelsTyped

(* The event with this serial was sent, and is not acknowledged yet. *)
Outstanding(s) == \E c \in unacked : c.serial = s
(* One that was sent has no greater serial. *)
Past(s) == s <= serial /\ (dirty => s < serial)

SentInv ==
  /\ \A c \in unacked : Past(c.serial)
  /\ Past(configured)

ToClientInv ==
  /\ \A i \in DOMAIN toClient : Outstanding(toClient[i].serial)
                                /\ toClient[i].serial > configured
  /\ \A i, j \in DOMAIN toClient : i < j => toClient[i].serial < toClient[j].serial

ToServerInv ==
  /\ configuring => Outstanding(configured)
  /\ \A i \in Acks : /\ toServer[i].serial <= configured
                     /\ configuring => toServer[i].serial < configured

SerialInv == SentInv /\ ToClientInv /\ ToServerInv /\ AcksInOrder

-----------------------------------------------------------------------------
(* What a handler of the compositor schedules: nothing, a configure event   *)
(* like the last one, or one that places the toplevel.                     *)
Keeps == UNCHANGED configVars
Repeats ==
  /\ Schedule(scheduled'.states, scheduled.size) /\ UNCHANGED onAck
  /\ scheduled'.states # scheduled.states =>
       current.full /\ scheduled'.states.full = scheduled.states.full
Places ==
  /\ Schedule(scheduled'.states, scheduled'.size)
  /\ onAck' = [serial |-> NextSerial, do |-> onAck'.do]
  /\ onAck'.do \in Doings /\ onAck'.do.place # "none"
Schedules ==
  /\ scheduled' \in [states : States, size : Nat]
  /\ Keeps \/ Repeats \/ Places

(* A handler of the compositor but that of an acknowledgement. *)
Handles ==
  /\ Schedules
  /\ UNCHANGED <<unacked, acked, frameVars, toClient>>
  /\ \/ UNCHANGED toServer
     \/ /\ toServer # <<>> /\ toServer' = Tail(toServer)
        /\ toServer[1].type # "ack"

(* What an application sends: nothing, one message, or an acknowledgement  *)
(* and what was drawn.                                                     *)
SendsOne ==
  \E m \in Commits \cup Requests : toServer' = Append(toServer, m)
SendsAck(s) ==
  \E w \in Nat : toServer' = Append(Append(toServer, Ack(s)), Commit(w))

(* Two fields of a record are replaced. *)
LEMMA PlaceReplaced ==
  ASSUME NEW n, NEW p, NEW q, NEW l, NEW x, NEW w, NEW v,
         n = [place |-> p, left |-> l, x |-> x, width |-> w]
  PROVE  [n EXCEPT !.place = q, !.width = v]
           = [place |-> q, left |-> l, x |-> x, width |-> v]
<1> DEFINE m == [n EXCEPT !.place = q]
<1>1. m = [place |-> q, left |-> l, x |-> x, width |-> w]
  OBVIOUS
<1> HIDE DEF m
<1>2. [m EXCEPT !.width = v] = [place |-> q, left |-> l, x |-> x, width |-> v]
  BY <1>1
<1>3. QED
  BY <1>2 DEF m

(* What places a toplevel is well formed. *)
LEMMA PlaceType ==
  ASSUME NEW p \in {"none", "restore", "maximize", "fullscreen"}, NEW w \in Int
  PROVE  /\ Place(p, w) = [place |-> p, left |-> FALSE, x |-> 0, width |-> w]
         /\ Place(p, w) \in Doings /\ Place(p, w).place = p
<1>1. Nothing = [place |-> "none", left |-> FALSE, x |-> 0, width |-> 0]
  BY DEF Nothing
<1>2. Place(p, w) = [Nothing EXCEPT !.place = p, !.width = w]
  BY DEF Place
<1>3. Place(p, w) = [place |-> p, left |-> FALSE, x |-> 0, width |-> w]
  BY <1>1, <1>2, PlaceReplaced
<1>4. QED
  BY <1>3 DEF Doings

(* What moving a toplevel with the cursor begins with. *)
LEMMA GrabType ==
  ASSUME NEW x \in Int
  PROVE  [does |-> "move", left |-> FALSE, x |-> 0, width |-> 0, at |-> x] \in Grabs
  BY DEF Grabs

(* f_resize, called by a handler, places the toplevel once it is drawn. *)
LEMMA ResizePlaces ==
  ASSUME TypeInv, NEW st \in States, NEW size \in Nat,
         NEW do \in Doings, do.place # "none", Resize(st, size, do)
  PROVE  /\ Schedules /\ Places
         /\ scheduled' = [states |-> st, size |-> size]
         /\ onAck' = [serial |-> NextSerial, do |-> do] /\ onAck' \in [serial : Nat, do : Doings]
         /\ serial' \in Nat /\ dirty' \in BOOLEAN
<1>1. scheduled' = [states |-> st, size |-> size] /\ serial' = NextSerial /\ dirty' = TRUE
  BY DEF Resize, Schedule
<1>2. onAck' = [serial |-> NextSerial, do |-> do]
  BY DEF Resize
<1>3. NextSerial \in Nat
  BY DEF NextSerial, TypeInv, ServerTyped
<1>4. scheduled' \in [states : States, size : Nat]
  BY <1>1
<1>5. onAck'.do = do /\ onAck' \in [serial : Nat, do : Doings]
  BY <1>2, <1>3
<1>6. Schedule(scheduled'.states, scheduled'.size)
  BY <1>1 DEF Schedule
<1>7. Places
  BY <1>2, <1>5, <1>6 DEF Places
<1>8. QED
  BY <1>1, <1>2, <1>3, <1>4, <1>5, <1>7 DEF Schedules

(* A configure event like the last one is typed. *)
LEMMA ScheduleRepeats ==
  ASSUME TypeInv, NEW st \in States, Schedule(st, scheduled.size), UNCHANGED onAck,
         st # scheduled.states => current.full /\ st.full = scheduled.states.full
  PROVE  /\ Schedules /\ Repeats
         /\ serial' \in Nat /\ dirty' \in BOOLEAN
<1>1. scheduled' = [states |-> st, size |-> scheduled.size]
      /\ serial' = NextSerial /\ dirty' = TRUE
  BY DEF Schedule
<1>2. NextSerial \in Nat
  BY DEF NextSerial, TypeInv, ServerTyped
<1>3. scheduled.size \in Nat
  BY DEF TypeInv, ServerTyped
<1>4. scheduled' \in [states : States, size : Nat] /\ scheduled'.states = st
  BY <1>1, <1>3
<1>5. QED
  BY <1>1, <1>2, <1>4 DEF Schedules, Repeats, Schedule

(* A handler that schedules nothing. *)
LEMMA KeepsSchedules ==
  ASSUME TypeInv, UNCHANGED configVars
  PROVE  Schedules /\ serial' \in Nat /\ dirty' \in BOOLEAN
  BY DEF Schedules, Keeps, configVars, TypeInv, ServerTyped

(* The states scheduled with one of them changed. *)
LEMMA StatesType ==
  ASSUME TypeInv, NEW on \in BOOLEAN
  PROVE  /\ [scheduled.states EXCEPT !.max = on] \in States
         /\ [scheduled.states EXCEPT !.full = on] \in States
         /\ scheduled.states \in States
         /\ [scheduled.states EXCEPT !.max = on].full = scheduled.states.full
  BY DEF TypeInv, ServerTyped, States

(* The listeners of request_maximize and request_fullscreen. *)
LEMMA ReceiveStateHandles ==
  ASSUME TypeInv, NEW m \in Messages, ReceiveState(m)
  PROVE  ServerTyped' /\ Schedules
<1>1. m.on \in BOOLEAN /\ m.type \in {"maximize", "fullscreen"}
  BY DEF ReceiveState, Messages, Acknowledgements, Commits, Requests
<1>2. UNCHANGED <<unacked, acked, current, geom, pos, backdrop, onCommit, grab,
                 initialized, edge>>
  BY DEF ReceiveState
<1> PICK box \in Outputs : IF m.type = "maximize" THEN RequestMaximize(m.on, box)
                          ELSE RequestFullscreen(m.on, box)
  BY DEF ReceiveState
<1>3. restore' = Saved /\ output' \in {output, box}
  BY Zenon DEF RequestMaximize, RequestFullscreen, Maximize, Fullscreen, Restore
<1>4. Saved \in [x : Int, width : Nat, from : Int] /\ Saved.x = Saved.from + Inset
  BY ToplevelAssumption DEF Saved, TypeInv, ServerTyped
<1>5. /\ box \in Boxes /\ box.width \in Nat /\ restore'.width \in Nat
      /\ output' \in Boxes
  BY <1>3, <1>4, ToplevelAssumption DEF Boxes, TypeInv, ServerTyped
<1>6. /\ Place("maximize", box.width) \in Doings
      /\ Place("maximize", box.width).place # "none"
      /\ Place("fullscreen", box.width) \in Doings
      /\ Place("fullscreen", box.width).place # "none"
      /\ Place("restore", 0) \in Doings /\ Place("restore", 0).place # "none"
  BY <1>5, PlaceType
<1> DEFINE good == /\ Schedules /\ onAck' \in [serial : Nat, do : Doings]
                   /\ serial' \in Nat /\ dirty' \in BOOLEAN
<1>7. ASSUME m.type = "maximize" PROVE good
  <2> DEFINE st == [scheduled.states EXCEPT !.max = m.on]
  <2>1. st \in States /\ RequestMaximize(m.on, box) /\ st.full = scheduled.states.full
    BY <1>1, <1>7, StatesType
  <2>2. CASE current.full
    <3>1. Schedule(st, scheduled.size) /\ UNCHANGED onAck
      BY <2>1, <2>2 DEF RequestMaximize
    <3>2. onAck \in [serial : Nat, do : Doings]
      BY DEF TypeInv, ServerTyped
    <3> HIDE DEF st
    <3>3. QED
      BY <2>1, <2>2, <3>1, <3>2, ScheduleRepeats
  <2>3. CASE ~current.full /\ m.on
    <3>1. Resize(st, box.width, Place("maximize", box.width))
      BY <2>1, <2>3 DEF RequestMaximize, Maximize
    <3> HIDE DEF st
    <3>2. QED
      BY <1>5, <1>6, <2>1, <3>1, ResizePlaces
  <2>4. CASE ~current.full /\ ~m.on
    <3>1. Resize(st, restore'.width, Place("restore", 0))
      BY <2>1, <2>4 DEF RequestMaximize, Restore
    <3> HIDE DEF st
    <3>2. QED
      BY <1>5, <1>6, <2>1, <3>1, ResizePlaces
  <2>5. QED
    BY <2>2, <2>3, <2>4
<1>8. ASSUME m.type = "fullscreen" PROVE good
  <2> DEFINE st == [scheduled.states EXCEPT !.full = m.on]
  <2>1. st \in States /\ RequestFullscreen(m.on, box)
    BY <1>1, <1>8, StatesType
  <2>2. CASE m.on
    <3>1. Resize(st, box.width, Place("fullscreen", box.width))
      BY <2>1, <2>2 DEF RequestFullscreen, Fullscreen
    <3> HIDE DEF st
    <3>2. QED
      BY <1>5, <1>6, <2>1, <3>1, ResizePlaces
  <2>3. CASE ~m.on /\ current.max
    <3>1. Resize(st, box.width, Place("maximize", box.width))
      BY <2>1, <2>3 DEF RequestFullscreen, Maximize
    <3> HIDE DEF st
    <3>2. QED
      BY <1>5, <1>6, <2>1, <3>1, ResizePlaces
  <2>4. CASE ~m.on /\ ~current.max
    <3>1. Resize(st, restore'.width, Place("restore", 0))
      BY <2>1, <2>4 DEF RequestFullscreen, Restore
    <3> HIDE DEF st
    <3>2. QED
      BY <1>5, <1>6, <2>1, <3>1, ResizePlaces
  <2>5. QED
    BY <2>2, <2>3, <2>4
<1>9. good
  BY <1>1, <1>7, <1>8
<1>10. scheduled' \in [states : States, size : Nat]
  BY <1>9 DEF Schedules
<1>11. QED
  BY <1>2, <1>3, <1>4, <1>5, <1>9, <1>10 DEF TypeInv, ServerTyped

(* The listeners of request_move and request_resize.  A drag takes hold of *)
(* a toplevel that has been drawn.                                         *)
LEMMA ReceiveMoveHandles ==
  ASSUME TypeInv, NEW m \in Messages, ReceiveMove(m)
  PROVE  ServerTyped' /\ Schedules
<1>1. Schedules /\ UNCHANGED configVars
  BY KeepsSchedules DEF ReceiveMove
<1>2. grab' \in Grabs /\ grab'.does = "move"
  <2> DEFINE g == [does |-> "move", left |-> FALSE, x |-> 0, width |-> 0, at |-> pos]
  <2>1. grab' = g /\ pos \in Int /\ g.does = "move"
    BY DEF ReceiveMove, TypeInv, ServerTyped
  <2>2. g \in Grabs
    BY <2>1, GrabType
  <2> HIDE DEF g
  <2>3. QED
    BY <2>1, <2>2
<1>3. UNCHANGED <<output, shownVars, configVars, unacked, attached, initialized>>
  BY DEF ReceiveMove
<1>4. QED
  BY <1>1, <1>2, <1>3 DEF TypeInv, ServerTyped, shownVars, configVars

(* request_resize: the drag takes hold of the size the toplevel has. *)
LEMMA ReceiveResizeHandles ==
  ASSUME TypeInv, NEW m \in Messages, ReceiveResize(m)
  PROVE  ServerTyped' /\ Schedules /\ Repeats
<1>1. scheduled.states \in States
  BY DEF TypeInv, ServerTyped
<1>2. Schedule(scheduled.states, scheduled.size) /\ UNCHANGED onAck
  BY DEF ReceiveResize
<1>3. Schedules /\ Repeats /\ serial' \in Nat /\ dirty' \in BOOLEAN
  BY <1>1, <1>2, ScheduleRepeats
<1>4. grab' \in Grabs /\ (grab'.does = "resize" => grab'.at \in Nat)
  <2>1. m.left \in BOOLEAN /\ pos \in Int /\ geom \in Nat
    BY DEF ReceiveResize, Messages, Acknowledgements, Commits, Requests, TypeInv,
           ServerTyped
  <2>2. grab' = [does |-> "resize", left |-> m.left, x |-> pos + Inset, width |-> geom,
                  at |-> geom]
    BY DEF ReceiveResize
  <2>3. QED
    BY <2>1, <2>2, ToplevelAssumption DEF Grabs
<1>5. UNCHANGED <<output, shownVars, onAck, unacked, attached, initialized>>
  BY DEF ReceiveResize
<1>6. scheduled' \in [states : States, size : Nat]
  BY <1>3 DEF Schedules
<1>7. QED
  BY <1>3, <1>4, <1>5, <1>6 DEF TypeInv, ServerTyped, shownVars

(* The right or the left edge is dragged to a size. *)
LEMMA DragPlaces ==
  ASSUME TypeInv, NEW size \in Nat, Drag(size)
  PROVE  /\ Schedules /\ Places /\ scheduled'.size = size
         /\ scheduled'.states = scheduled.states
         /\ onAck' \in [serial : Nat, do : Doings]
         /\ serial' \in Nat /\ dirty' \in BOOLEAN
<1> DEFINE do == [place |-> "edge", left |-> grab.left, x |-> grab.x, width |-> grab.width]
<1>1. do \in Doings /\ do.place # "none"
  BY DEF Doings, TypeInv, ServerTyped, Grabs
<1>2. Resize(scheduled.states, size, do) /\ scheduled.states \in States
  BY DEF Drag, TypeInv, ServerTyped
<1> HIDE DEF do
<1>3. QED
  BY <1>1, <1>2, ResizePlaces

(* The cursor moves the toplevel. *)
LEMMA MotionMovesHandles ==
  ASSUME TypeInv, NEW x \in Positions, MotionMoves(x)
  PROVE  ServerTyped' /\ Schedules
<1>1. Schedules /\ UNCHANGED configVars
  BY KeepsSchedules DEF MotionMoves
<1>2. x \in Int
  BY ToplevelAssumption
<1>3. grab' = [grab EXCEPT !.at = x] /\ grab.does = "move" /\ grab \in Grabs
  BY DEF MotionMoves, TypeInv, ServerTyped
<1>4. grab' \in Grabs /\ grab'.does = "move"
  BY <1>2, <1>3 DEF Grabs
<1>5. pos' = x /\ edge' = {}
  BY DEF MotionMoves
<1>6. UNCHANGED <<output, acked, current, geom, restore, backdrop, onCommit,
                  configVars, unacked, attached, initialized>>
  BY DEF MotionMoves
<1>7. QED
  BY <1>1, <1>2, <1>4, <1>5, <1>6 DEF TypeInv, ServerTyped, configVars

(* The cursor drags an edge. *)
LEMMA MotionResizesHandles ==
  ASSUME TypeInv, NEW size \in DragSizes, MotionResizes(size)
  PROVE  ServerTyped' /\ Schedules
<1>1. size \in Nat /\ size > 0
  BY ToplevelAssumption
<1>2. Drag(size)
  BY DEF MotionResizes
<1>3. /\ Schedules /\ onAck' \in [serial : Nat, do : Doings]
      /\ serial' \in Nat /\ dirty' \in BOOLEAN
  BY <1>1, <1>2, DragPlaces
<1>4. grab' = [grab EXCEPT !.at = size] /\ grab \in Grabs
  BY DEF MotionResizes, TypeInv, ServerTyped
<1>5. grab' \in Grabs /\ grab'.at \in Nat
  BY <1>1, <1>4 DEF Grabs
<1>6. UNCHANGED <<output, shownVars, unacked, attached, initialized>>
  BY DEF MotionResizes
<1>7. scheduled' \in [states : States, size : Nat]
  BY <1>3 DEF Schedules
<1>8. QED
  BY <1>3, <1>5, <1>6, <1>7 DEF TypeInv, ServerTyped, shownVars

(* The button is released. *)
LEMMA ReleaseButtonHandles ==
  ASSUME TypeInv, ReleaseButton
  PROVE  ServerTyped' /\ Schedules /\ grab' = NoGrab
<1>1. NoGrab \in Grabs /\ NoGrab.does # "resize"
  BY DEF NoGrab, Grabs
<1>2. grab' = NoGrab /\ UNCHANGED <<output, shownVars, onAck, unacked, attached, initialized>>
  BY DEF ReleaseButton
<1>3. CASE grab.does = "resize"
  <2>1. Schedule(scheduled.states, scheduled.size) /\ scheduled.states \in States
    BY <1>3 DEF ReleaseButton, TypeInv, ServerTyped
  <2>2. Schedules /\ serial' \in Nat /\ dirty' \in BOOLEAN
    BY <1>2, <2>1, ScheduleRepeats
  <2>3. scheduled' \in [states : States, size : Nat]
    BY <2>2 DEF Schedules
  <2>4. QED
    BY <1>1, <1>2, <2>2, <2>3 DEF TypeInv, ServerTyped, shownVars
<1>4. CASE grab.does # "resize"
  <2>1. UNCHANGED configVars
    BY <1>2, <1>4 DEF ReleaseButton, configVars
  <2>2. Schedules
    BY <2>1, KeepsSchedules
  <2>3. QED
    BY <1>1, <1>2, <2>1, <2>2 DEF TypeInv, ServerTyped, shownVars, configVars
<1>5. QED
  BY <1>3, <1>4

(* The focus comes or goes. *)
LEMMA ActivateHandles ==
  ASSUME TypeInv, Activate
  PROVE  ServerTyped' /\ Schedules
<1>1. /\ Schedule(scheduled.states, scheduled.size) /\ scheduled.states \in States
      /\ UNCHANGED onAck
  BY DEF Activate, TypeInv, ServerTyped
<1>2. Schedules /\ serial' \in Nat /\ dirty' \in BOOLEAN
  BY <1>1, ScheduleRepeats
<1>3. scheduled' \in [states : States, size : Nat]
  BY <1>2 DEF Schedules
<1>4. UNCHANGED <<output, shownVars, onAck, unacked, attached, grab, initialized>>
  BY DEF Activate
<1>5. QED
  BY <1>2, <1>3, <1>4 DEF TypeInv, ServerTyped, shownVars

(* The output changes its mode, or goes. *)
LEMMA ChangeModeHandles ==
  ASSUME TypeInv, NEW box \in Outputs, ChangeMode(box)
  PROVE  ServerTyped' /\ Schedules
<1> DEFINE w == box.width
<1>1. w \in Nat /\ scheduled.states \in States /\ output' = box /\ box \in Boxes
  BY ToplevelAssumption
  DEF ChangeMode, Maximize, Fullscreen, TypeInv, ServerTyped, Boxes
<1>2. UNCHANGED <<shownVars, unacked, grab, initialized>>
  BY DEF ChangeMode
<1>3. \/ Resize(scheduled.states, w, Place("maximize", w))
      \/ Resize(scheduled.states, w, Place("fullscreen", w))
  BY DEF ChangeMode, Fullscreen, Maximize
<1>4. /\ Place("maximize", w) \in Doings /\ Place("maximize", w).place # "none"
      /\ Place("fullscreen", w) \in Doings /\ Place("fullscreen", w).place # "none"
  BY <1>1, PlaceType
<1> HIDE DEF w
<1>5. /\ Schedules /\ onAck' \in [serial : Nat, do : Doings]
      /\ serial' \in Nat /\ dirty' \in BOOLEAN
  BY <1>1, <1>3, <1>4, ResizePlaces
<1>6. scheduled' \in [states : States, size : Nat]
  BY <1>5 DEF Schedules
<1>7. QED
  BY <1>1, <1>2, <1>5, <1>6 DEF TypeInv, ServerTyped, shownVars

(* The output goes. *)
LEMMA LoseOutputHandles ==
  ASSUME TypeInv, LoseOutput
  PROVE  ServerTyped' /\ Schedules
<1>1. scheduled.states \in States /\ UNCHANGED output /\ restore.width \in Nat
  BY DEF LoseOutput, Restore, TypeInv, ServerTyped
<1>2. UNCHANGED <<shownVars, unacked, grab, initialized>>
  BY DEF LoseOutput
<1>3. Resize(scheduled.states, restore.width, Place("restore", 0))
  BY DEF LoseOutput, Restore
<1>4. Place("restore", 0) \in Doings /\ Place("restore", 0).place # "none"
  BY PlaceType
<1>5. /\ Schedules /\ onAck' \in [serial : Nat, do : Doings]
      /\ serial' \in Nat /\ dirty' \in BOOLEAN
  BY <1>1, <1>3, <1>4, ResizePlaces
<1>6. scheduled' \in [states : States, size : Nat]
  BY <1>5 DEF Schedules
<1>7. QED
  BY <1>1, <1>2, <1>5, <1>6 DEF TypeInv, ServerTyped, shownVars

(* The middle of a box is a whole number. *)
LEMMA CentreType ==
  ASSUME NEW b \in Int, NEW w \in Int
  PROVE  Centre(b, w) \in Int
<1>1. (b - w) \div 2 \in Int /\ (w - b) \div 2 \in Int
  OBVIOUS
<1>2. QED
  BY <1>1 DEF Centre

(* Where v_on_commit puts the toplevel. *)
LEMMA PlacedType ==
  ASSUME TypeInv, geom' \in Nat, NEW do \in Doings, Placed(do)
  PROVE  pos' \in Int /\ edge' \in SUBSET Int
<1>1. do.width \in Int /\ do.x \in Int /\ do.left \in BOOLEAN
      /\ do.place \in {"none", "restore", "maximize", "fullscreen", "edge"}
  BY DEF Doings
<1>2. Centre(do.width, geom') \in Int
  <2>1. do.width \in Int /\ geom' \in Int
    BY <1>1
  <2>2. QED
    BY <2>1, CentreType
<1>3. pos \in Int /\ restore.x \in Int /\ edge \in SUBSET Int
  BY DEF TypeInv, ServerTyped
<1>4. CASE do.place = "none"
  BY <1>3, <1>4 DEF Placed
<1>5. CASE do.place = "restore"
  BY <1>3, <1>5 DEF Placed
<1>6. CASE do.place = "maximize"
  BY <1>2, <1>3, <1>6 DEF Placed
<1>7. CASE do.place = "fullscreen"
  BY <1>2, <1>3, <1>7 DEF Placed
<1>8. CASE do.place = "edge"
  <2>1. /\ pos' = (IF do.left THEN do.x + do.width - geom' ELSE do.x) - Inset
        /\ edge' = IF do.left THEN {do.x + do.width} ELSE {}
    BY <1>1, <1>8 DEF Placed
  <2>2. QED
    BY <1>1, <2>1, ToplevelAssumption
<1>9. QED
  BY <1>1, <1>4, <1>5, <1>6, <1>7, <1>8

(* The commit listener schedules nothing, the same again, or a drag on. *)
LEMMA ReceiveCommitHandles ==
  ASSUME TypeInv, NEW m \in Messages, ReceiveCommit(m)
  PROVE  ServerTyped' /\ Schedules
<1>1. m.size \in Nat
  BY DEF ReceiveCommit, Messages, Acknowledgements, Commits, Requests
<1>2. /\ current' = acked /\ onCommit' = Nothing
      /\ geom' = IF m.size > 0 THEN m.size ELSE geom
      /\ UNCHANGED <<output, acked, restore, unacked, attached, grab>>
  BY DEF ReceiveCommit
<1>3. Nothing \in Doings
  BY DEF Nothing, Doings
<1>4. geom' \in Nat
  BY <1>1, <1>2 DEF TypeInv, ServerTyped
<1> DEFINE again == onCommit.place \in {"restore", "maximize", "fullscreen"}
           good == /\ Schedules /\ onAck' \in [serial : Nat, do : Doings]
                   /\ serial' \in Nat /\ dirty' \in BOOLEAN
<1>5. ASSUME again /\ grab.does = "resize" PROVE good
  <2>1. Drag(grab.at) /\ grab.at \in Nat
    BY <1>5 DEF ReceiveCommit, TypeInv, ServerTyped
  <2>2. QED
    BY <2>1, DragPlaces
<1>6. ASSUME ~(again /\ grab.does = "resize") PROVE good
  <2>1. UNCHANGED onAck /\ onAck \in [serial : Nat, do : Doings]
    BY <1>6 DEF ReceiveCommit, TypeInv, ServerTyped
  <2>2. CASE ~initialized \/ (geom = 0 /\ m.size > 0)
    <3>1. Schedule(scheduled.states, scheduled.size) /\ scheduled.states \in States
      BY <1>6, <2>2 DEF ReceiveCommit, TypeInv, ServerTyped
    <3>2. QED
      BY <2>1, <3>1, ScheduleRepeats
  <2>3. CASE ~(~initialized \/ (geom = 0 /\ m.size > 0))
    <3>1. UNCHANGED configVars
      BY <1>6, <2>1, <2>3 DEF ReceiveCommit, configVars
    <3>2. QED
      BY <2>1, <3>1, KeepsSchedules
  <2>4. QED
    BY <2>2, <2>3
<1>7. good
  BY <1>5, <1>6
<1>8. pos' \in Int /\ edge' \in SUBSET Int
  <2>1. CASE again /\ grab.does = "move"
    <3>1. pos' = grab.at /\ edge' = {} /\ grab.at \in Int
      BY <2>1 DEF ReceiveCommit, TypeInv, ServerTyped, Grabs
    <3>2. QED
      BY <3>1
  <2>2. CASE ~(again /\ grab.does = "move")
    <3>1. Placed(onCommit) /\ onCommit \in Doings
      BY <2>2 DEF ReceiveCommit, TypeInv, ServerTyped
    <3>2. QED
      BY <1>4, <3>1, PlacedType
  <2>3. QED
    BY <2>1, <2>2
<1>9. scheduled' \in [states : States, size : Nat]
  BY <1>7 DEF Schedules
<1>10. QED
  BY <1>2, <1>3, <1>4, <1>7, <1>8, <1>9 DEF TypeInv, ServerTyped

-----------------------------------------------------------------------------
(* What is in a queue stays in its order as its head is taken from it. *)
LEMMA TailOf ==
  ASSUME NEW S, NEW q \in Seq(S), q # <<>>
  PROVE  /\ Tail(q) \in Seq(S) /\ Len(Tail(q)) = Len(q) - 1 /\ q[1] \in S /\ Len(q) >= 1
         /\ DOMAIN Tail(q) = 1..(Len(q) - 1)
         /\ \A k \in 1..(Len(q) - 1) : Tail(q)[k] = q[k + 1] /\ k + 1 \in DOMAIN q
         /\ Head(q) = q[1]
  OBVIOUS

(* What is added to a queue is behind what is in it. *)
LEMMA AppendTo ==
  ASSUME NEW S, NEW q \in Seq(S), NEW m \in S
  PROVE  /\ Append(q, m) \in Seq(S) /\ Len(Append(q, m)) = Len(q) + 1
         /\ DOMAIN Append(q, m) = 1..(Len(q) + 1)
         /\ \A k \in 1..Len(q) : Append(q, m)[k] = q[k] /\ k \in DOMAIN q
         /\ Append(q, m)[Len(q) + 1] = m
         /\ Len(q) \in Nat
  OBVIOUS

(* The messages an application sends are typed. *)
LEMMA MessageTypes ==
  ASSUME NEW n \in Nat
  PROVE  Ack(n) \in Messages /\ Commit(n) \in Messages /\ Commit(n) \in Commits
         /\ Ack(n).type = "ack" /\ Ack(n).serial = n /\ Commit(n).type = "commit"
         /\ Commit(n).size = n
  BY DEF Ack, Commit, Messages, Acknowledgements, Commits

(* What is on its way is typed. *)
LEMMA OnTheWay ==
  ASSUME TypeInv
  PROVE  /\ \A i \in DOMAIN toServer : toServer[i] \in Messages
         /\ \A i \in Acks : i \in DOMAIN toServer /\ toServer[i].serial \in Nat
         /\ \A i \in DOMAIN toServer : toServer[i].type = "commit" => toServer[i].size \in Nat
         /\ \A i \in DOMAIN toClient : /\ toClient[i] \in Configures
                                       /\ toClient[i].serial \in Nat
                                       /\ toClient[i].states \in States
                                       /\ toClient[i].size \in Nat
<1>1. \A i \in DOMAIN toServer : toServer[i] \in Messages
  BY DEF TypeInv, ChannelsTyped
<1>2. \A m \in Messages : /\ m.type = "ack" => m.serial \in Nat
                          /\ m.type = "commit" => m.size \in Nat
  BY DEF Messages, Acknowledgements, Commits, Requests
<1>3. \A i \in DOMAIN toClient : toClient[i] \in Configures
  BY DEF TypeInv, ChannelsTyped
<1>4. \A m \in Configures : m.serial \in Nat /\ m.states \in States /\ m.size \in Nat
  BY DEF Configures
<1>5. QED
  BY <1>1, <1>2, <1>3, <1>4 DEF Acks

(* The width t_frame takes when it is configured by m. *)
Width(m) ==
  LET asked == IF m.size <= 0 THEN kept ELSE m.size
  IN IF Filling(m.states) THEN m.size ELSE Measured(asked)

(* That width is a whole number. *)
LEMMA WidthType ==
  ASSUME TypeInv, NEW m \in Configures
  PROVE  Width(m) \in Int
<1>1. kept \in Int /\ egl \in Nat /\ m.size \in Nat
  BY DEF TypeInv, ClientTyped, Configures
<1>2. Default \in Nat /\ Cell \in Nat /\ Cell > 0
  BY FrameAssumption
<1>3. \A a \in Int : (a \div Cell) * Cell \in Int
  BY <1>2
<1>4. \A w \in Int : Measured(w) \in Int
  BY <1>1, <1>2, <1>3 DEF Measured
<1>5. QED
  BY <1>1, <1>4 DEF Width

(* t_frame either draws at once and acknowledges, or when the frame it asks *)
(* for is due.                                                             *)
LEMMA ConfiguredClient ==
  ASSUME TypeInv, ClientReceives
  PROVE  LET m == toClient[1] IN
         /\ toClient # <<>> /\ m \in Configures
         /\ toClient' = Tail(toClient) /\ configured' = m.serial
         /\ ClientTyped'
         /\ egl' = IF Width(m) <= 0 THEN 0 ELSE Width(m)
         /\ \/ /\ toServer' = Append(Append(toServer, Ack(m.serial)), Commit(egl'))
               /\ drawn' = egl' /\ configuring' = FALSE
            \/ /\ toServer' \in {toServer, Append(toServer, Commit(0))}
               /\ UNCHANGED drawn /\ configuring' = TRUE /\ egl > 0
<1> DEFINE m == toClient[1]
<1>1. toClient # <<>> /\ toClient' = Tail(toClient) /\ Head(toClient) = m
      /\ m \in Configures
  <2>1. toClient # <<>> /\ toClient' = Tail(toClient)
    BY DEF ClientReceives
  <2>2. QED
    BY <2>1, TailOf DEF TypeInv, ChannelsTyped
<1>2. ReceiveConfigure(m)
  BY <1>1 DEF ClientReceives
<1> DEFINE w == Width(m)
<1>3. m.serial \in Nat /\ m.states \in States /\ w \in Int
  BY <1>1, WidthType DEF Configures
<1>4. /\ states' = m.states /\ configured' = m.serial
      /\ kept' = IF Filling(m.states) THEN kept ELSE w
      /\ ResizeTo(w, m.states, TRUE, m.serial)
  BY <1>2 DEF ReceiveConfigure, Width
<1> HIDE DEF m, w
<1>5. kept' \in Int /\ egl \in Nat /\ drawn \in Nat
  BY <1>3, <1>4 DEF TypeInv, ClientTyped
<1> DEFINE draws == /\ toServer' = Append(Append(toServer, Ack(m.serial)), Commit(egl'))
                    /\ drawn' = egl' /\ configuring' = FALSE
           waits == /\ toServer' \in {toServer, Append(toServer, Commit(0))}
                    /\ UNCHANGED drawn /\ configuring' = TRUE /\ egl > 0
<1>6. ASSUME w <= 0 PROVE egl' = 0 /\ draws
  BY <1>4, <1>6 DEF ResizeTo
<1>7. ASSUME w > 0 PROVE egl' = w /\ (draws \/ waits)
  <2>1. /\ egl' = w
        /\ IF egl = 0 \/ m.states.max
           THEN Swap(w, TRUE, m.serial) /\ UNCHANGED frame
           ELSE RequestFrame /\ configuring' = TRUE /\ UNCHANGED drawn
    <3>1. ~(w <= 0)
      BY <1>3, <1>7
    <3>2. QED
      BY <1>4, <3>1 DEF ResizeTo
  <2>2. CASE egl = 0 \/ m.states.max
    <3>1. Swap(w, TRUE, m.serial)
      BY <2>1, <2>2
    <3>2. QED
      BY <2>1, <3>1 DEF Swap
  <2>3. CASE ~(egl = 0 \/ m.states.max)
    <3>1. RequestFrame /\ configuring' = TRUE /\ UNCHANGED drawn /\ egl > 0
      BY <1>5, <2>1, <2>3
    <3>2. QED
      BY <2>1, <3>1 DEF RequestFrame
  <2>4. QED
    BY <2>2, <2>3
<1>8. draws => drawn' = egl' /\ configuring' \in BOOLEAN
  BY Zenon
<1>9. waits => drawn' = drawn /\ configuring' \in BOOLEAN
  BY Zenon
<1> HIDE DEF draws, waits
<1>10. egl' = (IF w <= 0 THEN 0 ELSE w) /\ (draws \/ waits)
  BY <1>3, <1>6, <1>7
<1>11. egl' \in Nat /\ drawn' \in Nat /\ configuring' \in BOOLEAN
  BY <1>3, <1>5, <1>8, <1>9, <1>10
<1>12. ClientTyped'
  BY <1>3, <1>4, <1>5, <1>11 DEF ClientTyped
<1>13. QED
  BY <1>1, <1>4, <1>10, <1>12 DEF m, w, draws, waits

(* The window is drawn as the frame callback comes. *)
LEMMA FrameDoneClient ==
  ASSUME TypeInv, FrameDone
  PROVE  /\ ClientTyped' /\ UNCHANGED <<configured, toClient, egl>>
         /\ drawn' = egl /\ configuring' = FALSE
         /\ toServer' = IF configuring
                        THEN Append(Append(toServer, Ack(configured)), Commit(egl))
                        ELSE Append(toServer, Commit(egl))
<1>1. /\ Swap(egl, configuring, configured)
      /\ UNCHANGED <<width, states, kept, configured, egl, toClient>>
  BY DEF FrameDone
<1>2. QED
  BY <1>1 DEF Swap, TypeInv, ClientTyped

(* The application resizes its window. *)
LEMMA AppResizeClient ==
  ASSUME TypeInv, NEW w \in AppSizes, AppResize(w)
  PROVE  /\ ClientTyped' /\ UNCHANGED <<configured, toClient>>
         /\ \/ /\ UNCHANGED configuring
               /\ toServer' \in {toServer, Append(toServer, Commit(0)),
                                 Append(toServer, Commit(w))}
            \/ /\ configuring /\ configuring' = FALSE
               /\ toServer' = Append(Append(toServer, Ack(configured)), Commit(w))
<1>1. w \in Nat /\ w > 0
  BY FrameAssumption
<1>2. kept' = w /\ UNCHANGED <<states, configured, toClient>>
  BY DEF AppResize
<1>3. states \in States /\ configuring \in BOOLEAN /\ configured \in Nat /\ egl \in Nat
      /\ drawn \in Nat
  BY DEF TypeInv, ClientTyped
<1>4. CASE Filling(states)
  <2>1. UNCHANGED <<width, configuring, egl, drawn, frame, toServer>>
    BY <1>4 DEF AppResize
  <2>2. QED
    BY <1>1, <1>2, <1>3, <2>1 DEF ClientTyped
<1>5. CASE ~Filling(states)
  <2>1. ResizeTo(w, states, configuring, configured)
    BY <1>5 DEF AppResize
  <2>2. CASE egl > 0 /\ ~configuring /\ w = drawn
    <3>1. configuring' = FALSE /\ UNCHANGED <<egl, drawn, toServer, frame>>
      BY <1>1, <2>1, <2>2 DEF ResizeTo
    <3>2. UNCHANGED configuring
      BY <1>3, <2>2, <3>1
    <3>3. QED
      BY <1>1, <1>2, <1>3, <3>1, <3>2 DEF ClientTyped
  <2>3. CASE ~(egl > 0 /\ ~configuring /\ w = drawn)
    <3>1. /\ egl' = w
          /\ IF egl = 0 \/ states.max
             THEN Swap(w, configuring, configured) /\ UNCHANGED frame
             ELSE RequestFrame /\ configuring' = configuring /\ UNCHANGED drawn
      BY <1>1, <2>1, <2>3 DEF ResizeTo
    <3>2. CASE egl = 0 \/ states.max
      <4>1. Swap(w, configuring, configured)
        BY <3>1, <3>2
      <4>2. /\ toServer' = Append(IF configuring THEN Append(toServer, Ack(configured))
                                 ELSE toServer, Commit(w))
            /\ configuring' = FALSE /\ drawn' = w
        BY <4>1 DEF Swap
      <4>3. ClientTyped'
        <5>1. configuring' \in BOOLEAN /\ drawn' = w /\ egl' = w
          BY <3>1, <4>2, Zenon
        <5>2. QED
          BY <1>1, <1>2, <1>3, <5>1 DEF ClientTyped
      <4>4. CASE configuring
        BY <1>2, <4>2, <4>3, <4>4
      <4>5. CASE ~configuring
        <5>1. UNCHANGED configuring /\ toServer' = Append(toServer, Commit(w))
          BY <1>3, <4>2, <4>5
        <5>2. QED
          BY <1>2, <4>3, <5>1
      <4>6. QED
        BY <4>4, <4>5
    <3>3. CASE ~(egl = 0 \/ states.max)
      <4>1. RequestFrame /\ configuring' = configuring /\ UNCHANGED drawn
        BY <3>1, <3>3
      <4>2. toServer' \in {toServer, Append(toServer, Commit(0))}
        BY <4>1 DEF RequestFrame
      <4>3. QED
        BY <1>1, <1>2, <1>3, <3>1, <4>1, <4>2 DEF ClientTyped
    <3>4. QED
      BY <3>2, <3>3
  <2>4. QED
    BY <2>2, <2>3
<1>6. QED
  BY <1>4, <1>5

-----------------------------------------------------------------------------
(* A serial that is past stays past. *)
LEMMA PastKept ==
  ASSUME TypeInv, Schedules, NEW s \in Nat, Past(s)
  PROVE  s <= serial' /\ (dirty' => s < serial')
<1>1. serial \in Nat /\ dirty \in BOOLEAN
  BY DEF TypeInv, ServerTyped
<1>2. \/ UNCHANGED <<serial, dirty>>
      \/ serial' = NextSerial /\ dirty' = TRUE
  BY DEF Schedules, Keeps, Repeats, Places, Schedule, configVars
<1>3. CASE UNCHANGED <<serial, dirty>>
  BY <1>3 DEF Past
<1>4. CASE serial' = NextSerial /\ dirty' = TRUE
  BY <1>1, <1>4 DEF Past, NextSerial
<1>5. QED
  BY <1>2, <1>3, <1>4

(* Acknowledgements stay in order as a message is taken that is none. *)
LEMMA AcksKept ==
  ASSUME TypeInv, SerialInv, UNCHANGED unacked, toServer # <<>>,
         toServer' = Tail(toServer)
  PROVE  /\ AcksInOrder'
         /\ \A i \in Acks' : toServer'[i].serial <= configured
                             /\ (configuring => toServer'[i].serial < configured)
         /\ \A i \in Acks' : i + 1 \in Acks /\ toServer'[i] = toServer[i + 1]
<1>1. /\ DOMAIN toServer' = 1..(Len(toServer) - 1) /\ Len(toServer) \in Nat
      /\ \A k \in 1..(Len(toServer) - 1) : toServer'[k] = toServer[k + 1]
                                           /\ k + 1 \in DOMAIN toServer
  BY TailOf DEF TypeInv, ChannelsTyped
<1>2. \A i \in Acks' : i \in Int /\ i + 1 \in Acks /\ toServer'[i] = toServer[i + 1]
  BY <1>1 DEF Acks
<1>3. \A i \in Acks' : toServer'[i].serial <= configured
                       /\ (configuring => toServer'[i].serial < configured)
  BY <1>2 DEF SerialInv, ToServerInv
<1>4. \A i \in Acks' : \E c \in unacked' : c.serial = toServer'[i].serial
  BY <1>2 DEF SerialInv, AcksInOrder
<1>5. ASSUME NEW i \in Acks', NEW j \in Acks', i < j
      PROVE  toServer'[i].serial < toServer'[j].serial
  <2>1. i + 1 \in Acks /\ j + 1 \in Acks /\ i + 1 < j + 1
    BY <1>2, <1>5
  <2>2. toServer[i + 1].serial < toServer[j + 1].serial
    BY <2>1 DEF SerialInv, AcksInOrder
  <2>3. QED
    BY <1>2, <2>2
<1>6. AcksInOrder'
  BY <1>4, <1>5 DEF AcksInOrder
<1>7. QED
  BY <1>2, <1>3, <1>6

(* Whatever the compositor handles, the serials on their way stay in order. *)
LEMMA HandlesSerials ==
  ASSUME TypeInv, SerialInv, Handles
  PROVE  SerialInv'
<1>1. UNCHANGED <<unacked, configuring, configured, toClient>>
  BY DEF Handles, frameVars
<1>2. \A c \in unacked : c.serial \in Nat /\ configured \in Nat
  BY DEF TypeInv, ServerTyped, ClientTyped, Configured
<1>3. SentInv'
  <2>1. Schedules /\ configured \in Nat /\ Past(configured)
    BY DEF Handles, TypeInv, ClientTyped, SerialInv, SentInv
  <2>2. configured <= serial' /\ (dirty' => configured < serial')
    BY <2>1, PastKept
  <2>3. ASSUME NEW c \in unacked PROVE c.serial <= serial' /\ (dirty' => c.serial < serial')
    <3>1. c.serial \in Nat /\ Past(c.serial)
      BY <1>2 DEF SerialInv, SentInv
    <3>2. QED
      BY <2>1, <3>1, PastKept
  <2>4. QED
    BY <1>1, <2>2, <2>3 DEF SentInv, Past
<1>4. ToClientInv'
  BY <1>1 DEF SerialInv, ToClientInv, Outstanding
<1>5. configuring' => Outstanding(configured)'
  BY <1>1 DEF SerialInv, ToServerInv, Outstanding
<1>6. CASE UNCHANGED toServer
  BY <1>1, <1>3, <1>4, <1>5, <1>6 DEF SerialInv, ToServerInv, AcksInOrder, Acks
<1>7. CASE toServer # <<>> /\ toServer' = Tail(toServer)
  <2>1. /\ AcksInOrder'
        /\ \A i \in Acks' : toServer'[i].serial <= configured
                            /\ (configuring => toServer'[i].serial < configured)
    BY <1>1, <1>7, AcksKept
  <2>2. ToServerInv'
    BY <1>1, <1>5, <2>1 DEF ToServerInv
  <2>3. QED
    BY <1>3, <1>4, <2>1, <2>2 DEF SerialInv
<1>8. QED
  BY <1>6, <1>7 DEF Handles

(* A configure event is sent, and kept until it is acknowledged. *)
LEMMA SendSerials ==
  ASSUME TypeInv, SerialInv, SendConfigure, UNCHANGED frameVars
  PROVE  TypeInv' /\ SerialInv'
<1> DEFINE c == [serial |-> serial, states |-> scheduled.states]
           m == [type |-> "configure", serial |-> serial, states |-> scheduled.states,
                 size |-> scheduled.size]
<1>1. /\ dirty /\ dirty' = FALSE
      /\ unacked' = unacked \cup {c} /\ toClient' = Append(toClient, m)
      /\ UNCHANGED <<output, shownVars, scheduled, serial, onAck, attached, grab,
                     initialized, toServer>>
  BY DEF SendConfigure
<1>2. c \in Configured /\ c.serial = serial /\ m \in Configures /\ m.serial = serial
      /\ serial \in Nat
  BY DEF Configured, Configures, TypeInv, ServerTyped
<1> HIDE DEF c, m
<1>3. UNCHANGED <<configuring, configured>> /\ configured \in Nat
  BY DEF frameVars, TypeInv, ClientTyped
<1>4. ServerTyped'
  BY <1>1, <1>2 DEF TypeInv, ServerTyped, shownVars
<1>5. ClientTyped'
  BY DEF frameVars, TypeInv, ClientTyped
<1>6. toClient \in Seq(Configures) /\ toServer \in Seq(Messages)
  BY DEF TypeInv, ChannelsTyped
<1>7. /\ toClient' \in Seq(Configures)
      /\ DOMAIN toClient' = 1..(Len(toClient) + 1) /\ Len(toClient) \in Nat
      /\ \A k \in 1..Len(toClient) : toClient'[k] = toClient[k] /\ k \in DOMAIN toClient
      /\ toClient'[Len(toClient) + 1] = m
  BY <1>1, <1>2, <1>6, AppendTo
<1>8. ChannelsTyped'
  BY <1>1, <1>6, <1>7 DEF ChannelsTyped
<1>9. \A d \in unacked : d.serial \in Nat /\ d.serial < serial
  BY <1>1 DEF TypeInv, ServerTyped, Configured, SerialInv, SentInv, Past
<1>10. configured < serial
  BY <1>1 DEF SerialInv, SentInv, Past
<1>11. SentInv'
  BY <1>1, <1>2, <1>3, <1>9, <1>10 DEF SentInv, Past
<1>12. \A s : Outstanding(s) => Outstanding(s)'
  BY <1>1 DEF Outstanding
<1>13. c \in unacked'
  BY <1>1
<1>14. \A k \in 1..Len(toClient) : toClient[k].serial \in Nat /\ toClient[k].serial < serial
  BY <1>7, <1>9, OnTheWay DEF SerialInv, ToClientInv, Outstanding
<1>15. ToClientInv'
  <2>1. ASSUME NEW i \in DOMAIN toClient'
        PROVE  /\ \E d \in unacked' : d.serial = toClient'[i].serial
               /\ toClient'[i].serial > configured'
    <3>1. CASE i = Len(toClient) + 1
      <4>1. toClient'[i].serial = serial
        BY <1>2, <1>7, <3>1
      <4>2. QED
        BY <1>2, <1>3, <1>10, <1>13, <4>1
    <3>2. CASE i # Len(toClient) + 1
      <4>1. i \in 1..Len(toClient)
        BY <1>7, <2>1, <3>2
      <4>2. toClient'[i] = toClient[i] /\ i \in DOMAIN toClient
        BY <1>7, <4>1
      <4>3. Outstanding(toClient[i].serial) /\ toClient[i].serial > configured
        BY <4>2 DEF SerialInv, ToClientInv
      <4>4. QED
        BY <1>1, <1>3, <4>2, <4>3 DEF Outstanding
    <3>3. QED
      BY <3>1, <3>2
  <2>2. ASSUME NEW i \in DOMAIN toClient', NEW j \in DOMAIN toClient', i < j
        PROVE  toClient'[i].serial < toClient'[j].serial
    <3>1. i \in 1..Len(toClient) /\ (j \in 1..Len(toClient) \/ j = Len(toClient) + 1)
      BY <1>7, <2>2
    <3>2. toClient'[i] = toClient[i] /\ i \in DOMAIN toClient
      BY <1>7, <3>1
    <3>3. CASE j = Len(toClient) + 1
      BY <1>2, <1>7, <1>14, <3>1, <3>2, <3>3
    <3>4. CASE j \in 1..Len(toClient)
      <4>1. toClient'[j] = toClient[j] /\ j \in DOMAIN toClient
        BY <1>7, <3>4
      <4>2. QED
        BY <2>2, <3>2, <4>1 DEF SerialInv, ToClientInv
    <3>5. QED
      BY <3>1, <3>3, <3>4
  <2>3. QED
    BY <2>1, <2>2 DEF ToClientInv, Outstanding
<1>16. ToServerInv' /\ AcksInOrder'
  <2>1. Acks' = Acks /\ toServer' = toServer
    BY <1>1 DEF Acks
  <2>2. \A i \in Acks : \E d \in unacked' : d.serial = toServer[i].serial
    BY <1>1 DEF SerialInv, AcksInOrder
  <2>3. configuring' => Outstanding(configured)'
    BY <1>1, <1>3 DEF SerialInv, ToServerInv, Outstanding
  <2>4. QED
    BY <1>3, <2>1, <2>2, <2>3 DEF SerialInv, ToServerInv, AcksInOrder
<1>17. QED
  BY <1>4, <1>5, <1>8, <1>11, <1>15, <1>16 DEF TypeInv, SerialInv

(* A message that is no acknowledgement is sent. *)
LEMMA OneSent ==
  ASSUME TypeInv, SerialInv, UNCHANGED unacked,
         NEW m \in Messages, m.type # "ack", toServer' = Append(toServer, m)
  PROVE  /\ toServer' \in Seq(Messages) /\ AcksInOrder'
         /\ \A i \in Acks' : i \in Acks /\ toServer'[i] = toServer[i]
<1>1. /\ toServer' \in Seq(Messages)
      /\ DOMAIN toServer' = 1..(Len(toServer) + 1) /\ Len(toServer) \in Nat
      /\ \A k \in 1..Len(toServer) : toServer'[k] = toServer[k] /\ k \in DOMAIN toServer
      /\ toServer'[Len(toServer) + 1] = m
  BY AppendTo DEF TypeInv, ChannelsTyped
<1>2. ASSUME NEW i \in Acks'
      PROVE  i \in Acks /\ toServer'[i] = toServer[i]
  <2>1. i \in 1..(Len(toServer) + 1) /\ toServer'[i].type = "ack"
    BY <1>1 DEF Acks
  <2>2. i \in 1..Len(toServer)
    BY <1>1, <2>1
  <2>3. QED
    BY <1>1, <2>1, <2>2 DEF Acks
<1>3. AcksInOrder'
  BY <1>2 DEF SerialInv, AcksInOrder
<1>4. QED
  BY <1>1, <1>2, <1>3

(* An event newer than those acknowledged before is acknowledged. *)
LEMMA AckSent ==
  ASSUME TypeInv, SerialInv, UNCHANGED unacked, NEW s \in Nat, NEW w \in Nat,
         Outstanding(s), \A i \in Acks : toServer[i].serial < s,
         toServer' = Append(Append(toServer, Ack(s)), Commit(w))
  PROVE  /\ toServer' \in Seq(Messages) /\ AcksInOrder'
         /\ \A i \in Acks' : toServer'[i].serial <= s
<1>1. Ack(s) \in Messages /\ Commit(w) \in Messages
      /\ Ack(s).serial = s /\ Commit(w).type = "commit"
  BY MessageTypes
<1> DEFINE q == Append(toServer, Ack(s))
<1>2. /\ q \in Seq(Messages) /\ Len(q) = Len(toServer) + 1
      /\ \A k \in 1..Len(toServer) : q[k] = toServer[k] /\ k \in DOMAIN toServer
      /\ q[Len(toServer) + 1] = Ack(s) /\ Len(toServer) \in Nat
  BY <1>1, AppendTo DEF TypeInv, ChannelsTyped
<1> HIDE DEF q
<1>3. toServer' = Append(q, Commit(w))
  BY DEF q
<1>4. /\ toServer' \in Seq(Messages)
      /\ DOMAIN toServer' = 1..(Len(q) + 1)
      /\ \A k \in 1..Len(q) : toServer'[k] = q[k]
      /\ toServer'[Len(q) + 1] = Commit(w)
  BY <1>1, <1>2, <1>3, AppendTo
<1>5. ASSUME NEW i \in Acks'
      PROVE  \/ i \in Acks /\ i \in 1..Len(toServer) /\ toServer'[i] = toServer[i]
             \/ i = Len(toServer) + 1 /\ toServer'[i].serial = s
  <2>1. i \in 1..(Len(q) + 1) /\ toServer'[i].type = "ack"
    BY <1>4 DEF Acks
  <2>2. i \in 1..Len(q)
    BY <1>1, <1>2, <1>4, <2>1
  <2>3. CASE i = Len(toServer) + 1
    BY <1>1, <1>2, <1>4, <2>2, <2>3
  <2>4. CASE i # Len(toServer) + 1
    <3>1. i \in 1..Len(toServer)
      BY <1>2, <2>2, <2>4
    <3>2. toServer'[i] = toServer[i] /\ i \in DOMAIN toServer
      BY <1>2, <1>4, <2>2, <3>1
    <3>3. QED
      BY <2>1, <3>1, <3>2 DEF Acks
  <2>5. QED
    BY <2>3, <2>4
<1>6. \A i \in Acks : toServer[i].serial \in Nat
  BY OnTheWay
<1>7. \A i \in Acks' : toServer'[i].serial <= s
  BY <1>5, <1>6
<1>8. \A i \in Acks' : \E c \in unacked' : c.serial = toServer'[i].serial
  BY <1>5 DEF SerialInv, AcksInOrder, Outstanding
<1>9. ASSUME NEW i \in Acks', NEW j \in Acks', i < j
      PROVE  toServer'[i].serial < toServer'[j].serial
  <2>1. i \in Acks /\ toServer'[i] = toServer[i]
    BY <1>2, <1>5, <1>9
  <2>2. CASE j \in Acks /\ toServer'[j] = toServer[j]
    BY <1>9, <2>1, <2>2 DEF SerialInv, AcksInOrder
  <2>3. CASE toServer'[j].serial = s
    BY <2>1, <2>3
  <2>4. QED
    BY <1>5, <2>2, <2>3
<1>10. QED
  BY <1>4, <1>7, <1>8, <1>9 DEF AcksInOrder

(* An application is configured: what it may acknowledge from now on is    *)
(* newer than all it has acknowledged.                                     *)
LEMMA ConfiguredSerials ==
  ASSUME TypeInv, SerialInv, ClientReceives, UNCHANGED toplevelVars
  PROVE  TypeInv' /\ SerialInv'
<1> DEFINE m == toClient[1]
           s == m.serial
           draws == toServer' = Append(Append(toServer, Ack(s)), Commit(egl'))
                    /\ configuring' = FALSE
           waits == toServer' \in {toServer, Append(toServer, Commit(0))}
                    /\ configuring' = TRUE
<1>1. /\ toClient # <<>> /\ m \in Configures
      /\ toClient' = Tail(toClient) /\ configured' = s /\ ClientTyped'
      /\ draws \/ waits
  BY ConfiguredClient
<1>2. UNCHANGED <<unacked, serial, dirty>> /\ ServerTyped'
  BY DEF toplevelVars, configVars, shownVars, TypeInv, ServerTyped
<1>3. /\ Tail(toClient) \in Seq(Configures)
      /\ DOMAIN toClient' = 1..(Len(toClient) - 1) /\ Len(toClient) \in Nat
      /\ \A k \in 1..(Len(toClient) - 1) : toClient'[k] = toClient[k + 1]
                                           /\ k + 1 \in DOMAIN toClient
      /\ 1 \in DOMAIN toClient
  BY <1>1, TailOf DEF TypeInv, ChannelsTyped
<1>4. s \in Nat /\ Outstanding(s) /\ s > configured /\ configured \in Nat /\ egl' \in Nat
  BY <1>1, <1>3, OnTheWay DEF SerialInv, ToClientInv, TypeInv, ClientTyped
<1>5. \A i \in Acks : toServer[i].serial \in Nat /\ toServer[i].serial <= configured
  BY OnTheWay DEF SerialInv, ToServerInv
<1>6. \A i \in Acks : toServer[i].serial < s
  BY <1>4, <1>5
<1> HIDE DEF m, s
<1>7. /\ toServer' \in Seq(Messages) /\ AcksInOrder'
      /\ \A i \in Acks' : toServer'[i].serial <= s
                          /\ (configuring' => toServer'[i].serial < s)
  <2>1. CASE draws
    <3>1. toServer' = Append(Append(toServer, Ack(s)), Commit(egl')) /\ ~configuring'
      BY <2>1
    <3> DEFINE w == egl'
    <3>2. w \in Nat /\ toServer' = Append(Append(toServer, Ack(s)), Commit(w))
      BY <1>4, <3>1
    <3> HIDE DEF w
    <3>3. /\ toServer' \in Seq(Messages) /\ AcksInOrder'
          /\ \A i \in Acks' : toServer'[i].serial <= s
      BY <1>2, <1>4, <1>6, <3>2, AckSent
    <3>4. QED
      BY <3>1, <3>3
  <2>2. CASE waits
    <3>1. CASE toServer' = toServer
      <4>1. toServer \in Seq(Messages) /\ Acks' = Acks
        BY <3>1 DEF TypeInv, ChannelsTyped, Acks
      <4>2. AcksInOrder'
        BY <1>2, <3>1, <4>1 DEF SerialInv, AcksInOrder
      <4>3. QED
        BY <1>4, <1>5, <1>6, <3>1, <4>1, <4>2
    <3>2. CASE toServer' = Append(toServer, Commit(0))
      <4>1. Commit(0) \in Messages /\ Commit(0).type # "ack"
        BY MessageTypes
      <4>2. /\ toServer' \in Seq(Messages) /\ AcksInOrder'
            /\ \A i \in Acks' : i \in Acks /\ toServer'[i] = toServer[i]
        BY <1>2, <3>2, <4>1, OneSent
      <4>3. QED
        BY <1>4, <1>5, <1>6, <4>2
    <3>3. QED
      BY <2>2, <3>1, <3>2
  <2>3. QED
    BY <1>1, <2>1, <2>2
<1>8. TypeInv'
  BY <1>1, <1>2, <1>3, <1>7 DEF TypeInv, ChannelsTyped
<1>9. \A r \in Nat : r <= s => (Past(s) => Past(r))
  BY <1>4 DEF Past, TypeInv, ServerTyped
<1>10. s <= serial /\ (dirty => s < serial)
  BY <1>4 DEF Outstanding, SerialInv, SentInv, Past
<1>11. SentInv'
  BY <1>1, <1>2, <1>10 DEF SerialInv, SentInv, Past
<1>12. \A i \in DOMAIN toClient' : i \in Int /\ i + 1 \in DOMAIN toClient
                                   /\ 1 < i + 1 /\ toClient'[i] = toClient[i + 1]
  BY <1>3
<1>13. ToClientInv'
  <2>1. ASSUME NEW i \in DOMAIN toClient'
        PROVE  /\ \E c \in unacked' : c.serial = toClient'[i].serial
               /\ toClient'[i].serial > configured'
    <3>1. /\ \E c \in unacked : c.serial = toClient[i + 1].serial
          /\ toClient[1].serial < toClient[i + 1].serial
      BY <1>3, <1>12 DEF SerialInv, ToClientInv, Outstanding
    <3>2. toClient[i + 1].serial \in Nat /\ toClient[1].serial = s
      BY <1>12, OnTheWay DEF m, s
    <3>3. QED
      BY <1>1, <1>2, <1>4, <1>12, <3>1, <3>2
  <2>2. ASSUME NEW i \in DOMAIN toClient', NEW j \in DOMAIN toClient', i < j
        PROVE  toClient'[i].serial < toClient'[j].serial
    <3>1. i + 1 < j + 1
      BY <1>12, <2>2
    <3>2. QED
      BY <1>12, <3>1 DEF SerialInv, ToClientInv
  <2>3. QED
    BY <2>1, <2>2 DEF ToClientInv, Outstanding
<1>14. ToServerInv'
  BY <1>1, <1>2, <1>4, <1>7 DEF ToServerInv, Outstanding
<1>15. QED
  BY <1>7, <1>8, <1>11, <1>13, <1>14 DEF SerialInv

(* What an application does of its own accord sends what waits to be       *)
(* acknowledged, or nothing that is an acknowledgement.                    *)
LEMMA SendingSerials ==
  ASSUME TypeInv, SerialInv, ClientTyped', UNCHANGED toplevelVars,
         UNCHANGED <<configured, toClient>>,
         \/ /\ configuring' = FALSE \/ UNCHANGED configuring
            /\ \/ UNCHANGED toServer
               \/ \E m \in Messages : m.type # "ack" /\ toServer' = Append(toServer, m)
         \/ /\ configuring /\ configuring' = FALSE
            /\ \E w \in Nat : toServer' = Append(Append(toServer, Ack(configured)), Commit(w))
  PROVE  TypeInv' /\ SerialInv'
<1>1. UNCHANGED <<unacked, serial, dirty>> /\ ServerTyped'
  BY DEF toplevelVars, configVars, shownVars, TypeInv, ServerTyped
<1>2. configured \in Nat /\ configuring \in BOOLEAN
  BY DEF TypeInv, ClientTyped
<1>3. SentInv' /\ ToClientInv' /\ (configuring' => Outstanding(configured)')
  BY <1>1, <1>2 DEF SerialInv, SentInv, ToClientInv, ToServerInv, Outstanding, Past
<1>4. /\ toServer' \in Seq(Messages) /\ AcksInOrder'
      /\ \A i \in Acks' : /\ toServer'[i].serial <= configured
                          /\ configuring' => toServer'[i].serial < configured
  <2>1. CASE /\ configuring' = FALSE \/ UNCHANGED configuring
             /\ UNCHANGED toServer
    <3>1. toServer \in Seq(Messages) /\ Acks' = Acks
      BY <2>1 DEF TypeInv, ChannelsTyped, Acks
    <3>2. AcksInOrder'
      BY <1>1, <2>1, <3>1 DEF SerialInv, AcksInOrder
    <3>3. QED
      BY <1>2, <2>1, <3>1, <3>2 DEF SerialInv, ToServerInv
  <2>2. CASE /\ configuring' = FALSE \/ UNCHANGED configuring
             /\ \E m \in Messages : m.type # "ack" /\ toServer' = Append(toServer, m)
    <3>1. PICK m \in Messages : m.type # "ack" /\ toServer' = Append(toServer, m)
      BY <2>2
    <3>2. /\ toServer' \in Seq(Messages) /\ AcksInOrder'
          /\ \A i \in Acks' : i \in Acks /\ toServer'[i] = toServer[i]
      BY <1>1, <3>1, OneSent
    <3>3. /\ configured' = configured /\ (configuring' => configuring)
          /\ \A i \in Acks : /\ toServer[i].serial <= configured
                             /\ configuring => toServer[i].serial < configured
      BY <1>2, <2>2 DEF SerialInv, ToServerInv
    <3>4. QED
      BY <3>2, <3>3
  <2>3. CASE /\ configuring /\ configuring' = FALSE
             /\ \E w \in Nat : toServer' = Append(Append(toServer, Ack(configured)), Commit(w))
    <3>1. PICK w \in Nat : toServer' = Append(Append(toServer, Ack(configured)), Commit(w))
      BY <2>3
    <3>2. Outstanding(configured) /\ \A i \in Acks : toServer[i].serial < configured
      BY <2>3 DEF SerialInv, ToServerInv
    <3> DEFINE s == configured
    <3>3. /\ s \in Nat /\ Outstanding(s) /\ \A i \in Acks : toServer[i].serial < s
          /\ toServer' = Append(Append(toServer, Ack(s)), Commit(w))
      BY <1>2, <3>1, <3>2
    <3> HIDE DEF s
    <3>4. /\ toServer' \in Seq(Messages) /\ AcksInOrder'
          /\ \A i \in Acks' : toServer'[i].serial <= s
      BY <1>1, <3>3, AckSent
    <3>5. QED
      BY <2>3, <3>4 DEF s
  <2>4. QED
    BY <2>1, <2>2, <2>3
<1>5. TypeInv'
  BY <1>1, <1>4 DEF TypeInv, ChannelsTyped
<1>6. ToServerInv'
  BY <1>3, <1>4 DEF ToServerInv
<1>7. QED
  BY <1>3, <1>4, <1>5, <1>6 DEF SerialInv

(* The frame callback comes. *)
LEMMA FrameDoneSerials ==
  ASSUME TypeInv, SerialInv, FrameDone, UNCHANGED toplevelVars
  PROVE  TypeInv' /\ SerialInv'
<1>1. /\ ClientTyped' /\ UNCHANGED <<configured, toClient>>
      /\ configuring' = FALSE
      /\ toServer' = IF configuring
                     THEN Append(Append(toServer, Ack(configured)), Commit(egl))
                     ELSE Append(toServer, Commit(egl))
  BY FrameDoneClient
<1>2. egl \in Nat
  BY DEF TypeInv, ClientTyped
<1>3. Commit(egl) \in Messages /\ Commit(egl).type # "ack"
  BY <1>2, MessageTypes
<1>4. QED
  BY <1>1, <1>2, <1>3, SendingSerials

(* The application resizes its window. *)
LEMMA AppResizeSerials ==
  ASSUME TypeInv, SerialInv, NEW w \in AppSizes, AppResize(w), UNCHANGED toplevelVars
  PROVE  TypeInv' /\ SerialInv'
<1>1. /\ ClientTyped' /\ UNCHANGED <<configured, toClient>>
      /\ \/ /\ UNCHANGED configuring
            /\ toServer' \in {toServer, Append(toServer, Commit(0)),
                              Append(toServer, Commit(w))}
         \/ /\ configuring /\ configuring' = FALSE
            /\ toServer' = Append(Append(toServer, Ack(configured)), Commit(w))
  BY AppResizeClient
<1>2. w \in Nat
  BY FrameAssumption
<1>3. /\ Commit(0) \in Messages /\ Commit(0).type # "ack"
      /\ Commit(w) \in Messages /\ Commit(w).type # "ack"
  BY <1>2, MessageTypes
<1>4. QED
  BY <1>1, <1>2, <1>3, SendingSerials

(* The application asks for something. *)
LEMMA RequestSerials ==
  ASSUME TypeInv, SerialInv, NEW m \in Requests, Request(m), UNCHANGED toplevelVars
  PROVE  TypeInv' /\ SerialInv'
<1>1. toServer' = Append(toServer, m) /\ UNCHANGED <<frameVars, toClient>>
  BY DEF Request
<1>2. m \in Messages /\ m.type # "ack"
  BY DEF Messages, Requests
<1>3. ClientTyped' /\ UNCHANGED <<configured, configuring>>
  BY <1>1 DEF frameVars, TypeInv, ClientTyped
<1>4. QED
  BY <1>1, <1>2, <1>3, SendingSerials

(* An acknowledgement is received: what was sent before is forgotten, and  *)
(* what is acknowledged later was sent later.                              *)
LEMMA AckSerials ==
  ASSUME TypeInv, SerialInv, toServer # <<>>, ReceiveAck(toServer[1]),
         toServer' = Tail(toServer), UNCHANGED <<frameVars, toClient>>
  PROVE  TypeInv' /\ SerialInv'
<1> DEFINE m == toServer[1]
           s == m.serial
<1>1. /\ m.type = "ack"
      /\ unacked' = {c \in unacked : c.serial > s}
      /\ acked' = (CHOOSE c \in unacked : c.serial = s).states
      /\ onCommit' = IF onAck = NoAck THEN onCommit ELSE onAck.do
      /\ onAck' = IF s >= onAck.serial THEN NoAck ELSE onAck
      /\ UNCHANGED <<output, current, geom, pos, restore, backdrop, scheduled, serial,
                     dirty, attached, grab, initialized, edge>>
  BY DEF ReceiveAck
<1>2. /\ Tail(toServer) \in Seq(Messages)
      /\ DOMAIN toServer' = 1..(Len(toServer) - 1) /\ Len(toServer) \in Nat
      /\ \A k \in 1..(Len(toServer) - 1) : toServer'[k] = toServer[k + 1]
                                           /\ k + 1 \in DOMAIN toServer
      /\ 1 \in DOMAIN toServer
  BY TailOf DEF TypeInv, ChannelsTyped
<1>3. 1 \in Acks /\ s \in Nat
  BY <1>1, <1>2, OnTheWay DEF Acks
<1>4. \A i \in Acks' : i \in Int /\ i + 1 \in Acks /\ 1 < i + 1
                       /\ toServer'[i] = toServer[i + 1]
  BY <1>2 DEF Acks
<1>5. \A i \in Acks' : s < toServer'[i].serial /\ toServer'[i].serial \in Nat
  BY <1>3, <1>4, OnTheWay DEF SerialInv, AcksInOrder
<1>6. \E c \in unacked : c.serial = s
  BY <1>3 DEF SerialInv, AcksInOrder
<1> HIDE DEF m, s
<1>7. (CHOOSE c \in unacked : c.serial = s) \in unacked
  BY <1>6
<1>8. acked' \in States
  BY <1>1, <1>7 DEF TypeInv, ServerTyped, Configured
<1>9. onAck' \in [serial : Nat, do : Doings] /\ onCommit' \in Doings
  <2>1. NoAck \in [serial : Nat, do : Doings]
    <3>1. Nothing \in Doings
      BY DEF Nothing, Doings
    <3>2. QED
      BY <3>1 DEF NoAck
  <2>2. onAck \in [serial : Nat, do : Doings] /\ onCommit \in Doings
    BY DEF TypeInv, ServerTyped
  <2>3. QED
    BY <1>1, <2>1, <2>2
<1>10. unacked' \in SUBSET Configured
  BY <1>1 DEF TypeInv, ServerTyped
<1>11. ServerTyped'
  BY <1>1, <1>8, <1>9, <1>10 DEF TypeInv, ServerTyped
<1>12. UNCHANGED <<configuring, configured>> /\ ClientTyped' /\ configured \in Nat
       /\ configuring \in BOOLEAN
  BY DEF frameVars, TypeInv, ClientTyped
<1>13. TypeInv'
  BY <1>2, <1>11, <1>12 DEF TypeInv, ChannelsTyped
<1>14. SentInv'
  BY <1>1, <1>12 DEF SerialInv, SentInv, Past
<1>15. \A r : Outstanding(r) /\ r > s => \E c \in unacked' : c.serial = r
  BY <1>1 DEF Outstanding
<1>16. s <= configured /\ (configuring => s < configured)
  BY <1>3 DEF SerialInv, ToServerInv, s, m
<1>17. ToClientInv'
  <2>1. ASSUME NEW i \in DOMAIN toClient
        PROVE  /\ \E c \in unacked' : c.serial = toClient[i].serial
               /\ toClient[i].serial > configured
    <3>1. Outstanding(toClient[i].serial) /\ toClient[i].serial > configured
          /\ toClient[i].serial \in Nat
      BY OnTheWay DEF SerialInv, ToClientInv
    <3>2. toClient[i].serial > s
      BY <1>3, <1>12, <1>16, <3>1
    <3>3. QED
      BY <1>15, <3>1, <3>2
  <2>2. QED
    BY <1>12, <2>1 DEF SerialInv, ToClientInv, Outstanding
<1>18. configuring => \E c \in unacked' : c.serial = configured
  BY <1>3, <1>12, <1>15, <1>16 DEF SerialInv, ToServerInv
<1>19. ToServerInv'
  <2>1. \A i \in Acks' : /\ toServer'[i].serial <= configured
                         /\ configuring => toServer'[i].serial < configured
    BY <1>4 DEF SerialInv, ToServerInv
  <2>2. QED
    BY <1>12, <1>18, <2>1 DEF ToServerInv, Outstanding
<1>20. AcksInOrder'
  <2>1. ASSUME NEW i \in Acks' PROVE \E c \in unacked' : c.serial = toServer'[i].serial
    <3>1. Outstanding(toServer[i + 1].serial)
      BY <1>4 DEF SerialInv, AcksInOrder, Outstanding
    <3>2. QED
      BY <1>4, <1>5, <1>15, <3>1
  <2>2. ASSUME NEW i \in Acks', NEW j \in Acks', i < j
        PROVE  toServer'[i].serial < toServer'[j].serial
    <3>1. i + 1 < j + 1
      BY <1>4, <2>2
    <3>2. QED
      BY <1>4, <3>1 DEF SerialInv, AcksInOrder
  <2>3. QED
    BY <2>1, <2>2 DEF AcksInOrder
<1>21. QED
  BY <1>13, <1>14, <1>17, <1>19, <1>20 DEF SerialInv

-----------------------------------------------------------------------------
(* The handlers of the compositor, but that of an acknowledgement. *)
LEMMA ServerHandles ==
  ASSUME TypeInv, ServerReceives, UNCHANGED frameVars, toServer[1].type # "ack"
  PROVE  ServerTyped' /\ Handles
<1> DEFINE m == toServer[1]
<1>1. /\ toServer # <<>> /\ toServer' = Tail(toServer) /\ UNCHANGED toClient
      /\ m \in Messages /\ Head(toServer) = m
  <2>1. toServer # <<>> /\ toServer' = Tail(toServer) /\ UNCHANGED toClient
    BY DEF ServerReceives
  <2>2. QED
    BY <2>1, TailOf DEF TypeInv, ChannelsTyped
<1>2. ReceiveState(m) \/ ReceiveMove(m) \/ ReceiveResize(m) \/ ReceiveCommit(m)
  BY <1>1 DEF ServerReceives, ReceiveAck
<1> HIDE DEF m
<1>3. UNCHANGED <<unacked, acked>>
  BY <1>2 DEF ReceiveState, ReceiveMove, ReceiveResize, ReceiveCommit, shownVars
<1>4. ServerTyped' /\ Schedules
  BY <1>1, <1>2, ReceiveStateHandles, ReceiveMoveHandles, ReceiveResizeHandles,
     ReceiveCommitHandles
<1>5. QED
  BY <1>1, <1>3, <1>4 DEF Handles

(* What the user and the outputs do to a toplevel. *)
UserActs ==
  \/ \E box \in Outputs : ChangeMode(box)
  \/ LoseOutput
  \/ \E x \in Positions : MotionMoves(x)
  \/ \E w \in DragSizes : MotionResizes(w)
  \/ ReleaseButton
  \/ Activate

(* What they do is that of a handler. *)
LEMMA UserHandles ==
  ASSUME TypeInv, UserActs, UNCHANGED <<frameVars, toServer, toClient>>
  PROVE  ServerTyped' /\ Handles
<1>1. UNCHANGED <<unacked, acked>>
  BY DEF UserActs, ChangeMode, LoseOutput, MotionMoves, MotionResizes, ReleaseButton,
         Activate, shownVars
<1>2. ServerTyped' /\ Schedules
  BY ChangeModeHandles, LoseOutputHandles, MotionMovesHandles, MotionResizesHandles,
     ReleaseButtonHandles, ActivateHandles DEF UserActs
<1>3. QED
  BY <1>1, <1>2 DEF Handles

(* A handler leaves all as it should be. *)
LEMMA HandlesTyped ==
  ASSUME TypeInv, SerialInv, ServerTyped', Handles
  PROVE  TypeInv' /\ SerialInv'
<1>1. SerialInv'
  BY HandlesSerials
<1>2. UNCHANGED <<frameVars, toClient>>
      /\ (UNCHANGED toServer \/ (toServer # <<>> /\ toServer' = Tail(toServer)))
  BY DEF Handles
<1>3. toServer' \in Seq(Messages)
  BY <1>2, TailOf DEF TypeInv, ChannelsTyped
<1>4. QED
  BY <1>1, <1>2, <1>3 DEF TypeInv, ChannelsTyped, ClientTyped, frameVars

(* While no state is asked for before the last one is the current one, and *)
(* the application keeps to the sizes it is given, more holds.             *)
Calm == ~hurried /\ ~resized

(* A request to be maximized, or to fill the output, or no longer to. *)
IsState(m) == m.type \in {"maximize", "fullscreen"}

(* The steps, each with what it leaves alone. *)
LEMMA Steps ==
  ASSUME Next
  PROVE  /\ Calm' => Calm
         /\ \/ UserActs /\ UNCHANGED <<frameVars, toServer, toClient>>
            \/ \E m \in Requests : /\ Request(m) /\ UNCHANGED toplevelVars
                                   /\ IsState(m) /\ Calm' => Agreed
            \/ \E w \in AppSizes : /\ AppResize(w) /\ UNCHANGED toplevelVars
                                   /\ egl > 0 /\ ~Calm'
            \/ SendConfigure /\ UNCHANGED frameVars
            \/ ServerReceives /\ UNCHANGED frameVars
            \/ ClientReceives /\ UNCHANGED toplevelVars
            \/ FrameDone /\ UNCHANGED toplevelVars
<1>1. CASE UserStep
  <2>1. CASE StateStep /\ hurried' = (hurried \/ ~Agreed) /\ UNCHANGED resized
    BY <2>1 DEF StateStep, UserActs, Calm
  <2>2. CASE PlainStep /\ UNCHANGED <<hurried, resized>>
    BY <2>2 DEF PlainStep, UserActs, Calm, IsState
  <2>3. CASE /\ \E w \in AppSizes : egl > 0 /\ AppResize(w) /\ UNCHANGED toplevelVars
             /\ resized' = TRUE /\ UNCHANGED hurried
    BY <2>3 DEF Calm
  <2>4. QED
    BY <1>1, <2>1, <2>2, <2>3 DEF UserStep
<1>2. CASE UNCHANGED <<hurried, resized>>
           /\ \/ SendConfigure /\ UNCHANGED frameVars
              \/ ServerReceives /\ UNCHANGED frameVars
              \/ ClientReceives /\ UNCHANGED toplevelVars
              \/ FrameDone /\ UNCHANGED toplevelVars
  BY <1>2 DEF Calm
<1>3. QED
  BY <1>1, <1>2 DEF Next

(* Types and serials, as the system starts. *)
LEMMA StartsInOrder ==
  ASSUME Init
  PROVE  TypeInv /\ SerialInv
<1>1. ToplevelInit /\ FrameInit /\ toServer = <<Commit(0)>> /\ toClient = <<>>
  BY DEF Init
<1>2. Plain \in States /\ Nothing \in Doings
  BY DEF Plain, States, Nothing, Doings
<1>3. NoAck \in [serial : Nat, do : Doings]
  BY <1>2 DEF NoAck
<1>4. NoGrab \in Grabs /\ NoGrab.does # "resize"
  BY DEF NoGrab, Grabs
<1>5. output \in Boxes
  BY <1>1, ToplevelAssumption DEF ToplevelInit, Boxes
<1>6. ServerTyped
  <2>1. scheduled \in [states : States, size : Nat]
    BY <1>1, <1>2 DEF ToplevelInit
  <2>2. /\ restore \in [x : Int, width : Nat, from : Int]
        /\ restore.x = restore.from + Inset
    BY <1>1, ToplevelAssumption DEF ToplevelInit
  <2>3. serial \in Nat /\ geom \in Nat /\ pos \in Int
    BY <1>1 DEF ToplevelInit
  <2>4. dirty \in BOOLEAN
    BY <1>1, Zenon DEF ToplevelInit
  <2>5. unacked \in SUBSET Configured /\ edge \in SUBSET Int
    BY <1>1, Zenon DEF ToplevelInit
  <2>6. /\ acked \in States /\ current \in States
        /\ onAck \in [serial : Nat, do : Doings] /\ onCommit \in Doings
        /\ grab \in Grabs /\ (grab.does = "resize" => grab.at \in Nat)
    BY <1>1, <1>2, <1>3, <1>4, Zenon DEF ToplevelInit
  <2>7. QED
    BY <1>5, <2>1, <2>2, <2>3, <2>4, <2>5, <2>6 DEF ServerTyped
<1>7. ClientTyped
  <2>1. states \in States /\ configuring \in BOOLEAN
    BY <1>1, <1>2, Zenon DEF FrameInit
  <2>2. kept \in Int /\ configured \in Nat /\ egl \in Nat /\ drawn \in Nat
    BY <1>1 DEF FrameInit
  <2>3. QED
    BY <2>1, <2>2 DEF ClientTyped
<1>8. Commit(0) \in Messages /\ Commit(0).type # "ack"
  BY MessageTypes
<1> DEFINE m == Commit(0)
<1>9. toServer = <<m>> /\ m \in Messages /\ m.type # "ack"
  BY <1>1, <1>8
<1> HIDE DEF m
<1>10. toServer \in Seq(Messages) /\ DOMAIN toServer = {1} /\ toServer[1] = m
  BY <1>9
<1>11. toClient \in Seq(Configures) /\ DOMAIN toClient = {}
  BY <1>1
<1>12. Acks = {}
  BY <1>9, <1>10 DEF Acks
<1>13. SentInv
  BY <1>1 DEF SentInv, Past, ToplevelInit, FrameInit
<1>14. ToClientInv
  BY <1>11 DEF ToClientInv
<1>15. ToServerInv /\ AcksInOrder
  BY <1>1, <1>12 DEF ToServerInv, AcksInOrder, FrameInit
<1>16. QED
  BY <1>6, <1>7, <1>10, <1>11, <1>13, <1>14, <1>15
     DEF TypeInv, ChannelsTyped, SerialInv

(* Types and serials, step by step. *)
LEMMA StaysInOrder ==
  ASSUME TypeInv, SerialInv, [Next]_vars
  PROVE  TypeInv' /\ SerialInv'
<1>1. CASE UserActs /\ UNCHANGED <<frameVars, toServer, toClient>>
  BY <1>1, UserHandles, HandlesTyped
<1>2. CASE \E m \in Requests : Request(m) /\ UNCHANGED toplevelVars
  BY <1>2, RequestSerials
<1>3. CASE \E w \in AppSizes : AppResize(w) /\ UNCHANGED toplevelVars
  BY <1>3, AppResizeSerials
<1>4. CASE SendConfigure /\ UNCHANGED frameVars
  BY <1>4, SendSerials
<1>5. CASE ServerReceives /\ UNCHANGED frameVars
  <2>1. CASE toServer[1].type = "ack"
    <3>1. /\ toServer # <<>> /\ toServer' = Tail(toServer) /\ UNCHANGED <<frameVars, toClient>>
          /\ Head(toServer) = toServer[1]
      BY <1>5, TailOf DEF ServerReceives, TypeInv, ChannelsTyped
    <3>2. ReceiveAck(toServer[1])
      BY <1>5, <2>1, <3>1 DEF ServerReceives, ReceiveState, ReceiveMove, ReceiveResize,
                              ReceiveCommit
    <3>3. QED
      BY <3>1, <3>2, AckSerials
  <2>2. CASE toServer[1].type # "ack"
    BY <1>5, <2>2, ServerHandles, HandlesTyped
  <2>3. QED
    BY <2>1, <2>2
<1>6. CASE ClientReceives /\ UNCHANGED toplevelVars
  BY <1>6, ConfiguredSerials
<1>7. CASE FrameDone /\ UNCHANGED toplevelVars
  BY <1>7, FrameDoneSerials
<1>8. CASE UNCHANGED vars
  BY <1>8 DEF vars, toplevelVars, shownVars, configVars, frameVars, TypeInv, ServerTyped,
     ClientTyped, ChannelsTyped, SerialInv, SentInv, ToClientInv, ToServerInv, AcksInOrder,
     Acks, Past, Outstanding
<1>9. ASSUME Next PROVE TypeInv' /\ SerialInv'
  <2>1. \/ UserActs /\ UNCHANGED <<frameVars, toServer, toClient>>
        \/ \E m \in Requests : Request(m) /\ UNCHANGED toplevelVars
        \/ \E w \in AppSizes : AppResize(w) /\ UNCHANGED toplevelVars
        \/ SendConfigure /\ UNCHANGED frameVars
        \/ ServerReceives /\ UNCHANGED frameVars
        \/ ClientReceives /\ UNCHANGED toplevelVars
        \/ FrameDone /\ UNCHANGED toplevelVars
    BY <1>9, Steps
  <2>2. QED
    BY <1>1, <1>2, <1>3, <1>4, <1>5, <1>6, <1>7, <2>1
<1>10. QED
  BY <1>8, <1>9

(* Every acknowledgement is of an event that was sent and has not been      *)
(* acknowledged, and they come in order: an application is not ended for    *)
(* them, whatever f_resize is called for while a configure event waits.     *)
THEOREM AcksCorrect == Spec => []AcksInOrder
<1>1. Init => TypeInv /\ SerialInv
  BY StartsInOrder
<1>2. TypeInv /\ SerialInv /\ [Next]_vars => (TypeInv /\ SerialInv)'
  BY StaysInOrder
<1>3. SerialInv => AcksInOrder
  BY DEF SerialInv
<1>4. QED
  BY <1>1, <1>2, <1>3, PTL DEF Spec

-----------------------------------------------------------------------------
(* What an application asks the compositor for. *)
IsRequest(m) == m.type \notin {"ack", "commit"}

(* One change of state at a time is on its way, and it is not undone on it. *)
OneChange ==
  /\ \A i \in DOMAIN toServer : IsState(toServer[i]) =>
       /\ scheduled.states = current
       /\ \A j \in DOMAIN toServer : IsState(toServer[j]) => i = j
  /\ acked \in {current, scheduled.states}
  /\ \A c \in unacked : c.states \in {current, scheduled.states}
  /\ acked = scheduled.states => \A c \in unacked : c.states = scheduled.states
  /\ \A c, d \in unacked :
       c.serial < d.serial /\ c.states = scheduled.states => d.states = scheduled.states

(* A commit of something that has been drawn. *)
Shows(m) == m.type = "commit" /\ m.size > 0

(* What asks for anything comes after something drawn, so that the          *)
(* compositor knows of a size when it is asked.                            *)
SizeKnown ==
  /\ \A i \in DOMAIN toServer : IsRequest(toServer[i]) =>
       geom > 0 \/ \E j \in 1..(i - 1) : Shows(toServer[j])
  /\ egl > 0 => geom > 0 \/ \E j \in DOMAIN toServer : Shows(toServer[j])
  /\ grab.does = "resize" => grab.at > 0

(* An acknowledgement comes with a commit, which is to place the toplevel  *)
(* if anything is.                                                         *)
Paired ==
  /\ \A k \in Acks : k + 1 \in DOMAIN toServer /\ toServer[k + 1].type = "commit"
  /\ onCommit # Nothing =>
       toServer # <<>> /\ toServer[1].type = "commit" /\ onCommit.place # "none"
  /\ onAck # NoAck => onAck.do.place # "none"

(* From one acknowledgement to the next everything is committed at one     *)
(* size, and what comes before the first at one of sizes.                  *)
NoAckIn(q, i, j) == \A k \in i..j : q[k].type # "ack"
Steady(q, sizes) ==
  /\ \A k, j \in DOMAIN q :
       k < j /\ q[k].type = "ack" /\ Shows(q[j]) /\ NoAckIn(q, k + 1, j)
         => q[k + 1].size = q[j].size
  /\ \A j \in DOMAIN q : Shows(q[j]) /\ NoAckIn(q, 1, j) => q[j].size \in sizes

(* What is committed next, if no acknowledgement comes before it: what was *)
(* acknowledged, or the size it has if an edge is fixed.                   *)
NextSizes ==
  IF onCommit # Nothing THEN {toServer[1].size}
  ELSE IF edge # {} /\ ~Filling(current) THEN {geom} ELSE Nat

SteadySizes ==
  /\ Steady(Append(toServer, Commit(drawn)), NextSizes)
  /\ ~configuring => egl = drawn

(* An event that f_resize has waited for, or a later one, asks for the     *)
(* same as the last, and nothing is waited for once it is acknowledged.    *)
Late(s) == onAck = NoAck \/ s >= onAck.serial

LastAsked ==
  /\ \A i \in DOMAIN toClient : Late(toClient[i].serial) =>
       /\ toClient[i].size = scheduled.size
       /\ Filling(toClient[i].states) <=> Filling(scheduled.states)
  /\ \A c \in unacked : Late(c.serial) =>
       (Filling(c.states) <=> Filling(scheduled.states))
  /\ onAck = NoAck => (Filling(acked) <=> Filling(scheduled.states))
  /\ onCommit = Nothing => (Filling(acked) <=> Filling(current))

(* The width that a window takes in the end. *)
Wanted ==
  LET w == IF Filling(scheduled.states) THEN scheduled.size
           ELSE (scheduled.size \div Cell) * Cell
  IN IF w <= 0 THEN 0 ELSE w

LastDrawn ==
  /\ Late(configured) => egl = Wanted
  /\ \A i \in DOMAIN toServer :
       /\ Shows(toServer[i])
       /\ onAck = NoAck \/ \E j \in Acks : j < i /\ Late(toServer[j].serial)
       => toServer[i].size = Wanted
  /\ \A i \in Acks : Late(toServer[i].serial) => toServer[i + 1].size = Wanted
  /\ onAck = NoAck =>
       \/ Wanted = 0 \/ geom = Wanted
       \/ onCommit # Nothing /\ toServer[1].size = Wanted

(* A size of nothing is not that of a drag. *)
Unsized ==
  scheduled.size = 0 =>
    /\ onAck # NoAck => onAck.do.place # "edge"
    /\ onAck = NoAck => onCommit.place # "edge" /\ (onCommit = Nothing => edge = {})

(* The first three hold whatever the application does. *)
Sound == SizeKnown /\ Paired /\ Unsized

EdgeInv ==
  /\ Sound
  /\ Calm => OneChange /\ SteadySizes /\ LastAsked
  /\ Calm /\ scheduled.size > 0 => LastDrawn

-----------------------------------------------------------------------------
(* A run of messages without an acknowledgement, with the first message    *)
(* taken, is one of what is left.                                          *)
LEMMA NoAckTail ==
  ASSUME NEW q \in Seq(Messages), q # <<>>, NEW a \in Int, NEW b \in Int,
         1 <= a, b <= Len(q) - 1, NoAckIn(Tail(q), a, b)
  PROVE  NoAckIn(q, a + 1, b + 1)
<1>1. \A k \in 1..(Len(q) - 1) : Tail(q)[k] = q[k + 1]
  BY TailOf
<1>2. ASSUME NEW k \in (a + 1)..(b + 1) PROVE q[k].type # "ack"
  <2>1. k - 1 \in a..b /\ k - 1 \in 1..(Len(q) - 1) /\ (k - 1) + 1 = k
    <3>1. Len(q) \in Int
      OBVIOUS
    <3>2. QED
      BY <3>1
  <2>2. Tail(q)[k - 1] = q[k] /\ Tail(q)[k - 1].type # "ack"
    BY <1>1, <2>1 DEF NoAckIn
  <2>3. QED
    BY <2>2
<1>3. QED
  BY <1>2 DEF NoAckIn

(* What is steady stays so as something else than an acknowledgement is    *)
(* taken from it.                                                          *)
LEMMA SteadyTail ==
  ASSUME NEW q \in Seq(Messages), q # <<>>, NEW S, Steady(q, S), q[1].type # "ack"
  PROVE  Steady(Tail(q), S)
<1>1. /\ DOMAIN Tail(q) = 1..(Len(q) - 1) /\ Len(q) \in Nat /\ DOMAIN q = 1..Len(q)
      /\ \A k \in 1..(Len(q) - 1) : Tail(q)[k] = q[k + 1] /\ k + 1 \in DOMAIN q
  BY TailOf
<1>2. ASSUME NEW k \in DOMAIN Tail(q), NEW j \in DOMAIN Tail(q), k < j,
             Tail(q)[k].type = "ack", Shows(Tail(q)[j]), NoAckIn(Tail(q), k + 1, j)
      PROVE  Tail(q)[k + 1].size = Tail(q)[j].size
  <2>1. k + 1 \in Int /\ j \in Int /\ 1 <= k + 1 /\ j <= Len(q) - 1 /\ k + 1 \in 1..(Len(q) - 1)
        /\ k + 1 < j + 1
    BY <1>1, <1>2
  <2>2. NoAckIn(q, (k + 1) + 1, j + 1)
    BY <1>2, <2>1, NoAckTail, Zenon
  <2>3. /\ Tail(q)[k] = q[k + 1] /\ Tail(q)[j] = q[j + 1] /\ Tail(q)[k + 1] = q[(k + 1) + 1]
        /\ k + 1 \in DOMAIN q /\ j + 1 \in DOMAIN q
    BY <1>1, <2>1
  <2>4. QED
    BY <1>2, <2>1, <2>2, <2>3 DEF Steady
<1>3. ASSUME NEW j \in DOMAIN Tail(q), Shows(Tail(q)[j]), NoAckIn(Tail(q), 1, j)
      PROVE  Tail(q)[j].size \in S
  <2>1. 1 \in Int /\ j \in Int /\ 1 <= 1 /\ j <= Len(q) - 1
    BY <1>1
  <2>2. NoAckIn(q, 1 + 1, j + 1)
    BY <1>3, <2>1, NoAckTail, Zenon
  <2>3. NoAckIn(q, 1, j + 1)
    <3>1. \A k \in 1..(j + 1) : k = 1 \/ k \in (1 + 1)..(j + 1)
      BY <2>1
    <3>2. QED
      BY <2>2, <3>1 DEF NoAckIn
  <2>4. Tail(q)[j] = q[j + 1] /\ j + 1 \in DOMAIN q
    BY <1>1
  <2>5. QED
    BY <1>3, <2>3, <2>4 DEF Steady
<1>4. QED
  BY <1>2, <1>3 DEF Steady

(* An acknowledgement is taken: what is committed with it is next.         *)
LEMMA SteadyPast ==
  ASSUME NEW q \in Seq(Messages), q # <<>>, NEW S, Steady(q, S), q[1].type = "ack"
  PROVE  Steady(Tail(q), {q[2].size})
<1>1. /\ DOMAIN Tail(q) = 1..(Len(q) - 1) /\ Len(q) \in Nat /\ DOMAIN q = 1..Len(q)
      /\ \A k \in 1..(Len(q) - 1) : Tail(q)[k] = q[k + 1] /\ k + 1 \in DOMAIN q
      /\ 1 \in DOMAIN q
  BY TailOf
<1>2. ASSUME NEW k \in DOMAIN Tail(q), NEW j \in DOMAIN Tail(q), k < j,
             Tail(q)[k].type = "ack", Shows(Tail(q)[j]), NoAckIn(Tail(q), k + 1, j)
      PROVE  Tail(q)[k + 1].size = Tail(q)[j].size
  <2>1. k + 1 \in Int /\ j \in Int /\ 1 <= k + 1 /\ j <= Len(q) - 1 /\ k + 1 \in 1..(Len(q) - 1)
        /\ k + 1 < j + 1
    BY <1>1, <1>2
  <2>2. NoAckIn(q, (k + 1) + 1, j + 1)
    BY <1>2, <2>1, NoAckTail, Zenon
  <2>3. /\ Tail(q)[k] = q[k + 1] /\ Tail(q)[j] = q[j + 1] /\ Tail(q)[k + 1] = q[(k + 1) + 1]
        /\ k + 1 \in DOMAIN q /\ j + 1 \in DOMAIN q
    BY <1>1, <2>1
  <2>4. QED
    BY <1>2, <2>1, <2>2, <2>3 DEF Steady
<1>3. ASSUME NEW j \in DOMAIN Tail(q), Shows(Tail(q)[j]), NoAckIn(Tail(q), 1, j)
      PROVE  Tail(q)[j].size = q[2].size
  <2>1. 1 \in Int /\ j \in Int /\ 1 <= 1 /\ j <= Len(q) - 1 /\ 1 < j + 1
    BY <1>1
  <2>2. NoAckIn(q, 1 + 1, j + 1)
    BY <1>3, <2>1, NoAckTail, Zenon
  <2>3. Tail(q)[j] = q[j + 1] /\ j + 1 \in DOMAIN q
    BY <1>1
  <2>4. QED
    BY <1>1, <1>3, <2>1, <2>2, <2>3 DEF Steady
<1>4. QED
  BY <1>2, <1>3 DEF Steady

(* The next sizes may be more.                                             *)
LEMMA SteadyMore ==
  ASSUME NEW q \in Seq(Messages), NEW S, NEW T, Steady(q, S),
         \A j \in DOMAIN q : Shows(q[j]) /\ q[j].size \in S => q[j].size \in T
  PROVE  Steady(q, T)
  BY DEF Steady

(* Any shown size is a number.                                             *)
LEMMA SteadyAny ==
  ASSUME NEW q \in Seq(Messages), NEW S, Steady(q, S)
  PROVE  Steady(q, Nat)
<1>1. \A m \in Messages : m.type = "commit" => m.size \in Nat
  BY DEF Messages, Acknowledgements, Commits, Requests
<1>2. \A j \in DOMAIN q : Shows(q[j]) => q[j].size \in Nat
  BY <1>1 DEF Shows
<1>3. QED
  BY <1>2, SteadyMore

(* Nothing is shown before the next acknowledgement, if its size is 0.     *)
LEMMA SteadyNone ==
  ASSUME NEW q \in Seq(Messages), NEW S, Steady(q, {0})
  PROVE  Steady(q, S)
<1>1. \A j \in DOMAIN q : ~(Shows(q[j]) /\ q[j].size \in {0})
  BY DEF Shows
<1>2. QED
  BY <1>1, SteadyMore

(* What follows in a queue: one more message, before the last.             *)
LEMMA SteadyAppend ==
  ASSUME NEW q \in Seq(Messages), NEW c \in Messages, NEW m \in Messages, NEW S,
         Steady(Append(q, c), S), c.type # "ack", m.type # "ack", ~Shows(m) \/ m = c,
         \A k \in DOMAIN q : q[k].type = "ack" => k + 1 \in DOMAIN q
  PROVE  Steady(Append(Append(q, m), c), S)
<1> DEFINE n == Len(q)
           p == Append(q, c)
           r == Append(Append(q, m), c)
<1>1. /\ n \in Nat /\ DOMAIN q = 1..n /\ DOMAIN p = 1..(n + 1) /\ DOMAIN r = 1..(n + 2)
      /\ \A k \in 1..n : p[k] = q[k] /\ r[k] = q[k]
      /\ p[n + 1] = c /\ r[n + 1] = m /\ r[n + 2] = c
  <2>1. Append(q, m) \in Seq(Messages)
    BY AppendTo
  <2>2. /\ Len(Append(q, m)) = n + 1 /\ n \in Nat
        /\ \A k \in 1..n : Append(q, m)[k] = q[k]
        /\ Append(q, m)[n + 1] = m
    BY AppendTo
  <2>3. /\ DOMAIN r = 1..(Len(Append(q, m)) + 1)
        /\ \A k \in 1..Len(Append(q, m)) : r[k] = Append(q, m)[k]
        /\ r[Len(Append(q, m)) + 1] = c
    BY <2>1, AppendTo
  <2>4. /\ DOMAIN p = 1..(n + 1) /\ p[n + 1] = c
        /\ \A k \in 1..n : p[k] = q[k]
    BY AppendTo
  <2> HIDE DEF r, p
  <2>5. n + 1 \in 1..Len(Append(q, m)) /\ Len(Append(q, m)) + 1 = n + 2
        /\ \A k \in 1..n : k \in 1..Len(Append(q, m))
    BY <2>2
  <2>6. DOMAIN q = 1..n
    OBVIOUS
  <2>7. QED
    BY <2>2, <2>3, <2>4, <2>5, <2>6
<1> HIDE DEF n, p, r
<1>2. Steady(p, S)
  BY DEF p
<1> DEFINE back(j) == IF j <= n THEN j ELSE n + 1
<1>3. ASSUME NEW j \in DOMAIN r, Shows(r[j]) 
      PROVE  back(j) \in DOMAIN p /\ p[back(j)] = r[j] /\ back(j) <= j
  BY <1>1, <1>3
<1>4. ASSUME NEW a \in Nat \ {0}, NEW j \in DOMAIN r, a <= n + 1, NoAckIn(r, a, j), Shows(r[j])
      PROVE  NoAckIn(p, a, back(j))
  <2>1. ASSUME NEW k \in a..back(j) PROVE p[k].type # "ack"
    <3>1. CASE k <= n
      <4>1. k \in 1..n /\ k \in a..j /\ p[k] = r[k]
        BY <1>1, <1>3, <1>4, <3>1
      <4>2. QED
        BY <1>4, <4>1 DEF NoAckIn
    <3>2. CASE k = n + 1
      BY <1>1, <3>2
    <3>3. QED
      BY <1>1, <3>1, <3>2
  <2>2. QED
    BY <2>1 DEF NoAckIn
<1>5. ASSUME NEW k \in DOMAIN r, NEW j \in DOMAIN r, k < j, r[k].type = "ack",
             Shows(r[j]), NoAckIn(r, k + 1, j)
      PROVE  r[k + 1].size = r[j].size
  <2>1. k \in 1..n /\ q[k].type = "ack"
    BY <1>1, <1>5
  <2>2. k + 1 \in 1..n /\ k \in DOMAIN p /\ p[k] = r[k] /\ p[k + 1] = r[k + 1]
        /\ k + 1 \in Nat \ {0} /\ k + 1 <= n + 1
    BY <1>1, <2>1
  <2>3. NoAckIn(p, k + 1, back(j))
    BY <1>4, <1>5, <2>2
  <2>4. back(j) \in DOMAIN p /\ p[back(j)] = r[j] /\ k < back(j)
    BY <1>1, <1>3, <1>5, <2>2
  <2> HIDE DEF back
  <2>5. QED
    BY <1>2, <1>5, <2>2, <2>3, <2>4 DEF Steady
<1>6. ASSUME NEW j \in DOMAIN r, Shows(r[j]), NoAckIn(r, 1, j)
      PROVE  r[j].size \in S
  <2>1. NoAckIn(p, 1, back(j))
    <3>1. 1 \in Nat \ {0} /\ 1 <= n + 1
      BY <1>1
    <3>2. QED
      BY <1>4, <1>6, <3>1
  <2>2. back(j) \in DOMAIN p /\ p[back(j)] = r[j]
    BY <1>3, <1>6
  <2> HIDE DEF back
  <2>3. QED
    BY <1>2, <1>6, <2>1, <2>2 DEF Steady
<1>7. QED
  BY <1>5, <1>6 DEF Steady, r

(* An acknowledgement follows, and commits of one size after it.           *)
LEMMA SteadyAck ==
  ASSUME NEW q \in Seq(Messages), NEW c \in Messages, NEW a \in Messages,
         NEW d \in Messages, NEW S,
         Steady(Append(q, c), S), a.type = "ack", d.type = "commit",
         \A k \in DOMAIN q : q[k].type = "ack" => k + 1 \in DOMAIN q
  PROVE  Steady(Append(Append(Append(q, a), d), d), S)
<1> DEFINE n == Len(q)
           p == Append(q, c)
           r == Append(Append(Append(q, a), d), d)
<1>1. /\ n \in Nat /\ DOMAIN q = 1..n /\ DOMAIN p = 1..(n + 1) /\ DOMAIN r = 1..(n + 3)
      /\ \A k \in 1..n : p[k] = q[k] /\ r[k] = q[k]
      /\ r[n + 1] = a /\ r[n + 2] = d /\ r[n + 3] = d
  <2> DEFINE u == Append(q, a)
             v == Append(u, d)
  <2>1. /\ u \in Seq(Messages) /\ Len(u) = n + 1 /\ n \in Nat
        /\ \A k \in 1..n : u[k] = q[k]
        /\ u[n + 1] = a
    BY AppendTo
  <2>2. /\ DOMAIN p = 1..(n + 1) /\ \A k \in 1..n : p[k] = q[k]
    BY AppendTo
  <2>3. DOMAIN q = 1..n
    OBVIOUS
  <2> HIDE DEF u
  <2>4. /\ v \in Seq(Messages) /\ Len(v) = Len(u) + 1
        /\ \A k \in 1..Len(u) : v[k] = u[k]
        /\ v[Len(u) + 1] = d
    BY <2>1, AppendTo
  <2> HIDE DEF v
  <2>5. /\ DOMAIN Append(v, d) = 1..(Len(v) + 1)
        /\ \A k \in 1..Len(v) : Append(v, d)[k] = v[k]
        /\ Append(v, d)[Len(v) + 1] = d
    BY <2>4, AppendTo
  <2>6. r = Append(v, d)
    BY DEF u, v
  <2> HIDE DEF r, p, n
  <2>7. /\ n + 1 \in 1..Len(u) /\ Len(u) + 1 = n + 2 /\ n + 1 \in 1..Len(v)
        /\ n + 2 \in 1..Len(v) /\ Len(v) + 1 = n + 3
        /\ \A k \in 1..n : k \in 1..Len(u) /\ k \in 1..Len(v)
    BY <2>1, <2>4
  <2>8. QED
    BY <2>1, <2>2, <2>3, <2>4, <2>5, <2>6, <2>7
<1> HIDE DEF n, p, r
<1>2. Steady(p, S)
  BY DEF p
<1>3. ASSUME NEW b \in Nat \ {0}, NEW j \in DOMAIN r, b <= n + 1, NoAckIn(r, b, j), j \in b..j
      PROVE  j \in 1..n /\ NoAckIn(p, b, j) /\ j \in DOMAIN p /\ p[j] = r[j]
  <2>1. ~(n + 1 \in b..j)
    BY <1>1, <1>3 DEF NoAckIn
  <2>2. j \in 1..n
    BY <1>1, <1>3, <2>1
  <2>3. \A k \in b..j : k \in 1..n
    BY <1>1, <1>3, <2>2
  <2>4. NoAckIn(p, b, j)
    BY <1>1, <1>3, <2>3 DEF NoAckIn
  <2>5. QED
    BY <1>1, <2>2, <2>4
<1>4. ASSUME NEW k \in DOMAIN r, NEW j \in DOMAIN r, k < j, r[k].type = "ack",
             Shows(r[j]), NoAckIn(r, k + 1, j)
      PROVE  r[k + 1].size = r[j].size
  <2>1. CASE k \in 1..n
    <3>1. q[k].type = "ack" /\ p[k] = r[k] /\ k \in DOMAIN p
      BY <1>1, <1>4, <2>1
    <3>2. k + 1 \in 1..n /\ p[k + 1] = r[k + 1] /\ k + 1 \in Nat \ {0} /\ k + 1 <= n + 1
          /\ j \in (k + 1)..j
      BY <1>1, <1>4, <2>1, <3>1
    <3>3. NoAckIn(p, k + 1, j) /\ j \in DOMAIN p /\ p[j] = r[j]
      BY <1>3, <1>4, <3>2
    <3>4. QED
      BY <1>2, <1>4, <3>1, <3>2, <3>3 DEF Steady
  <2>2. CASE k = n + 1
    <3>1. j = n + 2 \/ j = n + 3
      BY <1>1, <1>4, <2>2
    <3>2. (n + 1) + 1 = n + 2
      BY <1>1
    <3>3. QED
      BY <1>1, <2>2, <3>1, <3>2
  <2>3. CASE k = n + 2
    BY <1>1, <1>4, <2>3
  <2>4. CASE k = n + 3
    BY <1>1, <1>4, <2>4
  <2>5. QED
    BY <1>1, <2>1, <2>2, <2>3, <2>4
<1>5. ASSUME NEW j \in DOMAIN r, Shows(r[j]), NoAckIn(r, 1, j)
      PROVE  r[j].size \in S
  <2>1. 1 \in Nat \ {0} /\ 1 <= n + 1 /\ j \in 1..j
    BY <1>1
  <2>2. NoAckIn(p, 1, j) /\ j \in DOMAIN p /\ p[j] = r[j]
    BY <1>3, <1>5, <2>1
  <2>3. QED
    BY <1>2, <1>5, <2>2 DEF Steady
<1>6. QED
  BY <1>4, <1>5 DEF Steady, r

-----------------------------------------------------------------------------
(* What a handler does that commits and acknowledges nothing, the user's    *)
(* and those of requests: it schedules something, and may move the toplevel. *)
SameSize == scheduled'.size = scheduled.size /\ UNCHANGED onAck
Acts ==
  /\ Schedules
  /\ UNCHANGED <<acked, current, geom, onCommit, unacked>>
  /\ SameSize \/ onAck'.do.place # "edge" \/ scheduled'.size > 0
  /\ edge' = {} \/ UNCHANGED <<pos, edge>>
  /\ grab'.does = "resize" => grab'.at > 0
SameStates == scheduled'.states = scheduled.states

Effect ==
  /\ Acts
  /\ UNCHANGED <<frameVars, toClient>>
  /\ \/ UNCHANGED toServer /\ SameStates
     \/ /\ toServer # <<>> /\ toServer' = Tail(toServer) /\ IsRequest(toServer[1])
        /\ SameStates \/ IsState(toServer[1])

(* The output changes its mode: the toplevel is to fill it. *)
LEMMA ChangeModeActs ==
  ASSUME TypeInv, SizeKnown, NEW box \in Outputs, ChangeMode(box)
  PROVE  Acts /\ SameStates
<1>1. Schedules
  BY ChangeModeHandles
<1>2. UNCHANGED <<shownVars, unacked, grab, initialized>>
  BY DEF ChangeMode
<1> DEFINE w == box.width
<1>3. w \in Int
  BY ToplevelAssumption
<1>4. \/ Resize(scheduled.states, w, Place("maximize", w))
      \/ Resize(scheduled.states, w, Place("fullscreen", w))
  BY DEF ChangeMode, Fullscreen, Maximize
<1>5. Place("maximize", w).place = "maximize" /\ Place("fullscreen", w).place = "fullscreen"
  BY <1>3, PlaceType
<1>6. onAck'.do.place # "edge" /\ SameStates
  BY <1>4, <1>5 DEF Resize, Schedule, SameStates
<1>7. QED
  BY <1>1, <1>2, <1>6 DEF Acts, shownVars, SizeKnown

(* The output goes: the toplevel is to be where it was. *)
LEMMA LoseOutputActs ==
  ASSUME TypeInv, SizeKnown, LoseOutput
  PROVE  Acts /\ SameStates
<1>1. Schedules
  BY LoseOutputHandles
<1>2. UNCHANGED <<shownVars, unacked, grab, initialized>>
  BY DEF LoseOutput
<1>3. Resize(scheduled.states, restore.width, Place("restore", 0))
  BY DEF LoseOutput, Restore
<1>4. Place("restore", 0).place = "restore"
  BY PlaceType
<1>5. onAck'.do.place # "edge" /\ SameStates
  BY <1>3, <1>4 DEF Resize, Schedule, SameStates
<1>6. QED
  BY <1>1, <1>2, <1>5 DEF Acts, shownVars, SizeKnown

(* The cursor moves a toplevel: no edge is fixed any more. *)
LEMMA MotionMovesActs ==
  ASSUME TypeInv, NEW x \in Positions, MotionMoves(x)
  PROVE  Acts /\ SameStates
<1>1. Schedules
  BY MotionMovesHandles
<1>2. /\ edge' = {}
      /\ UNCHANGED <<output, acked, current, geom, restore, backdrop, onCommit,
                     configVars, unacked, attached, initialized>>
  BY DEF MotionMoves
<1>3. grab'.does = "move"
  <2>1. grab' = [grab EXCEPT !.at = x] /\ grab.does = "move" /\ grab \in Grabs
    BY DEF MotionMoves, TypeInv, ServerTyped
  <2>2. QED
    BY <2>1 DEF Grabs
<1>4. QED
  BY <1>1, <1>2, <1>3 DEF Acts, configVars, SameStates, SameSize

(* The cursor drags an edge: the size asked for is more than nothing. *)
LEMMA MotionResizesActs ==
  ASSUME TypeInv, NEW size \in DragSizes, MotionResizes(size)
  PROVE  Acts /\ SameStates
<1>1. size \in Nat /\ size > 0 /\ Drag(size)
  BY ToplevelAssumption DEF MotionResizes
<1>2. Schedules /\ scheduled'.size = size /\ SameStates
  BY <1>1, DragPlaces DEF SameStates
<1>3. grab'.at = size
  BY DEF MotionResizes, TypeInv, ServerTyped, Grabs
<1>4. UNCHANGED <<output, shownVars, unacked, attached, initialized>>
  BY DEF MotionResizes
<1>5. QED
  BY <1>1, <1>2, <1>3, <1>4 DEF Acts, shownVars

(* The button is released. *)
LEMMA ReleaseButtonActs ==
  ASSUME TypeInv, ReleaseButton
  PROVE  Acts /\ SameStates
<1>1. Schedules /\ grab' = NoGrab
  BY ReleaseButtonHandles
<1>2. UNCHANGED <<output, shownVars, onAck, unacked, attached, initialized>>
  BY DEF ReleaseButton
<1>3. SameStates /\ SameSize
  BY DEF ReleaseButton, Schedule, SameStates, SameSize
<1>4. NoGrab.does # "resize"
  BY DEF NoGrab
<1>5. QED
  BY <1>1, <1>2, <1>3, <1>4 DEF Acts, shownVars

(* The focus comes or goes. *)
LEMMA ActivateActs ==
  ASSUME TypeInv, SizeKnown, Activate
  PROVE  Acts /\ SameStates
<1>1. Schedules
  BY ActivateHandles
<1>2. /\ UNCHANGED <<output, shownVars, onAck, unacked, attached, grab, initialized>>
      /\ SameStates /\ SameSize
  BY DEF Activate, Schedule, SameStates, SameSize
<1>3. QED
  BY <1>1, <1>2 DEF Acts, shownVars, SizeKnown

(* The application asks for a state. *)
LEMMA ReceiveStateActs ==
  ASSUME TypeInv, SizeKnown, NEW m \in Messages, ReceiveState(m)
  PROVE  Acts
<1>1. Schedules
  BY ReceiveStateHandles
<1>2. UNCHANGED <<unacked, acked, current, geom, pos, backdrop, onCommit, grab,
                 initialized, edge>>
  BY DEF ReceiveState
<1> PICK box \in Outputs : IF m.type = "maximize" THEN RequestMaximize(m.on, box)
                          ELSE RequestFullscreen(m.on, box)
  BY DEF ReceiveState
<1> DEFINE w == box.width
<1>3. w \in Int
  BY ToplevelAssumption
<1>4. /\ Place("maximize", w).place = "maximize"
      /\ Place("fullscreen", w).place = "fullscreen"
      /\ Place("restore", 0).place = "restore"
  BY <1>3, PlaceType
<1>5. \/ SameSize
      \/ \E st, size : \/ Resize(st, size, Place("maximize", w))
                       \/ Resize(st, size, Place("fullscreen", w))
                       \/ Resize(st, size, Place("restore", 0))
  <2>1. CASE m.type = "maximize"
    <3>1. RequestMaximize(m.on, box)
      BY <2>1
    <3>2. CASE current.full
      BY <3>1, <3>2 DEF RequestMaximize, Schedule, SameSize
    <3>3. CASE ~current.full
      BY <3>1, <3>3, Zenon DEF RequestMaximize, Maximize, Restore
    <3>4. QED
      BY <3>2, <3>3
  <2>2. CASE m.type = "fullscreen"
    <3>1. RequestFullscreen(m.on, box)
      BY <2>2
    <3>2. QED
      BY <3>1, Zenon DEF RequestFullscreen, Fullscreen, Maximize, Restore
  <2>3. QED
    BY <2>1, <2>2 DEF ReceiveState
<1>6. SameSize \/ onAck'.do.place # "edge"
  BY <1>4, <1>5 DEF Resize
<1>7. QED
  BY <1>1, <1>2, <1>6 DEF Acts, SizeKnown

(* It asks to be moved. *)
LEMMA ReceiveMoveActs ==
  ASSUME TypeInv, NEW m \in Messages, ReceiveMove(m)
  PROVE  Acts /\ SameStates
<1>1. Schedules
  BY ReceiveMoveHandles
<1>2. /\ grab'.does = "move"
      /\ UNCHANGED <<output, shownVars, configVars, unacked, attached, initialized>>
  BY DEF ReceiveMove
<1>3. QED
  BY <1>1, <1>2 DEF Acts, shownVars, configVars, SameStates, SameSize

(* It asks to be resized, and has been drawn by then. *)
LEMMA ReceiveResizeActs ==
  ASSUME TypeInv, geom > 0, NEW m \in Messages, ReceiveResize(m)
  PROVE  Acts /\ SameStates
<1>1. Schedules
  BY ReceiveResizeHandles
<1>2. /\ grab'.at = geom
      /\ UNCHANGED <<output, shownVars, onAck, unacked, attached, initialized>>
      /\ SameStates /\ SameSize
  BY DEF ReceiveResize, Schedule, SameStates, SameSize
<1>3. QED
  BY <1>1, <1>2 DEF Acts, shownVars

(* What the user and the outputs do. *)
LEMMA UserEffect ==
  ASSUME TypeInv, SizeKnown, UserActs, UNCHANGED <<frameVars, toServer, toClient>>
  PROVE  Effect
<1>1. Acts /\ SameStates
  BY ChangeModeActs, LoseOutputActs, MotionMovesActs, MotionResizesActs,
     ReleaseButtonActs, ActivateActs DEF UserActs
<1>2. QED
  BY <1>1 DEF Effect

(* What a request of the application has the compositor do. *)
LEMMA RequestEffect ==
  ASSUME TypeInv, SizeKnown, ServerReceives, UNCHANGED frameVars,
         IsRequest(toServer[1])
  PROVE  Effect
<1> DEFINE m == toServer[1]
<1>1. /\ toServer # <<>> /\ toServer' = Tail(toServer) /\ UNCHANGED toClient
      /\ m \in Messages /\ Head(toServer) = m
  <2>1. toServer # <<>> /\ toServer' = Tail(toServer) /\ UNCHANGED toClient
    BY DEF ServerReceives
  <2>2. QED
    BY <2>1, TailOf DEF TypeInv, ChannelsTyped
<1>2. m.type # "ack" /\ m.type # "commit"
  BY DEF IsRequest
<1>3. geom > 0
  <2>1. 1 \in DOMAIN toServer
    BY <1>1, TailOf DEF TypeInv, ChannelsTyped
  <2>2. QED
    BY <2>1 DEF SizeKnown
<1>4. ReceiveState(m) \/ ReceiveMove(m) \/ ReceiveResize(m)
  BY <1>1, <1>2 DEF ServerReceives, ReceiveAck, ReceiveCommit
<1>5. ReceiveState(m) => IsState(m)
  BY DEF ReceiveState, IsState
<1> HIDE DEF m
<1>6. Acts /\ (SameStates \/ IsState(m))
  BY <1>1, <1>3, <1>4, <1>5, ReceiveStateActs, ReceiveMoveActs, ReceiveResizeActs
<1>7. QED
  BY <1>1, <1>6 DEF Effect, m

(* The listener of commits. *)
CommitEffect ==
  /\ Schedules /\ SameStates
  /\ UNCHANGED <<frameVars, toClient, acked, unacked, grab>>
  /\ toServer # <<>> /\ toServer' = Tail(toServer)
  /\ toServer[1].type = "commit" /\ toServer[1].size \in Nat
  /\ current' = acked /\ onCommit' = Nothing
  /\ geom' = IF toServer[1].size > 0 THEN toServer[1].size ELSE geom
  /\ SameSize \/ scheduled'.size > 0
  /\ \/ edge' = {}
     \/ onCommit.place = "none" /\ UNCHANGED <<pos, edge>>
     \/ onCommit.place = "edge" /\ \A x \in edge' : pos' + Inset + geom' = x

(* A commit is received. *)
LEMMA CommitHasEffect ==
  ASSUME TypeInv, SizeKnown, ServerReceives, UNCHANGED frameVars,
         toServer[1].type = "commit", TypeInv'
  PROVE  CommitEffect
<1> DEFINE m == toServer[1]
<1>1. /\ toServer # <<>> /\ toServer' = Tail(toServer) /\ UNCHANGED toClient
      /\ m \in Messages /\ Head(toServer) = m
  <2>1. toServer # <<>> /\ toServer' = Tail(toServer) /\ UNCHANGED toClient
    BY DEF ServerReceives
  <2>2. QED
    BY <2>1, TailOf DEF TypeInv, ChannelsTyped
<1>2. ReceiveCommit(m)
  BY <1>1 DEF ServerReceives, ReceiveState, ReceiveMove, ReceiveResize, ReceiveAck
<1>3. m.type = "commit" /\ m.size \in Nat
  BY <1>1 DEF Messages, Acknowledgements, Commits, Requests
<1> HIDE DEF m
<1>4. Schedules
  BY <1>1, <1>2, ReceiveCommitHandles
<1>5. /\ current' = acked /\ onCommit' = Nothing
      /\ geom' = IF m.size > 0 THEN m.size ELSE geom
      /\ UNCHANGED <<output, acked, restore, unacked, attached, grab>>
  BY <1>2 DEF ReceiveCommit
<1> DEFINE again == onCommit.place \in {"restore", "maximize", "fullscreen"}
<1>6. SameStates /\ (SameSize \/ scheduled'.size > 0)
  <2>1. CASE again /\ grab.does = "resize"
    <3>1. Drag(grab.at) /\ grab.at \in Nat /\ grab.at > 0
      BY <1>2, <2>1 DEF ReceiveCommit, TypeInv, ServerTyped, SizeKnown
    <3>2. QED
      BY <3>1, DragPlaces DEF SameStates
  <2>2. CASE ~(again /\ grab.does = "resize")
    <3>1. UNCHANGED onAck
      BY <1>2, <2>2 DEF ReceiveCommit
    <3>2. Schedule(scheduled.states, scheduled.size) \/ UNCHANGED scheduled
      BY <1>2, <2>2 DEF ReceiveCommit
    <3>3. QED
      BY <3>1, <3>2 DEF Schedule, SameStates, SameSize
  <2>3. QED
    BY <2>1, <2>2
<1>7. \/ edge' = {}
      \/ onCommit.place = "none" /\ UNCHANGED <<pos, edge>>
      \/ onCommit.place = "edge" /\ \A x \in edge' : pos' + Inset + geom' = x
  <2>1. CASE again /\ grab.does = "move"
    BY <1>2, <2>1 DEF ReceiveCommit
  <2>2. CASE ~(again /\ grab.does = "move")
    <3>1. Placed(onCommit)
      BY <1>2, <2>2 DEF ReceiveCommit
    <3>2. onCommit.place \in {"none", "restore", "maximize", "fullscreen", "edge"}
          /\ onCommit.x \in Int /\ onCommit.width \in Int /\ geom' \in Int
      BY DEF TypeInv, ServerTyped, Doings
    <3>3. CASE onCommit.place \in {"restore", "maximize", "fullscreen"}
      BY <3>1, <3>3 DEF Placed
    <3>4. CASE onCommit.place = "none"
      BY <3>1, <3>4 DEF Placed
    <3>5. CASE onCommit.place = "edge"
      <4>1. /\ pos' = (IF onCommit.left THEN onCommit.x + onCommit.width - geom'
                     ELSE onCommit.x) - Inset
            /\ edge' = IF onCommit.left THEN {onCommit.x + onCommit.width} ELSE {}
        BY <3>1, <3>2, <3>5 DEF Placed
      <4>2. \A r, g, i \in Int : ((r - g) - i) + i + g = r
        OBVIOUS
      <4>3. \A x \in edge' : pos' + Inset + geom' = x
        BY <3>2, <4>1, <4>2, ToplevelAssumption
      <4>4. QED
        BY <3>5, <4>3
    <3>6. QED
      BY <3>2, <3>3, <3>4, <3>5
  <2>3. QED
    BY <2>1, <2>2
<1>8. QED
  BY <1>1, <1>3, <1>4, <1>5, <1>6, <1>7 DEF CommitEffect, m

(* The listener of acknowledgements. *)
AckEffect ==
  /\ UNCHANGED <<frameVars, toClient, scheduled, serial, dirty, current, geom, pos,
                 edge, grab>>
  /\ toServer # <<>> /\ toServer' = Tail(toServer)
  /\ toServer[1].type = "ack"
  /\ unacked' = {c \in unacked : c.serial > toServer[1].serial}
  /\ \E c \in unacked : c.serial = toServer[1].serial /\ acked' = c.states
  /\ onCommit' = IF onAck = NoAck THEN onCommit ELSE onAck.do
  /\ onAck' = IF toServer[1].serial >= onAck.serial THEN NoAck ELSE onAck

(* An acknowledgement is received. *)
LEMMA AckHasEffect ==
  ASSUME TypeInv, SerialInv, ServerReceives, UNCHANGED frameVars, toServer[1].type = "ack"
  PROVE  AckEffect
<1> DEFINE m == toServer[1]
           c0 == CHOOSE c \in unacked : c.serial = m.serial
<1>1. /\ toServer # <<>> /\ toServer' = Tail(toServer) /\ UNCHANGED toClient
      /\ Head(toServer) = m /\ 1 \in DOMAIN toServer
  <2>1. toServer # <<>> /\ toServer' = Tail(toServer) /\ UNCHANGED toClient
    BY DEF ServerReceives
  <2>2. QED
    BY <2>1, TailOf DEF TypeInv, ChannelsTyped
<1>2. ReceiveAck(m)
  BY <1>1 DEF ServerReceives, ReceiveState, ReceiveMove, ReceiveResize, ReceiveCommit
<1>3. \E c \in unacked : c.serial = m.serial
  BY <1>1 DEF SerialInv, AcksInOrder, Acks
<1>4. c0 \in unacked /\ c0.serial = m.serial
  BY <1>3
<1>5. acked' = c0.states
  BY <1>2 DEF ReceiveAck
<1>6. \E c \in unacked : c.serial = m.serial /\ acked' = c.states
  BY <1>4, <1>5
<1>7. /\ unacked' = {c \in unacked : c.serial > m.serial}
      /\ onCommit' = IF onAck = NoAck THEN onCommit ELSE onAck.do
      /\ onAck' = IF m.serial >= onAck.serial THEN NoAck ELSE onAck
      /\ UNCHANGED <<scheduled, serial, dirty, current, geom, pos, edge, grab>>
  BY <1>2 DEF ReceiveAck
<1>8. QED
  BY <1>1, <1>6, <1>7 DEF AckEffect

(* What an application does: it sends nothing, one message, or an          *)
(* acknowledgement with what it draws.                                     *)
Adds ==
  /\ UNCHANGED toplevelVars
  /\ egl' > 0 => egl > 0 \/ \E j \in DOMAIN toServer' : Shows(toServer'[j])
  /\ \/ UNCHANGED toServer
     \/ \E m \in Messages : /\ toServer' = Append(toServer, m) /\ m.type # "ack"
                            /\ IsRequest(m) => egl > 0
     \/ \E n \in Nat, e \in Nat :
          toServer' = Append(Append(toServer, Ack(n)), Commit(e))

-----------------------------------------------------------------------------
(* Nothing asked for is nothing to be placed. *)
LEMMA NothingPlace ==
  /\ Nothing.place = "none" /\ NoAck.do.place = "none" /\ NoAck.serial = 0
  BY DEF Nothing, NoAck

(* What waits for an acknowledgement is to place the toplevel. *)
LEMMA SchedulesToPlace ==
  ASSUME Schedules, Paired, onAck' # NoAck
  PROVE  onAck'.do.place # "none"
<1>1. CASE UNCHANGED onAck
  BY <1>1 DEF Paired
<1>2. CASE Places
  BY <1>2 DEF Places
<1>3. QED
  BY <1>1, <1>2 DEF Schedules, Keeps, Repeats, configVars

(* The first of the messages is taken. *)
LEMMA SizeTaken ==
  ASSUME TypeInv, TypeInv', SizeKnown, toServer # <<>>, toServer' = Tail(toServer),
         UNCHANGED egl, geom > 0 \/ Shows(toServer[1]) => geom' > 0,
         grab'.does = "resize" => grab'.at > 0
  PROVE  SizeKnown'
<1>1. /\ DOMAIN toServer' = 1..(Len(toServer) - 1) /\ DOMAIN toServer = 1..Len(toServer)
      /\ \A k \in 1..(Len(toServer) - 1) : toServer'[k] = toServer[k + 1]
                                           /\ k + 1 \in DOMAIN toServer
      /\ Len(toServer) \in Nat
  BY TailOf DEF TypeInv, ChannelsTyped
<1>2. ASSUME NEW i \in DOMAIN toServer', IsRequest(toServer'[i])
      PROVE  geom' > 0 \/ \E j \in 1..(i - 1) : Shows(toServer'[j])
  <2>1. geom > 0 \/ \E j \in 1..((i + 1) - 1) : Shows(toServer[j])
    <3>1. toServer'[i] = toServer[i + 1] /\ i + 1 \in DOMAIN toServer
      BY <1>1
    <3>2. IsRequest(toServer[i + 1])
      BY <1>2, <3>1
    <3>3. QED
      BY <3>1, <3>2 DEF SizeKnown
  <2>2. CASE geom > 0
    BY <2>2
  <2>3. CASE \E j \in 1..((i + 1) - 1) : Shows(toServer[j])
    <3>1. PICK j \in 1..((i + 1) - 1) : Shows(toServer[j])
      BY <2>3
    <3>2. CASE j = 1
      BY <3>1, <3>2
    <3>3. CASE j # 1
      <4>1. j - 1 \in 1..(i - 1) /\ j - 1 \in 1..(Len(toServer) - 1) /\ (j - 1) + 1 = j
        BY <1>1, <3>1, <3>3
      <4>2. toServer'[j - 1] = toServer[j]
        BY <1>1, <4>1
      <4>3. QED
        BY <3>1, <4>1, <4>2
    <3>4. QED
      BY <3>2, <3>3
  <2>4. QED
    BY <2>1, <2>2, <2>3
<1>3. egl' > 0 => geom' > 0 \/ \E j \in DOMAIN toServer' : Shows(toServer'[j])
  <2>1. CASE geom > 0
    BY <2>1
  <2>2. CASE \E j \in DOMAIN toServer : Shows(toServer[j])
    <3>1. PICK j \in DOMAIN toServer : Shows(toServer[j])
      BY <2>2
    <3>2. CASE j = 1
      BY <3>1, <3>2
    <3>3. CASE j # 1
      <4>1. j - 1 \in DOMAIN toServer' /\ j - 1 \in 1..(Len(toServer) - 1) /\ (j - 1) + 1 = j
        BY <1>1, <3>1, <3>3
      <4>2. toServer'[j - 1] = toServer[j]
        BY <1>1, <4>1
      <4>3. QED
        BY <3>1, <4>1, <4>2
    <3>4. QED
      BY <3>2, <3>3
  <2>3. QED
    BY <2>1, <2>2 DEF SizeKnown
<1>4. QED
  BY <1>2, <1>3 DEF SizeKnown

(* What follows in the queue does not change what is before it. *)
LEMMA SizeAdds ==
  ASSUME TypeInv, TypeInv', SizeKnown, Adds
  PROVE  SizeKnown'
<1>1. UNCHANGED <<geom, grab>>
  BY DEF Adds, toplevelVars, shownVars
<1> DEFINE q == toServer
<1>2. q \in Seq(Messages)
  BY DEF TypeInv, ChannelsTyped
<1> DEFINE same == /\ \A k \in DOMAIN q : k \in DOMAIN q' /\ q'[k] = q[k]
                   /\ \A k \in DOMAIN q' : /\ k \in Nat
                                           /\ \/ k \in DOMAIN q /\ q'[k] = q[k]
                                              \/ k \notin DOMAIN q /\ (IsRequest(q'[k]) => egl > 0)
                   /\ \A k \in DOMAIN q' : k \notin DOMAIN q => \A j \in DOMAIN q : j \in 1..(k - 1)
<1>3. same
  <2>1. CASE UNCHANGED q
    BY <1>2, <2>1
  <2>2. ASSUME NEW m \in Messages, q' = Append(q, m), IsRequest(m) => egl > 0
        PROVE  same
    <3>1. /\ DOMAIN Append(q, m) = 1..(Len(q) + 1) /\ DOMAIN q = 1..Len(q) /\ Len(q) \in Nat
          /\ \A k \in 1..Len(q) : Append(q, m)[k] = q[k]
          /\ Append(q, m)[Len(q) + 1] = m
      BY <1>2, AppendTo
    <3>2. QED
      BY <2>2, <3>1
  <2>3. ASSUME NEW n \in Nat, NEW e \in Nat, q' = Append(Append(q, Ack(n)), Commit(e))
        PROVE  same
    <3> DEFINE u == Append(q, Ack(n))
    <3>1. /\ u \in Seq(Messages) /\ Len(u) = Len(q) + 1 /\ DOMAIN q = 1..Len(q)
          /\ DOMAIN u = 1..(Len(q) + 1) /\ Len(q) \in Nat
          /\ \A k \in 1..Len(q) : u[k] = q[k]
          /\ u[Len(q) + 1] = Ack(n)
      BY <1>2, AppendTo, MessageTypes
    <3> HIDE DEF u
    <3>2. /\ DOMAIN Append(u, Commit(e)) = 1..(Len(u) + 1)
          /\ \A k \in 1..Len(u) : Append(u, Commit(e))[k] = u[k]
          /\ Append(u, Commit(e))[Len(u) + 1] = Commit(e)
      BY <3>1, AppendTo, MessageTypes
    <3>3. ~IsRequest(Ack(n)) /\ ~IsRequest(Commit(e))
      BY MessageTypes DEF IsRequest
    <3>4. q' = Append(u, Commit(e))
      BY <2>3 DEF u
    <3>5. QED
      BY <3>1, <3>2, <3>3, <3>4
  <2>4. QED
    BY <2>1, <2>2, <2>3 DEF Adds
<1> HIDE DEF q
<1>4. egl > 0 => geom > 0 \/ \E j \in DOMAIN q : Shows(q[j])
  BY DEF SizeKnown, q
<1>5. ASSUME NEW i \in DOMAIN q', IsRequest(q'[i])
      PROVE  geom > 0 \/ \E j \in 1..(i - 1) : Shows(q'[j])
  <2>1. CASE i \in DOMAIN q /\ q'[i] = q[i]
    <3>1. geom > 0 \/ \E j \in 1..(i - 1) : Shows(q[j])
      BY <1>5, <2>1 DEF SizeKnown, q
    <3>2. \A j \in 1..(i - 1) : j \in DOMAIN q
      BY <1>2, <2>1
    <3>3. QED
      BY <1>3, <3>1, <3>2
  <2>2. CASE i \notin DOMAIN q
    BY <1>3, <1>4, <1>5, <2>2
  <2>3. QED
    BY <1>3, <2>1, <2>2
<1>6. egl' > 0 => geom > 0 \/ \E j \in DOMAIN q' : Shows(q'[j])
  <2>1. CASE egl > 0
    BY <1>3, <1>4, <2>1
  <2>2. CASE ~(egl > 0)
    BY <2>2 DEF Adds, q
  <2>3. QED
    BY <2>1, <2>2
<1>7. QED
  BY <1>1, <1>5, <1>6 DEF SizeKnown, q

(* The first of the messages is taken, and no acknowledgement. *)
LEMMA PairedTaken ==
  ASSUME TypeInv, Paired, toServer # <<>>, toServer' = Tail(toServer),
         \/ onCommit' = Nothing
         \/ onCommit'.place # "none" /\ toServer[1].type = "ack"
         \/ UNCHANGED onCommit /\ toServer[1].type # "commit",
         onAck' # NoAck => onAck'.do.place # "none"
  PROVE  Paired'
<1>1. /\ DOMAIN toServer' = 1..(Len(toServer) - 1) /\ DOMAIN toServer = 1..Len(toServer)
      /\ \A k \in 1..(Len(toServer) - 1) : toServer'[k] = toServer[k + 1]
                                           /\ k + 1 \in DOMAIN toServer
      /\ Len(toServer) \in Nat /\ 1 \in DOMAIN toServer
  BY TailOf DEF TypeInv, ChannelsTyped
<1>2. ASSUME NEW k \in Acks' PROVE k + 1 \in DOMAIN toServer' /\ toServer'[k + 1].type = "commit"
  <2>1. k \in 1..(Len(toServer) - 1) /\ toServer'[k] = toServer[k + 1] /\ k + 1 \in Acks
    BY <1>1 DEF Acks
  <2>2. (k + 1) + 1 \in DOMAIN toServer /\ toServer[(k + 1) + 1].type = "commit"
    BY <2>1 DEF Paired
  <2>3. k + 1 \in 1..(Len(toServer) - 1)
    BY <1>1, <2>1, <2>2
  <2>4. QED
    BY <1>1, <2>2, <2>3
<1>3. onCommit' # Nothing =>
        toServer' # <<>> /\ toServer'[1].type = "commit" /\ onCommit'.place # "none"
  <2>1. CASE onCommit'.place # "none" /\ toServer[1].type = "ack"
    <3>1. 1 \in Acks
      BY <1>1, <2>1 DEF Acks
    <3>2. 1 + 1 \in DOMAIN toServer /\ toServer[1 + 1].type = "commit"
      BY <3>1 DEF Paired
    <3>3. 1 \in 1..(Len(toServer) - 1)
      BY <1>1, <3>2
    <3>4. QED
      BY <1>1, <2>1, <3>2, <3>3
  <2>2. CASE UNCHANGED onCommit /\ toServer[1].type # "commit"
    BY <2>2 DEF Paired
  <2>3. QED
    BY <2>1, <2>2
<1>4. QED
  BY <1>2, <1>3 DEF Paired

(* An acknowledgement is followed by a commit at once. *)
LEMMA PairedAdds ==
  ASSUME TypeInv, Paired, Adds
  PROVE  Paired'
<1>1. UNCHANGED <<onCommit, onAck>>
  BY DEF Adds, toplevelVars, shownVars, configVars
<1> DEFINE q == toServer
<1>2. q \in Seq(Messages)
  BY DEF TypeInv, ChannelsTyped
<1> DEFINE same == /\ \A k \in DOMAIN q : k \in DOMAIN q' /\ q'[k] = q[k]
                   /\ \A k \in DOMAIN q' : q'[k].type = "ack" =>
                        \/ k \in DOMAIN q /\ q[k].type = "ack"
                        \/ k + 1 \in DOMAIN q' /\ q'[k + 1].type = "commit"
                   /\ q # <<>> => 1 \in DOMAIN q
<1>3. same
  <2>1. CASE UNCHANGED q
    BY <1>2, <2>1
  <2>2. ASSUME NEW m \in Messages, q' = Append(q, m), m.type # "ack"
        PROVE  same
    <3>1. /\ DOMAIN Append(q, m) = 1..(Len(q) + 1) /\ DOMAIN q = 1..Len(q) /\ Len(q) \in Nat
          /\ \A k \in 1..Len(q) : Append(q, m)[k] = q[k]
          /\ Append(q, m)[Len(q) + 1] = m
      BY <1>2, AppendTo
    <3>2. q # <<>> => 1 \in DOMAIN q
      BY <1>2
    <3>3. QED
      BY <2>2, <3>1, <3>2
  <2>3. ASSUME NEW n \in Nat, NEW e \in Nat, q' = Append(Append(q, Ack(n)), Commit(e))
        PROVE  same
    <3> DEFINE u == Append(q, Ack(n))
    <3>1. /\ u \in Seq(Messages) /\ Len(u) = Len(q) + 1 /\ DOMAIN q = 1..Len(q)
          /\ DOMAIN u = 1..(Len(q) + 1) /\ Len(q) \in Nat
          /\ \A k \in 1..Len(q) : u[k] = q[k]
          /\ u[Len(q) + 1] = Ack(n)
      BY <1>2, AppendTo, MessageTypes
    <3>2. q # <<>> => 1 \in DOMAIN q
      BY <1>2
    <3> HIDE DEF u
    <3>3. /\ DOMAIN Append(u, Commit(e)) = 1..(Len(u) + 1)
          /\ \A k \in 1..Len(u) : Append(u, Commit(e))[k] = u[k]
          /\ Append(u, Commit(e))[Len(u) + 1] = Commit(e)
      BY <3>1, AppendTo, MessageTypes
    <3>4. Commit(e).type = "commit"
      BY MessageTypes
    <3>5. q' = Append(u, Commit(e))
      BY <2>3 DEF u
    <3>6. QED
      BY <3>1, <3>2, <3>3, <3>4, <3>5
  <2>4. QED
    BY <2>1, <2>2, <2>3 DEF Adds
<1> HIDE DEF q
<1>4. ASSUME NEW k \in Acks' PROVE k + 1 \in DOMAIN q' /\ q'[k + 1].type = "commit"
  <2>1. CASE k \in DOMAIN q /\ q[k].type = "ack"
    <3>1. k + 1 \in DOMAIN q /\ q[k + 1].type = "commit"
      BY <2>1 DEF Paired, Acks, q
    <3>2. QED
      BY <1>3, <3>1
  <2>2. QED
    BY <1>3, <2>1 DEF Acks, q
<1>5. onCommit' # Nothing =>
        q' # <<>> /\ q'[1].type = "commit" /\ onCommit'.place # "none"
  <2>1. DOMAIN << >> = {}
    OBVIOUS
  <2>2. 1 \in DOMAIN q' => q' # <<>>
    BY <2>1
  <2>3. QED
    BY <1>1, <1>3, <2>2 DEF Paired, q
<1>6. QED
  BY <1>1, <1>4, <1>5 DEF Paired, q

(* A size of nothing is never asked for by a drag. *)
LEMMA EffectUnsized ==
  ASSUME Unsized, Effect
  PROVE  Unsized'
<1>1. /\ Schedules /\ UNCHANGED onCommit
      /\ SameSize \/ onAck'.do.place # "edge" \/ scheduled'.size > 0
      /\ edge' = {} \/ UNCHANGED edge
  BY DEF Effect, Acts
<1>2. SUFFICES ASSUME scheduled'.size = 0
               PROVE  /\ onAck' # NoAck => onAck'.do.place # "edge"
                      /\ onAck' = NoAck => /\ onCommit.place # "edge"
                                           /\ onCommit = Nothing => edge' = {}
  BY <1>1 DEF Unsized
<1>3. CASE SameSize
  BY <1>1, <1>2, <1>3 DEF Unsized, SameSize
<1>4. CASE ~SameSize
  <2>1. Places
    BY <1>1, <1>4 DEF Schedules, Keeps, Repeats, configVars, Schedule, SameSize
  <2>2. onAck'.do.place # "none" /\ onAck' # NoAck
    BY <2>1, NothingPlace DEF Places
  <2>3. ~(scheduled'.size > 0)
    BY <1>2
  <2>4. QED
    BY <1>1, <1>4, <2>2, <2>3
<1>5. QED
  BY <1>3, <1>4

(* A commit places what was to be placed. *)
LEMMA CommitUnsized ==
  ASSUME Paired, Unsized, CommitEffect
  PROVE  Unsized'
<1>1. /\ onCommit' = Nothing
      /\ SameSize \/ scheduled'.size > 0
      /\ \/ edge' = {}
         \/ onCommit.place = "none" /\ UNCHANGED edge
         \/ onCommit.place = "edge"
  BY DEF CommitEffect
<1>2. SUFFICES ASSUME scheduled'.size = 0
               PROVE  /\ onAck' # NoAck => onAck'.do.place # "edge"
                      /\ onAck' = NoAck => Nothing.place # "edge" /\ edge' = {}
  BY <1>1 DEF Unsized
<1>3. ~(scheduled'.size > 0)
  BY <1>2
<1>4. SameSize
  BY <1>1, <1>3
<1>5. scheduled.size = 0 /\ UNCHANGED onAck
  BY <1>2, <1>4 DEF SameSize
<1>6. onCommit.place = "none" => onCommit = Nothing
  BY DEF Paired
<1>7. QED
  BY <1>1, <1>5, <1>6, NothingPlace DEF Unsized

(* What was acknowledged is to be placed. *)
LEMMA AckUnsized ==
  ASSUME Paired, Unsized, AckEffect
  PROVE  Unsized'
<1>1. /\ UNCHANGED <<scheduled, edge>>
      /\ onCommit' = IF onAck = NoAck THEN onCommit ELSE onAck.do
      /\ onAck' = NoAck \/ UNCHANGED onAck
  BY DEF AckEffect
<1>2. onAck # NoAck => onAck.do # Nothing
  BY NothingPlace DEF Paired
<1>3. QED
  BY <1>1, <1>2 DEF Unsized

-----------------------------------------------------------------------------
(* What the user, outputs and requests do leaves what always holds. *)
LEMMA EffectSound ==
  ASSUME TypeInv, TypeInv', Sound, Effect
  PROVE  Sound'
<1>1. SizeKnown /\ Paired /\ Unsized
  BY DEF Sound
<1>2. /\ UNCHANGED <<geom, onCommit, egl>>
      /\ grab'.does = "resize" => grab'.at > 0
      /\ Schedules
  BY DEF Effect, Acts, frameVars
<1>3. onAck' # NoAck => onAck'.do.place # "none"
  BY <1>1, <1>2, SchedulesToPlace
<1>4. CASE UNCHANGED toServer
  <2>1. SizeKnown'
    BY <1>1, <1>2, <1>4 DEF SizeKnown
  <2>2. Paired'
    BY <1>1, <1>2, <1>3, <1>4 DEF Paired, Acks
  <2>3. QED
    BY <1>1, <2>1, <2>2, EffectUnsized DEF Sound
<1>5. CASE toServer # <<>> /\ toServer' = Tail(toServer) /\ IsRequest(toServer[1])
  <2>1. toServer[1].type # "ack" /\ toServer[1].type # "commit" /\ ~Shows(toServer[1])
    BY <1>5 DEF IsRequest, Shows
  <2>2. SizeKnown'
    BY <1>1, <1>2, <1>5, <2>1, SizeTaken
  <2>3. Paired'
    BY <1>1, <1>2, <1>3, <1>5, <2>1, PairedTaken
  <2>4. QED
    BY <1>1, <2>2, <2>3, EffectUnsized DEF Sound
<1>6. QED
  BY <1>4, <1>5 DEF Effect

(* So does a commit. *)
LEMMA CommitSound ==
  ASSUME TypeInv, TypeInv', Sound, CommitEffect
  PROVE  Sound'
<1>1. SizeKnown /\ Paired /\ Unsized
  BY DEF Sound
<1>2. /\ UNCHANGED <<grab, egl>> /\ Schedules /\ onCommit' = Nothing
      /\ toServer # <<>> /\ toServer' = Tail(toServer)
      /\ geom' = IF toServer[1].size > 0 THEN toServer[1].size ELSE geom
  BY DEF CommitEffect, frameVars
<1>3. onAck' # NoAck => onAck'.do.place # "none"
  BY <1>1, <1>2, SchedulesToPlace
<1>4. geom > 0 \/ Shows(toServer[1]) => geom' > 0
  BY <1>2 DEF Shows
<1>5. SizeKnown'
  <2>1. grab'.does = "resize" => grab'.at > 0
    BY <1>1, <1>2 DEF SizeKnown
  <2>2. QED
    BY <1>1, <1>2, <1>4, <2>1, SizeTaken
<1>6. Paired'
  BY <1>1, <1>2, <1>3, PairedTaken
<1>7. QED
  BY <1>1, <1>5, <1>6, CommitUnsized DEF Sound

(* So does an acknowledgement. *)
LEMMA AckSound ==
  ASSUME TypeInv, TypeInv', Sound, AckEffect
  PROVE  Sound'
<1>1. SizeKnown /\ Paired /\ Unsized
  BY DEF Sound
<1>2. /\ UNCHANGED <<grab, egl, geom>>
      /\ toServer # <<>> /\ toServer' = Tail(toServer) /\ toServer[1].type = "ack"
      /\ onCommit' = IF onAck = NoAck THEN onCommit ELSE onAck.do
      /\ onAck' = NoAck \/ UNCHANGED onAck
  BY DEF AckEffect, frameVars
<1>3. onAck' # NoAck => onAck'.do.place # "none"
  BY <1>1, <1>2 DEF Paired
<1>4. SizeKnown'
  <2>1. ~Shows(toServer[1])
    BY <1>2 DEF Shows
  <2>2. grab'.does = "resize" => grab'.at > 0
    BY <1>1, <1>2 DEF SizeKnown
  <2>3. QED
    BY <1>1, <1>2, <2>1, <2>2, SizeTaken
<1>5. onCommit' = Nothing \/ onCommit'.place # "none"
  BY <1>1, <1>2 DEF Paired
<1>6. Paired'
  BY <1>1, <1>2, <1>3, <1>5, PairedTaken
<1>7. QED
  BY <1>1, <1>4, <1>6, AckUnsized DEF Sound

(* So does what an application sends. *)
LEMMA AddsSound ==
  ASSUME TypeInv, TypeInv', Sound, Adds
  PROVE  Sound'
<1>1. SizeKnown' /\ Paired'
  BY SizeAdds, PairedAdds DEF Sound
<1>2. UNCHANGED <<scheduled, onAck, onCommit, edge>>
  BY DEF Adds, toplevelVars, shownVars, configVars
<1>3. Unsized'
  BY <1>2 DEF Sound, Unsized
<1>4. QED
  BY <1>1, <1>3 DEF Sound

(* So does sending a configure event. *)
LEMMA SendSound ==
  ASSUME Sound, SendConfigure, UNCHANGED frameVars
  PROVE  Sound'
<1>1. /\ UNCHANGED <<scheduled, onAck, toServer, grab>>
      /\ UNCHANGED <<shownVars, egl>>
  BY DEF SendConfigure, frameVars
<1>2. SizeKnown'
  BY <1>1 DEF Sound, SizeKnown, shownVars
<1>3. Paired'
  BY <1>1 DEF Sound, Paired, Acks, shownVars
<1>4. Unsized'
  BY <1>1 DEF Sound, Unsized, shownVars
<1>5. QED
  BY <1>2, <1>3, <1>4 DEF Sound

-----------------------------------------------------------------------------
(* Two messages follow in a queue. *)
LEMMA AppendTwo ==
  ASSUME NEW S, NEW q \in Seq(S), NEW a \in S, NEW b \in S
  PROVE  LET r == Append(Append(q, a), b) IN
         /\ Len(q) \in Nat /\ DOMAIN q = 1..Len(q) /\ DOMAIN r = 1..(Len(q) + 2)
         /\ \A k \in 1..Len(q) : r[k] = q[k]
         /\ r[Len(q) + 1] = a /\ r[Len(q) + 2] = b
<1> DEFINE u == Append(q, a)
<1>1. /\ u \in Seq(S) /\ Len(u) = Len(q) + 1 /\ Len(q) \in Nat
      /\ \A k \in 1..Len(q) : u[k] = q[k]
      /\ u[Len(q) + 1] = a
  BY AppendTo
<1>2. DOMAIN q = 1..Len(q)
  OBVIOUS
<1> HIDE DEF u
<1>3. /\ DOMAIN Append(u, b) = 1..(Len(u) + 1)
      /\ \A k \in 1..Len(u) : Append(u, b)[k] = u[k]
      /\ Append(u, b)[Len(u) + 1] = b
  BY <1>1, AppendTo
<1>4. /\ Len(u) + 1 = Len(q) + 2 /\ Len(q) + 1 \in 1..Len(u)
      /\ \A k \in 1..Len(q) : k \in 1..Len(u)
  BY <1>1
<1>5. QED
  BY <1>1, <1>2, <1>3, <1>4 DEF u

(* What an application does that keeps to the sizes it is given: it asks    *)
(* for something, draws again at the size it has, or acknowledges a         *)
(* configure event and draws at the size that asks for.                     *)
Draws ==
  /\ UNCHANGED toplevelVars
  /\ configured <= configured'
  /\ ~configuring' => (egl' = drawn' \/ UNCHANGED <<configuring, egl, drawn>>)
  /\ \/ UNCHANGED <<toServer, drawn>>
     \/ /\ UNCHANGED drawn
        /\ \E m \in Messages : /\ toServer' = Append(toServer, m) /\ m.type # "ack"
                               /\ ~Shows(m) \/ (m = Commit(drawn) /\ egl' = drawn)
                               /\ IsState(m) => Agreed
     \/ /\ drawn' = egl'
        /\ toServer' = Append(Append(toServer, Ack(configured')), Commit(egl'))

(* A configure event is received. *)
LEMMA ConfiguredDraws ==
  ASSUME TypeInv, TypeInv', SerialInv, ClientReceives, UNCHANGED toplevelVars
  PROVE  Adds /\ Draws
<1> DEFINE m == toClient[1]
<1>1. /\ toClient # <<>> /\ m \in Configures /\ configured' = m.serial
      /\ \/ /\ toServer' = Append(Append(toServer, Ack(m.serial)), Commit(egl'))
            /\ drawn' = egl' /\ configuring' = FALSE
         \/ /\ toServer' \in {toServer, Append(toServer, Commit(0))}
            /\ UNCHANGED drawn /\ configuring' = TRUE /\ egl > 0
  BY ConfiguredClient
<1>2. m.serial \in Nat /\ configured \in Nat /\ configured <= m.serial
  <2>1. 1 \in DOMAIN toClient
    BY <1>1, TailOf DEF TypeInv, ChannelsTyped
  <2>2. toClient[1].serial > configured
    BY <2>1 DEF SerialInv, ToClientInv
  <2>3. m.serial \in Nat /\ configured \in Nat
    BY <1>1 DEF Configures, TypeInv, ClientTyped
  <2>4. QED
    BY <2>2, <2>3
<1>3. 0 \in Nat /\ Commit(0) \in Messages /\ Commit(0).type = "commit" /\ Commit(0).size = 0
  BY MessageTypes
<1>4. ~Shows(Commit(0)) /\ ~IsState(Commit(0)) /\ ~IsRequest(Commit(0))
  BY <1>3 DEF Shows, IsState, IsRequest
<1> HIDE DEF m
<1>5. CASE /\ toServer' = Append(Append(toServer, Ack(m.serial)), Commit(egl'))
           /\ drawn' = egl' /\ configuring' = FALSE
  <2>1. egl' \in Nat
    BY DEF TypeInv, ClientTyped
  <2>2. toServer'[Len(toServer) + 2] = Commit(egl') /\ Len(toServer) + 2 \in DOMAIN toServer'
    <3>1. /\ toServer \in Seq(Messages) /\ Ack(m.serial) \in Messages
          /\ Commit(egl') \in Messages
      BY <1>2, <2>1, MessageTypes DEF TypeInv, ChannelsTyped
    <3>2. QED
      BY <1>5, <3>1, AppendTwo
  <2>3. egl' > 0 => Shows(Commit(egl'))
    BY <2>1, MessageTypes DEF Shows
  <2>4. Adds
    BY <1>2, <1>5, <2>1, <2>2, <2>3 DEF Adds
  <2>5. Draws
    BY <1>1, <1>2, <1>5 DEF Draws
  <2>6. QED
    BY <2>4, <2>5
<1>6. CASE /\ toServer' \in {toServer, Append(toServer, Commit(0))}
           /\ UNCHANGED drawn /\ configuring' = TRUE /\ egl > 0
  <2>1. Adds
    BY <1>3, <1>4, <1>6 DEF Adds
  <2>2. Draws
    BY <1>1, <1>2, <1>3, <1>4, <1>6 DEF Draws
  <2>3. QED
    BY <2>1, <2>2
<1>7. QED
  BY <1>1, <1>5, <1>6

(* The frame callback comes. *)
LEMMA FrameDoneDraws ==
  ASSUME TypeInv, TypeInv', FrameDone, UNCHANGED toplevelVars
  PROVE  Adds /\ (SteadySizes => Draws)
<1>1. /\ UNCHANGED <<configured, toClient, egl>>
      /\ drawn' = egl /\ configuring' = FALSE
      /\ toServer' = IF configuring
                     THEN Append(Append(toServer, Ack(configured)), Commit(egl))
                     ELSE Append(toServer, Commit(egl))
  BY FrameDoneClient
<1>2. configured \in Nat /\ egl \in Nat
  BY DEF TypeInv, ClientTyped
<1>3. /\ Commit(egl) \in Messages /\ Commit(egl).type = "commit"
      /\ ~IsState(Commit(egl)) /\ ~IsRequest(Commit(egl))
  BY <1>2, MessageTypes DEF IsState, IsRequest
<1>4. Adds
  <2>1. CASE configuring
    BY <1>1, <1>2, <2>1 DEF Adds
  <2>2. CASE ~configuring
    BY <1>1, <1>3, <2>2 DEF Adds
  <2>3. QED
    BY <2>1, <2>2
<1>5. ASSUME SteadySizes PROVE Draws
  <2>1. configured <= configured' /\ egl' = drawn'
    BY <1>1, <1>2
  <2>2. CASE configuring
    <3>1. toServer' = Append(Append(toServer, Ack(configured')), Commit(egl'))
      BY <1>1, <2>2
    <3>2. QED
      BY <2>1, <3>1 DEF Draws
  <2>3. CASE ~configuring
    <3>1. egl = drawn
      BY <1>5, <2>3 DEF SteadySizes
    <3>2. UNCHANGED drawn /\ toServer' = Append(toServer, Commit(egl))
          /\ Commit(egl) = Commit(drawn) /\ egl' = drawn
      BY <1>1, <2>3, <3>1
    <3>3. QED
      BY <1>3, <2>1, <3>2 DEF Draws
  <2>4. QED
    BY <2>2, <2>3
<1>6. QED
  BY <1>4, <1>5

(* The application asks for something. *)
LEMMA RequestDraws ==
  ASSUME TypeInv, NEW m \in Requests, Request(m), UNCHANGED toplevelVars
  PROVE  Adds /\ ((IsState(m) => Agreed) => Draws)
<1>1. m.type \notin {"ack", "commit"} /\ m \in Messages
  BY DEF Requests, Messages
<1>2. egl > 0 /\ toServer' = Append(toServer, m) /\ UNCHANGED <<frameVars, toClient>>
  BY DEF Request
<1>3. ~Shows(m)
  BY <1>1 DEF Shows
<1>4. Adds
  BY <1>1, <1>2, <1>3 DEF Adds, frameVars
<1>5. configured \in Nat
  BY DEF TypeInv, ClientTyped
<1>6. ASSUME IsState(m) => Agreed PROVE Draws
  BY <1>1, <1>2, <1>3, <1>5, <1>6 DEF Draws, frameVars
<1>7. QED
  BY <1>4, <1>6

(* The application changes its size of its own accord. *)
LEMMA AppResizeAdds ==
  ASSUME TypeInv, NEW w \in AppSizes, AppResize(w), egl > 0, UNCHANGED toplevelVars
  PROVE  Adds
<1>1. w \in Nat /\ configured \in Nat /\ 0 \in Nat
  BY FrameAssumption DEF TypeInv, ClientTyped
<1>2. \/ toServer' \in {toServer, Append(toServer, Commit(0)), Append(toServer, Commit(w))}
      \/ toServer' = Append(Append(toServer, Ack(configured)), Commit(w))
  BY AppResizeClient
<1>3. \A n \in Nat : /\ Commit(n) \in Messages /\ Commit(n).type = "commit"
                     /\ ~IsRequest(Commit(n))
  BY MessageTypes DEF IsRequest
<1>4. QED
  BY <1>1, <1>2, <1>3 DEF Adds

-----------------------------------------------------------------------------
(* One change of state at a time: what the user, outputs and requests do.  *)
LEMMA EffectOneChange ==
  ASSUME TypeInv, OneChange, Effect
  PROVE  OneChange'
<1>1. UNCHANGED <<acked, current, unacked>>
  BY DEF Effect, Acts
<1>2. CASE UNCHANGED toServer /\ SameStates
  BY <1>1, <1>2 DEF OneChange, SameStates
<1>3. CASE /\ toServer # <<>> /\ toServer' = Tail(toServer) /\ IsRequest(toServer[1])
           /\ SameStates \/ IsState(toServer[1])
  <2>1. /\ DOMAIN toServer' = 1..(Len(toServer) - 1)
        /\ \A k \in 1..(Len(toServer) - 1) : /\ toServer'[k] = toServer[k + 1]
                                             /\ k + 1 \in DOMAIN toServer
        /\ 1 \in DOMAIN toServer
    BY <1>3, TailOf DEF TypeInv, ChannelsTyped
  <2>2. \A i \in DOMAIN toServer' : /\ i \in Nat /\ i + 1 # 1
                                    /\ toServer'[i] = toServer[i + 1]
                                    /\ i + 1 \in DOMAIN toServer
    BY <2>1
  <2>3. CASE SameStates
    <3>1. ASSUME NEW i \in DOMAIN toServer', IsState(toServer'[i])
          PROVE  /\ scheduled'.states = current
                 /\ \A j \in DOMAIN toServer' : IsState(toServer'[j]) => i = j
      <4>1. /\ scheduled.states = current
            /\ \A j \in DOMAIN toServer : IsState(toServer[j]) => i + 1 = j
        BY <2>2, <3>1 DEF OneChange
      <4>2. QED
        BY <2>2, <2>3, <4>1 DEF SameStates
    <3>2. QED
      BY <1>1, <2>3, <3>1 DEF OneChange, SameStates
  <2>4. CASE IsState(toServer[1])
    <3>1. scheduled.states = current
          /\ \A j \in DOMAIN toServer : IsState(toServer[j]) => 1 = j
      BY <2>1, <2>4 DEF OneChange
    <3>2. \A i \in DOMAIN toServer' : ~IsState(toServer'[i])
      BY <2>2, <3>1
    <3>3. acked = current /\ \A c \in unacked : c.states = current
      BY <3>1 DEF OneChange
    <3>4. QED
      BY <1>1, <3>2, <3>3 DEF OneChange
  <2>5. QED
    BY <1>3, <2>3, <2>4
<1>4. QED
  BY <1>2, <1>3 DEF Effect

(* A commit makes what was acknowledged the current state. *)
LEMMA CommitOneChange ==
  ASSUME TypeInv, OneChange, CommitEffect
  PROVE  OneChange'
<1>1. /\ current' = acked /\ UNCHANGED <<acked, unacked>>
      /\ scheduled'.states = scheduled.states
      /\ toServer # <<>> /\ toServer' = Tail(toServer)
  BY DEF CommitEffect, SameStates
<1>2. \A i \in DOMAIN toServer' : /\ i \in Nat /\ toServer'[i] = toServer[i + 1]
                                  /\ i + 1 \in DOMAIN toServer
  BY <1>1, TailOf DEF TypeInv, ChannelsTyped
<1>3. ASSUME NEW i \in DOMAIN toServer', IsState(toServer'[i])
      PROVE  /\ scheduled.states = acked
             /\ \A j \in DOMAIN toServer' : IsState(toServer'[j]) => i = j
  <2>1. /\ scheduled.states = current
        /\ \A j \in DOMAIN toServer : IsState(toServer[j]) => i + 1 = j
    BY <1>2, <1>3 DEF OneChange
  <2>2. acked = current
    BY <2>1 DEF OneChange
  <2>3. QED
    BY <1>2, <2>1, <2>2
<1>4. \A c \in unacked : c.states \in {acked, scheduled.states}
  BY DEF OneChange
<1>5. QED
  BY <1>1, <1>3, <1>4 DEF OneChange

(* An acknowledgement takes the states of its event, and those after it    *)
(* have the last ones if it has.                                           *)
LEMMA AckOneChange ==
  ASSUME TypeInv, OneChange, AckEffect
  PROVE  OneChange'
<1> DEFINE s == toServer[1].serial
<1>1. /\ UNCHANGED <<current, scheduled>>
      /\ unacked' = {c \in unacked : c.serial > s}
      /\ toServer # <<>> /\ toServer' = Tail(toServer)
  BY DEF AckEffect
<1>2. PICK c0 \in unacked : c0.serial = s /\ acked' = c0.states
  BY DEF AckEffect
<1>3. \A i \in DOMAIN toServer' : /\ i \in Nat /\ toServer'[i] = toServer[i + 1]
                                  /\ i + 1 \in DOMAIN toServer
  BY <1>1, TailOf DEF TypeInv, ChannelsTyped
<1> HIDE DEF s
<1>4. ASSUME NEW i \in DOMAIN toServer', IsState(toServer'[i])
      PROVE  /\ scheduled.states = current
             /\ \A j \in DOMAIN toServer' : IsState(toServer'[j]) => i = j
  <2>1. /\ scheduled.states = current
        /\ \A j \in DOMAIN toServer : IsState(toServer[j]) => i + 1 = j
    BY <1>3, <1>4 DEF OneChange
  <2>2. QED
    BY <1>3, <2>1
<1>5. acked' \in {current, scheduled.states}
  BY <1>2 DEF OneChange
<1>6. \A c \in unacked' : c \in unacked /\ c0.serial < c.serial
  <2>1. \A c \in unacked : c.serial \in Nat
    BY DEF TypeInv, ServerTyped, Configured
  <2>2. QED
    BY <1>1, <1>2, <2>1
<1>7. acked' = scheduled.states => \A c \in unacked' : c.states = scheduled.states
  BY <1>2, <1>6 DEF OneChange
<1>8. QED
  BY <1>1, <1>4, <1>5, <1>6, <1>7 DEF OneChange

(* What is sent has the last states, and the last serial. *)
LEMMA SendOneChange ==
  ASSUME TypeInv, SerialInv, OneChange, SendConfigure
  PROVE  OneChange'
<1> DEFINE new == [serial |-> serial, states |-> scheduled.states]
<1>1. /\ UNCHANGED <<acked, current, scheduled, toServer>>
      /\ unacked' = unacked \cup {new} /\ dirty
  BY DEF SendConfigure, shownVars
<1>2. \A c \in unacked : c.serial < serial /\ c.serial \in Nat
  BY <1>1 DEF SerialInv, SentInv, Past, TypeInv, ServerTyped, Configured
<1>3. new.serial = serial /\ new.states = scheduled.states /\ serial \in Nat
  BY DEF TypeInv, ServerTyped
<1> HIDE DEF new
<1>4. \A c \in unacked' : c.states \in {current, scheduled.states}
  BY <1>1, <1>3 DEF OneChange
<1>5. acked = scheduled.states => \A c \in unacked' : c.states = scheduled.states
  BY <1>1, <1>3 DEF OneChange
<1>6. ASSUME NEW c \in unacked', NEW d \in unacked',
             c.serial < d.serial /\ c.states = scheduled.states
      PROVE  d.states = scheduled.states
  <2>1. CASE d = new
    BY <1>3, <2>1
  <2>2. CASE d \in unacked
    <3>1. c # new
      BY <1>2, <1>3, <1>6, <2>2
    <3>2. c \in unacked
      BY <1>1, <3>1
    <3>3. QED
      BY <1>6, <2>2, <3>2 DEF OneChange
  <2>3. QED
    BY <1>1, <2>1, <2>2
<1>7. QED
  BY <1>1, <1>4, <1>5, <1>6 DEF OneChange

(* What an application sends, of which states are asked for while no       *)
(* change is on its way.                                                   *)
Sends ==
  /\ UNCHANGED toplevelVars
  /\ \/ UNCHANGED toServer
     \/ \E m \in Messages : toServer' = Append(toServer, m) /\ (IsState(m) => Agreed)
     \/ \E n, e \in Nat : toServer' = Append(Append(toServer, Ack(n)), Commit(e))

(* So does one that draws at the sizes it is given. *)
LEMMA DrawsSends ==
  ASSUME TypeInv', Draws
  PROVE  Sends
<1>1. configured' \in Nat /\ egl' \in Nat
  BY DEF TypeInv, ClientTyped
<1>2. QED
  BY <1>1 DEF Draws, Sends

(* Whatever it sends, there is one change. *)
LEMMA SendsOneChange ==
  ASSUME TypeInv, OneChange, Sends
  PROVE  OneChange'
<1>1. UNCHANGED <<acked, current, unacked, scheduled>>
  BY DEF Sends, toplevelVars, shownVars, configVars
<1> DEFINE q == toServer
           n == Len(q)
<1>2. q \in Seq(Messages) /\ n \in Nat /\ DOMAIN q = 1..n
  BY DEF TypeInv, ChannelsTyped
<1> DEFINE one == \A i \in DOMAIN q' : IsState(q'[i]) =>
                    /\ scheduled.states = current
                    /\ \A j \in DOMAIN q' : IsState(q'[j]) => i = j
<1>3. \A i \in DOMAIN q : IsState(q[i]) =>
        /\ scheduled.states = current
        /\ \A j \in DOMAIN q : IsState(q[j]) => i = j
  BY DEF OneChange
<1>4. ASSUME UNCHANGED q PROVE one
  BY <1>3, <1>4
<1>5. ASSUME NEW m \in Messages, q' = Append(q, m), IsState(m) => Agreed
      PROVE  one
  <2>1. /\ DOMAIN q' = 1..(n + 1)
        /\ \A k \in 1..n : q'[k] = q[k]
        /\ q'[n + 1] = m
    BY <1>2, <1>5, AppendTo
  <2>2. CASE IsState(m)
    <3>1. scheduled.states = current /\ \A i \in DOMAIN q : ~IsState(q[i])
      BY <1>5, <2>2 DEF Agreed, IsState
    <3>2. \A i \in DOMAIN q' : IsState(q'[i]) => i = n + 1
      BY <1>2, <2>1, <3>1
    <3>3. QED
      BY <3>1, <3>2
  <2>3. CASE ~IsState(m)
    <3>1. \A i \in DOMAIN q' : IsState(q'[i]) => i \in DOMAIN q /\ IsState(q[i])
      BY <1>2, <2>1, <2>3
    <3>2. QED
      BY <1>3, <3>1
  <2>4. QED
    BY <2>2, <2>3
<1>6. ASSUME NEW a \in Nat, NEW e \in Nat, q' = Append(Append(q, Ack(a)), Commit(e))
      PROVE  one
  <2>1. /\ Ack(a) \in Messages /\ Commit(e) \in Messages
        /\ ~IsState(Ack(a)) /\ ~IsState(Commit(e))
    BY MessageTypes DEF IsState
  <2>2. /\ DOMAIN q' = 1..(n + 2)
        /\ \A k \in 1..n : q'[k] = q[k]
        /\ q'[n + 1] = Ack(a) /\ q'[n + 2] = Commit(e)
    BY <1>2, <1>6, <2>1, AppendTwo
  <2>3. \A i \in DOMAIN q' : IsState(q'[i]) => i \in DOMAIN q /\ IsState(q[i])
    BY <1>2, <2>1, <2>2
  <2>4. QED
    BY <1>3, <2>3
<1> HIDE DEF one
<1>7. one
  BY <1>4, <1>5, <1>6 DEF Sends
<1>8. QED
  BY <1>1, <1>7 DEF OneChange, one

-----------------------------------------------------------------------------
(* The first is taken from a queue, to which something is added. *)
LEMMA TailAppend ==
  ASSUME NEW S, NEW q \in Seq(S), q # <<>>, NEW c \in S
  PROVE  /\ Tail(Append(q, c)) = Append(Tail(q), c)
         /\ Append(q, c) \in Seq(S) /\ Append(q, c) # <<>>
         /\ \A k \in DOMAIN q : Append(q, c)[k] = q[k]
         /\ 1 \in DOMAIN q
<1>1. /\ DOMAIN Append(q, c) = 1..(Len(q) + 1) /\ Append(q, c) \in Seq(S)
      /\ Len(Append(q, c)) = Len(q) + 1 /\ Len(q) \in Nat /\ DOMAIN q = 1..Len(q)
      /\ \A k \in 1..Len(q) : Append(q, c)[k] = q[k]
  BY AppendTo
<1>2. 1 \in DOMAIN q
  OBVIOUS
<1>3. Append(q, c) # <<>>
  OBVIOUS
<1>4. Tail(Append(q, c)) = Append(Tail(q), c)
  OBVIOUS
<1>5. QED
  BY <1>1, <1>2, <1>3, <1>4

(* What is committed next stays steady, or is anything. *)
LEMMA SteadyNext ==
  ASSUME TypeInv', NEW S,
         Steady(Append(toServer', Commit(drawn')), S),
         NextSizes' = S \/ NextSizes' = Nat,
         ~configuring' => egl' = drawn'
  PROVE  SteadySizes'
<1>1. Append(toServer', Commit(drawn')) \in Seq(Messages)
  <2>1. Commit(drawn') \in Messages /\ toServer' \in Seq(Messages)
    BY MessageTypes DEF TypeInv, ClientTyped, ChannelsTyped
  <2>2. QED
    BY <2>1, AppendTo
<1>2. Steady(Append(toServer', Commit(drawn')), NextSizes')
  <2>1. Steady(Append(toServer', Commit(drawn')), Nat)
    BY <1>1, SteadyAny
  <2>2. QED
    BY <2>1
<1>3. QED
  BY <1>2 DEF SteadySizes

(* The size of a window is not changed by what the user does. *)
LEMMA EffectSteady ==
  ASSUME TypeInv, TypeInv', Paired, SteadySizes, Effect
  PROVE  SteadySizes'
<1>1. /\ UNCHANGED <<onCommit, current, geom, drawn, egl, configuring>>
      /\ edge' = {} \/ UNCHANGED edge
  BY DEF Effect, Acts, frameVars
<1>2. /\ Steady(Append(toServer, Commit(drawn)), NextSizes)
      /\ ~configuring => egl = drawn
  BY DEF SteadySizes
<1>3. CASE UNCHANGED toServer
  <2>1. NextSizes' = NextSizes \/ NextSizes' = Nat
    BY <1>1, <1>3 DEF NextSizes, Filling
  <2>2. QED
    BY <1>1, <1>2, <1>3, <2>1, SteadyNext
<1>4. CASE toServer # <<>> /\ toServer' = Tail(toServer) /\ IsRequest(toServer[1])
  <2> DEFINE q == Append(toServer, Commit(drawn))
  <2>1. Commit(drawn) \in Messages /\ toServer \in Seq(Messages)
    BY MessageTypes DEF TypeInv, ClientTyped, ChannelsTyped
  <2>2. /\ Tail(q) = Append(toServer', Commit(drawn')) /\ q \in Seq(Messages) /\ q # <<>>
        /\ q[1] = toServer[1]
    BY <1>1, <1>4, <2>1, TailAppend
  <2>3. q[1].type # "ack" /\ q[1].type # "commit"
    BY <1>4, <2>2 DEF IsRequest
  <2>4. Steady(Tail(q), NextSizes)
    <3>1. Steady(q, NextSizes)
      BY <1>2
    <3> HIDE DEF q
    <3>2. QED
      BY <2>2, <2>3, <3>1, SteadyTail
  <2>5. onCommit = Nothing
    BY <2>2, <2>3 DEF Paired
  <2>6. NextSizes' = NextSizes \/ NextSizes' = Nat
    BY <1>1, <2>5 DEF NextSizes, Filling
  <2> HIDE DEF q
  <2>7. Steady(Append(toServer', Commit(drawn')), NextSizes)
    BY <2>2, <2>4
  <2>8. QED
    BY <1>1, <1>2, <2>6, <2>7, SteadyNext
<1>5. QED
  BY <1>3, <1>4 DEF Effect

(* The size committed is the one there was, if an edge stays fixed. *)
LEMMA CommitSize ==
  ASSUME TypeInv, TypeInv', Paired, SteadySizes, LastAsked, CommitEffect,
         edge' # {}, ~Filling(current'), onCommit = Nothing
  PROVE  geom' = geom /\ NextSizes = {geom} /\ UNCHANGED <<pos, edge>> /\ ~Filling(current)
<1>1. /\ toServer # <<>> /\ toServer[1].type = "commit" /\ toServer[1].size \in Nat
      /\ current' = acked /\ onCommit.place = "none"
      /\ geom' = IF toServer[1].size > 0 THEN toServer[1].size ELSE geom
      /\ edge' = {} \/ UNCHANGED <<pos, edge>>
  BY NothingPlace DEF CommitEffect
<1>2. ~Filling(current)
  BY <1>1 DEF LastAsked
<1>3. NextSizes = {geom} /\ UNCHANGED <<pos, edge>>
  BY <1>1, <1>2 DEF NextSizes
<1> DEFINE q == Append(toServer, Commit(drawn))
<1>4. q \in Seq(Messages) /\ q[1] = toServer[1] /\ 1 \in DOMAIN q
  <2>1. Commit(drawn) \in Messages /\ toServer \in Seq(Messages)
    BY MessageTypes DEF TypeInv, ClientTyped, ChannelsTyped
  <2>2. QED
    BY <1>1, <2>1, TailAppend
<1>5. Steady(q, {geom})
  BY <1>3 DEF SteadySizes
<1> HIDE DEF q
<1>6. NoAckIn(q, 1, 1)
  <2>1. \A k \in 1..1 : k = 1
    OBVIOUS
  <2>2. QED
    BY <1>1, <1>4, <2>1 DEF NoAckIn
<1>7. toServer[1].size > 0 => toServer[1].size = geom
  BY <1>1, <1>4, <1>5, <1>6 DEF Steady, Shows
<1>8. QED
  BY <1>1, <1>2, <1>3, <1>7

(* A commit of one size is followed by others of it. *)
LEMMA CommitSteady ==
  ASSUME TypeInv, TypeInv', Paired, SteadySizes, LastAsked, CommitEffect
  PROVE  SteadySizes'
<1>1. /\ UNCHANGED <<drawn, egl, configuring>>
      /\ toServer # <<>> /\ toServer' = Tail(toServer)
      /\ toServer[1].type = "commit" /\ toServer[1].size \in Nat
      /\ onCommit' = Nothing
      /\ geom' = IF toServer[1].size > 0 THEN toServer[1].size ELSE geom
  BY DEF CommitEffect, frameVars
<1>2. /\ Steady(Append(toServer, Commit(drawn)), NextSizes)
      /\ ~configuring => egl = drawn
  BY DEF SteadySizes
<1> DEFINE q == Append(toServer, Commit(drawn))
<1>3. Commit(drawn) \in Messages /\ toServer \in Seq(Messages)
  BY MessageTypes DEF TypeInv, ClientTyped, ChannelsTyped
<1>4. /\ Tail(q) = Append(toServer', Commit(drawn')) /\ q \in Seq(Messages) /\ q # <<>>
      /\ q[1] = toServer[1]
  BY <1>1, <1>3, TailAppend
<1>5. Steady(q, NextSizes)
  BY <1>2
<1> HIDE DEF q
<1>6. Steady(Tail(q), NextSizes) /\ Tail(q) \in Seq(Messages)
  BY <1>1, <1>4, <1>5, SteadyTail, TailOf
<1>7. CASE ~(edge' # {} /\ ~Filling(current'))
  <2>1. NextSizes' = Nat
    BY <1>1, <1>7 DEF NextSizes, Filling
  <2>2. QED
    BY <1>1, <1>2, <1>4, <1>6, <2>1, SteadyNext
<1>8. CASE edge' # {} /\ ~Filling(current')
  <2>1. NextSizes' = {geom'}
    BY <1>1, <1>8 DEF NextSizes, Filling
  <2>2. Steady(Tail(q), {geom'})
    <3>1. CASE onCommit = Nothing
      BY <1>6, <1>8, <3>1, CommitSize
    <3>2. CASE onCommit # Nothing /\ toServer[1].size > 0
      BY <1>1, <1>6, <3>2 DEF NextSizes
    <3>3. CASE onCommit # Nothing /\ toServer[1].size = 0
      <4>1. Steady(Tail(q), {0})
        BY <1>6, <3>3 DEF NextSizes
      <4>2. QED
        BY <1>6, <4>1, SteadyNone
    <3>4. QED
      BY <1>1, <3>1, <3>2, <3>3
  <2>3. QED
    BY <1>1, <1>2, <1>4, <2>1, <2>2, SteadyNext
<1>9. QED
  BY <1>7, <1>8

(* An acknowledgement: the size that comes with it is the next, or the one *)
(* there is already.                                                       *)
LEMMA AckSteady ==
  ASSUME TypeInv, TypeInv', Paired, Unsized, SteadySizes, AckEffect,
         scheduled.size > 0 => LastDrawn
  PROVE  SteadySizes'
<1>1. /\ UNCHANGED <<drawn, egl, configuring, current, geom, edge>>
      /\ toServer # <<>> /\ toServer' = Tail(toServer)
      /\ toServer[1].type = "ack"
      /\ onCommit' = IF onAck = NoAck THEN onCommit ELSE onAck.do
  BY DEF AckEffect, frameVars
<1>2. /\ Steady(Append(toServer, Commit(drawn)), NextSizes)
      /\ ~configuring => egl = drawn
  BY DEF SteadySizes
<1> DEFINE q == Append(toServer, Commit(drawn))
<1>3. Commit(drawn) \in Messages /\ toServer \in Seq(Messages)
  BY MessageTypes DEF TypeInv, ClientTyped, ChannelsTyped
<1>4. /\ Tail(q) = Append(toServer', Commit(drawn')) /\ q \in Seq(Messages) /\ q # <<>>
      /\ q[1] = toServer[1] /\ 1 \in DOMAIN toServer
      /\ \A k \in DOMAIN toServer : q[k] = toServer[k]
  BY <1>1, <1>3, TailAppend
<1>5. Steady(q, NextSizes)
  BY <1>2
<1>6. 1 \in Acks /\ 2 \in DOMAIN toServer
  <2>1. 1 \in Acks
    BY <1>1, <1>4 DEF Acks
  <2>2. 1 + 1 \in DOMAIN toServer
    BY <2>1 DEF Paired
  <2>3. QED
    BY <2>1, <2>2
<1>7. q[2] = toServer[2] /\ toServer'[1] = toServer[2]
  <2>1. q[2] = toServer[2]
    BY <1>4, <1>6
  <2>2. toServer'[1] = toServer[1 + 1]
    <3>1. /\ \A k \in 1..(Len(toServer) - 1) : Tail(toServer)[k] = toServer[k + 1]
          /\ DOMAIN toServer = 1..Len(toServer) /\ Len(toServer) \in Nat
      BY <1>1, <1>3, TailOf
    <3>2. 1 \in 1..(Len(toServer) - 1)
      BY <1>6, <3>1
    <3>3. QED
      BY <1>1, <3>1, <3>2
  <2>3. QED
    BY <2>1, <2>2
<1> HIDE DEF q
<1>8. Steady(Tail(q), {toServer[2].size}) /\ Tail(q) \in Seq(Messages)
  BY <1>1, <1>4, <1>5, <1>7, SteadyPast, TailOf
<1>9. CASE onCommit' # Nothing
  <2>1. NextSizes' = {toServer[2].size}
    BY <1>7, <1>9 DEF NextSizes
  <2>2. QED
    BY <1>1, <1>2, <1>4, <1>8, <2>1, SteadyNext
<1>10. CASE onCommit' = Nothing /\ ~(edge # {} /\ ~Filling(current))
  <2>1. NextSizes' = Nat
    BY <1>1, <1>10 DEF NextSizes, Filling
  <2>2. QED
    BY <1>1, <1>2, <1>4, <1>8, <2>1, SteadyNext
<1>11. CASE onCommit' = Nothing /\ edge # {} /\ ~Filling(current)
  <2>1. NextSizes' = {geom}
    BY <1>1, <1>11 DEF NextSizes, Filling
  <2>2. onAck = NoAck /\ onCommit = Nothing
    BY <1>1, <1>11, NothingPlace DEF Paired
  <2>3. scheduled.size > 0
    <3>1. scheduled.size \in Nat
      BY DEF TypeInv, ServerTyped
    <3>2. QED
      BY <1>11, <2>2, <3>1 DEF Unsized
  <2>4. toServer[2].size = Wanted /\ (Wanted = 0 \/ geom = Wanted)
    <3>1. toServer[1 + 1].size = Wanted /\ (Wanted = 0 \/ geom = Wanted)
      BY <1>6, <2>2, <2>3 DEF LastDrawn, Late
    <3>2. 1 + 1 = 2
      OBVIOUS
    <3>3. QED
      BY <3>1, <3>2
  <2>5. Steady(Tail(q), {Wanted})
    BY <1>8, <2>4
  <2>6. Steady(Tail(q), {geom})
    BY <1>8, <2>4, <2>5, SteadyNone
  <2>7. QED
    BY <1>1, <1>2, <1>4, <2>1, <2>6, SteadyNext
<1>12. QED
  BY <1>9, <1>10, <1>11

(* An application draws at one size from one acknowledgement to the next.  *)
LEMMA DrawsSteady ==
  ASSUME TypeInv, TypeInv', Paired, SteadySizes, Draws
  PROVE  SteadySizes'
<1>1. /\ UNCHANGED <<onCommit, edge, current, geom>>
      /\ ~configuring' => (egl' = drawn' \/ UNCHANGED <<configuring, egl, drawn>>)
  BY DEF Draws, toplevelVars, shownVars
<1>2. /\ Steady(Append(toServer, Commit(drawn)), NextSizes)
      /\ ~configuring => egl = drawn
  BY DEF SteadySizes
<1>3. ~configuring' => egl' = drawn'
  BY <1>1, <1>2
<1>4. /\ toServer \in Seq(Messages) /\ Commit(drawn) \in Messages
      /\ Commit(drawn).type = "commit" /\ configured' \in Nat /\ egl' \in Nat
  BY MessageTypes DEF TypeInv, ClientTyped, ChannelsTyped
<1>5. onCommit # Nothing => 1 \in DOMAIN toServer
  BY <1>4 DEF Paired
<1>6. \A k \in DOMAIN toServer : toServer[k].type = "ack" => k + 1 \in DOMAIN toServer
  BY DEF Paired, Acks
<1>7. CASE UNCHANGED <<toServer, drawn>>
  <2>1. NextSizes' = NextSizes
    BY <1>1, <1>7 DEF NextSizes, Filling
  <2>2. QED
    BY <1>2, <1>3, <1>7, <2>1, SteadyNext
<1>8. ASSUME UNCHANGED drawn, NEW m \in Messages, toServer' = Append(toServer, m),
             m.type # "ack", ~Shows(m) \/ m = Commit(drawn)
      PROVE  SteadySizes'
  <2>1. Steady(Append(Append(toServer, m), Commit(drawn)), NextSizes)
    BY <1>2, <1>4, <1>6, <1>8, SteadyAppend
  <2>2. onCommit # Nothing => toServer'[1] = toServer[1]
    BY <1>4, <1>5, <1>8, AppendTo
  <2>3. NextSizes' = NextSizes
    BY <1>1, <2>2 DEF NextSizes, Filling
  <2>4. QED
    BY <1>3, <1>8, <2>1, <2>3, SteadyNext
<1>9. CASE /\ drawn' = egl'
           /\ toServer' = Append(Append(toServer, Ack(configured')), Commit(egl'))
  <2> DEFINE a == Ack(configured')
             d == Commit(egl')
  <2>1. a \in Messages /\ d \in Messages /\ a.type = "ack" /\ d.type = "commit"
    BY <1>4, MessageTypes
  <2> HIDE DEF a, d
  <2>2. Steady(Append(Append(Append(toServer, a), d), d), NextSizes)
    BY <1>2, <1>4, <1>6, <2>1, SteadyAck
  <2>3. toServer' = Append(Append(toServer, a), d) /\ Commit(drawn') = d
    BY <1>9 DEF a, d
  <2>4. onCommit # Nothing => toServer'[1] = toServer[1]
    BY <1>4, <1>5, <2>1, <2>3, AppendTwo
  <2>5. NextSizes' = NextSizes
    BY <1>1, <2>4 DEF NextSizes, Filling
  <2>6. QED
    BY <1>3, <2>2, <2>3, <2>5, SteadyNext
<1>10. QED
  BY <1>7, <1>8, <1>9 DEF Draws

-----------------------------------------------------------------------------
(* What was sent before the toplevel is to be placed again is not what is  *)
(* waited for.                                                             *)
LEMMA NotLate ==
  ASSUME TypeInv, SerialInv, Places
  PROVE  /\ onAck' # NoAck
         /\ \A s \in Nat : Past(s) => ~(s >= onAck'.serial)
         /\ \A c \in unacked : ~(c.serial >= onAck'.serial)
         /\ ~(configured >= onAck'.serial)
         /\ \A i \in DOMAIN toClient : ~(toClient[i].serial >= onAck'.serial)
         /\ \A i \in Acks : ~(toServer[i].serial >= onAck'.serial)
<1>1. onAck' # NoAck /\ onAck'.serial = NextSerial
  BY NothingPlace DEF Places
<1>2. serial \in Nat /\ dirty \in BOOLEAN /\ configured \in Nat
      /\ \A c \in unacked : c.serial \in Nat
  BY DEF TypeInv, ServerTyped, ClientTyped, Configured
<1>3. ASSUME NEW s \in Nat, Past(s) PROVE ~(s >= onAck'.serial)
  BY <1>1, <1>2, <1>3 DEF NextSerial, Past
<1>4. \A c \in unacked : ~(c.serial >= onAck'.serial)
  BY <1>2, <1>3 DEF SerialInv, SentInv
<1>5. ~(configured >= onAck'.serial)
  BY <1>2, <1>3 DEF SerialInv, SentInv
<1>6. \A i \in DOMAIN toClient : ~(toClient[i].serial >= onAck'.serial)
  <2>1. \A i \in DOMAIN toClient : \E c \in unacked : c.serial = toClient[i].serial
    BY DEF SerialInv, ToClientInv, Outstanding
  <2>2. QED
    BY <1>4, <2>1
<1>7. \A i \in Acks : ~(toServer[i].serial >= onAck'.serial)
  <2>1. \A i \in Acks : \E c \in unacked : c.serial = toServer[i].serial
    BY DEF SerialInv, AcksInOrder
  <2>2. QED
    BY <1>4, <2>1
<1>8. QED
  BY <1>1, <1>3, <1>4, <1>5, <1>6, <1>7

(* The same is asked for, if a toplevel is to fill its output or not as    *)
(* before.                                                                 *)
SameAsked ==
  /\ SameSize
  /\ Filling(scheduled'.states) <=> Filling(scheduled.states)

(* What the user, outputs and requests do asks for the same, or places it. *)
LEMMA EffectAsked ==
  ASSUME TypeInv, OneChange, Effect
  PROVE  SameAsked \/ Places
<1>1. CASE Keeps
  BY <1>1 DEF Keeps, configVars, SameAsked, SameSize
<1>2. CASE Repeats
  <2>1. SameSize
    BY <1>2 DEF Repeats, Schedule, SameSize
  <2>2. CASE SameStates
    BY <2>1, <2>2 DEF SameAsked, SameStates
  <2>3. CASE ~SameStates
    <3>1. toServer # <<>> /\ IsState(toServer[1])
      BY <2>3 DEF Effect
    <3>2. 1 \in DOMAIN toServer
      BY <3>1, TailOf DEF TypeInv, ChannelsTyped
    <3>3. scheduled.states = current
      BY <3>1, <3>2 DEF OneChange
    <3>4. current.full /\ scheduled'.states.full = scheduled.states.full
      BY <1>2, <2>3 DEF Repeats, SameStates
    <3>5. QED
      BY <2>1, <3>3, <3>4 DEF SameAsked, Filling
  <2>4. QED
    BY <2>2, <2>3
<1>3. QED
  BY <1>1, <1>2 DEF Effect, Acts, Schedules

(* So does the listener of commits. *)
LEMMA CommitAsked ==
  ASSUME CommitEffect
  PROVE  SameAsked \/ Places
<1>1. Schedules /\ SameStates
  BY DEF CommitEffect
<1>2. CASE Keeps \/ Repeats
  BY <1>1, <1>2 DEF Keeps, Repeats, configVars, Schedule, SameAsked, SameSize, SameStates
<1>3. QED
  BY <1>1, <1>2 DEF Schedules

(* What was asked for last, as something is scheduled. *)
LEMMA AskedScheduled ==
  ASSUME TypeInv, SerialInv, LastAsked, SameAsked \/ Places,
         UNCHANGED <<toClient, unacked, acked>>,
         onCommit' = Nothing => (Filling(acked) <=> Filling(current'))
  PROVE  LastAsked'
<1>1. CASE SameAsked
  <2>1. \A s : Late(s)' <=> Late(s)
    BY <1>1 DEF Late, SameAsked, SameSize
  <2>2. QED
    BY <1>1, <2>1 DEF LastAsked, SameAsked, SameSize, Late
<1>2. CASE Places
  <2>1. /\ onAck' # NoAck
        /\ \A c \in unacked : ~(c.serial >= onAck'.serial)
        /\ \A i \in DOMAIN toClient : ~(toClient[i].serial >= onAck'.serial)
    BY <1>2, NotLate
  <2>2. QED
    BY <2>1 DEF LastAsked, Late
<1>3. QED
  BY <1>1, <1>2

(* What the user, outputs and requests do. *)
LEMMA EffectLastAsked ==
  ASSUME TypeInv, SerialInv, OneChange, LastAsked, Effect
  PROVE  LastAsked'
<1>1. UNCHANGED <<toClient, unacked, acked, onCommit, current>>
  BY DEF Effect, Acts
<1>2. onCommit' = Nothing => (Filling(acked) <=> Filling(current'))
  BY <1>1 DEF LastAsked
<1>3. QED
  BY <1>1, <1>2, EffectAsked, AskedScheduled

(* A commit. *)
LEMMA CommitLastAsked ==
  ASSUME TypeInv, SerialInv, LastAsked, CommitEffect
  PROVE  LastAsked'
<1>1. UNCHANGED <<toClient, unacked, acked>> /\ current' = acked
  BY DEF CommitEffect
<1>2. QED
  BY <1>1, CommitAsked, AskedScheduled

(* Once what is waited for is acknowledged, everything after it asks for   *)
(* the same as the last.                                                   *)
LEMMA AckLastAsked ==
  ASSUME TypeInv, SerialInv, Paired, LastAsked, AckEffect
  PROVE  LastAsked'
<1> DEFINE s == toServer[1].serial
<1>1. /\ UNCHANGED <<toClient, scheduled, current>>
      /\ unacked' = {c \in unacked : c.serial > s}
      /\ onCommit' = IF onAck = NoAck THEN onCommit ELSE onAck.do
      /\ onAck' = IF s >= onAck.serial THEN NoAck ELSE onAck
  BY DEF AckEffect
<1>2. PICK c0 \in unacked : c0.serial = s /\ acked' = c0.states
  BY DEF AckEffect
<1>3. 1 \in Acks
  <2>1. toServer # <<>> /\ toServer[1].type = "ack"
    BY DEF AckEffect
  <2>2. 1 \in DOMAIN toServer
    BY <2>1, TailOf DEF TypeInv, ChannelsTyped
  <2>3. QED
    BY <2>1, <2>2 DEF Acks
<1>4. s <= configured /\ s \in Nat /\ configured \in Nat /\ onAck.serial \in Nat
  BY <1>3, OnTheWay DEF SerialInv, ToServerInv, TypeInv, ServerTyped, ClientTyped
<1>5. \A c \in unacked : c.serial \in Nat
  BY DEF TypeInv, ServerTyped, Configured
<1>6. \A i \in DOMAIN toClient : toClient[i].serial \in Nat /\ toClient[i].serial > s
  BY <1>4, OnTheWay DEF SerialInv, ToClientInv
<1> HIDE DEF s
<1>7. CASE onAck' = NoAck
  <2>1. s >= onAck.serial
    BY <1>1, <1>4, <1>7, NothingPlace
  <2>2. \A r \in Nat : r > s \/ r = s => Late(r)
    BY <1>4, <2>1 DEF Late
  <2>3. \A i \in DOMAIN toClient :
          /\ toClient[i].size = scheduled.size
          /\ Filling(toClient[i].states) <=> Filling(scheduled.states)
    BY <1>6, <2>2 DEF LastAsked
  <2>4. \A c \in unacked' : (Filling(c.states) <=> Filling(scheduled.states))
    BY <1>1, <1>5, <2>2 DEF LastAsked
  <2>5. Filling(acked') <=> Filling(scheduled.states)
    BY <1>2, <1>5, <2>2 DEF LastAsked
  <2>6. onCommit' = Nothing => (Filling(acked') <=> Filling(current))
    <3>1. onCommit' = Nothing => onAck = NoAck /\ onCommit = Nothing
      BY <1>1, NothingPlace DEF Paired
    <3>2. QED
      BY <2>5, <3>1 DEF LastAsked
  <2>7. QED
    BY <1>1, <1>7, <2>3, <2>4, <2>5, <2>6 DEF LastAsked
<1>8. CASE onAck' # NoAck
  <2>1. onAck' = onAck /\ onAck # NoAck
    BY <1>1, <1>8
  <2>2. onCommit' # Nothing
    BY <1>1, <2>1, NothingPlace DEF Paired
  <2>3. \A r : Late(r)' <=> Late(r)
    BY <2>1 DEF Late
  <2>4. QED
    BY <1>1, <1>8, <2>1, <2>2, <2>3 DEF LastAsked, Late
<1>9. QED
  BY <1>7, <1>8

(* What is sent asks for the last. *)
LEMMA SendLastAsked ==
  ASSUME TypeInv, LastAsked, SendConfigure
  PROVE  LastAsked'
<1> DEFINE new == [serial |-> serial, states |-> scheduled.states]
           m == [type |-> "configure", serial |-> serial,
                 states |-> scheduled.states, size |-> scheduled.size]
<1>1. /\ UNCHANGED <<acked, current, scheduled, onAck, onCommit>>
      /\ unacked' = unacked \cup {new}
      /\ toClient' = Append(toClient, m)
  BY DEF SendConfigure, shownVars
<1>2. new.states = scheduled.states /\ m.states = scheduled.states /\ m.size = scheduled.size
  OBVIOUS
<1>3. m \in Configures /\ toClient \in Seq(Configures)
  BY DEF TypeInv, ServerTyped, ChannelsTyped, Configures
<1> HIDE DEF new, m
<1>4. /\ DOMAIN toClient' = 1..(Len(toClient) + 1) /\ Len(toClient) \in Nat
      /\ DOMAIN toClient = 1..Len(toClient)
      /\ \A k \in 1..Len(toClient) : toClient'[k] = toClient[k]
      /\ toClient'[Len(toClient) + 1] = m
  BY <1>1, <1>3, AppendTo
<1>5. ASSUME NEW i \in DOMAIN toClient', Late(toClient'[i].serial)
      PROVE  /\ toClient'[i].size = scheduled.size
             /\ Filling(toClient'[i].states) <=> Filling(scheduled.states)
  <2>1. CASE i \in DOMAIN toClient
    BY <1>4, <1>5, <2>1 DEF LastAsked
  <2>2. CASE i = Len(toClient) + 1
    BY <1>2, <1>4, <2>2
  <2>3. QED
    BY <1>4, <2>1, <2>2
<1>6. \A c \in unacked' : Late(c.serial) => (Filling(c.states) <=> Filling(scheduled.states))
  BY <1>1, <1>2 DEF LastAsked
<1>7. QED
  BY <1>1, <1>5, <1>6 DEF LastAsked, Late

(* What an application does. *)
LEMMA DrawsLastAsked ==
  ASSUME TypeInv, LastAsked, Draws,
         UNCHANGED toClient \/ (toClient # <<>> /\ toClient' = Tail(toClient))
  PROVE  LastAsked'
<1>1. UNCHANGED <<acked, current, scheduled, onAck, onCommit, unacked>>
  BY DEF Draws, toplevelVars, shownVars, configVars
<1>2. \A i \in DOMAIN toClient' : \E j \in DOMAIN toClient : toClient'[i] = toClient[j]
  BY TailOf DEF TypeInv, ChannelsTyped
<1>3. ASSUME NEW i \in DOMAIN toClient', Late(toClient'[i].serial)
      PROVE  /\ toClient'[i].size = scheduled.size
             /\ Filling(toClient'[i].states) <=> Filling(scheduled.states)
  BY <1>2, <1>3 DEF LastAsked
<1>4. QED
  BY <1>1, <1>3 DEF LastAsked, Late

-----------------------------------------------------------------------------
(* The same width is wanted. *)
LEMMA SameWanted ==
  ASSUME SameAsked
  PROVE  Wanted' = Wanted
<1>1. /\ scheduled'.size = scheduled.size
      /\ Filling(scheduled'.states) <=> Filling(scheduled.states)
  BY DEF SameAsked, SameSize
<1>2. QED
  BY <1>1 DEF Wanted

(* Nothing has been drawn yet for what is to be placed. *)
LEMMA PlacesLastDrawn ==
  ASSUME TypeInv, SerialInv, Places, UNCHANGED <<configured, egl>>,
         UNCHANGED toServer \/ (toServer # <<>> /\ toServer' = Tail(toServer))
  PROVE  LastDrawn'
<1>1. /\ onAck' # NoAck
      /\ ~(configured >= onAck'.serial)
      /\ \A i \in Acks : ~(toServer[i].serial >= onAck'.serial)
  BY NotLate
<1>2. \A i \in Acks' : \E j \in Acks : toServer'[i] = toServer[j]
  BY TailOf DEF TypeInv, ChannelsTyped, Acks
<1>3. \A i \in Acks' : ~(toServer'[i].serial >= onAck'.serial)
  BY <1>1, <1>2
<1>4. QED
  BY <1>1, <1>3 DEF LastDrawn, Late

(* A message but an acknowledgement is taken, and the same is asked for. *)
LEMMA TakenLastDrawn ==
  ASSUME TypeInv, Paired, LastDrawn, SameAsked, UNCHANGED <<configured, egl>>,
         toServer # <<>>, toServer' = Tail(toServer), toServer[1].type # "ack",
         onAck = NoAck => \/ Wanted = 0 \/ geom' = Wanted
                          \/ onCommit' # Nothing /\ toServer'[1].size = Wanted
  PROVE  LastDrawn'
<1>1. Wanted' = Wanted /\ UNCHANGED onAck
  BY SameWanted DEF SameAsked, SameSize
<1>2. /\ DOMAIN toServer' = 1..(Len(toServer) - 1) /\ Len(toServer) \in Nat
      /\ \A k \in 1..(Len(toServer) - 1) : /\ toServer'[k] = toServer[k + 1]
                                           /\ k + 1 \in DOMAIN toServer
      /\ DOMAIN toServer = 1..Len(toServer)
  BY TailOf DEF TypeInv, ChannelsTyped
<1>3. \A i \in Acks' : /\ i \in Nat /\ i + 1 \in Acks /\ toServer'[i] = toServer[i + 1]
                       /\ i + 1 \in DOMAIN toServer
  BY <1>2 DEF Acks
<1>4. Late(configured) => egl = Wanted
  BY DEF LastDrawn
<1>5. ASSUME NEW i \in DOMAIN toServer', Shows(toServer'[i]),
             onAck = NoAck \/ \E j \in Acks' : j < i /\ Late(toServer'[j].serial)
      PROVE  toServer'[i].size = Wanted
  <2>1. toServer'[i] = toServer[i + 1] /\ i + 1 \in DOMAIN toServer /\ i \in Nat
    BY <1>2
  <2>2. onAck = NoAck \/ \E j \in Acks : j < i + 1 /\ Late(toServer[j].serial)
    <3>1. ASSUME NEW j \in Acks', j < i /\ Late(toServer'[j].serial)
          PROVE  j + 1 < i + 1 /\ Late(toServer[j + 1].serial) /\ j + 1 \in Acks
      <4>1. j \in Nat /\ j + 1 \in Acks /\ toServer'[j] = toServer[j + 1]
        BY <1>3
      <4>2. Late(toServer[j + 1].serial)
        BY <3>1, <4>1, Zenon
      <4>3. j + 1 < i + 1
        BY <2>1, <3>1, <4>1
      <4>4. QED
        BY <4>1, <4>2, <4>3
    <3>2. QED
      BY <1>5, <3>1
  <2>3. QED
    BY <1>5, <2>1, <2>2 DEF LastDrawn
<1>6. ASSUME NEW i \in Acks', Late(toServer'[i].serial) PROVE toServer'[i + 1].size = Wanted
  <2>1. toServer[(i + 1) + 1].size = Wanted /\ toServer[i + 1].type = "ack"
    BY <1>3, <1>6 DEF LastDrawn, Acks
  <2>2. (i + 1) + 1 \in DOMAIN toServer
    BY <1>3 DEF Paired
  <2>3. i + 1 \in 1..(Len(toServer) - 1)
    BY <1>2, <1>3, <2>2
  <2>4. QED
    BY <1>2, <2>1, <2>3
<1>7. QED
  BY <1>1, <1>4, <1>5, <1>6 DEF LastDrawn, Late

(* What the user, outputs and requests do: nothing is drawn. *)
LEMMA EffectLastDrawn ==
  ASSUME TypeInv, SerialInv, Paired, OneChange, Effect,
         scheduled.size > 0 => LastDrawn, scheduled'.size > 0
  PROVE  LastDrawn'
<1>1. /\ UNCHANGED <<configured, egl, geom, onCommit>>
      /\ UNCHANGED toServer \/ (toServer # <<>> /\ toServer' = Tail(toServer))
  BY DEF Effect, Acts, frameVars
<1>2. CASE Places
  BY <1>1, <1>2, PlacesLastDrawn
<1>3. CASE SameAsked
  <2>1. LastDrawn
    BY <1>3 DEF SameAsked, SameSize
  <2>2. Wanted' = Wanted /\ UNCHANGED onAck
    BY <1>3, SameWanted DEF SameAsked, SameSize
  <2>3. CASE UNCHANGED toServer
    BY <1>1, <2>1, <2>2, <2>3 DEF LastDrawn, Late, Acks
  <2>4. CASE toServer # <<>> /\ toServer' = Tail(toServer) /\ IsRequest(toServer[1])
    <3>1. toServer[1].type # "ack" /\ toServer[1].type # "commit"
      BY <2>4 DEF IsRequest
    <3>2. onCommit = Nothing
      BY <3>1 DEF Paired
    <3>3. onAck = NoAck => Wanted = 0 \/ geom' = Wanted
      BY <1>1, <2>1, <3>2 DEF LastDrawn
    <3>4. QED
      BY <1>1, <1>3, <2>1, <2>4, <3>1, <3>3, TakenLastDrawn
  <2>5. QED
    BY <2>3, <2>4 DEF Effect
<1>4. QED
  BY <1>2, <1>3, EffectAsked

(* What was drawn last is the size of the toplevel, once it is committed.  *)
LEMMA CommitLastDrawn ==
  ASSUME TypeInv, SerialInv, Paired, CommitEffect,
         scheduled.size > 0 => LastDrawn, scheduled'.size > 0
  PROVE  LastDrawn'
<1>1. /\ UNCHANGED <<configured, egl>>
      /\ toServer # <<>> /\ toServer' = Tail(toServer)
      /\ toServer[1].type = "commit" /\ toServer[1].size \in Nat
      /\ geom' = IF toServer[1].size > 0 THEN toServer[1].size ELSE geom
  BY DEF CommitEffect, frameVars
<1>2. CASE Places
  BY <1>1, <1>2, PlacesLastDrawn
<1>3. CASE SameAsked
  <2>1. LastDrawn
    BY <1>3 DEF SameAsked, SameSize
  <2>2. ASSUME onAck = NoAck PROVE Wanted = 0 \/ geom' = Wanted
    <3>1. 1 \in DOMAIN toServer
      BY <1>1, TailOf DEF TypeInv, ChannelsTyped
    <3>2. CASE toServer[1].size > 0
      <4>1. toServer[1].size = Wanted
        BY <1>1, <2>1, <2>2, <3>1, <3>2 DEF LastDrawn, Shows
      <4>2. QED
        BY <1>1, <3>2, <4>1
    <3>3. CASE toServer[1].size = 0
      BY <1>1, <2>1, <2>2, <3>3 DEF LastDrawn
    <3>4. QED
      BY <1>1, <3>2, <3>3
  <2>3. QED
    BY <1>1, <1>3, <2>1, <2>2, TakenLastDrawn
<1>4. QED
  BY <1>2, <1>3, CommitAsked

(* Once what is waited for is acknowledged, what is drawn is of that size. *)
LEMMA AckLastDrawn ==
  ASSUME TypeInv, SerialInv, Paired, AckEffect, LastDrawn
  PROVE  LastDrawn'
<1> DEFINE s == toServer[1].serial
<1>1. /\ UNCHANGED <<configured, egl, scheduled, geom>>
      /\ toServer # <<>> /\ toServer' = Tail(toServer) /\ toServer[1].type = "ack"
      /\ onCommit' = IF onAck = NoAck THEN onCommit ELSE onAck.do
      /\ onAck' = IF s >= onAck.serial THEN NoAck ELSE onAck
  BY DEF AckEffect, frameVars
<1>2. /\ DOMAIN toServer' = 1..(Len(toServer) - 1) /\ Len(toServer) \in Nat
      /\ \A k \in 1..(Len(toServer) - 1) : /\ toServer'[k] = toServer[k + 1]
                                           /\ k + 1 \in DOMAIN toServer
      /\ DOMAIN toServer = 1..Len(toServer) /\ 1 \in DOMAIN toServer
  BY <1>1, TailOf DEF TypeInv, ChannelsTyped
<1>3. 1 \in Acks
  BY <1>1, <1>2 DEF Acks
<1>4. s \in Nat /\ s <= configured /\ configured \in Nat /\ onAck.serial \in Nat
  BY <1>3, OnTheWay DEF SerialInv, ToServerInv, TypeInv, ServerTyped, ClientTyped
<1>5. \A i \in Acks' : /\ i \in Nat /\ i + 1 \in Acks /\ toServer'[i] = toServer[i + 1]
                       /\ i + 1 \in 1..(Len(toServer) - 1)
                       /\ toServer[i + 1].serial \in Nat /\ toServer[i + 1].serial > s
  <2>1. ASSUME NEW i \in Acks'
        PROVE  /\ i \in Nat /\ i + 1 \in Acks /\ toServer'[i] = toServer[i + 1]
               /\ i + 1 \in DOMAIN toServer /\ 1 < i + 1
    BY <1>2 DEF Acks
  <2>2. ASSUME NEW i \in Acks' PROVE (i + 1) + 1 \in DOMAIN toServer
    BY <2>1 DEF Paired
  <2>3. \A i \in Acks' : i + 1 \in 1..(Len(toServer) - 1)
    BY <1>2, <2>1, <2>2
  <2>4. \A i \in Acks' : toServer[i + 1].serial \in Nat /\ toServer[1].serial < toServer[i + 1].serial
    BY <1>3, <2>1, OnTheWay DEF SerialInv, AcksInOrder
  <2>5. QED
    BY <1>4, <2>1, <2>3, <2>4
<1>6. \A i \in DOMAIN toServer' : /\ i \in Nat /\ i + 1 \in DOMAIN toServer /\ 1 < i + 1
                                  /\ toServer'[i] = toServer[i + 1]
  BY <1>2
<1>7. /\ 1 \in 1..(Len(toServer) - 1) /\ toServer'[1] = toServer[2]
      /\ Late(s) => toServer[2].size = Wanted
  <2>1. 1 + 1 \in DOMAIN toServer /\ (Late(s) => toServer[1 + 1].size = Wanted)
    BY <1>3 DEF Paired, LastDrawn
  <2>2. 1 \in 1..(Len(toServer) - 1) /\ 1 + 1 = 2
    BY <1>2, <2>1
  <2>3. QED
    BY <1>2, <2>1, <2>2
<1>8. Wanted' = Wanted
  BY <1>1 DEF Wanted
<1>9. CASE onAck' = NoAck
  <2>1. s >= onAck.serial /\ Late(s)
    BY <1>1, <1>4, <1>9, NothingPlace DEF Late
  <2>2. Late(configured)
    BY <1>4, <2>1 DEF Late
  <2>3. ASSUME NEW i \in DOMAIN toServer', Shows(toServer'[i]) PROVE toServer'[i].size = Wanted
    <3>1. Shows(toServer[i + 1]) /\ i + 1 \in DOMAIN toServer /\ 1 < i + 1
      BY <1>6, <2>3
    <3>2. toServer[i + 1].size = Wanted
      BY <1>3, <2>1, <3>1 DEF LastDrawn
    <3>3. QED
      BY <1>6, <3>2
  <2>4. ASSUME NEW i \in Acks' PROVE toServer'[i + 1].size = Wanted
    <3>1. Late(toServer[i + 1].serial)
      BY <1>4, <1>5, <2>1 DEF Late
    <3>2. toServer[(i + 1) + 1].size = Wanted
      BY <1>5, <3>1 DEF LastDrawn
    <3>3. QED
      BY <1>2, <1>5, <3>2
  <2>5. \/ Wanted = 0 \/ geom = Wanted
        \/ onCommit' # Nothing /\ toServer'[1].size = Wanted
    <3>1. CASE onCommit' # Nothing
      BY <1>7, <2>1, <3>1
    <3>2. CASE onCommit' = Nothing
      <4>1. onAck = NoAck /\ onCommit = Nothing
        BY <1>1, <3>2, NothingPlace DEF Paired
      <4>2. QED
        BY <4>1 DEF LastDrawn
    <3>3. QED
      BY <3>1, <3>2
  <2>6. QED
    BY <1>1, <1>8, <1>9, <2>2, <2>3, <2>4, <2>5 DEF LastDrawn
<1>10. CASE onAck' # NoAck
  <2>1. onAck' = onAck /\ onAck # NoAck
    BY <1>1, <1>10
  <2>2. Late(configured) => egl = Wanted
    BY DEF LastDrawn
  <2>3. ASSUME NEW i \in DOMAIN toServer', Shows(toServer'[i]),
               NEW j \in Acks', j < i, Late(toServer'[j].serial)
        PROVE  toServer'[i].size = Wanted
    <3>1. Shows(toServer[i + 1]) /\ i + 1 \in DOMAIN toServer
      BY <1>6, <2>3
    <3>2. toServer'[j] = toServer[j + 1] /\ j + 1 \in Acks /\ j + 1 < i + 1
      BY <1>5, <1>6, <2>3
    <3>3. Late(toServer[j + 1].serial)
      BY <2>3, <3>2, Zenon
    <3>4. toServer[i + 1].size = Wanted
      BY <3>1, <3>2, <3>3 DEF LastDrawn
    <3>5. QED
      BY <1>6, <3>4
  <2>4. ASSUME NEW i \in Acks', Late(toServer'[i].serial)
        PROVE  toServer'[i + 1].size = Wanted
    <3>1. toServer[(i + 1) + 1].size = Wanted
      BY <1>5, <2>4 DEF LastDrawn
    <3>2. QED
      BY <1>2, <1>5, <3>1
  <2>5. QED
    BY <1>1, <1>8, <1>10, <2>1, <2>2, <2>3, <2>4 DEF LastDrawn, Late
<1>11. QED
  BY <1>9, <1>10

(* What an application draws, once it is configured to the last size.      *)
LEMMA DrawsLastDrawn ==
  ASSUME TypeInv, TypeInv', SerialInv, Paired, Draws, LastDrawn,
         Late(configured') => egl' = Wanted
  PROVE  LastDrawn'
<1>1. /\ UNCHANGED <<onAck, onCommit, geom, scheduled>>
      /\ configured <= configured'
  BY DEF Draws, toplevelVars, shownVars, configVars
<1> DEFINE q == toServer
           n == Len(q)
           e == egl'
<1>2. /\ q \in Seq(Messages) /\ n \in Nat /\ DOMAIN q = 1..n
      /\ configured \in Nat /\ configured' \in Nat /\ e \in Nat /\ onAck.serial \in Nat
  BY DEF TypeInv, ChannelsTyped, ClientTyped, ServerTyped
<1>3. \A i \in Acks : q[i].serial <= configured /\ q[i].serial \in Nat
  BY OnTheWay DEF SerialInv, ToServerInv
<1>4. \A i \in Acks : Late(q[i].serial) => Late(configured')
  BY <1>1, <1>2, <1>3 DEF Late
<1>5. onAck = NoAck => Late(configured')
  BY DEF Late
<1>6. Wanted' = Wanted
  BY <1>1 DEF Wanted
<1>7. /\ \A i \in DOMAIN q :
           /\ Shows(q[i])
           /\ onAck = NoAck \/ \E j \in Acks : j < i /\ Late(q[j].serial)
           => q[i].size = Wanted
      /\ \A i \in Acks : Late(q[i].serial) => q[i + 1].size = Wanted
      /\ onAck = NoAck => \/ Wanted = 0 \/ geom = Wanted
                          \/ onCommit # Nothing /\ q[1].size = Wanted
  BY DEF LastDrawn
<1>8. /\ \A i \in Acks : i \in 1..n /\ i + 1 \in 1..n
      /\ onCommit # Nothing => 1 \in 1..n
  BY <1>2 DEF Paired, Acks
<1> DEFINE drawnSo == /\ \A i \in DOMAIN q' :
                           /\ Shows(q'[i])
                           /\ onAck = NoAck \/ \E j \in Acks' : j < i /\ Late(q'[j].serial)
                           => q'[i].size = Wanted
                      /\ \A i \in Acks' : Late(q'[i].serial) => q'[i + 1].size = Wanted
                      /\ onAck = NoAck => \/ Wanted = 0 \/ geom = Wanted
                                          \/ onCommit # Nothing /\ q'[1].size = Wanted
<1>9. ASSUME UNCHANGED q PROVE drawnSo
  BY <1>7, <1>9 DEF Acks
<1>10. ASSUME NEW m \in Messages, q' = Append(q, m), m.type # "ack",
              ~Shows(m) \/ m = Commit(e)
       PROVE  drawnSo
  <2>1. /\ DOMAIN q' = 1..(n + 1)
        /\ \A k \in 1..n : q'[k] = q[k]
        /\ q'[n + 1] = m
    BY <1>2, <1>10, AppendTo
  <2>2. \A i \in Acks' : i \in Acks /\ q'[i] = q[i] /\ q'[i + 1] = q[i + 1]
    BY <1>2, <1>8, <1>10, <2>1 DEF Acks
  <2>3. ASSUME NEW i \in DOMAIN q', Shows(q'[i]),
               onAck = NoAck \/ \E j \in Acks' : j < i /\ Late(q'[j].serial)
        PROVE  q'[i].size = Wanted
    <3>1. onAck = NoAck \/ \E j \in Acks : j < i /\ Late(q[j].serial)
      BY <2>2, <2>3
    <3>2. CASE i \in 1..n
      BY <1>2, <1>7, <2>1, <2>3, <3>1, <3>2
    <3>3. CASE i = n + 1
      <4>1. q'[i] = Commit(e)
        BY <1>10, <2>1, <2>3, <3>3
      <4>2. e = Wanted
        BY <1>4, <1>5, <3>1
      <4>3. QED
        BY <1>2, <4>1, <4>2, MessageTypes
    <3>4. QED
      BY <2>1, <3>2, <3>3, <1>2
  <2>4. onAck = NoAck => \/ Wanted = 0 \/ geom = Wanted
                         \/ onCommit # Nothing /\ q'[1].size = Wanted
    BY <1>7, <1>8, <2>1
  <2>5. \A i \in Acks' : Late(q'[i].serial) => q'[i + 1].size = Wanted
    BY <1>7, <2>2
  <2>6. QED
    BY <2>3, <2>4, <2>5
<1>11. ASSUME q' = Append(Append(q, Ack(configured')), Commit(e)) PROVE drawnSo
  <2> DEFINE a == Ack(configured')
             d == Commit(e)
  <2>1. /\ a \in Messages /\ d \in Messages /\ a.type = "ack" /\ d.type = "commit"
        /\ a.serial = configured' /\ d.size = e
    BY <1>2, MessageTypes
  <2> HIDE DEF a, d
  <2>2. q' = Append(Append(q, a), d)
    BY <1>11 DEF a, d
  <2>3. /\ DOMAIN q' = 1..(n + 2)
        /\ \A k \in 1..n : q'[k] = q[k]
        /\ q'[n + 1] = a /\ q'[n + 2] = d
    BY <1>2, <2>1, <2>2, AppendTwo
  <2>4. \A i \in Acks' : \/ i \in Acks /\ q'[i] = q[i] /\ q'[i + 1] = q[i + 1]
                         \/ i = n + 1 /\ q'[i] = a /\ q'[i + 1] = d
    <3>1. (n + 1) + 1 = n + 2
      BY <1>2
    <3>2. ASSUME NEW i \in Acks' PROVE i \in 1..n \/ i = n + 1
      BY <1>2, <2>1, <2>3 DEF Acks
    <3>3. ASSUME NEW i \in Acks', i \in 1..n
          PROVE  i \in Acks /\ q'[i] = q[i] /\ q'[i + 1] = q[i + 1]
      BY <1>2, <1>8, <2>3, <3>3 DEF Acks
    <3>4. QED
      BY <2>3, <3>1, <3>2, <3>3
  <2>5. ASSUME NEW j \in Acks', Late(q'[j].serial) PROVE e = Wanted
    BY <1>4, <2>1, <2>4, <2>5
  <2>6. ASSUME NEW i \in DOMAIN q', Shows(q'[i]),
               onAck = NoAck \/ \E j \in Acks' : j < i /\ Late(q'[j].serial)
        PROVE  q'[i].size = Wanted
    <3>1. CASE i \in 1..n
      <4>1. onAck = NoAck \/ \E j \in Acks : j < i /\ Late(q[j].serial)
        <5>1. ASSUME NEW j \in Acks', j < i /\ Late(q'[j].serial)
              PROVE  j \in Acks /\ Late(q[j].serial)
          BY <1>2, <2>4, <3>1, <5>1
        <5>2. QED
          BY <2>6, <5>1
      <4>2. QED
        BY <1>2, <1>7, <2>3, <2>6, <3>1, <4>1
    <3>2. CASE i = n + 1
      BY <2>1, <2>3, <2>6, <3>2 DEF Shows
    <3>3. CASE i = n + 2
      <4>1. e = Wanted
        BY <1>5, <2>5, <2>6
      <4>2. QED
        BY <2>1, <2>3, <3>3, <4>1
    <3>4. QED
      BY <1>2, <2>3, <3>1, <3>2, <3>3
  <2>7. \A i \in Acks' : Late(q'[i].serial) => q'[i + 1].size = Wanted
    <3>1. ASSUME NEW i \in Acks', Late(q'[i].serial) PROVE q'[i + 1].size = Wanted
      <4>1. CASE i \in Acks /\ q'[i] = q[i] /\ q'[i + 1] = q[i + 1]
        BY <1>7, <3>1, <4>1
      <4>2. CASE i = n + 1 /\ q'[i] = a /\ q'[i + 1] = d
        BY <2>1, <2>5, <3>1, <4>2
      <4>3. QED
        BY <2>4, <4>1, <4>2
    <3>2. QED
      BY <3>1
  <2>8. onAck = NoAck => \/ Wanted = 0 \/ geom = Wanted
                         \/ onCommit # Nothing /\ q'[1].size = Wanted
    BY <1>7, <1>8, <2>3
  <2>9. QED
    BY <2>6, <2>7, <2>8
<1> HIDE DEF drawnSo
<1>12. drawnSo
  <2>1. CASE UNCHANGED toServer
    BY <1>9, <2>1
  <2>2. ASSUME NEW m \in Messages, toServer' = Append(toServer, m), m.type # "ack",
               ~Shows(m) \/ (m = Commit(drawn) /\ egl' = drawn)
        PROVE  drawnSo
    BY <1>10, <2>2
  <2>3. CASE toServer' = Append(Append(toServer, Ack(configured')), Commit(egl'))
    BY <1>11, <2>3
  <2>4. QED
    BY <2>1, <2>2, <2>3 DEF Draws
<1>13. QED
  BY <1>1, <1>6, <1>12 DEF LastDrawn, Late, drawnSo

(* A window that is configured takes the width wanted, if it was the last  *)
(* asked for.                                                              *)
LEMMA ConfiguredWanted ==
  ASSUME TypeInv, LastAsked, ClientReceives, UNCHANGED toplevelVars, scheduled.size > 0,
         Late(configured')
  PROVE  egl' = Wanted
<1> DEFINE m == toClient[1]
<1>1. /\ toClient # <<>> /\ configured' = m.serial
      /\ egl' = IF Width(m) <= 0 THEN 0 ELSE Width(m)
  BY ConfiguredClient
<1>2. 1 \in DOMAIN toClient
  BY <1>1, TailOf DEF TypeInv, ChannelsTyped
<1>3. /\ m.size = scheduled.size
      /\ Filling(m.states) <=> Filling(scheduled.states)
  BY <1>1, <1>2 DEF LastAsked
<1>4. scheduled.size \in Nat
  BY DEF TypeInv, ServerTyped
<1> HIDE DEF m
<1>5. ~(m.size <= 0)
  BY <1>3, <1>4
<1>6. Measured(m.size) = (m.size \div Cell) * Cell
  BY <1>3, <1>4 DEF Measured
<1>7. Width(m) = IF Filling(scheduled.states) THEN scheduled.size
                 ELSE (scheduled.size \div Cell) * Cell
  BY <1>3, <1>5, <1>6 DEF Width
<1>8. QED
  BY <1>1, <1>7 DEF Wanted

-----------------------------------------------------------------------------
(* An edge stays where it is as long as nothing is committed. *)
LEMMA EdgeUnmoved ==
  ASSUME EdgeStays, Calm' => Calm, UNCHANGED <<current, geom>>,
         edge' = {} \/ UNCHANGED <<pos, edge>>
  PROVE  EdgeStays'
  BY DEF EdgeStays, Calm, Filling

(* What the user, outputs and requests do. *)
LEMMA EffectEdge ==
  ASSUME TypeInv, TypeInv', SerialInv, EdgeInv, EdgeStays, Effect, Calm' => Calm
  PROVE  EdgeInv' /\ EdgeStays'
<1>1. Sound' /\ Paired
  BY EffectSound DEF EdgeInv, Sound
<1>2. Calm' => OneChange' /\ SteadySizes' /\ LastAsked'
  BY <1>1, EffectOneChange, EffectSteady, EffectLastAsked DEF EdgeInv
<1>3. Calm' /\ scheduled'.size > 0 => LastDrawn'
  BY <1>1, EffectLastDrawn DEF EdgeInv
<1>4. EdgeStays'
  BY EdgeUnmoved DEF Effect, Acts
<1>5. QED
  BY <1>1, <1>2, <1>3, <1>4 DEF EdgeInv

(* A commit: it places the toplevel by the size it has then, or is of the  *)
(* size there is.                                                          *)
LEMMA CommitEdge ==
  ASSUME TypeInv, TypeInv', SerialInv, EdgeInv, EdgeStays, CommitEffect, Calm' => Calm
  PROVE  EdgeInv' /\ EdgeStays'
<1>1. Sound' /\ Paired
  BY CommitSound DEF EdgeInv, Sound
<1>2. Calm' => OneChange' /\ SteadySizes' /\ LastAsked'
  BY <1>1, CommitOneChange, CommitSteady, CommitLastAsked DEF EdgeInv
<1>3. Calm' /\ scheduled'.size > 0 => LastDrawn'
  BY <1>1, CommitLastDrawn DEF EdgeInv
<1>4. ASSUME Calm', ~Filling(current'), NEW x \in edge'
      PROVE  pos' + Inset + geom' = x
  <2>1. Calm /\ SteadySizes /\ LastAsked
    BY <1>4 DEF EdgeInv
  <2>2. CASE onCommit = Nothing
    <3>1. geom' = geom /\ UNCHANGED <<pos, edge>> /\ ~Filling(current)
      BY <1>1, <1>4, <2>1, <2>2, CommitSize
    <3>2. QED
      BY <1>4, <2>1, <3>1 DEF EdgeStays, Calm
  <2>3. CASE onCommit # Nothing
    <3>1. onCommit.place # "none"
      BY <1>1, <2>3 DEF Paired
    <3>2. QED
      BY <1>4, <3>1 DEF CommitEffect
  <2>4. QED
    BY <2>2, <2>3
<1>5. EdgeStays'
  BY <1>4 DEF EdgeStays, Calm
<1>6. QED
  BY <1>1, <1>2, <1>3, <1>5 DEF EdgeInv

(* An acknowledgement. *)
LEMMA AckEdge ==
  ASSUME TypeInv, TypeInv', SerialInv, EdgeInv, EdgeStays, AckEffect, Calm' => Calm
  PROVE  EdgeInv' /\ EdgeStays'
<1>1. Sound' /\ Paired /\ Unsized
  BY AckSound DEF EdgeInv, Sound
<1>2. Calm' => OneChange' /\ SteadySizes' /\ LastAsked'
  BY <1>1, AckOneChange, AckSteady, AckLastAsked DEF EdgeInv
<1>3. Calm' /\ scheduled'.size > 0 => LastDrawn'
  BY <1>1, AckLastDrawn DEF EdgeInv, AckEffect
<1>4. EdgeStays'
  BY EdgeUnmoved DEF AckEffect
<1>5. QED
  BY <1>1, <1>2, <1>3, <1>4 DEF EdgeInv

(* What an application does, at the sizes it is given or at one of its own. *)
LEMMA ClientEdge ==
  ASSUME TypeInv, TypeInv', SerialInv, EdgeInv, EdgeStays, Adds,
         Calm' => /\ Calm /\ Draws
                  /\ UNCHANGED toClient \/ (toClient # <<>> /\ toClient' = Tail(toClient))
                  /\ LastDrawn /\ scheduled.size > 0 /\ Late(configured') => egl' = Wanted
  PROVE  EdgeInv' /\ EdgeStays'
<1>1. Sound' /\ Paired
  BY AddsSound DEF EdgeInv, Sound
<1>2. UNCHANGED <<scheduled, current, geom, pos, edge>>
  BY DEF Adds, toplevelVars, shownVars, configVars
<1>3. Calm' => OneChange' /\ SteadySizes' /\ LastAsked'
  BY <1>1, DrawsSends, SendsOneChange, DrawsSteady, DrawsLastAsked DEF EdgeInv
<1>4. Calm' /\ scheduled'.size > 0 => LastDrawn'
  BY <1>1, <1>2, DrawsLastDrawn DEF EdgeInv
<1>5. EdgeStays'
  BY <1>2, EdgeUnmoved
<1>6. QED
  BY <1>1, <1>3, <1>4, <1>5 DEF EdgeInv

(* A configure event is sent. *)
LEMMA SendEdge ==
  ASSUME TypeInv, TypeInv', SerialInv, EdgeInv, EdgeStays, SendConfigure,
         UNCHANGED frameVars, Calm' => Calm
  PROVE  EdgeInv' /\ EdgeStays'
<1>1. Sound'
  BY SendSound DEF EdgeInv
<1>2. /\ UNCHANGED <<shownVars, scheduled, onAck, toServer>>
      /\ UNCHANGED <<drawn, configuring, configured, egl>>
  BY DEF SendConfigure, frameVars
<1>3. UNCHANGED <<acked, current, geom, pos, onCommit, edge>>
  BY <1>2 DEF shownVars
<1>4. SteadySizes => SteadySizes'
  BY <1>2, <1>3 DEF SteadySizes, NextSizes, Filling
<1>5. LastDrawn => LastDrawn'
  BY <1>2, <1>3 DEF LastDrawn, Late, Acks, Wanted
<1>6. Calm' => OneChange' /\ SteadySizes' /\ LastAsked'
  BY <1>4, SendOneChange, SendLastAsked DEF EdgeInv
<1>7. Calm' /\ scheduled'.size > 0 => LastDrawn'
  BY <1>2, <1>5 DEF EdgeInv
<1>8. EdgeStays'
  BY <1>3, EdgeUnmoved
<1>9. QED
  BY <1>1, <1>6, <1>7, <1>8 DEF EdgeInv

(* A message is received by the compositor. *)
LEMMA ServerEdge ==
  ASSUME TypeInv, TypeInv', SerialInv, EdgeInv, EdgeStays, ServerReceives,
         UNCHANGED frameVars, Calm' => Calm
  PROVE  EdgeInv' /\ EdgeStays'
<1>1. SizeKnown
  BY DEF EdgeInv, Sound
<1>2. CASE toServer[1].type = "ack"
  BY <1>2, AckHasEffect, AckEdge
<1>3. CASE toServer[1].type = "commit"
  BY <1>1, <1>3, CommitHasEffect, CommitEdge
<1>4. CASE toServer[1].type \notin {"ack", "commit"}
  BY <1>1, <1>4, RequestEffect, EffectEdge DEF IsRequest
<1>5. QED
  BY <1>2, <1>3, <1>4

(* The invariant, as the system starts. *)
LEMMA StartsEdge ==
  ASSUME Init
  PROVE  EdgeInv /\ EdgeStays
<1>1. ToplevelInit /\ FrameInit /\ toServer = <<Commit(0)>> /\ toClient = <<>>
      /\ hurried = FALSE /\ resized = FALSE
  BY DEF Init
<1> DEFINE m == Commit(0)
<1>2. m \in Messages /\ m.type = "commit" /\ m.size = 0
  BY MessageTypes
<1>3. ~Shows(m) /\ ~IsState(m) /\ ~IsRequest(m)
  BY <1>2 DEF Shows, IsState, IsRequest
<1>4. toServer = <<m>>
  BY <1>1
<1> HIDE DEF m
<1>5. DOMAIN toServer = {1} /\ toServer[1] = m /\ DOMAIN toClient = {}
  BY <1>1, <1>4
<1>6. Acks = {}
  BY <1>2, <1>5 DEF Acks
<1>7. SizeKnown
  <2>1. grab.does = "none" /\ egl = 0
    BY <1>1 DEF ToplevelInit, FrameInit, NoGrab
  <2>2. QED
    BY <1>3, <1>5, <2>1 DEF SizeKnown
<1>8. /\ onCommit = Nothing /\ onAck = NoAck /\ edge = {} /\ scheduled.size = 0
      /\ scheduled.states = Plain /\ acked = Plain /\ current = Plain /\ unacked = {}
  BY <1>1 DEF ToplevelInit
<1>9. Paired
  BY <1>6, <1>8 DEF Paired
<1>10. Unsized
  BY <1>8, NothingPlace DEF Unsized
<1>11. OneChange
  BY <1>3, <1>5, <1>8 DEF OneChange
<1>12. LastAsked
  BY <1>5, <1>8 DEF LastAsked
<1>13. SteadySizes
  <2>1. drawn = 0 /\ egl = 0
    BY <1>1 DEF FrameInit
  <2>2. NextSizes = Nat
    BY <1>8 DEF NextSizes
  <2> DEFINE q == Append(toServer, Commit(drawn))
  <2>3. Commit(drawn) = m
    BY <2>1 DEF m
  <2>4. toServer \in Seq(Messages) /\ Len(toServer) = 1
    BY <1>2, <1>4
  <2>5. DOMAIN q = 1..(1 + 1) /\ (\A k \in 1..1 : q[k] = toServer[k]) /\ q[1 + 1] = m
    BY SMTT(30), <1>2, <2>3, <2>4, AppendTo
  <2> HIDE DEF q
  <2>6. \A k \in DOMAIN q : ~Shows(q[k])
    <3>1. \A k \in DOMAIN q : k \in 1..1 \/ k = 1 + 1
      BY <2>5
    <3>2. \A k \in 1..1 : k = 1
      OBVIOUS
    <3>3. QED
      BY <1>3, <1>5, <2>5, <3>1, <3>2
  <2>7. Steady(q, NextSizes)
    BY <2>6 DEF Steady
  <2>8. QED
    BY <2>1, <2>7 DEF SteadySizes, q
<1>14. EdgeStays
  BY <1>8 DEF EdgeStays
<1>15. QED
  BY <1>7, <1>8, <1>9, <1>10, <1>11, <1>12, <1>13, <1>14 DEF EdgeInv, Sound

(* The invariant, step by step. *)
LEMMA StaysEdge ==
  ASSUME TypeInv, TypeInv', SerialInv, EdgeInv, EdgeStays, [Next]_vars
  PROVE  EdgeInv' /\ EdgeStays'
<1>1. SizeKnown /\ Paired
  BY DEF EdgeInv, Sound
<1>2. ASSUME Calm' => Calm, UserActs, UNCHANGED <<frameVars, toServer, toClient>>
      PROVE  EdgeInv' /\ EdgeStays'
  BY <1>1, <1>2, UserEffect, EffectEdge
<1>3. ASSUME Calm' => Calm, NEW m \in Requests, Request(m), UNCHANGED toplevelVars,
             IsState(m) /\ Calm' => Agreed
      PROVE  EdgeInv' /\ EdgeStays'
  <2>1. Adds /\ ((IsState(m) => Agreed) => Draws)
    BY <1>3, RequestDraws
  <2>2. UNCHANGED <<configured, egl, toClient>>
    BY <1>3 DEF Request, frameVars
  <2>3. LastDrawn /\ Late(configured') => egl' = Wanted
    BY <2>2 DEF LastDrawn
  <2>4. QED
    BY <1>3, <2>1, <2>2, <2>3, ClientEdge
<1>4. ASSUME NEW w \in AppSizes, AppResize(w), UNCHANGED toplevelVars, egl > 0, ~Calm'
      PROVE  EdgeInv' /\ EdgeStays'
  BY <1>4, AppResizeAdds, ClientEdge
<1>5. ASSUME Calm' => Calm, SendConfigure, UNCHANGED frameVars
      PROVE  EdgeInv' /\ EdgeStays'
  BY <1>5, SendEdge
<1>6. ASSUME Calm' => Calm, ServerReceives, UNCHANGED frameVars
      PROVE  EdgeInv' /\ EdgeStays'
  BY <1>6, ServerEdge
<1>7. ASSUME Calm' => Calm, ClientReceives, UNCHANGED toplevelVars
      PROVE  EdgeInv' /\ EdgeStays'
  <2>1. Adds /\ Draws
    BY <1>7, ConfiguredDraws
  <2>2. toClient # <<>> /\ toClient' = Tail(toClient)
    BY <1>7 DEF ClientReceives
  <2>3. ASSUME Calm', scheduled.size > 0, Late(configured') PROVE egl' = Wanted
    BY <1>7, <2>3, ConfiguredWanted DEF EdgeInv
  <2>4. QED
    BY <1>7, <2>1, <2>2, <2>3, ClientEdge
<1>8. ASSUME Calm' => Calm, FrameDone, UNCHANGED toplevelVars
      PROVE  EdgeInv' /\ EdgeStays'
  <2>1. Adds /\ (SteadySizes => Draws)
    BY <1>8, FrameDoneDraws
  <2>2. UNCHANGED <<configured, egl, toClient>>
    BY <1>8 DEF FrameDone
  <2>3. LastDrawn /\ Late(configured') => egl' = Wanted
    BY <2>2 DEF LastDrawn
  <2>4. Calm' => SteadySizes
    BY <1>8 DEF EdgeInv
  <2>5. QED
    BY <1>8, <2>1, <2>2, <2>3, <2>4, ClientEdge
<1>9. ASSUME Next PROVE EdgeInv' /\ EdgeStays'
  BY <1>2, <1>3, <1>4, <1>5, <1>6, <1>7, <1>8, <1>9, Steps
<1>10. CASE UNCHANGED vars
  <2>1. /\ UNCHANGED <<scheduled, onAck, serial, dirty, acked, current, geom, pos,
                       onCommit, edge, unacked, grab, toServer, toClient>>
        /\ UNCHANGED <<configuring, configured, egl, drawn, hurried, resized>>
    BY <1>10 DEF vars, toplevelVars, shownVars, configVars, frameVars
  <2>2. Sound'
    BY <1>1, <2>1 DEF EdgeInv, Sound, SizeKnown, Paired, Unsized, Acks
  <2>3. OneChange => OneChange'
    BY <2>1 DEF OneChange
  <2>4. SteadySizes => SteadySizes'
    BY <2>1 DEF SteadySizes, NextSizes, Filling
  <2>5. LastAsked => LastAsked'
    BY <2>1 DEF LastAsked, Late
  <2>6. LastDrawn => LastDrawn'
    BY <2>1 DEF LastDrawn, Late, Acks, Wanted
  <2>7. Calm' => Calm
    BY <2>1 DEF Calm
  <2>8. EdgeStays'
    BY <2>1, <2>7, EdgeUnmoved
  <2>9. QED
    BY <2>1, <2>2, <2>3, <2>4, <2>5, <2>6, <2>7, <2>8 DEF EdgeInv
<1>11. QED
  BY <1>9, <1>10

(* The right edge that a drag of the left one has fixed stays where it is, *)
(* at whatever size and however late the application draws: what f_resize  *)
(* has waited for is the size of every commit from the acknowledgement on. *)
THEOREM EdgeCorrect == Spec => []EdgeStays
<1> DEFINE Inv == TypeInv /\ SerialInv /\ EdgeInv /\ EdgeStays
<1>1. Init => Inv
  BY StartsInOrder, StartsEdge
<1>2. Inv /\ [Next]_vars => Inv'
  <2>1. ASSUME Inv, [Next]_vars PROVE TypeInv' /\ SerialInv'
    BY <2>1, StaysInOrder
  <2>2. ASSUME Inv, [Next]_vars PROVE EdgeInv' /\ EdgeStays'
    BY <2>1, <2>2, StaysEdge
  <2>3. QED
    BY <2>1, <2>2
<1>3. Inv => EdgeStays
  OBVIOUS
<1>4. QED
  BY <1>1, <1>2, <1>3, PTL DEF Spec

-----------------------------------------------------------------------------
(* Where the toplevel is placed.                                           *)

(* What f_resize was last called to do and has not been done. *)
Placing == IF onAck = NoAck THEN onCommit ELSE onAck.do
Whole(do) == do.place \in {"restore", "maximize", "fullscreen"}

(* States that ask for the same place as the last. *)
Alike(st) ==
  /\ st.full = scheduled.states.full
  /\ Filling(st) <=> Filling(scheduled.states)

(* It is what the last states ask for, on the last output, and so is        *)
(* what is acknowledged when it is done.                                   *)
LastPlaces ==
  /\ attached = "yes" => Filling(scheduled.states)
  /\ Placing.place = "restore" => ~Filling(scheduled.states) \/ attached = "lost"
  /\ Placing.place \in {"maximize", "fullscreen"} =>
       /\ attached = "yes" /\ Filling(scheduled.states) /\ Placing.width = output.width
       /\ scheduled.states.full <=> Placing.place = "fullscreen"
  /\ Whole(Placing) =>
       /\ \A c \in unacked : Late(c.serial) => Alike(c.states)
       /\ onAck = NoAck => Alike(acked)

PlaceInv == ~hurried => OneChange /\ LastPlaces

(* Nothing else is to be done, and the states ask for the same place. *)
LEMMA SamePlaces ==
  ASSUME LastPlaces, UNCHANGED <<onAck, attached, acked, unacked>>, Placing' = Placing,
         scheduled'.states.full = scheduled.states.full,
         Filling(scheduled'.states) <=> Filling(scheduled.states),
         output' = output \/ attached # "yes"
  PROVE  LastPlaces'
<1>1. \A c : Late(c)' <=> Late(c)
  BY DEF Late
<1>2. \A st : Alike(st)' <=> Alike(st)
  BY DEF Alike, Filling
<1>3. Whole(Placing)' <=> Whole(Placing)
  BY DEF Whole
<1>4. Filling(scheduled.states)' <=> Filling(scheduled.states)
  BY DEF Filling
<1>5. QED
  BY <1>1, <1>2, <1>3, <1>4 DEF LastPlaces

(* What is to be done places no more than an edge. *)
LEMMA NoPlaces ==
  ASSUME LastPlaces, ~Whole(Placing'), UNCHANGED attached,
         scheduled'.states = scheduled.states
  PROVE  LastPlaces'
<1>1. Filling(scheduled.states)' <=> Filling(scheduled.states)
  BY DEF Filling
<1>2. ~Whole(Placing)'
  BY DEF Whole
<1>3. QED
  BY <1>1, <1>2 DEF LastPlaces, Whole

(* Something else is to be done, by an event that was not sent yet. *)
LEMMA NewPlaces ==
  ASSUME TypeInv, SerialInv, NEW st, NEW size, NEW p, NEW w \in Int,
         p \in {"restore", "maximize", "fullscreen"},
         Resize(st, size, Place(p, w)), UNCHANGED unacked,
         attached' = "yes" => Filling(st),
         p = "restore" => ~Filling(st) \/ attached' = "lost",
         p # "restore" => /\ attached' = "yes" /\ Filling(st) /\ w = output'.width
                          /\ st.full <=> p = "fullscreen"
  PROVE  LastPlaces'
<1> DEFINE do == Place(p, w)
<1>1. do.place = p /\ do.width = w
  BY PlaceType
<1> HIDE DEF do
<1>2. onAck' = [serial |-> NextSerial, do |-> do] /\ scheduled'.states = st
  BY DEF Resize, Schedule, do
<1>3. onAck'.do = do /\ onAck'.serial = NextSerial
  BY <1>2
<1>4. (onAck # NoAck)'
  BY <1>1, <1>3, NothingPlace
<1>5. (Placing)' = do
  BY <1>3, <1>4 DEF Placing
<1>6. \A c \in unacked' : ~Late(c.serial)'
  <2>1. \A c \in unacked : Past(c.serial) /\ c.serial \in Nat
    BY DEF SerialInv, SentInv, TypeInv, ServerTyped, Configured
  <2>2. serial \in Nat /\ dirty \in BOOLEAN
    BY DEF TypeInv, ServerTyped
  <2>3. \A c \in unacked : ~(c.serial >= NextSerial)
    BY <2>1, <2>2 DEF Past, NextSerial
  <2>4. QED
    BY <1>3, <1>4, <2>3 DEF Late
<1>7. Filling(scheduled.states)' <=> Filling(st)
  BY <1>2 DEF Filling
<1>8. QED
  BY <1>1, <1>2, <1>4, <1>5, <1>6, <1>7 DEF LastPlaces

(* What the outputs do, when no change of state is on its way. *)
LEMMA OutputPlaces ==
  ASSUME TypeInv, SerialInv, LastPlaces, Agreed,
         LoseOutput \/ \E box \in Outputs : ChangeMode(box)
  PROVE  LastPlaces'
<1>1. scheduled.states = current /\ UNCHANGED <<unacked, acked, onCommit>>
  BY DEF Agreed, ChangeMode, LoseOutput, shownVars
<1>2. ASSUME NEW box \in Outputs, ChangeMode(box) PROVE LastPlaces'
  <2> DEFINE w == box.width
  <2>1. w \in Int /\ output' = box /\ attached = "yes"
    BY <1>2, ToplevelAssumption DEF ChangeMode, Maximize, Fullscreen
  <2>2. CASE current.full
    <3>1. Resize(scheduled.states, w, Place("fullscreen", w)) /\ attached' = "yes"
      BY <1>2, <2>2 DEF ChangeMode, Fullscreen
    <3>2. Filling(scheduled.states) /\ scheduled.states.full
      BY <1>1, <2>2 DEF Filling
    <3>3. QED
      BY <1>1, <2>1, <3>1, <3>2, NewPlaces
  <2>3. CASE ~current.full
    <3>1. Resize(scheduled.states, w, Place("maximize", w)) /\ attached' = "yes"
      BY <1>2, <2>3 DEF ChangeMode, Maximize
    <3>2. Filling(scheduled.states) /\ ~scheduled.states.full
      BY <1>1, <2>1, <2>3 DEF LastPlaces
    <3>3. QED
      BY <1>1, <2>1, <3>1, <3>2, NewPlaces
  <2>4. QED
    BY <2>2, <2>3
<1>3. CASE LoseOutput
  <2>1. Resize(scheduled.states, restore.width, Place("restore", 0)) /\ attached' = "lost"
    BY <1>3 DEF LoseOutput, Restore
  <2>2. QED
    BY <1>1, <2>1, NewPlaces
<1>4. QED
  BY <1>2, <1>3

(* The user moves or drags it, or the focus comes or goes. *)
LEMMA UserPlaces ==
  ASSUME TypeInv, LastPlaces,
         \/ \E x \in Positions : MotionMoves(x)
         \/ \E size \in DragSizes : MotionResizes(size)
         \/ ReleaseButton
         \/ Activate
  PROVE  LastPlaces'
<1>1. UNCHANGED <<attached, acked, unacked, output, onCommit>>
  BY DEF MotionMoves, MotionResizes, ReleaseButton, Activate, shownVars
<1>2. CASE \E size \in DragSizes : MotionResizes(size)
  <2>1. PICK size \in DragSizes : MotionResizes(size)
    BY <1>2
  <2>2. Drag(size) /\ size \in Nat
    BY <2>1, ToplevelAssumption DEF MotionResizes
  <2>3. onAck'.do.place = "edge" /\ scheduled'.states = scheduled.states
    BY <2>2 DEF Drag, Resize, Schedule
  <2>4. onAck' # NoAck
    BY <2>3, NothingPlace
  <2>5. Placing'.place = "edge"
    BY <2>3, <2>4 DEF Placing
  <2>6. ~Whole(Placing')
    BY <2>5 DEF Whole
  <2>7. QED
    BY <1>1, <2>3, <2>6, NoPlaces
<1>3. CASE (\E x \in Positions : MotionMoves(x)) \/ ReleaseButton \/ Activate
  <2>1. UNCHANGED onAck /\ scheduled'.states = scheduled.states
    BY <1>3 DEF MotionMoves, ReleaseButton, Activate, configVars, Schedule
  <2>2. Placing' = Placing
    BY <1>1, <2>1 DEF Placing
  <2>3. QED
    BY <1>1, <2>1, <2>2, SamePlaces
<1>4. QED
  BY <1>2, <1>3

(* The application asks for a state, and no other change is on its way. *)
LEMMA StatePlaces ==
  ASSUME TypeInv, SerialInv, LastPlaces, scheduled.states = current,
         NEW m \in Messages, ReceiveState(m)
  PROVE  LastPlaces'
<1>1. /\ UNCHANGED <<unacked, acked, onCommit>>
      /\ m.type \in {"maximize", "fullscreen"}
  BY DEF ReceiveState
<1> PICK box \in Outputs : IF m.type = "maximize" THEN RequestMaximize(m.on, box)
                          ELSE RequestFullscreen(m.on, box)
  BY DEF ReceiveState
<1> DEFINE w == box.width
<1>2. current \in States /\ w \in Int /\ m.on \in BOOLEAN
  <2>1. m.type \in {"maximize", "fullscreen"} => m.on \in BOOLEAN
    BY DEF Messages, Acknowledgements, Commits, Requests
  <2>2. QED
    BY <1>1, <2>1, ToplevelAssumption DEF TypeInv, ServerTyped
<1>3. \A b \in BOOLEAN :
        /\ [current EXCEPT !.max = b].max = b
        /\ [current EXCEPT !.max = b].full = current.full
        /\ [current EXCEPT !.full = b].full = b
        /\ [current EXCEPT !.full = b].max = current.max
  BY <1>2 DEF States
<1>4. CASE m.type = "maximize"
  <2> DEFINE st == [current EXCEPT !.max = m.on]
  <2>1. st.max = m.on /\ st.full = current.full
    BY <1>2, <1>3
  <2>2. RequestMaximize(m.on, box)
    BY <1>4
  <2>3. \/ /\ current.full /\ Schedule(st, scheduled.size)
           /\ UNCHANGED <<onAck, attached, output>>
        \/ ~current.full /\ m.on /\ Maximize(st, box)
        \/ ~current.full /\ ~m.on /\ Restore(st, restore') /\ attached' = "no"
    BY <2>2 DEF RequestMaximize
  <2> HIDE DEF st
  <2>4. CASE /\ current.full /\ Schedule(st, scheduled.size)
             /\ UNCHANGED <<onAck, attached, output>>
    <3>1. scheduled'.states = st
      BY <2>4 DEF Schedule
    <3>2. scheduled'.states.full = scheduled.states.full
          /\ (Filling(scheduled'.states) <=> Filling(scheduled.states))
      BY <2>1, <2>4, <3>1 DEF Filling
    <3>3. Placing' = Placing
      BY <1>1, <2>4 DEF Placing
    <3>4. QED
      BY <1>1, <2>4, <3>2, <3>3, SamePlaces
  <2>5. CASE ~current.full /\ m.on /\ Maximize(st, box)
    <3>1. Resize(st, w, Place("maximize", w))
          /\ attached' = "yes" /\ output' = box
      BY <2>5 DEF Maximize
    <3>2. Filling(st) /\ ~st.full
      BY <2>1, <2>5 DEF Filling
    <3>3. QED
      BY <1>1, <1>2, <3>1, <3>2, NewPlaces
  <2>6. CASE ~current.full /\ ~m.on /\ Restore(st, restore') /\ attached' = "no"
    <3>1. Resize(st, restore'.width, Place("restore", 0))
      BY <2>6 DEF Restore
    <3>2. ~Filling(st)
      BY <2>1, <2>6 DEF Filling
    <3>3. QED
      BY <1>1, <2>6, <3>1, <3>2, NewPlaces
  <2>7. QED
    BY <2>3, <2>4, <2>5, <2>6
<1>5. CASE m.type = "fullscreen"
  <2> DEFINE st == [current EXCEPT !.full = m.on]
  <2>1. st.full = m.on /\ st.max = current.max
    BY <1>2, <1>3
  <2>2. RequestFullscreen(m.on, box)
    BY <1>5
  <2>3. \/ m.on /\ Fullscreen(st, box)
        \/ ~m.on /\ current.max /\ Maximize(st, box)
        \/ ~m.on /\ ~current.max /\ Restore(st, restore') /\ attached' = "no"
    BY <2>2 DEF RequestFullscreen
  <2> HIDE DEF st
  <2>4. CASE m.on /\ Fullscreen(st, box)
    <3>1. Resize(st, w, Place("fullscreen", w))
          /\ attached' = "yes" /\ output' = box
      BY <2>4 DEF Fullscreen
    <3>2. Filling(st) /\ st.full
      BY <2>1, <2>4 DEF Filling
    <3>3. QED
      BY <1>1, <1>2, <3>1, <3>2, NewPlaces
  <2>5. CASE ~m.on /\ current.max /\ Maximize(st, box)
    <3>1. Resize(st, w, Place("maximize", w))
          /\ attached' = "yes" /\ output' = box
      BY <2>5 DEF Maximize
    <3>2. Filling(st) /\ ~st.full
      BY <2>1, <2>5 DEF Filling
    <3>3. QED
      BY <1>1, <1>2, <3>1, <3>2, NewPlaces
  <2>6. CASE ~m.on /\ ~current.max /\ Restore(st, restore') /\ attached' = "no"
    <3>1. Resize(st, restore'.width, Place("restore", 0))
      BY <2>6 DEF Restore
    <3>2. ~Filling(st)
      BY <2>1, <2>6 DEF Filling
    <3>3. QED
      BY <1>1, <2>6, <3>1, <3>2, NewPlaces
  <2>7. QED
    BY <2>3, <2>4, <2>5, <2>6
<1>6. QED
  BY <1>1, <1>4, <1>5

(* It asks to be moved or resized. *)
LEMMA GrabPlaces ==
  ASSUME LastPlaces, NEW m, ReceiveMove(m) \/ ReceiveResize(m)
  PROVE  LastPlaces'
<1>1. UNCHANGED <<attached, acked, unacked, output, onCommit, onAck>>
      /\ scheduled'.states = scheduled.states
  BY DEF ReceiveMove, ReceiveResize, shownVars, configVars, Schedule
<1>2. Placing' = Placing
  BY <1>1 DEF Placing
<1>3. QED
  BY <1>1, <1>2, SamePlaces

(* A commit does what was to be done, unless it waits for an event. *)
LEMMA CommitPlaces ==
  ASSUME TypeInv, LastPlaces, NEW m, ReceiveCommit(m)
  PROVE  LastPlaces'
<1>1. UNCHANGED <<attached, acked, unacked, output>> /\ onCommit' = Nothing
  BY DEF ReceiveCommit
<1>2. CASE Whole(onCommit) /\ grab.does = "resize"
  <2>1. Drag(grab.at) /\ grab.at \in Nat
    BY <1>2 DEF ReceiveCommit, Whole, TypeInv, ServerTyped
  <2>2. onAck'.do.place = "edge" /\ scheduled'.states = scheduled.states
    BY <2>1 DEF Drag, Resize, Schedule
  <2>3. onAck' # NoAck
    BY <2>2, NothingPlace
  <2>4. ~Whole(Placing')
    BY <2>2, <2>3 DEF Placing, Whole
  <2>5. QED
    BY <1>1, <2>2, <2>4, NoPlaces
<1>3. CASE ~(Whole(onCommit) /\ grab.does = "resize")
  <2>1. UNCHANGED onAck /\ scheduled'.states = scheduled.states
    BY <1>3 DEF ReceiveCommit, Whole, Schedule
  <2>2. CASE onAck = NoAck
    <3>1. ~Whole(Placing')
      BY <1>1, <2>1, <2>2, NothingPlace DEF Placing, Whole
    <3>2. QED
      BY <1>1, <2>1, <3>1, NoPlaces
  <2>3. CASE onAck # NoAck
    <3>1. Placing' = Placing
      BY <2>1, <2>3 DEF Placing
    <3>2. QED
      BY <1>1, <2>1, <3>1, SamePlaces
  <2>4. QED
    BY <2>2, <2>3
<1>4. QED
  BY <1>2, <1>3

(* An acknowledgement leaves to be done what was, and is of states like    *)
(* the last if it is what is waited for.                                   *)
LEMMA AckPlaces ==
  ASSUME TypeInv, LastPlaces, Paired, AckEffect, UNCHANGED <<attached, output>>
  PROVE  LastPlaces'
<1> DEFINE s == toServer[1].serial
<1>1. /\ UNCHANGED scheduled
      /\ unacked' = {c \in unacked : c.serial > s}
      /\ onCommit' = IF onAck = NoAck THEN onCommit ELSE onAck.do
      /\ onAck' = IF s >= onAck.serial THEN NoAck ELSE onAck
  BY DEF AckEffect
<1>2. PICK c0 \in unacked : c0.serial = s /\ acked' = c0.states
  BY DEF AckEffect
<1> HIDE DEF s
<1>3. Placing' = Placing
  BY <1>1 DEF Placing
<1>4. \A st : Alike(st)' <=> Alike(st)
  BY <1>1 DEF Alike, Filling
<1>5. Filling(scheduled.states)' <=> Filling(scheduled.states)
  BY <1>1 DEF Filling
<1>6. /\ s \in Nat /\ onAck.serial \in Nat /\ NoAck.serial = 0
      /\ \A c \in unacked : c.serial \in Nat
  BY <1>2, NothingPlace DEF TypeInv, ServerTyped, Configured
<1>7. ASSUME Whole(Placing)
      PROVE  /\ \A c \in unacked' : Late(c.serial)' => Alike(c.states)'
             /\ onAck' = NoAck => Alike(acked)'
  <2>1. /\ \A c \in unacked : Late(c.serial) => Alike(c.states)
        /\ onAck = NoAck => Alike(acked)
    BY <1>7 DEF LastPlaces
  <2>2. \A c \in unacked' : Late(c.serial)' => c \in unacked /\ Late(c.serial)
    BY <1>1, <1>6 DEF Late
  <2>3. ASSUME onAck' = NoAck PROVE Late(c0.serial)
    BY <1>1, <1>2, <2>3 DEF Late
  <2>4. QED
    BY <1>2, <1>4, <2>1, <2>2, <2>3
<1>8. Whole(Placing)' <=> Whole(Placing)
  BY <1>3 DEF Whole
<1>9. QED
  BY <1>1, <1>3, <1>5, <1>7, <1>8 DEF LastPlaces

(* What is sent has the last states. *)
LEMMA SendPlaces ==
  ASSUME TypeInv, LastPlaces, SendConfigure
  PROVE  LastPlaces'
<1> DEFINE new == [serial |-> serial, states |-> scheduled.states]
<1>1. /\ UNCHANGED <<acked, scheduled, onAck, onCommit, attached, output>>
      /\ unacked' = unacked \cup {new}
  BY DEF SendConfigure, shownVars
<1>2. new.states = scheduled.states
  OBVIOUS
<1> HIDE DEF new
<1>3. Placing' = Placing
  BY <1>1 DEF Placing
<1>4. \A st : Alike(st)' <=> Alike(st)
  BY <1>1 DEF Alike, Filling
<1>5. \A c : Late(c)' <=> Late(c)
  BY <1>1 DEF Late
<1>6. Alike(new.states)
  BY <1>2 DEF Alike
<1>7. Filling(scheduled.states)' <=> Filling(scheduled.states)
  BY <1>1 DEF Filling
<1>8. Whole(Placing)' <=> Whole(Placing)
  BY <1>3 DEF Whole
<1>9. QED
  BY <1>1, <1>3, <1>4, <1>5, <1>6, <1>7, <1>8 DEF LastPlaces

(* A message is received by the compositor. *)
LEMMA ServerPlaces ==
  ASSUME TypeInv, TypeInv', SerialInv, Sound, OneChange, LastPlaces, ServerReceives,
         UNCHANGED frameVars
  PROVE  OneChange' /\ LastPlaces'
<1> DEFINE m == toServer[1]
<1>1. /\ toServer # <<>> /\ m \in Messages /\ Head(toServer) = m /\ 1 \in DOMAIN toServer
  <2>1. toServer # <<>> /\ toServer' = Tail(toServer)
    BY DEF ServerReceives
  <2>2. QED
    BY <2>1, TailOf DEF TypeInv, ChannelsTyped
<1>2. SizeKnown /\ Paired
  BY DEF Sound
<1>3. CASE m.type = "ack"
  <2>1. AckEffect
    BY <1>3, AckHasEffect
  <2>2. ReceiveAck(m)
    BY <1>1, <1>3 DEF ServerReceives, ReceiveState, ReceiveMove, ReceiveResize, ReceiveCommit
  <2>3. UNCHANGED <<attached, output>>
    BY <2>2 DEF ReceiveAck
  <2>4. QED
    BY <1>2, <2>1, <2>3, AckOneChange, AckPlaces
<1>4. CASE m.type = "commit"
  <2>1. CommitEffect
    BY <1>2, <1>4, CommitHasEffect
  <2>2. ReceiveCommit(m)
    BY <1>1, <1>4 DEF ServerReceives, ReceiveState, ReceiveMove, ReceiveResize, ReceiveAck
  <2> HIDE DEF m
  <2>3. QED
    BY <2>1, <2>2, CommitOneChange, CommitPlaces
<1>5. CASE m.type \notin {"ack", "commit"}
  <2>1. Effect
    BY <1>2, <1>5, RequestEffect DEF IsRequest
  <2>2. OneChange'
    BY <2>1, EffectOneChange
  <2>3. ReceiveState(m) \/ ReceiveMove(m) \/ ReceiveResize(m)
    BY <1>1, <1>5 DEF ServerReceives, ReceiveAck, ReceiveCommit
  <2>4. ReceiveState(m) => scheduled.states = current
    BY <1>1 DEF ReceiveState, OneChange, IsState
  <2> HIDE DEF m
  <2>5. LastPlaces'
    BY <1>1, <2>3, <2>4, StatePlaces, GrabPlaces
  <2>6. QED
    BY <2>2, <2>5
<1>6. QED
  BY <1>3, <1>4, <1>5

(* What an application sends places nothing. *)
LEMMA SendsPlaces ==
  ASSUME TypeInv, OneChange, LastPlaces, Sends
  PROVE  OneChange' /\ LastPlaces'
<1>1. UNCHANGED <<attached, acked, unacked, output, onCommit, onAck, scheduled>>
  BY DEF Sends, toplevelVars, shownVars, configVars
<1>2. Placing' = Placing
  BY <1>1 DEF Placing
<1>3. QED
  BY <1>1, <1>2, SamePlaces, SendsOneChange

(* What it sends, in each of its steps. *)
LEMMA ClientSends ==
  ASSUME TypeInv, TypeInv', SerialInv, UNCHANGED toplevelVars,
         \/ \E m \in Requests : Request(m) /\ (IsState(m) => Agreed)
         \/ \E w \in AppSizes : AppResize(w)
         \/ ClientReceives
         \/ FrameDone
  PROVE  Sends
<1>1. \A n \in Nat : Commit(n) \in Messages /\ ~IsState(Commit(n))
  BY MessageTypes DEF IsState
<1>2. 0 \in Nat /\ configured \in Nat /\ egl \in Nat
  BY DEF TypeInv, ClientTyped
<1>3. CASE \E m \in Requests : Request(m) /\ (IsState(m) => Agreed)
  BY <1>3 DEF Request, Sends, Messages
<1>4. CASE \E w \in AppSizes : AppResize(w)
  <2>1. PICK w \in AppSizes : AppResize(w)
    BY <1>4
  <2>2. w \in Nat
    BY FrameAssumption
  <2>3. \/ toServer' \in {toServer, Append(toServer, Commit(0)), Append(toServer, Commit(w))}
        \/ toServer' = Append(Append(toServer, Ack(configured)), Commit(w))
    BY <2>1, AppResizeClient
  <2>4. QED
    BY <1>1, <1>2, <2>2, <2>3 DEF Sends
<1>5. CASE ClientReceives
  BY <1>5, ConfiguredDraws, DrawsSends
<1>6. CASE FrameDone
  <2>1. toServer' = IF configuring
                    THEN Append(Append(toServer, Ack(configured)), Commit(egl))
                    ELSE Append(toServer, Commit(egl))
    BY <1>6, FrameDoneClient
  <2>2. QED
    BY <1>1, <1>2, <2>1 DEF Sends
<1>7. QED
  BY <1>3, <1>4, <1>5, <1>6

(* The steps, by what they may place. *)
LEMMA PlaceSteps ==
  ASSUME Next
  PROVE  /\ ~hurried' => ~hurried
         /\ \/ /\ LoseOutput \/ \E box \in Outputs : ChangeMode(box)
               /\ UNCHANGED <<frameVars, toServer, toClient>>
               /\ ~hurried' => Agreed
            \/ /\ \/ \E x \in Positions : MotionMoves(x)
                  \/ \E w \in DragSizes : MotionResizes(w)
                  \/ ReleaseButton
                  \/ Activate
               /\ UNCHANGED <<frameVars, toServer, toClient>>
            \/ SendConfigure /\ UNCHANGED frameVars
            \/ ServerReceives /\ UNCHANGED frameVars
            \/ /\ UNCHANGED toplevelVars
               /\ \/ \E m \in Requests : Request(m) /\ (IsState(m) /\ ~hurried' => Agreed)
                  \/ \E w \in AppSizes : AppResize(w)
                  \/ ClientReceives
                  \/ FrameDone
<1>1. CASE UserStep
  <2>1. CASE StateStep /\ hurried' = (hurried \/ ~Agreed) /\ UNCHANGED resized
    BY <2>1 DEF StateStep
  <2>2. CASE PlainStep /\ UNCHANGED <<hurried, resized>>
    BY <2>2 DEF PlainStep, IsState
  <2>3. CASE /\ \E w \in AppSizes : egl > 0 /\ AppResize(w) /\ UNCHANGED toplevelVars
             /\ resized' = TRUE /\ UNCHANGED hurried
    BY <2>3
  <2>4. QED
    BY <1>1, <2>1, <2>2, <2>3 DEF UserStep
<1>2. CASE UNCHANGED <<hurried, resized>>
           /\ \/ SendConfigure /\ UNCHANGED frameVars
              \/ ServerReceives /\ UNCHANGED frameVars
              \/ ClientReceives /\ UNCHANGED toplevelVars
              \/ FrameDone /\ UNCHANGED toplevelVars
  BY <1>2
<1>3. QED
  BY <1>1, <1>2 DEF Next

(* While no state is asked for before the last one is the current one, what *)
(* is to be done is what the last states ask for.                          *)
LEMMA StaysPlaced ==
  ASSUME TypeInv, TypeInv', SerialInv, EdgeInv, PlaceInv, [Next]_vars
  PROVE  PlaceInv'
<1>1. Sound /\ SizeKnown
  BY DEF EdgeInv, Sound
<1>2. ASSUME Next, ~hurried' PROVE OneChange' /\ LastPlaces'
  <2>1. OneChange /\ LastPlaces
    BY <1>2, PlaceSteps DEF PlaceInv
  <2>2. ASSUME LoseOutput \/ \E box \in Outputs : ChangeMode(box), Agreed,
               UNCHANGED <<frameVars, toServer, toClient>>
        PROVE  OneChange' /\ LastPlaces'
    <3>1. Effect
      BY <1>1, <2>2, UserEffect DEF UserActs
    <3>2. QED
      BY <2>1, <2>2, <3>1, EffectOneChange, OutputPlaces
  <2>3. ASSUME \/ \E x \in Positions : MotionMoves(x)
               \/ \E w \in DragSizes : MotionResizes(w)
               \/ ReleaseButton
               \/ Activate,
               UNCHANGED <<frameVars, toServer, toClient>>
        PROVE  OneChange' /\ LastPlaces'
    <3>1. Effect
      BY <1>1, <2>3, UserEffect DEF UserActs
    <3>2. QED
      BY <2>1, <2>3, <3>1, EffectOneChange, UserPlaces
  <2>4. ASSUME SendConfigure PROVE OneChange' /\ LastPlaces'
    BY <2>1, <2>4, SendOneChange, SendPlaces
  <2>5. ASSUME ServerReceives, UNCHANGED frameVars PROVE OneChange' /\ LastPlaces'
    BY <1>1, <2>1, <2>5, ServerPlaces
  <2>6. ASSUME UNCHANGED toplevelVars,
               \/ \E m \in Requests : Request(m) /\ (IsState(m) => Agreed)
               \/ \E w \in AppSizes : AppResize(w)
               \/ ClientReceives
               \/ FrameDone
        PROVE  OneChange' /\ LastPlaces'
    BY <2>1, <2>6, ClientSends, SendsPlaces
  <2>7. QED
    BY <1>2, <2>2, <2>3, <2>4, <2>5, <2>6, PlaceSteps
<1>3. CASE UNCHANGED vars
  <2>1. /\ UNCHANGED <<scheduled, onAck, acked, current, onCommit, unacked, output,
                       attached, toServer, hurried>>
    BY <1>3 DEF vars, toplevelVars, shownVars, configVars
  <2>2. OneChange => OneChange'
    BY <2>1 DEF OneChange
  <2>3. Placing' = Placing
    BY <2>1 DEF Placing
  <2>4. LastPlaces => LastPlaces'
    BY <2>1, <2>3, SamePlaces
  <2>5. QED
    BY <2>1, <2>2, <2>4 DEF PlaceInv
<1>4. QED
  BY <1>2, <1>3 DEF PlaceInv

(* The invariant, as the system starts. *)
LEMMA StartsPlaced ==
  ASSUME Init
  PROVE  PlaceInv
<1>1. ToplevelInit /\ toServer = <<Commit(0)>>
  BY DEF Init
<1>2. /\ onCommit = Nothing /\ onAck = NoAck /\ attached = "no"
      /\ scheduled.states = Plain /\ acked = Plain /\ current = Plain /\ unacked = {}
  BY <1>1 DEF ToplevelInit
<1>3. LastPlaces
  BY <1>2, NothingPlace DEF LastPlaces, Placing, Whole
<1>4. OneChange
  <2>1. DOMAIN toServer = {1} /\ toServer[1] = Commit(0)
    BY <1>1
  <2>2. ~IsState(Commit(0))
    BY MessageTypes DEF IsState
  <2>3. QED
    BY <1>2, <2>1, <2>2 DEF OneChange
<1>5. QED
  BY <1>3, <1>4 DEF PlaceInv

(* What a commit does that places the toplevel as a whole, once nothing is  *)
(* waited for.                                                             *)
Settled ==
  IF Filling(current') /\ attached # "lost"
  THEN /\ pos' = Middle(output, geom') - output.x
       /\ attached = "yes"
       /\ backdrop' = IF current'.full THEN output.width ELSE 0
  ELSE pos' = restore.from + Inset /\ backdrop' = 0

LEMMA PlacedSettles ==
  ASSUME TypeInv, geom' \in Nat, LastPlaces, Whole(onCommit), onAck = NoAck,
         grab.does = "none", NEW m, ReceiveCommit(m)
  PROVE  Settled
<1>1. /\ current' = acked /\ Placed(onCommit)
  BY DEF ReceiveCommit, Whole
<1>2. Placing = onCommit /\ Alike(acked)
  BY DEF LastPlaces, Placing
<1>3. /\ onCommit.place = "restore" => ~Filling(acked) \/ attached = "lost"
      /\ onCommit.place \in {"maximize", "fullscreen"} =>
           /\ attached = "yes" /\ Filling(acked) /\ onCommit.width = output.width
           /\ acked.full <=> onCommit.place = "fullscreen"
  BY <1>2 DEF LastPlaces, Alike
<1>4. Filling(current)' <=> Filling(acked)
  BY <1>1 DEF Filling
<1> DEFINE middle == Centre(output.width, geom')
<1>5. middle = Middle(output, geom') - output.x
  <2>1. output.x \in Int /\ output.width \in Int /\ geom' \in Int
    BY DEF TypeInv, ServerTyped, Boxes
  <2>2. middle \in Int
    BY <2>1, CentreType
  <2> HIDE DEF middle
  <2>3. (output.x + middle) - output.x = middle
    BY <2>1, <2>2
  <2>4. QED
    BY <2>3 DEF Middle, middle
<1>6. CASE onCommit.place = "restore"
  <2>1. pos' = restore.from + Inset /\ backdrop' = 0
    BY <1>1, <1>6 DEF Placed, TypeInv, ServerTyped
  <2>2. QED
    BY <1>3, <1>4, <1>6, <2>1 DEF Settled
<1>7. CASE onCommit.place = "maximize"
  <2>1. pos' = Centre(onCommit.width, geom') /\ backdrop' = 0
    BY <1>1, <1>7 DEF Placed
  <2>2. QED
    BY <1>1, <1>3, <1>4, <1>5, <1>7, <2>1 DEF Settled
<1>8. CASE onCommit.place = "fullscreen"
  <2>1. pos' = Centre(onCommit.width, geom') /\ backdrop' = onCommit.width
    BY <1>1, <1>8 DEF Placed
  <2>2. QED
    BY <1>1, <1>3, <1>4, <1>5, <1>8, <2>1 DEF Settled
<1>9. QED
  BY <1>6, <1>7, <1>8 DEF Whole

(* Only a commit leaves nothing to be done of what was. *)
LEMMA OnlyCommits ==
  ASSUME TypeInv, SerialInv, Sound, [Next]_vars, onCommit # Nothing, onCommit' = Nothing
  PROVE  \E m : ReceiveCommit(m)
<1>1. Paired
  BY DEF Sound
<1>2. Next
  <2>1. ~UNCHANGED vars
    BY DEF vars, toplevelVars, shownVars
  <2>2. QED
    BY <2>1
<1>3. ~UNCHANGED toplevelVars
  BY DEF toplevelVars, shownVars
<1>4. ServerReceives /\ UNCHANGED frameVars
  BY <1>2, <1>3, PlaceSteps DEF ChangeMode, LoseOutput, MotionMoves, MotionResizes,
     ReleaseButton, Activate, SendConfigure, shownVars
<1>5. toServer[1].type # "ack"
  <2>1. SUFFICES ASSUME toServer[1].type = "ack" PROVE FALSE
    OBVIOUS
  <2>2. AckEffect
    BY <1>4, <2>1, AckHasEffect
  <2>3. onAck # NoAck => onAck.do # Nothing
    BY <1>1, NothingPlace DEF Paired
  <2>4. QED
    BY <2>2, <2>3 DEF AckEffect
<1>6. Head(toServer) = toServer[1]
  BY <1>4, TailOf DEF ServerReceives, TypeInv, ChannelsTyped
<1>7. QED
  BY <1>4, <1>5, <1>6 DEF ServerReceives, ReceiveState, ReceiveMove, ReceiveResize,
     ReceiveAck, shownVars

(* Once the last placement is carried out, a toplevel that fills its output *)
(* is where its middle would be if the output began at the origin of the   *)
(* layout, with a backdrop if it is fullscreen, and any other is where it  *)
(* was but for the inset of its geometry, for any sizes and boxes of       *)
(* outputs: what f_resize was last called with is what the last states and *)
(* the last output ask for, and what is acknowledged by then is of such    *)
(* states.                                                                 *)
THEOREM PlacedCorrect == Spec => PlacedWhole
<1> DEFINE Inv == TypeInv /\ SerialInv /\ EdgeInv /\ EdgeStays /\ PlaceInv
<1>1. Init => Inv
  BY StartsInOrder, StartsEdge, StartsPlaced
<1>2. Inv /\ [Next]_vars => Inv'
  <2>1. ASSUME Inv, [Next]_vars PROVE TypeInv' /\ SerialInv'
    BY <2>1, StaysInOrder
  <2>2. ASSUME Inv, [Next]_vars PROVE EdgeInv' /\ EdgeStays' /\ PlaceInv'
    BY <2>1, <2>2, StaysEdge, StaysPlaced
  <2>3. QED
    BY <2>1, <2>2
<1> DEFINE Step ==
      (/\ ~hurried /\ onCommit.place \notin {"none", "edge"} /\ onCommit' = Nothing
       /\ onAck' = NoAck /\ grab.does = "none")
      => IF Filling(current') /\ attached # "lost"
         THEN /\ pos' = Middle(output, geom') - output.x
              /\ attached = "yes"
              /\ backdrop' = IF current'.full THEN output.width ELSE 0
         ELSE pos' = restore.from + Inset /\ backdrop' = 0
<1>3. ASSUME Inv, [Next]_vars PROVE Step
  <2>1. SUFFICES ASSUME ~hurried, onCommit.place \notin {"none", "edge"},
                        onCommit' = Nothing, onAck' = NoAck, grab.does = "none"
                 PROVE  Settled
    BY DEF Settled
  <2>2. Sound /\ LastPlaces
    BY <1>3, <2>1 DEF EdgeInv, PlaceInv
  <2>3. PICK m : ReceiveCommit(m)
    BY <1>3, <2>1, <2>2, NothingPlace, OnlyCommits
  <2>4. Whole(onCommit)
    BY <1>3, <2>1 DEF Whole, TypeInv, ServerTyped, Doings
  <2>5. onAck = NoAck
    BY <2>1, <2>3 DEF ReceiveCommit
  <2>6. geom' \in Nat
    BY <1>2, <1>3 DEF TypeInv, ServerTyped
  <2>7. QED
    BY <1>3, <2>1, <2>2, <2>3, <2>4, <2>5, <2>6, PlacedSettles
<1>4. Inv /\ [Next]_vars => [Step]_vars
  BY <1>3
<1> HIDE DEF Inv
<1>5. Spec => []Inv
  BY <1>1, <1>2, PTL DEF Spec
<1>6. QED
  BY <1>4, <1>5, PTL DEF Spec, PlacedWhole
=============================================================================
