----------------------------- MODULE DataDevice -----------------------------
(***************************************************************************)
(* The selection and drags between applications: v_data_device_listener,   *)
(* t_data_offer and t_data_source of xade/client.h and client.cc, and what *)
(* vt/window.cc does to copy and to paste.  The compositor leaves both to  *)
(* wlroots, which is external.                                             *)
(*                                                                         *)
(* Requests reach the compositor at once, and events are queued.  An offer *)
(* is announced by the event that hands it over.  Each application has one *)
(* surface, and data is counted.                                           *)
(***************************************************************************)
EXTENDS Integers, Sequences, FiniteSets, SequencesExt

CONSTANTS
  Clients,
  Sizes,    \* Sizes[n] is the size of the n-th source, and there are no more
  Capacity, \* of a pipe
  MaxPipes, \* a bound on the pastes
  MaxQueue  \* a bound on the events on their way to a client

None == 0
Sources == 1..Len(Sizes)
Pipes   == 1..MaxPipes
Offers  == 1..Len(Sizes) + 2 \* known to a client at a time

ASSUME DataDeviceAssumption ==
  /\ Sizes \in Seq(Nat \ {0})
  /\ {Capacity, MaxPipes} \subseteq Nat \ {0} /\ MaxQueue \in Nat

VARIABLES
  selected,  \* the source of the selection
  drag,      \* the drag, or NoDrag
  pointer,   \* whose surface the pointer is in, if any
  focus,     \* the client with the keyboard
  stands,    \* what the offers stand for, by client, at the compositor
  toClient,  \* the events on their way
  made,      \* how many sources have been made
  owner,     \* who made a source
  refused,   \* those that wlroots did not select
  alive,     \* v_data_sources of all clients
  selection, \* v_selection
  dragged,   \* v_drag
  pointed,   \* v_pointer_focus is not null
  landed,    \* v_on_drag_drop has been called for v_drag
  pipes,     \* the pipes that were made, in order
  writers,   \* what a client writes to
  blocked    \* the pipe whose write has not returned

serverVars == <<selected, drag, pointer, focus, stands>>
sourceVars == <<made, owner, refused, alive>>
offerVars  == <<selection, dragged, pointed, landed>>
pipeVars   == <<pipes, writers, blocked>>
vars == <<serverVars, toClient, sourceVars, offerVars, pipeVars>>

NoDrag == [source |-> None, over |-> {}, accepted |-> FALSE]

-----------------------------------------------------------------------------
(* The events of wlroots, added to the queues q. *)
Event(type, of) == [type |-> type, of |-> of]
SendTo(q, c, type, of) == [q EXCEPT ![c] = Append(@, Event(type, of))]

Tell(q, s, type) == IF s = None THEN q ELSE SendTo(q, owner[s], type, s)

(* Events on their way bound what users may do: nothing more than to       *)
(* release a button, or to let the focus follow a key.                     *)
OnTheWay == MapThenSumSet(LAMBDA c : Len(toClient[c]), Clients)
KeysOnly == \A c \in Clients : {e.type : e \in ToSet(toClient[c])} \subseteq {"copy", "paste"}
Quiet == \A c \in Clients : toClient[c] = <<>>

(* An offer that c does not know. *)
Unknown(c, o) ==
  /\ o \in Offers \ {selection[c], dragged[c]}
  /\ stands[c][o] = None
  /\ \A k \in DOMAIN toClient[c] : toClient[c][k].of # o
                                   \/ toClient[c][k].type \notin {"enter", "selection"}
Fresh(c)    == \E o \in Offers : Unknown(c, o)
NewOffer(c) == CHOOSE o \in Offers : Unknown(c, o)

(* Its offers stand for nothing any more. *)
Inert(st, s) == [c \in Clients |-> [o \in Offers |-> IF st[c][o] = s THEN None ELSE st[c][o]]]

(* The client destroys an offer: if it was dragged and not finished, its   *)
(* source is cancelled.                                                    *)
Unfinished(c, o) == IF o # None /\ o = dragged[c] THEN stands[c][o] ELSE None

Destroy(c, o) ==
  LET s == Unfinished(c, o) IN
  /\ toClient' = Tell([toClient EXCEPT ![c] = Tail(@)], s, "cancelled")
  /\ stands' = IF o = None THEN stands ELSE [Inert(stands, s) EXCEPT ![c][o] = None]

-----------------------------------------------------------------------------
Init ==
  /\ selected = None /\ drag = NoDrag /\ pointer = {}
  /\ focus = CHOOSE c \in Clients : TRUE
  /\ stands = [c \in Clients |-> [o \in Offers |-> None]]
  /\ toClient = [c \in Clients |-> <<>>]
  /\ made = 0 /\ owner = <<>> /\ refused = {} /\ alive = {}
  /\ selection = [c \in Clients |-> None] /\ dragged = [c \in Clients |-> None]
  /\ pointed = [c \in Clients |-> FALSE] /\ landed = [c \in Clients |-> FALSE]
  /\ pipes = <<>> /\ writers = [c \in Clients |-> {}]
  /\ blocked = [c \in Clients |-> None]

(* seat_client_send_selection, to the client with the keyboard: what was   *)
(* offered before is no more.                                              *)
SelectionSent(q, c, s) ==
  /\ Fresh(c)
  /\ toClient' = SendTo(q, c, "selection", NewOffer(c))
  /\ stands' = [Inert(stands, selected) EXCEPT ![c][NewOffer(c)] = s]

(* The keyboard goes to another client. *)
FocusOn(c) ==
  /\ OnTheWay <= MaxQueue /\ KeysOnly /\ Len(pipes) < MaxPipes /\ focus # c /\ focus' = c
  /\ \/ /\ selected = None
        /\ toClient' = SendTo(toClient, c, "selection", None) /\ UNCHANGED stands
     \/ selected # None /\ SelectionSent(toClient, c, selected)
  /\ UNCHANGED <<selected, drag, pointer, sourceVars, offerVars, pipeVars>>

(* The keys to copy and to paste, while there are bounds left for it. *)
Press(type) ==
  /\ Quiet
  /\ type = "copy" => made < Len(Sizes)
  /\ type = "paste" => Len(pipes) < MaxPipes
  /\ toClient' = SendTo(toClient, focus, type, None)
  /\ UNCHANGED <<serverVars, sourceVars, offerVars, pipeVars>>

LeaveSent(q, left, type) ==
  IF left = {} THEN q ELSE SendTo(q, CHOOSE c \in left : TRUE, type, None)

(* The pointer enters the surface of a client, while nothing is dragged. *)
Point(c) ==
  /\ Quiet /\ drag = NoDrag /\ made < Len(Sizes) /\ pointer # {c} /\ pointer' = {c}
  /\ toClient' = SendTo(LeaveSent(toClient, pointer, "pointer_leave"), c, "pointer_enter", None)
  /\ UNCHANGED <<selected, drag, focus, stands, sourceVars, offerVars, pipeVars>>

(* What is dragged leaves, and comes over another client. *)
DragOver(c) ==
  /\ Quiet /\ drag.source # None /\ drag.over # {c} /\ Fresh(c)
  /\ drag' = [drag EXCEPT !.over = {c}, !.accepted = FALSE]
  /\ toClient' = SendTo(LeaveSent(toClient, drag.over, "leave"), c, "enter", NewOffer(c))
  /\ stands' = [d \in Clients |-> [o \in Offers |->
                  IF d = c /\ o = NewOffer(c) THEN drag.source
                  ELSE IF stands[d][o] = drag.source THEN None ELSE stands[d][o]]]
  /\ UNCHANGED <<selected, pointer, focus, sourceVars, offerVars, pipeVars>>

(* The button is released: over a client that accepts what is dragged, it  *)
(* is dropped.                                                             *)
Release ==
  /\ OnTheWay <= MaxQueue /\ drag.source # None /\ drag' = NoDrag
  /\ \/ /\ drag.accepted
        /\ \E c \in drag.over :
             toClient' = LeaveSent(SendTo(Tell(toClient, drag.source, "dropped"), c, "drop", None),
                                  drag.over, "leave")
        /\ UNCHANGED stands
     \/ /\ ~drag.accepted
        /\ toClient' = LeaveSent(Tell(toClient, drag.source, "cancelled"), drag.over, "leave")
        /\ stands' = Inert(stands, drag.source)
  /\ UNCHANGED <<selected, pointer, focus, sourceVars, offerVars, pipeVars>>

-----------------------------------------------------------------------------
(* What a client does with the next event, unless it is in a write. *)
Receives(c, type) ==
  /\ toClient[c] # <<>> /\ toClient[c][1].type = type /\ blocked[c] = None

Taken(c) == [toClient EXCEPT ![c] = Tail(@)]
Take(c) == toClient' = Taken(c) /\ UNCHANGED stands

ReceivePointer(c) ==
  /\ \/ Receives(c, "pointer_enter") /\ pointed' = [pointed EXCEPT ![c] = TRUE]
     \/ Receives(c, "pointer_leave") /\ pointed' = [pointed EXCEPT ![c] = FALSE]
  /\ Take(c)
  /\ UNCHANGED <<selected, drag, pointer, focus, sourceVars, selection, dragged, landed, pipeVars>>

ReceiveSelection(c) ==
  /\ Receives(c, "selection")
  /\ Destroy(c, selection[c])
  /\ selection' = [selection EXCEPT ![c] = toClient[c][1].of]
  /\ UNCHANGED <<selected, drag, pointer, focus, sourceVars, dragged, pointed, landed, pipeVars>>

(* A mutant: the offer that was there is not destroyed. *)
ReceiveEnterOver(c) ==
  /\ Receives(c, "enter") /\ Take(c)
  /\ pointed' = [pointed EXCEPT ![c] = TRUE]
  /\ dragged' = [dragged EXCEPT ![c] = toClient[c][1].of]
  /\ landed' = [landed EXCEPT ![c] = FALSE]
  /\ \/ UNCHANGED drag
     \/ /\ drag.over = {c} /\ stands[c][toClient[c][1].of] = drag.source
        /\ drag' = [drag EXCEPT !.accepted = TRUE]
  /\ UNCHANGED <<selected, pointer, focus, sourceVars, selection, pipeVars>>

(* v_on_drag_enter may accept it, while it is there. *)
ReceiveEnter(c) ==
  /\ Receives(c, "enter")
  /\ Destroy(c, dragged[c])
  /\ pointed' = [pointed EXCEPT ![c] = TRUE]
  /\ dragged' = [dragged EXCEPT ![c] = toClient[c][1].of]
  /\ landed' = [landed EXCEPT ![c] = FALSE]
  /\ \/ UNCHANGED drag
     \/ /\ drag.over = {c} /\ stands[c][toClient[c][1].of] = drag.source
        /\ drag' = [drag EXCEPT !.accepted = TRUE]
  /\ UNCHANGED <<selected, pointer, focus, sourceVars, selection, pipeVars>>

ReceiveLeave(c) ==
  /\ Receives(c, "leave")
  /\ \/ ~pointed[c] /\ Take(c) /\ UNCHANGED offerVars
     \/ /\ pointed[c]
        /\ Destroy(c, dragged[c])
        /\ pointed' = [pointed EXCEPT ![c] = FALSE]
        /\ dragged' = [dragged EXCEPT ![c] = None]
        /\ landed' = [landed EXCEPT ![c] = FALSE]
        /\ UNCHANGED selection
  /\ UNCHANGED <<selected, drag, pointer, focus, sourceVars, pipeVars>>

(* A mutant: v_pointer_focus stays. *)
ReceiveDropPointed(c) ==
  /\ Receives(c, "drop")
  /\ landed' = [landed EXCEPT ![c] = pointed[c]]
  /\ Take(c)
  /\ UNCHANGED <<selected, drag, pointer, focus, sourceVars, selection, dragged, pointed, pipeVars>>

ReceiveDrop(c) ==
  /\ Receives(c, "drop")
  /\ landed' = [landed EXCEPT ![c] = pointed[c]]
  /\ pointed' = [pointed EXCEPT ![c] = FALSE]
  /\ Take(c)
  /\ UNCHANGED <<selected, drag, pointer, focus, sourceVars, selection, dragged, pipeVars>>

-----------------------------------------------------------------------------
(* t_drag_offer::f_finish and f_cancel, some time after the drop. *)
EndDrop(c, type) ==
  LET s == stands[c][dragged[c]] IN
  /\ dragged[c] # None /\ landed[c] /\ blocked[c] = None
  /\ toClient' = Tell(toClient, s, type)
  /\ stands' = [Inert(stands, s) EXCEPT ![c][dragged[c]] = None]
  /\ dragged' = [dragged EXCEPT ![c] = None]
  /\ landed' = [landed EXCEPT ![c] = FALSE]
  /\ UNCHANGED <<selected, drag, pointer, focus, sourceVars, selection, pointed, pipeVars>>

(* t_surface::f_start_drag: the compositor starts it. *)
StartDrag(c) ==
  /\ Quiet /\ pointed[c] /\ blocked[c] = None /\ drag = NoDrag /\ made < Len(Sizes)
  /\ made' = made + 1 /\ owner' = Append(owner, c) /\ alive' = alive \cup {made'}
  /\ drag' = [NoDrag EXCEPT !.source = made']
  /\ pointer' = {} /\ toClient' = LeaveSent(toClient, pointer, "pointer_leave")
  /\ UNCHANGED <<selected, focus, stands, refused, offerVars, pipeVars>>

(* Ctrl+Insert: t_client::f_set_selection gives the source away.  wlroots  *)
(* may find the serial too old and ignore it.                              *)
ReceiveCopy(c) ==
  /\ Receives(c, "copy") /\ made < Len(Sizes)
  /\ made' = made + 1 /\ owner' = Append(owner, c) /\ alive' = alive \cup {made'}
  /\ \/ refused' = refused \cup {made'} /\ Take(c) /\ UNCHANGED selected
     \/ /\ selected' = made' /\ UNCHANGED refused
        /\ SelectionSent(Tell(Taken(c), selected, "cancelled"), focus, made')
  /\ UNCHANGED <<drag, pointer, focus, offerVars, pipeVars>>

(* t_data_offer::f_receive, for the selection or what was dropped. *)
Requested(q, c, o) ==
  LET s == stands[c][o] IN
  /\ pipes' = Append(pipes, [reader |-> c, source |-> s, held |-> 0, got |-> 0,
                             open |-> s # None, done |-> FALSE, spoilt |-> FALSE])
  /\ toClient' = IF s = None THEN q ELSE SendTo(q, owner[s], "send", Len(pipes'))

(* Shift+Insert. *)
ReceivePaste(c) ==
  /\ Receives(c, "paste")
  /\ \/ selection[c] # None /\ Len(pipes) < MaxPipes /\ Requested(Taken(c), c, selection[c])
     \/ /\ selection[c] = None \/ Len(pipes) = MaxPipes
        /\ toClient' = Taken(c) /\ UNCHANGED pipes
  /\ UNCHANGED <<serverVars, sourceVars, offerVars, writers, blocked>>

TakeDropped(c) ==
  /\ landed[c] /\ dragged[c] # None /\ blocked[c] = None /\ Len(pipes) < MaxPipes
  /\ Requested(toClient, c, dragged[c])
  /\ UNCHANGED <<serverVars, sourceVars, offerVars, writers, blocked>>

(* The listeners of a data source.  The data is the source's. *)
ReceiveSend(c) ==
  /\ Receives(c, "send")
  /\ LET p == toClient[c][1].of IN
     writers' = [writers EXCEPT ![c] =
                   @ \cup {[pipe |-> p, source |-> pipes[p].source, left |-> Sizes[pipes[p].source]]}]
  /\ Take(c)
  /\ UNCHANGED <<selected, drag, pointer, focus, sourceVars, offerVars, pipes, blocked>>

(* A mutant: it deletes the source as the others do. *)
ReceiveDroppedDeleting(c) ==
  /\ Receives(c, "dropped") /\ Take(c)
  /\ alive' = alive \ {toClient[c][1].of}
  /\ UNCHANGED <<selected, drag, pointer, focus, made, owner, refused, offerVars, pipeVars>>

ReceiveDropped(c) ==
  /\ Receives(c, "dropped") /\ Take(c)
  /\ UNCHANGED <<selected, drag, pointer, focus, sourceVars, offerVars, pipeVars>>

ReceiveEnd(c) ==
  /\ Receives(c, "cancelled") \/ Receives(c, "finished")
  /\ alive' = alive \ {toClient[c][1].of}
  /\ Take(c)
  /\ UNCHANGED <<selected, drag, pointer, focus, made, owner, refused, offerVars, pipeVars>>

-----------------------------------------------------------------------------
(* A mutant: the pipe is left open when all is written. *)
WriteOpen(c) ==
  \E w \in writers[c] :
    /\ blocked[c] \in {None, w.pipe} /\ pipes[w.pipe].held < Capacity
    /\ pipes' = [pipes EXCEPT ![w.pipe].held = @ + 1,
                              ![w.pipe].spoilt = @ \/ w.source \notin alive]
    /\ writers' = [writers EXCEPT ![c] = (@ \ {w}) \cup
                     IF w.left > 1 THEN {[w EXCEPT !.left = @ - 1]} ELSE {}]
    /\ blocked' = [blocked EXCEPT ![c] = IF w.left > 1 THEN w.pipe ELSE None]
    /\ UNCHANGED <<serverVars, toClient, sourceVars, offerVars>>

(* A pipe can be written to: write is called with all that is left, and    *)
(* returns when all of it has been put into the pipe.                      *)
Write(c) ==
  \E w \in writers[c] :
    /\ blocked[c] \in {None, w.pipe} /\ pipes[w.pipe].held < Capacity
    /\ pipes' = [pipes EXCEPT ![w.pipe].held = @ + 1,
                              ![w.pipe].spoilt = @ \/ w.source \notin alive,
                              ![w.pipe].open = w.left > 1]
    /\ writers' = [writers EXCEPT ![c] = (@ \ {w}) \cup
                     IF w.left > 1 THEN {[w EXCEPT !.left = @ - 1]} ELSE {}]
    /\ blocked' = [blocked EXCEPT ![c] = IF w.left > 1 THEN w.pipe ELSE None]
    /\ UNCHANGED <<serverVars, toClient, sourceVars, offerVars>>

(* A mutant: the end is seen before what is there. *)
ReadEndFirst(p) ==
  /\ p \in DOMAIN pipes /\ ~pipes[p].done /\ blocked[pipes[p].reader] = None
  /\ \/ /\ pipes[p].held > 0 /\ pipes[p].open
        /\ pipes' = [pipes EXCEPT ![p].got = @ + pipes[p].held, ![p].held = 0]
     \/ ~pipes[p].open /\ pipes' = [pipes EXCEPT ![p].done = TRUE]
  /\ UNCHANGED <<serverVars, toClient, sourceVars, offerVars, writers, blocked>>

(* The poll of f_receive: what is there first, and the end then. *)
Read(p) ==
  /\ p \in DOMAIN pipes /\ ~pipes[p].done /\ blocked[pipes[p].reader] = None
  /\ \/ /\ pipes[p].held > 0
        /\ pipes' = [pipes EXCEPT ![p].got = @ + pipes[p].held, ![p].held = 0]
     \/ /\ pipes[p].held = 0 /\ ~pipes[p].open
        /\ pipes' = [pipes EXCEPT ![p].done = TRUE]
  /\ UNCHANGED <<serverVars, toClient, sourceVars, offerVars, writers, blocked>>

-----------------------------------------------------------------------------
Receive(c) ==
  \/ ReceivePointer(c) \/ ReceiveSelection(c)
  \/ ReceiveEnter(c) \/ ReceiveLeave(c) \/ ReceiveDrop(c)
  \/ ReceiveCopy(c) \/ ReceivePaste(c)
  \/ ReceiveSend(c) \/ ReceiveDropped(c) \/ ReceiveEnd(c)

Next ==
  \/ \E c \in Clients :
       \/ FocusOn(c) \/ Point(c) \/ DragOver(c)
       \/ Receive(c) \/ StartDrag(c) \/ TakeDropped(c)
       \/ \E type \in {"finished", "cancelled"} : EndDrop(c, type)
       \/ Write(c)
  \/ \E type \in {"copy", "paste"} : Press(type)
  \/ Release
  \/ \E p \in Pipes : Read(p)

(* The event loop of a client serves the connection and its pipes. *)
Fairness ==
  /\ \A c \in Clients : WF_vars(Receive(c)) /\ WF_vars(Write(c))
  /\ \A p \in Pipes : WF_vars(Read(p))

Spec == Init /\ [][Next]_vars /\ Fairness

-----------------------------------------------------------------------------
Queued(c, types) == {k \in DOMAIN toClient[c] : toClient[c][k].type \in types}
Ending(s) == {k \in Queued(owner[s], {"cancelled", "finished"}) : toClient[owner[s]][k].of = s}

(* A source belongs to nobody once it is given away: its listeners delete  *)
(* it.  Until then the compositor may offer it, and once it is deleted no  *)
(* event about it is on its way, and it is deleted once.                   *)
SourcesLive ==
  /\ {selected, drag.source} \ {None} \subseteq alive
  /\ \A c \in Clients, o \in Offers : stands[c][o] # None => stands[c][o] \in alive
  /\ \A s \in 1..made : Cardinality(Ending(s)) <= IF s \in alive THEN 1 ELSE 0
  /\ \A c \in Clients : \A k \in Queued(c, {"dropped"}) : toClient[c][k].of \in alive
  /\ \A c \in Clients : \A k \in Queued(c, {"send"}) :
       pipes[toClient[c][k].of].source \in alive

(* A source that is not deleted is selected, dragged, dropped where it can *)
(* still be finished, or about to be deleted: none is left behind but      *)
(* those that were refused.                                                *)
SourcesEnd ==
  \A s \in alive \ refused :
    \/ s \in {selected, drag.source} \/ Ending(s) # {}
    \/ \E c \in Clients, o \in Offers :
         stands[c][o] = s /\ o = dragged[c] /\ (landed[c] \/ Queued(c, {"drop"}) # {})

(* A pipe that was read to its end gave all of the data, though the end    *)
(* and the last data are seen together, or nothing when the offer stood    *)
(* for nothing.  It is spoilt when its source was deleted on the way.      *)
PasteWhole ==
  \A p \in DOMAIN pipes :
    pipes[p].done /\ ~pipes[p].spoilt =>
      pipes[p].got = IF pipes[p].source = None THEN 0 ELSE Sizes[pipes[p].source]

(* What was dropped stays after the leave that follows the drop, and until *)
(* the application is done with it: only another drag takes it away.       *)
DropKept ==
  [][\A c \in Clients :
       landed[c] /\ ~landed'[c] => ~Receive(c) \/ ReceiveEnter(c)]_vars

(* Every paste ends, unless a client writes more than a pipe takes to a    *)
(* pipe that it is to read itself.                                         *)
WritesToItself ==
  \E c \in Clients : /\ blocked[c] # None /\ pipes[blocked[c]].reader = c
                     /\ pipes[blocked[c]].held = Capacity
PastesEnd ==
  \A p \in Pipes :
    p \in DOMAIN pipes ~> WritesToItself \/ (p \in DOMAIN pipes /\ pipes[p].done)

=============================================================================
