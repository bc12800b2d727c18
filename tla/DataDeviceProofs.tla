-------------------------- MODULE DataDeviceProofs --------------------------
(***************************************************************************)
(* Copy, paste, drag and drop, for any number of clients, sources, pipes   *)
(* and events on their way, and any capacity of a pipe.                    *)
(*                                                                         *)
(* A paste gets the whole of its source (PasteCorrect): what is in a pipe, *)
(* what has been read from it and what is left to be written to it are all *)
(* of the source, as a pipe has one writer, being sent once (OneSender).   *)
(*                                                                         *)
(* An event about a source finds it (SourcesCorrect), as its end is sent   *)
(* last: only of what nothing stands for any longer.  This needs that what *)
(* is dragged is offered at one place, where the moves that are on their   *)
(* way come in order (DragInv); DropCorrect follows too.  That a source    *)
(* whose end is not on its way is used or waits for its end (EndsCorrect)  *)
(* is EndsInv.                                                             *)
(***************************************************************************)
EXTENDS DataDevice, FiniteSetTheorems, TLAPS

Types ==
  {"copy", "paste", "pointer_enter", "pointer_leave", "enter", "leave", "drop",
   "selection", "send", "dropped", "cancelled", "finished"}
Events == [type : Types, of : Nat]
Queues == [Clients -> Seq(Events)]

PipeRecords ==
  [reader : Clients, source : Sources \cup {None}, held : Nat, got : Nat,
   open : BOOLEAN, done : BOOLEAN, spoilt : BOOLEAN]
WriterRecords == [pipe : Nat, source : Sources, left : Nat]

TypeInv ==
  /\ selected \in Sources \cup {None} /\ made \in Nat
  /\ drag \in [source : Sources \cup {None}, over : SUBSET Clients, accepted : BOOLEAN]
  /\ stands \in [Clients -> [Offers -> Sources \cup {None}]]
  /\ selection \in [Clients -> Offers \cup {None}]
  /\ dragged \in [Clients -> Offers \cup {None}]
  /\ toClient \in Queues
  /\ pipes \in Seq(PipeRecords)
  /\ writers \in [Clients -> SUBSET WriterRecords]

IsOffer(e) == e.type \in {"selection", "enter"} => e.of \in Offers \cup {None}

Sends(c, k) == k \in DOMAIN toClient[c] /\ toClient[c][k].type = "send"

Expected(s) == IF s = None THEN 0 ELSE Sizes[s]

OffersTyped == \A c \in Clients : \A k \in DOMAIN toClient[c] : IsOffer(toClient[c][k])

SendsFresh ==
  \A c \in Clients, k \in Nat : Sends(c, k) =>
    LET p == toClient[c][k].of IN
    /\ p \in DOMAIN pipes /\ pipes[p].source \in Sources
    /\ pipes[p].open /\ pipes[p].held = 0 /\ pipes[p].got = 0 /\ ~pipes[p].done

WritersCount ==
  \A c \in Clients : \A w \in writers[c] :
    /\ w.pipe \in DOMAIN pipes /\ pipes[w.pipe].source = w.source
    /\ pipes[w.pipe].open /\ ~pipes[w.pipe].done /\ w.left > 0
    /\ pipes[w.pipe].got + pipes[w.pipe].held + w.left = Sizes[w.source]

ClosedIsWhole ==
  \A p \in DOMAIN pipes :
    /\ ~pipes[p].open => pipes[p].got + pipes[p].held = Expected(pipes[p].source)
    /\ pipes[p].done => ~pipes[p].open /\ pipes[p].held = 0

OneSender ==
  \A c, d \in Clients :
    /\ \A j, k \in Nat :
         Sends(c, j) /\ Sends(d, k) /\ toClient[c][j].of = toClient[d][k].of => c = d /\ j = k
    /\ \A j \in Nat : \A w \in writers[d] : Sends(c, j) => toClient[c][j].of # w.pipe
    /\ \A v \in writers[c], w \in writers[d] : v.pipe = w.pipe => c = d /\ v = w

PasteInv == OffersTyped /\ SendsFresh /\ WritersCount /\ ClosedIsWhole /\ OneSender

Inv == TypeInv /\ PasteInv

-----------------------------------------------------------------------------
(* Nothing in r is new to q but events that are not requests to write.     *)
Grows(q, r) ==
  \A c \in Clients : \E d \in Nat : \A k \in DOMAIN r[c] :
    \/ k + d \in DOMAIN q[c] /\ r[c][k] = q[c][k + d]
    \/ r[c][k].type # "send" /\ IsOffer(r[c][k])

(* What grows and grows again grows. *)
LEMMA GrowsOn ==
  ASSUME NEW q \in Queues, NEW r \in Queues, NEW s \in Queues, Grows(q, r), Grows(r, s)
  PROVE  Grows(q, s)
<1>1. SUFFICES ASSUME NEW c \in Clients
               PROVE  \E d \in Nat : \A k \in DOMAIN s[c] :
                        \/ k + d \in DOMAIN q[c] /\ s[c][k] = q[c][k + d]
                        \/ s[c][k].type # "send" /\ IsOffer(s[c][k])
  BY DEF Grows
<1>2. PICK d \in Nat : \A k \in DOMAIN r[c] :
        \/ k + d \in DOMAIN q[c] /\ r[c][k] = q[c][k + d]
        \/ r[c][k].type # "send" /\ IsOffer(r[c][k])
  BY DEF Grows
<1>3. PICK e \in Nat : \A k \in DOMAIN s[c] :
        \/ k + e \in DOMAIN r[c] /\ s[c][k] = r[c][k + e]
        \/ s[c][k].type # "send" /\ IsOffer(s[c][k])
  BY DEF Grows
<1>4. \A k \in DOMAIN s[c] : (k + e) + d = k + (e + d)
  BY DEF Queues
<1>5. e + d \in Nat
  OBVIOUS
<1>6. QED  BY <1>2, <1>3, <1>4, <1>5

(* An event is sent. *)
LEMMA SendGrows ==
  ASSUME NEW q \in Queues, NEW c, NEW type \in Types \ {"send"}, NEW of \in Nat,
         IsOffer(Event(type, of))
  PROVE  SendTo(q, c, type, of) \in Queues /\ Grows(q, SendTo(q, c, type, of))
<1> DEFINE e == Event(type, of)
           r == SendTo(q, c, type, of)
<1>1. e \in Events /\ e.type # "send" /\ IsOffer(e)
  BY DEF Event, Events
<1>2. r \in Queues /\ \A d \in Clients : r[d] = q[d] \/ r[d] = Append(q[d], e)
  <2>1. q \in [Clients -> Seq(Events)] /\ r = [q EXCEPT ![c] = Append(@, e)]
    BY DEF Queues, SendTo
  <2>2. CASE c \notin Clients
    BY <2>1, <2>2 DEF Queues
  <2>3. CASE c \in Clients
    <3>1. Append(q[c], e) \in Seq(Events)
      BY <1>1, <2>1, <2>3
    <3>2. QED  BY <2>1, <2>3, <3>1 DEF Queues
  <2>4. QED  BY <2>2, <2>3
<1>3. ASSUME NEW d \in Clients, NEW k \in DOMAIN r[d]
      PROVE  \/ k + 0 \in DOMAIN q[d] /\ r[d][k] = q[d][k + 0]
             \/ r[d][k].type # "send" /\ IsOffer(r[d][k])
  <2>1. q[d] \in Seq(Events)
    BY DEF Queues
  <2>2. CASE r[d] = q[d]
    BY <2>1, <2>2, k + 0 = k
  <2>3. CASE r[d] = Append(q[d], e)
    <3>1. k \in 1..Len(q[d]) + 1
      BY <2>1, <2>3, <1>1
    <3>2. CASE k = Len(q[d]) + 1
      BY <3>2, <2>1, <2>3, <1>1
    <3>3. CASE k \in 1..Len(q[d])
      BY <3>3, <2>1, <2>3, <1>1
    <3>4. QED  BY <3>1, <3>2, <3>3, <2>1
  <2>4. QED  BY <1>2, <2>2, <2>3
<1>4. QED  BY <1>2, <1>3 DEF Grows

(* An event is taken. *)
LEMMA TailGrows ==
  ASSUME NEW q \in Queues, NEW c \in Clients, q[c] # <<>>
  PROVE  LET r == [q EXCEPT ![c] = Tail(@)] IN r \in Queues /\ Grows(q, r)
<1> DEFINE r == [q EXCEPT ![c] = Tail(@)]
<1>1. q[c] \in Seq(Events)
  BY DEF Queues
<1>2. /\ Tail(q[c]) \in Seq(Events)
      /\ \A k \in DOMAIN Tail(q[c]) : k + 1 \in DOMAIN q[c] /\ Tail(q[c])[k] = q[c][k + 1]
  BY <1>1
<1>3. r \in Queues
  BY <1>2 DEF Queues
<1>4. ASSUME NEW d \in Clients
      PROVE  \E n \in Nat : \A k \in DOMAIN r[d] : k + n \in DOMAIN q[d] /\ r[d][k] = q[d][k + n]
  <2>1. CASE d = c
    BY <2>1, <1>2 DEF Queues
  <2>2. CASE d # c
    <3>1. r[d] = q[d] /\ q[d] \in Seq(Events)
      BY <2>2 DEF Queues
    <3>2. \A k \in DOMAIN q[d] : k + 0 = k
      BY <3>1
    <3>3. QED  BY <3>1, <3>2
  <2>3. QED  BY <2>1, <2>2
<1>5. QED  BY <1>3, <1>4 DEF Grows

(* The owner of a source is told something, and the client that is left. *)
LEMMA TellGrows ==
  ASSUME NEW q \in Queues, NEW s \in Sources \cup {None},
         NEW type \in {"dropped", "cancelled", "finished"}
  PROVE  Tell(q, s, type) \in Queues /\ Grows(q, Tell(q, s, type))
<1>1. Len(Sizes) \in Nat
  BY DataDeviceAssumption
<1>2. s \in Nat
  BY <1>1 DEF Sources, None
<1>3. CASE s = None
  <2>1. \A c \in Clients : \A k \in DOMAIN q[c] : k + 0 = k
    BY DEF Queues
  <2>2. QED  BY <1>3, <2>1 DEF Tell, Grows
<1>4. CASE s # None
  <2>1. type \in Types \ {"send"}
    BY DEF Types
  <2>2. type \notin {"selection", "enter"}
    OBVIOUS
  <2>3. IsOffer(Event(type, s))
    BY <2>2 DEF IsOffer, Event
  <2>4. QED  BY <1>2, <1>4, <2>1, <2>3, SendGrows DEF Tell
<1>5. QED  BY <1>3, <1>4

(* The same of the client that is left. *)
LEMMA LeaveGrows ==
  ASSUME NEW q \in Queues, NEW left, NEW type \in {"leave", "pointer_leave"}
  PROVE  LeaveSent(q, left, type) \in Queues /\ Grows(q, LeaveSent(q, left, type))
<1>1. CASE left = {}
  <2>1. \A c \in Clients : \A k \in DOMAIN q[c] : k + 0 = k
    BY DEF Queues
  <2>2. QED  BY <1>1, <2>1 DEF LeaveSent, Grows
<1>2. CASE left # {}
  <2>1. type \in Types \ {"send"}
    BY DEF Types
  <2>2. type \notin {"selection", "enter"}
    OBVIOUS
  <2>3. IsOffer(Event(type, None)) /\ None \in Nat
    BY <2>2 DEF IsOffer, Event, None
  <2>4. QED  BY <1>2, <2>1, <2>3, SendGrows DEF LeaveSent
<1>3. QED  BY <1>1, <1>2

(* Offers are of this type, and an unused one is an offer. *)
LEMMA OfferFacts ==
  /\ Offers \cup {None} \subseteq Nat
  /\ \A c : Fresh(c) => NewOffer(c) \in Offers /\ NewOffer(c) # None
<1>1. Len(Sizes) \in Nat
  BY DataDeviceAssumption
<1>2. Offers \cup {None} \subseteq Nat /\ None \notin Offers
  BY <1>1 DEF Offers, None
<1>3. ASSUME NEW c, Fresh(c) PROVE NewOffer(c) \in Offers
  <2>1. \E o \in Offers : Unknown(c, o)
    BY <1>3 DEF Fresh
  <2>2. QED  BY <2>1 DEF NewOffer
<1>4. QED  BY <1>2, <1>3

(* An offer stands for a source or for nothing, also once it is inert.     *)
LEMMA InertTyped ==
  ASSUME NEW st \in [Clients -> [Offers -> Sources \cup {None}]], NEW s
  PROVE  Inert(st, s) \in [Clients -> [Offers -> Sources \cup {None}]]
BY DEF Inert

-----------------------------------------------------------------------------
(* What each step that leaves the pipes alone does to the events and to    *)
(* what is offered.                                                        *)
Keeps ==
  /\ toClient' \in Queues /\ Grows(toClient, toClient')
  /\ stands' \in [Clients -> [Offers -> Sources \cup {None}]]

(* The selection is sent. *)
LEMMA SelectionSentKeeps ==
  ASSUME TypeInv, NEW q \in Queues, Grows(toClient, q), NEW c, NEW s \in Sources \cup {None},
         SelectionSent(q, c, s)
  PROVE  Keeps
<1>1. NewOffer(c) \in Offers /\ NewOffer(c) \in Nat
  BY OfferFacts DEF SelectionSent
<1>2. IsOffer(Event("selection", NewOffer(c)))
  BY <1>1 DEF IsOffer, Event
<1>3. toClient' = SendTo(q, c, "selection", NewOffer(c))
  BY DEF SelectionSent
<1>4. "selection" \in Types \ {"send"}
  BY DEF Types
<1>5. toClient' \in Queues /\ Grows(q, toClient')
  BY <1>1, <1>2, <1>3, <1>4, SendGrows
<1>6. toClient \in Queues
  BY DEF TypeInv
<1>7. Grows(toClient, toClient')
  BY <1>5, <1>6, GrowsOn
<1>8. Inert(stands, selected) \in [Clients -> [Offers -> Sources \cup {None}]]
  BY InertTyped DEF TypeInv
<1>9. stands' \in [Clients -> [Offers -> Sources \cup {None}]]
  BY <1>1, <1>8 DEF SelectionSent
<1>10. QED  BY <1>5, <1>7, <1>9 DEF Keeps

(* An event without an argument is sent, after others. *)
LEMMA PlainGrows ==
  ASSUME NEW q \in Queues, NEW r \in Queues, Grows(q, r), NEW c,
         NEW type \in Types \ {"send", "selection", "enter"}
  PROVE  SendTo(r, c, type, None) \in Queues /\ Grows(q, SendTo(r, c, type, None))
<1>1. IsOffer(Event(type, None)) /\ None \in Nat
  BY DEF IsOffer, Event, None
<1>2. SendTo(r, c, type, None) \in Queues /\ Grows(r, SendTo(r, c, type, None))
  BY <1>1, SendGrows
<1>3. QED  BY <1>2, GrowsOn

(* Nothing new is nothing new. *)
LEMMA GrowsSame == ASSUME NEW q \in Queues PROVE Grows(q, q)
<1>1. \A c \in Clients : \A k \in DOMAIN q[c] : k + 0 = k
  BY DEF Queues
<1>2. QED  BY <1>1 DEF Grows

(* An offer is destroyed with the event that replaces it. *)
LEMMA DestroyKeeps ==
  ASSUME TypeInv, NEW c \in Clients, toClient[c] # <<>>, NEW o \in Offers \cup {None},
         Destroy(c, o)
  PROVE  Keeps
<1> DEFINE s == Unfinished(c, o)
           q == [toClient EXCEPT ![c] = Tail(@)]
<1>1. s \in Sources \cup {None}
  BY OfferFacts DEF Unfinished, TypeInv
<1>2. toClient \in Queues /\ q \in Queues /\ Grows(toClient, q)
  BY TailGrows DEF TypeInv
<1>3. toClient' = Tell(q, s, "cancelled")
  BY DEF Destroy
<1>4. toClient' \in Queues /\ Grows(q, toClient')
  BY <1>1, <1>2, <1>3, TellGrows
<1>5. Grows(toClient, toClient')
  BY <1>2, <1>4, GrowsOn
<1>6. Inert(stands, s) \in [Clients -> [Offers -> Sources \cup {None}]]
  BY InertTyped DEF TypeInv
<1>7. stands' = IF o = None THEN stands ELSE [Inert(stands, s) EXCEPT ![c][o] = None]
  BY DEF Destroy
<1>8. stands' \in [Clients -> [Offers -> Sources \cup {None}]]
  BY <1>6, <1>7 DEF TypeInv
<1>9. QED  BY <1>4, <1>5, <1>8 DEF Keeps

(* An event is taken and nothing else is done with it. *)
LEMMA TakeKeeps ==
  ASSUME TypeInv, NEW c \in Clients, toClient[c] # <<>>, Take(c)
  PROVE  Keeps
BY TailGrows DEF TypeInv, Take, Taken, Keeps

-----------------------------------------------------------------------------
(* The steps that leave the pipes alone, one by one. *)
Quietly == TypeInv' /\ Keeps /\ UNCHANGED <<pipes, writers>>

(* What TypeInv says of the state after such a step, but for what it keeps.*)
LEMMA QuietTypes ==
  ASSUME TypeInv, Keeps, UNCHANGED <<pipes, writers>>,
         selected' \in Sources \cup {None}, made' \in Nat,
         drag' \in [source : Sources \cup {None}, over : SUBSET Clients, accepted : BOOLEAN],
         selection' \in [Clients -> Offers \cup {None}],
         dragged' \in [Clients -> Offers \cup {None}]
  PROVE  Quietly
BY DEF TypeInv, Keeps, Quietly

(* The keyboard focus moves. *)
LEMMA FocusOnQuiet == ASSUME TypeInv, NEW c \in Clients, FocusOn(c) PROVE Quietly
<1>1. UNCHANGED <<selected, made, drag, selection, dragged, pipes, writers>>
  BY DEF FocusOn, sourceVars, offerVars, pipeVars
<1>2. toClient \in Queues /\ Grows(toClient, toClient) /\ selected \in Sources \cup {None}
  BY GrowsSame DEF TypeInv
<1>3. ASSUME toClient' = SendTo(toClient, c, "selection", None), UNCHANGED stands
      PROVE  Keeps
  <2>1. "selection" \in Types \ {"send"} /\ None \in Nat
    BY DEF Types, None
  <2>2. IsOffer(Event("selection", None))
    BY DEF IsOffer, Event
  <2>3. QED  BY <1>2, <1>3, <2>1, <2>2, SendGrows DEF Keeps, TypeInv
<1>4. ASSUME SelectionSent(toClient, c, selected) PROVE Keeps
  BY <1>2, <1>4, SelectionSentKeeps
<1>5. Keeps
  BY <1>3, <1>4 DEF FocusOn
<1>6. QED  BY <1>1, <1>5, QuietTypes DEF TypeInv

(* A key is pressed. *)
LEMMA PressQuiet == ASSUME TypeInv, NEW type \in {"copy", "paste"}, Press(type) PROVE Quietly
<1>1. UNCHANGED <<selected, made, drag, stands, selection, dragged, pipes, writers>>
  BY DEF Press, serverVars, sourceVars, offerVars, pipeVars
<1>2. toClient \in Queues /\ Grows(toClient, toClient)
  BY GrowsSame DEF TypeInv
<1>3. type \in Types \ {"send", "selection", "enter"}
  BY DEF Types
<1>4. toClient' = SendTo(toClient, focus, type, None)
  BY DEF Press
<1>5. toClient' \in Queues /\ Grows(toClient, toClient')
  BY <1>2, <1>3, <1>4, PlainGrows
<1>6. Keeps
  BY <1>1, <1>5 DEF Keeps, TypeInv
<1>7. QED  BY <1>1, <1>6, QuietTypes DEF TypeInv

(* The pointer moves. *)
LEMMA PointQuiet == ASSUME TypeInv, NEW c \in Clients, Point(c) PROVE Quietly
<1>1. UNCHANGED <<selected, made, drag, stands, selection, dragged, pipes, writers>>
  BY DEF Point, sourceVars, offerVars, pipeVars
<1> DEFINE q == LeaveSent(toClient, pointer, "pointer_leave")
<1>2. toClient \in Queues /\ q \in Queues /\ Grows(toClient, q)
  BY LeaveGrows DEF TypeInv
<1>3. "pointer_enter" \in Types \ {"send", "selection", "enter"}
  BY DEF Types
<1>4. toClient' = SendTo(q, c, "pointer_enter", None)
  BY DEF Point
<1>5. toClient' \in Queues /\ Grows(toClient, toClient')
  BY <1>2, <1>3, <1>4, PlainGrows
<1>6. Keeps
  BY <1>1, <1>5 DEF Keeps, TypeInv
<1>7. QED  BY <1>1, <1>6, QuietTypes DEF TypeInv

(* What is dragged comes over a client. *)
LEMMA DragOverQuiet == ASSUME TypeInv, NEW c \in Clients, DragOver(c) PROVE Quietly
<1>1. UNCHANGED <<selected, made, selection, dragged, pipes, writers>>
  BY DEF DragOver, sourceVars, offerVars, pipeVars
<1> DEFINE q == LeaveSent(toClient, drag.over, "leave")
           o == NewOffer(c)
<1>2. toClient \in Queues /\ q \in Queues /\ Grows(toClient, q)
  BY LeaveGrows DEF TypeInv
<1>3. o \in Offers /\ o \in Nat
  BY OfferFacts DEF DragOver
<1>4. "enter" \in Types \ {"send"} /\ IsOffer(Event("enter", o))
  BY <1>3 DEF Types, IsOffer, Event
<1>5. toClient' = SendTo(q, c, "enter", o)
  BY DEF DragOver
<1>6. toClient' \in Queues /\ Grows(q, toClient')
  BY <1>2, <1>3, <1>4, <1>5, SendGrows
<1>7. Grows(toClient, toClient')
  BY <1>2, <1>6, GrowsOn
<1>8. stands' \in [Clients -> [Offers -> Sources \cup {None}]]
  BY DEF DragOver, TypeInv
<1>9. drag' \in [source : Sources \cup {None}, over : SUBSET Clients, accepted : BOOLEAN]
  BY DEF DragOver, TypeInv
<1>10. Keeps
  BY <1>6, <1>7, <1>8 DEF Keeps
<1>11. QED  BY <1>1, <1>9, <1>10, QuietTypes DEF TypeInv

(* The button is released. *)
LEMMA ReleaseQuiet == ASSUME TypeInv, Release PROVE Quietly
<1>1. UNCHANGED <<selected, made, selection, dragged, pipes, writers>>
  BY DEF Release, sourceVars, offerVars, pipeVars
<1>2. toClient \in Queues /\ drag.source \in Sources \cup {None}
  BY DEF TypeInv
<1>3. drag' \in [source : Sources \cup {None}, over : SUBSET Clients, accepted : BOOLEAN]
  BY DEF Release, NoDrag
<1>4. ASSUME NEW c \in drag.over, UNCHANGED stands,
             toClient' = LeaveSent(SendTo(Tell(toClient, drag.source, "dropped"), c, "drop", None),
                                   drag.over, "leave")
      PROVE  Keeps
  <2> DEFINE q == Tell(toClient, drag.source, "dropped")
             r == SendTo(q, c, "drop", None)
  <2>1. q \in Queues /\ Grows(toClient, q)
    BY <1>2, TellGrows
  <2>2. "drop" \in Types \ {"send", "selection", "enter"}
    BY DEF Types
  <2>3. r \in Queues /\ Grows(toClient, r)
    BY <1>2, <2>1, <2>2, PlainGrows
  <2>4. toClient' \in Queues /\ Grows(r, toClient')
    BY <1>4, <2>3, LeaveGrows
  <2>5. Grows(toClient, toClient')
    BY <1>2, <2>3, <2>4, GrowsOn
  <2>6. QED  BY <1>4, <2>4, <2>5 DEF Keeps, TypeInv
<1>5. ASSUME toClient' = LeaveSent(Tell(toClient, drag.source, "cancelled"), drag.over, "leave"),
             stands' = Inert(stands, drag.source)
      PROVE  Keeps
  <2> DEFINE q == Tell(toClient, drag.source, "cancelled")
  <2>1. q \in Queues /\ Grows(toClient, q)
    BY <1>2, TellGrows
  <2>2. toClient' \in Queues /\ Grows(q, toClient')
    BY <1>5, <2>1, LeaveGrows
  <2>3. Grows(toClient, toClient')
    BY <1>2, <2>1, <2>2, GrowsOn
  <2>4. QED  BY <1>5, <2>2, <2>3, InertTyped DEF Keeps, TypeInv
<1>6. Keeps
  BY <1>4, <1>5 DEF Release
<1>7. QED  BY <1>1, <1>3, <1>6, QuietTypes DEF TypeInv

(* An event of the pointer comes. *)
LEMMA ReceivePointerQuiet == ASSUME TypeInv, NEW c \in Clients, ReceivePointer(c) PROVE Quietly
<1>1. UNCHANGED <<selected, made, drag, selection, dragged, pipes, writers>>
  BY DEF ReceivePointer, sourceVars, pipeVars
<1>2. Keeps
  BY TakeKeeps DEF ReceivePointer, Receives
<1>3. QED  BY <1>1, <1>2, QuietTypes DEF TypeInv

(* What an event gives away is an offer. *)
LEMMA HeadIsOffer ==
  ASSUME TypeInv, OffersTyped, NEW c \in Clients, NEW type \in {"selection", "enter"},
         Receives(c, type)
  PROVE  toClient[c][1].of \in Offers \cup {None}
<1>1. toClient[c] \in Seq(Events) /\ toClient[c] # <<>>
  BY DEF TypeInv, Queues, Receives
<1>2. 1 \in DOMAIN toClient[c]
  BY <1>1
<1>3. QED  BY <1>2 DEF OffersTyped, IsOffer, Receives

(* The selection comes. *)
LEMMA ReceiveSelectionQuiet ==
  ASSUME TypeInv, OffersTyped, NEW c \in Clients, ReceiveSelection(c)
  PROVE  Quietly
<1>1. UNCHANGED <<selected, made, drag, dragged, pipes, writers>>
  BY DEF ReceiveSelection, sourceVars, pipeVars
<1>2. toClient[c][1].of \in Offers \cup {None}
  BY HeadIsOffer DEF ReceiveSelection
<1>3. selection' \in [Clients -> Offers \cup {None}]
  BY <1>2 DEF ReceiveSelection, TypeInv
<1>4. selection[c] \in Offers \cup {None}
  BY DEF TypeInv
<1>5. Keeps
  BY <1>4, DestroyKeeps DEF ReceiveSelection, Receives
<1>6. QED  BY <1>1, <1>3, <1>5, QuietTypes DEF TypeInv

(* What is dragged comes. *)
LEMMA ReceiveEnterQuiet ==
  ASSUME TypeInv, OffersTyped, NEW c \in Clients, ReceiveEnter(c)
  PROVE  Quietly
<1>1. UNCHANGED <<selected, made, selection, pipes, writers>>
  BY DEF ReceiveEnter, sourceVars, pipeVars
<1>2. toClient[c][1].of \in Offers \cup {None}
  BY HeadIsOffer DEF ReceiveEnter
<1>3. dragged' \in [Clients -> Offers \cup {None}]
  BY <1>2 DEF ReceiveEnter, TypeInv
<1>4. dragged[c] \in Offers \cup {None}
  BY DEF TypeInv
<1>5. Keeps
  BY <1>4, DestroyKeeps DEF ReceiveEnter, Receives
<1>6. drag' \in [source : Sources \cup {None}, over : SUBSET Clients, accepted : BOOLEAN]
  BY DEF ReceiveEnter, TypeInv
<1>7. QED  BY <1>1, <1>3, <1>5, <1>6, QuietTypes DEF TypeInv

(* What is dragged leaves. *)
LEMMA ReceiveLeaveQuiet == ASSUME TypeInv, NEW c \in Clients, ReceiveLeave(c) PROVE Quietly
<1>1. UNCHANGED <<selected, made, drag, selection, pipes, writers>>
  BY DEF ReceiveLeave, sourceVars, offerVars, pipeVars
<1>2. dragged' \in [Clients -> Offers \cup {None}]
  BY DEF ReceiveLeave, TypeInv, offerVars
<1>3. dragged[c] \in Offers \cup {None}
  BY DEF TypeInv
<1>4. Keeps
  BY <1>3, DestroyKeeps, TakeKeeps DEF ReceiveLeave, Receives
<1>5. QED  BY <1>1, <1>2, <1>4, QuietTypes DEF TypeInv

(* It is dropped. *)
LEMMA ReceiveDropQuiet == ASSUME TypeInv, NEW c \in Clients, ReceiveDrop(c) PROVE Quietly
<1>1. UNCHANGED <<selected, made, drag, selection, dragged, pipes, writers>>
  BY DEF ReceiveDrop, sourceVars, pipeVars
<1>2. Keeps
  BY TakeKeeps DEF ReceiveDrop, Receives
<1>3. QED  BY <1>1, <1>2, QuietTypes DEF TypeInv

(* The application is done with what was dropped. *)
LEMMA EndDropQuiet ==
  ASSUME TypeInv, NEW c \in Clients, NEW type \in {"finished", "cancelled"}, EndDrop(c, type)
  PROVE  Quietly
<1> DEFINE s == stands[c][dragged[c]]
<1>1. UNCHANGED <<selected, made, drag, selection, pipes, writers>>
  BY DEF EndDrop, sourceVars, pipeVars
<1>2. dragged[c] \in Offers
  BY DEF EndDrop, TypeInv
<1>3. s \in Sources \cup {None} /\ toClient \in Queues
  BY <1>2 DEF TypeInv
<1>4. toClient' \in Queues /\ Grows(toClient, toClient')
  BY <1>3, TellGrows DEF EndDrop
<1>5. Inert(stands, s) \in [Clients -> [Offers -> Sources \cup {None}]]
  BY InertTyped DEF TypeInv
<1>6. stands' \in [Clients -> [Offers -> Sources \cup {None}]]
  BY <1>2, <1>5 DEF EndDrop
<1>7. Keeps
  BY <1>4, <1>6 DEF Keeps
<1>8. dragged' \in [Clients -> Offers \cup {None}]
  BY DEF EndDrop, TypeInv
<1>9. QED  BY <1>1, <1>7, <1>8, QuietTypes DEF TypeInv

(* There is room for another source. *)
LEMMA NextSource == ASSUME TypeInv, made < Len(Sizes) PROVE made + 1 \in Sources /\ made + 1 \in Nat
BY DataDeviceAssumption DEF TypeInv, Sources

(* A drag starts. *)
LEMMA StartDragQuiet == ASSUME TypeInv, NEW c \in Clients, StartDrag(c) PROVE Quietly
<1>1. UNCHANGED <<selected, stands, selection, dragged, pipes, writers>>
  BY DEF StartDrag, offerVars, pipeVars
<1>2. made' \in Sources /\ made' \in Nat
  BY NextSource DEF StartDrag
<1>3. drag' \in [source : Sources \cup {None}, over : SUBSET Clients, accepted : BOOLEAN]
  BY <1>2 DEF StartDrag, NoDrag
<1>4. toClient' \in Queues /\ Grows(toClient, toClient')
  BY LeaveGrows DEF StartDrag, TypeInv
<1>5. Keeps
  BY <1>1, <1>4 DEF Keeps, TypeInv
<1>6. QED  BY <1>1, <1>2, <1>3, <1>5, QuietTypes DEF TypeInv

(* A selection is set. *)
LEMMA ReceiveCopyQuiet == ASSUME TypeInv, NEW c \in Clients, ReceiveCopy(c) PROVE Quietly
<1>1. UNCHANGED <<drag, selection, dragged, pipes, writers>>
  BY DEF ReceiveCopy, offerVars, pipeVars
<1>2. made' \in Sources /\ made' \in Nat
  BY NextSource DEF ReceiveCopy
<1>3. selected' \in Sources \cup {None}
  BY <1>2 DEF ReceiveCopy, TypeInv
<1>4. ASSUME SelectionSent(Tell(Taken(c), selected, "cancelled"), focus, made') PROVE Keeps
  <2> DEFINE q == Taken(c)
             r == Tell(q, selected, "cancelled")
  <2>1. toClient \in Queues /\ selected \in Sources \cup {None}
    BY DEF TypeInv
  <2>2. q \in Queues /\ Grows(toClient, q)
    BY <2>1, TailGrows DEF Taken, ReceiveCopy, Receives
  <2>3. r \in Queues /\ Grows(q, r)
    BY <2>1, <2>2, TellGrows
  <2>4. Grows(toClient, r)
    BY <2>1, <2>2, <2>3, GrowsOn
  <2>5. QED  BY <1>2, <1>4, <2>3, <2>4, SelectionSentKeeps
<1>5. Keeps
  BY <1>4, TakeKeeps DEF ReceiveCopy, Receives
<1>6. QED  BY <1>1, <1>2, <1>3, <1>5, QuietTypes DEF TypeInv

(* A source is told that it was dropped, or that it is no longer needed. *)
LEMMA ReceiveEndQuiet ==
  ASSUME TypeInv, NEW c \in Clients, ReceiveDropped(c) \/ ReceiveEnd(c)
  PROVE  Quietly
<1>1. UNCHANGED <<selected, made, drag, selection, dragged, pipes, writers>>
  BY DEF ReceiveDropped, ReceiveEnd, sourceVars, offerVars, pipeVars
<1>2. Keeps
  BY TakeKeeps DEF ReceiveDropped, ReceiveEnd, Receives
<1>3. QED  BY <1>1, <1>2, QuietTypes DEF TypeInv

-----------------------------------------------------------------------------
(* The requests to write after a step were there before.                   *)
LEMMA SendsKept ==
  ASSUME TypeInv, toClient' \in Queues, Grows(toClient, toClient'), NEW c \in Clients
  PROVE  \E n \in Nat : \A k \in Nat :
           Sends(c, k)' => Sends(c, k + n) /\ toClient'[c][k] = toClient[c][k + n]
<1>1. PICK n \in Nat : \A k \in DOMAIN toClient'[c] :
        \/ k + n \in DOMAIN toClient[c] /\ toClient'[c][k] = toClient[c][k + n]
        \/ toClient'[c][k].type # "send" /\ IsOffer(toClient'[c][k])
  BY DEF Grows
<1>2. ASSUME NEW k \in Nat, Sends(c, k)'
      PROVE  Sends(c, k + n) /\ toClient'[c][k] = toClient[c][k + n]
  BY <1>1, <1>2 DEF Sends
<1>3. QED  BY <1>2

(* No two requests to write after a step are about the same pipe. *)
LEMMA SendsApart ==
  ASSUME TypeInv, OneSender, toClient' \in Queues, Grows(toClient, toClient')
  PROVE  \A c, d \in Clients : \A j, k \in Nat :
           Sends(c, j)' /\ Sends(d, k)' /\ toClient'[c][j].of = toClient'[d][k].of
           => c = d /\ j = k
<1>0. SUFFICES ASSUME NEW c \in Clients, NEW d \in Clients, NEW j \in Nat, NEW k \in Nat,
                      Sends(c, j)', Sends(d, k)', toClient'[c][j].of = toClient'[d][k].of
               PROVE  c = d /\ j = k
  OBVIOUS
<1>1. PICK m \in Nat : \A i \in Nat :
        Sends(c, i)' => Sends(c, i + m) /\ toClient'[c][i] = toClient[c][i + m]
  BY SendsKept
<1>2. PICK n \in Nat : \A i \in Nat :
        Sends(d, i)' => Sends(d, i + n) /\ toClient'[d][i] = toClient[d][i + n]
  BY SendsKept
<1>3. c = d
  <2>1. j + m \in Nat /\ k + n \in Nat
    OBVIOUS
  <2>2. Sends(c, j + m) /\ Sends(d, k + n)
        /\ toClient[c][j + m].of = toClient[d][k + n].of
    BY <1>0, <1>1, <1>2
  <2>3. QED  BY <2>1, <2>2 DEF OneSender
<1>4. j + m \in Nat /\ k + m \in Nat
  OBVIOUS
<1>5. Sends(c, j + m) /\ Sends(c, k + m) /\ toClient[c][j + m].of = toClient[c][k + m].of
  BY <1>0, <1>1, <1>3
<1>6. j + m = k + m
  BY <1>4, <1>5 DEF OneSender
<1>7. QED  BY <1>3, <1>6

(* A pipe still has one writer at most, if what writes is the same. *)
LEMMA SenderKept ==
  ASSUME TypeInv, OneSender, toClient' \in Queues, Grows(toClient, toClient'), writers' = writers
  PROVE  OneSender'
<1>1. \A c, d \in Clients : \A j, k \in Nat :
        Sends(c, j)' /\ Sends(d, k)' /\ toClient'[c][j].of = toClient'[d][k].of => c = d /\ j = k
  BY SendsApart
<1>2. ASSUME NEW c \in Clients, NEW d \in Clients, NEW j \in Nat, NEW w \in writers'[d],
             Sends(c, j)'
      PROVE  toClient'[c][j].of # w.pipe
  <2>1. PICK m \in Nat : \A i \in Nat :
          Sends(c, i)' => Sends(c, i + m) /\ toClient'[c][i] = toClient[c][i + m]
    BY SendsKept
  <2>2. j + m \in Nat /\ Sends(c, j + m) /\ toClient'[c][j] = toClient[c][j + m]
    BY <1>2, <2>1
  <2>3. w \in writers[d]
    OBVIOUS
  <2>4. QED  BY <2>2, <2>3 DEF OneSender
<1>3. ASSUME NEW c \in Clients, NEW d \in Clients, NEW v \in writers'[c], NEW w \in writers'[d],
             v.pipe = w.pipe
      PROVE  c = d /\ v = w
  BY <1>3 DEF OneSender
<1>4. QED  BY <1>1, <1>2, <1>3 DEF OneSender

(* Offers are still offers. *)
LEMMA OffersKept ==
  ASSUME OffersTyped, Grows(toClient, toClient')
  PROVE  OffersTyped'
<1>1. SUFFICES ASSUME NEW c \in Clients, NEW k \in DOMAIN toClient'[c]
               PROVE  IsOffer(toClient'[c][k])
  BY DEF OffersTyped, IsOffer
<1>2. PICK n \in Nat :
        \/ k + n \in DOMAIN toClient[c] /\ toClient'[c][k] = toClient[c][k + n]
        \/ toClient'[c][k].type # "send" /\ IsOffer(toClient'[c][k])
  BY DEF Grows
<1>3. QED  BY <1>2 DEF OffersTyped

(* A step that leaves the pipes alone keeps all of it. *)
LEMMA QuietKeeps == ASSUME Inv, Quietly PROVE Inv'
<1>1. toClient' \in Queues /\ Grows(toClient, toClient') /\ UNCHANGED <<pipes, writers>>
      /\ TypeInv /\ TypeInv'
  BY DEF Inv, Quietly, Keeps
<1>2. OffersTyped'
  BY <1>1, OffersKept DEF Inv, PasteInv
<1>3. OneSender'
  BY <1>1, SenderKept DEF Inv, PasteInv
<1>4. ASSUME NEW c \in Clients, NEW k \in Nat, Sends(c, k)'
      PROVE  LET p == toClient'[c][k].of IN
             /\ p \in DOMAIN pipes /\ pipes[p].source \in Sources
             /\ pipes[p].open /\ pipes[p].held = 0 /\ pipes[p].got = 0 /\ ~pipes[p].done
  <2>1. PICK m \in Nat : \A i \in Nat :
          Sends(c, i)' => Sends(c, i + m) /\ toClient'[c][i] = toClient[c][i + m]
    BY <1>1, SendsKept
  <2>2. k + m \in Nat /\ Sends(c, k + m) /\ toClient'[c][k] = toClient[c][k + m]
    BY <1>4, <2>1
  <2>3. QED  BY <2>2 DEF Inv, PasteInv, SendsFresh
<1>5. SendsFresh'
  BY <1>1, <1>4 DEF SendsFresh, Sources
<1>6. WritersCount' /\ ClosedIsWhole'
  BY <1>1 DEF Inv, PasteInv, WritersCount, ClosedIsWhole
<1>7. QED  BY <1>1, <1>2, <1>3, <1>5, <1>6 DEF Inv, PasteInv

-----------------------------------------------------------------------------
(* What a pipe that is read or written becomes is a pipe. *)
LEMMA PipeFacts ==
  ASSUME TypeInv, NEW p \in DOMAIN pipes
  PROVE  pipes[p] \in PipeRecords /\ p \in Nat
BY DEF TypeInv

(* A source has a size. *)
LEMMA SizeFacts == \A s \in Sources : Sizes[s] \in Nat /\ Sizes[s] > 0 /\ s # None
BY DataDeviceAssumption DEF Sources, None

(* One pipe is changed. *)
LEMMA PipeChanged ==
  ASSUME pipes \in Seq(PipeRecords), NEW p \in DOMAIN pipes, NEW r \in PipeRecords
  PROVE  LET q == [pipes EXCEPT ![p] = r] IN
         /\ q[p] = r /\ DOMAIN q = DOMAIN pipes /\ q \in Seq(PipeRecords)
         /\ \A i \in DOMAIN pipes : i # p => q[i] = pipes[i]
OBVIOUS

(* What is in a pipe is read, or its end. *)
LEMMA ReadKeeps == ASSUME Inv, NEW p \in Pipes, Read(p) PROVE Inv'
<1>1. UNCHANGED <<selected, made, drag, stands, selection, dragged, toClient, writers>>
  BY DEF Read, serverVars, sourceVars, offerVars
<1>2. TypeInv /\ p \in DOMAIN pipes /\ ~pipes[p].done /\ pipes[p] \in PipeRecords
      /\ pipes \in Seq(PipeRecords)
  BY PipeFacts DEF Inv, TypeInv, Read
<1>3. /\ DOMAIN pipes' = DOMAIN pipes /\ pipes' \in Seq(PipeRecords)
      /\ \A i \in DOMAIN pipes : i # p => pipes'[i] = pipes[i]
      /\ pipes'[p].source = pipes[p].source /\ pipes'[p].open = pipes[p].open
      /\ pipes'[p].got + pipes'[p].held = pipes[p].got + pipes[p].held
      /\ \/ pipes[p].held > 0 /\ ~pipes'[p].done
         \/ ~pipes[p].open /\ pipes'[p].held = 0
  <2>1. ASSUME pipes[p].held > 0,
               pipes' = [pipes EXCEPT ![p].got = @ + pipes[p].held, ![p].held = 0]
        PROVE  <1>3!:
    <3> DEFINE r == [pipes[p] EXCEPT !.got = @ + pipes[p].held, !.held = 0]
    <3>1. pipes' = [pipes EXCEPT ![p] = r]
      BY <2>1, Zenon
    <3>2. pipes[p].got + pipes[p].held \in Nat /\ 0 \in Nat
      BY <1>2 DEF PipeRecords
    <3>3. r \in PipeRecords
      <4>1. \A x \in PipeRecords, g \in Nat, h \in Nat :
              [x EXCEPT !.got = g, !.held = h] \in PipeRecords
        BY DEF PipeRecords
      <4>2. r = [pipes[p] EXCEPT !.got = pipes[p].got + pipes[p].held, !.held = 0]
        BY <1>2 DEF PipeRecords
      <4>3. QED  BY <1>2, <3>2, <4>1, <4>2
    <3>4. pipes'[p] = r /\ DOMAIN pipes' = DOMAIN pipes /\ pipes' \in Seq(PipeRecords)
          /\ \A i \in DOMAIN pipes : i # p => pipes'[i] = pipes[i]
      BY <1>2, <3>1, <3>3, PipeChanged
    <3>5. pipes'[p].got = pipes[p].got + pipes[p].held /\ pipes'[p].held = 0
          /\ pipes'[p].source = pipes[p].source /\ pipes'[p].open = pipes[p].open
          /\ pipes'[p].done = pipes[p].done
      BY <1>2, <3>4 DEF PipeRecords
    <3>6. pipes[p].got \in Nat /\ pipes[p].held \in Nat
      BY <1>2 DEF PipeRecords
    <3>7. QED  BY <1>2, <2>1, <3>4, <3>5, <3>6
  <2>2. ASSUME pipes[p].held = 0, ~pipes[p].open, pipes' = [pipes EXCEPT ![p].done = TRUE]
        PROVE  <1>3!:
    <3>1. pipes'[p] = [pipes[p] EXCEPT !.done = TRUE]
      BY <1>2, <2>2
    <3>2. pipes'[p] \in PipeRecords
      <4>1. \A r \in PipeRecords : [r EXCEPT !.done = TRUE] \in PipeRecords
        BY Zenon DEF PipeRecords
      <4>2. QED  BY <1>2, <3>1, <4>1
    <3>3. DOMAIN pipes' = DOMAIN pipes /\ \A i \in DOMAIN pipes : i # p => pipes'[i] = pipes[i]
      BY <1>2, <2>2
    <3>4. pipes' \in Seq(PipeRecords)
      BY <1>2, <2>2, <3>2, <3>3
    <3>5. pipes'[p].got = pipes[p].got /\ pipes'[p].held = pipes[p].held
          /\ pipes'[p].source = pipes[p].source /\ pipes'[p].open = pipes[p].open
      BY <1>2, <3>1 DEF PipeRecords
    <3>6. QED  BY <2>2, <3>3, <3>4, <3>5
  <2>3. QED  BY <2>1, <2>2 DEF Read
<1>4. TypeInv'
  BY <1>1, <1>2, <1>3 DEF TypeInv
<1>5. OffersTyped' /\ OneSender'
  BY <1>1 DEF Inv, PasteInv, OffersTyped, OneSender, Sends
<1>6. ASSUME NEW c \in Clients, NEW k \in Nat, Sends(c, k)
      PROVE  toClient[c][k].of # p
  BY <1>3, <1>6 DEF Inv, PasteInv, SendsFresh
<1>7. SendsFresh'
  BY <1>1, <1>3, <1>6 DEF Inv, PasteInv, SendsFresh, Sends, Sources
<1>8. ASSUME NEW c \in Clients, NEW w \in writers[c]
      PROVE  /\ w.pipe \in DOMAIN pipes' /\ pipes'[w.pipe].source = w.source
             /\ pipes'[w.pipe].open /\ ~pipes'[w.pipe].done /\ w.left > 0
             /\ pipes'[w.pipe].got + pipes'[w.pipe].held + w.left = Sizes[w.source]
  BY <1>3 DEF Inv, PasteInv, WritersCount
<1>9. WritersCount'
  BY <1>1, <1>8 DEF WritersCount
<1>10. ASSUME NEW i \in DOMAIN pipes'
       PROVE  /\ ~pipes'[i].open => pipes'[i].got + pipes'[i].held = Expected(pipes'[i].source)
              /\ pipes'[i].done => ~pipes'[i].open /\ pipes'[i].held = 0
  <2>1. /\ ~pipes[i].open => pipes[i].got + pipes[i].held = Expected(pipes[i].source)
        /\ pipes[i].done => ~pipes[i].open /\ pipes[i].held = 0
    BY <1>3 DEF Inv, PasteInv, ClosedIsWhole
  <2>2. CASE i # p
    BY <1>3, <2>1, <2>2
  <2>3. CASE i = p
    BY <1>3, <2>1, <2>3
  <2>4. QED  BY <2>2, <2>3
<1>11. ClosedIsWhole'
  BY <1>10 DEF ClosedIsWhole, Expected
<1>12. QED  BY <1>4, <1>5, <1>7, <1>9, <1>11 DEF Inv, PasteInv

(* Something is written to a pipe, and the pipe is closed when that was    *)
(* all.                                                                    *)
LEMMA WriteKeeps == ASSUME Inv, NEW c \in Clients, Write(c) PROVE Inv'
<1>1. UNCHANGED <<selected, made, drag, stands, selection, dragged, toClient>>
  BY DEF Write, serverVars, sourceVars, offerVars
<1>2. PICK w \in writers[c] :
        /\ pipes' = [pipes EXCEPT ![w.pipe].held = @ + 1,
                                  ![w.pipe].spoilt = @ \/ w.source \notin alive,
                                  ![w.pipe].open = w.left > 1]
        /\ writers' = [writers EXCEPT ![c] = (@ \ {w}) \cup
                         IF w.left > 1 THEN {[w EXCEPT !.left = @ - 1]} ELSE {}]
  BY DEF Write
<1> DEFINE p == w.pipe
           v == [w EXCEPT !.left = @ - 1]
<1>3. /\ w \in WriterRecords /\ p \in DOMAIN pipes /\ pipes \in Seq(PipeRecords)
      /\ pipes[p] \in PipeRecords /\ pipes[p].source = w.source
      /\ pipes[p].open /\ ~pipes[p].done /\ w.left > 0
      /\ pipes[p].got + pipes[p].held + w.left = Sizes[w.source]
  <2>1. w \in WriterRecords /\ pipes \in Seq(PipeRecords)
    BY DEF Inv, TypeInv
  <2>2. QED  BY <2>1 DEF Inv, PasteInv, WritersCount
<1>4. w.left \in Nat /\ w.source \in Sources /\ v.pipe = p /\ v.source = w.source
      /\ v.left = w.left - 1 /\ (w.left > 1 => v \in WriterRecords)
  BY <1>3 DEF WriterRecords
<1>5. pipes[p].held \in Nat /\ pipes[p].got \in Nat
  BY <1>3 DEF PipeRecords
<1>6. /\ DOMAIN pipes' = DOMAIN pipes /\ pipes' \in Seq(PipeRecords)
      /\ \A i \in DOMAIN pipes : i # p => pipes'[i] = pipes[i]
      /\ pipes'[p].source = w.source /\ (pipes'[p].open <=> w.left > 1)
      /\ ~pipes'[p].done /\ pipes'[p].got = pipes[p].got
      /\ pipes'[p].held = pipes[p].held + 1
  <2> DEFINE r == [pipes[p] EXCEPT !.held = @ + 1, !.spoilt = @ \/ w.source \notin alive,
                                   !.open = w.left > 1]
  <2>1. pipes' = [pipes EXCEPT ![p] = r]
    BY <1>2, Zenon
  <2>2. \A x \in PipeRecords, h \in Nat, b \in BOOLEAN, f \in BOOLEAN :
          [x EXCEPT !.held = h, !.spoilt = b, !.open = f] \in PipeRecords
    BY DEF PipeRecords
  <2>3. r = [pipes[p] EXCEPT !.held = pipes[p].held + 1,
                             !.spoilt = pipes[p].spoilt \/ w.source \notin alive,
                             !.open = w.left > 1]
    BY <1>3 DEF PipeRecords
  <2>4. pipes[p].held + 1 \in Nat /\ (pipes[p].spoilt \/ w.source \notin alive) \in BOOLEAN
        /\ (w.left > 1) \in BOOLEAN
    BY <1>5
  <2>5. r \in PipeRecords
    BY <1>3, <2>2, <2>3, <2>4
  <2>6. pipes'[p] = r /\ DOMAIN pipes' = DOMAIN pipes /\ pipes' \in Seq(PipeRecords)
        /\ \A i \in DOMAIN pipes : i # p => pipes'[i] = pipes[i]
    BY <1>3, <2>1, <2>5, PipeChanged
  <2>7. r.source = pipes[p].source /\ (r.open <=> w.left > 1) /\ r.done = pipes[p].done
        /\ r.got = pipes[p].got /\ r.held = pipes[p].held + 1
    BY <1>3 DEF PipeRecords
  <2>8. QED  BY <1>3, <2>6, <2>7
<1>7. ASSUME NEW d \in Clients, NEW x \in writers'[d]
      PROVE  \/ x \in writers[d] /\ x.pipe # p
             \/ d = c /\ x = v /\ w.left > 1
  <2>1. writers \in [Clients -> SUBSET WriterRecords]
    BY DEF Inv, TypeInv
  <2>2. \/ x \in writers[d] /\ (d # c \/ x # w)
        \/ d = c /\ x = v /\ w.left > 1
    BY <1>2, <1>7, <2>1
  <2>3. ASSUME x \in writers[d], d # c \/ x # w PROVE x.pipe # p
    BY <2>3 DEF Inv, PasteInv, OneSender
  <2>4. QED  BY <2>2, <2>3
<1>8. writers' \in [Clients -> SUBSET WriterRecords]
  <2>1. writers \in [Clients -> SUBSET WriterRecords]
    BY DEF Inv, TypeInv
  <2>2. (writers[c] \ {w}) \cup (IF w.left > 1 THEN {v} ELSE {}) \in SUBSET WriterRecords
    BY <1>4, <2>1
  <2>3. QED  BY <1>2, <2>1, <2>2
<1>9. TypeInv'
  BY <1>1, <1>6, <1>8 DEF Inv, TypeInv
<1>10. OffersTyped'
  BY <1>1 DEF Inv, PasteInv, OffersTyped
<1>11. ASSUME NEW d \in Clients, NEW k \in Nat, Sends(d, k)
       PROVE  toClient[d][k].of # p
  BY <1>11 DEF Inv, PasteInv, OneSender
<1>12. SendsFresh'
  BY <1>1, <1>6, <1>11 DEF Inv, PasteInv, SendsFresh, Sends, Sources
<1>13. ASSUME NEW d \in Clients, NEW x \in writers'[d]
       PROVE  /\ x.pipe \in DOMAIN pipes' /\ pipes'[x.pipe].source = x.source
              /\ pipes'[x.pipe].open /\ ~pipes'[x.pipe].done /\ x.left > 0
              /\ pipes'[x.pipe].got + pipes'[x.pipe].held + x.left = Sizes[x.source]
  <2>1. CASE x \in writers[d] /\ x.pipe # p
    BY <1>6, <2>1 DEF Inv, PasteInv, WritersCount
  <2>2. CASE d = c /\ x = v /\ w.left > 1
    <3>1. x.pipe = p /\ x.source = w.source /\ x.left = w.left - 1
      BY <1>4, <2>2
    <3>2. pipes'[p].got + pipes'[p].held + x.left = Sizes[w.source] /\ x.left > 0
      <4> HIDE DEF p, v
      <4>1. pipes'[p].got = pipes[p].got /\ pipes'[p].held = pipes[p].held + 1
        BY <1>6
      <4>2. pipes'[p].got + pipes'[p].held + x.left = pipes[p].got + pipes[p].held + w.left
        BY <1>4, <1>5, <3>1, <4>1
      <4>3. x.left > 0
        BY <1>4, <2>2, <3>1
      <4>4. QED  BY <1>3, <4>2, <4>3
    <3>3. p \in DOMAIN pipes' /\ pipes'[p].open
      BY <1>3, <1>6, <2>2
    <3>4. QED  BY <1>6, <3>1, <3>2, <3>3
  <2>3. QED  BY <1>7, <2>1, <2>2
<1>14. WritersCount'
  BY <1>13 DEF WritersCount
<1>15. ASSUME NEW i \in DOMAIN pipes'
       PROVE  /\ ~pipes'[i].open => pipes'[i].got + pipes'[i].held = Expected(pipes'[i].source)
              /\ pipes'[i].done => ~pipes'[i].open /\ pipes'[i].held = 0
  <2>1. CASE i # p
    BY <1>6, <2>1 DEF Inv, PasteInv, ClosedIsWhole
  <2>2. CASE i = p
    <3>1. ~pipes'[p].open => w.left = 1
      BY <1>3, <1>4, <1>6
    <3>2. Expected(w.source) = Sizes[w.source]
      BY <1>4, SizeFacts DEF Expected
    <3>3. QED  BY <1>3, <1>4, <1>5, <1>6, <2>2, <3>1, <3>2
  <2>3. QED  BY <2>1, <2>2
<1>16. ClosedIsWhole'
  BY <1>15 DEF ClosedIsWhole, Expected
<1>17. OneSender'
  <2>1. ASSUME NEW a \in Clients, NEW b \in Clients, NEW j \in Nat, NEW k \in Nat,
               Sends(a, j)', Sends(b, k)', toClient'[a][j].of = toClient'[b][k].of
        PROVE  a = b /\ j = k
    BY <1>1, <2>1 DEF Inv, PasteInv, OneSender, Sends
  <2>2. ASSUME NEW a \in Clients, NEW b \in Clients, NEW j \in Nat, NEW x \in writers'[b],
               Sends(a, j)'
        PROVE  toClient'[a][j].of # x.pipe
    <3>1. Sends(a, j) /\ toClient' = toClient
      BY <1>1, <2>2 DEF Sends
    <3>2. CASE x \in writers[b]
      BY <3>1, <3>2 DEF Inv, PasteInv, OneSender
    <3>3. CASE x = v
      BY <1>4, <1>11, <3>1, <3>3
    <3>4. QED  BY <1>7, <3>2, <3>3
  <2>3. ASSUME NEW a \in Clients, NEW b \in Clients, NEW x \in writers'[a], NEW y \in writers'[b],
               x.pipe = y.pipe
        PROVE  a = b /\ x = y
    <3>1. \/ x \in writers[a] /\ x.pipe # p
          \/ a = c /\ x = v /\ w.left > 1
      BY <1>7
    <3>2. \/ y \in writers[b] /\ y.pipe # p
          \/ b = c /\ y = v /\ w.left > 1
      BY <1>7
    <3>3. CASE x \in writers[a] /\ y \in writers[b]
      BY <2>3, <3>3 DEF Inv, PasteInv, OneSender
    <3>4. QED  BY <1>4, <2>3, <3>1, <3>2, <3>3
  <2>4. QED  BY <2>1, <2>2, <2>3 DEF OneSender
<1>18. QED  BY <1>9, <1>10, <1>12, <1>14, <1>16, <1>17 DEF Inv, PasteInv

-----------------------------------------------------------------------------
(* A source is asked to write to a pipe: it is the only one that will.     *)
LEMMA SendKeeps == ASSUME Inv, NEW c \in Clients, ReceiveSend(c) PROVE Inv'
<1> DEFINE p == toClient[c][1].of
           v == [pipe |-> p, source |-> pipes[p].source, left |-> Sizes[pipes[p].source]]
<1>1. /\ UNCHANGED <<selected, made, drag, stands, selection, dragged, pipes>>
      /\ toClient[c] # <<>> /\ toClient[c][1].type = "send"
      /\ toClient' = [toClient EXCEPT ![c] = Tail(@)]
      /\ writers' = [writers EXCEPT ![c] = @ \cup {v}]
  BY DEF ReceiveSend, Receives, Take, Taken, sourceVars, offerVars
<1>2. /\ toClient \in Queues /\ toClient[c] \in Seq(Events) /\ pipes \in Seq(PipeRecords)
      /\ writers \in [Clients -> SUBSET WriterRecords] /\ TypeInv
  BY DEF Inv, TypeInv, Queues
<1>3. Sends(c, 1) /\ 1 \in Nat
  BY <1>1, <1>2 DEF Sends
<1>4. /\ p \in DOMAIN pipes /\ pipes[p].source \in Sources
      /\ pipes[p].open /\ pipes[p].held = 0 /\ pipes[p].got = 0 /\ ~pipes[p].done
  BY <1>3 DEF Inv, PasteInv, SendsFresh
<1>5. v \in WriterRecords /\ v.pipe = p /\ v.source = pipes[p].source
      /\ v.left = Sizes[v.source] /\ v.left > 0 /\ v.left \in Nat
  BY <1>2, <1>4, SizeFacts DEF WriterRecords
<1>6. writers' \in [Clients -> SUBSET WriterRecords]
      /\ \A d \in Clients : \A x \in writers'[d] : x \in writers[d] \/ (d = c /\ x = v)
  <2> HIDE DEF v
  <2>1. writers[c] \cup {v} \in SUBSET WriterRecords
    BY <1>2, <1>5
  <2>2. writers' \in [Clients -> SUBSET WriterRecords]
    BY <1>1, <1>2, <2>1
  <2>3. writers'[c] = writers[c] \cup {v} /\ \A d \in Clients : d # c => writers'[d] = writers[d]
    BY <1>1, <1>2
  <2>4. ASSUME NEW d \in Clients, NEW x \in writers'[d]
        PROVE  x \in writers[d] \/ (d = c /\ x = v)
    <3>1. CASE d = c
      <4>1. x \in writers[c] \cup {v}
        BY <2>3, <2>4, <3>1
      <4>2. QED  BY <3>1, <4>1
    <3>2. CASE d # c
      BY <2>3, <2>4, <3>2
    <3>3. QED  BY <3>1, <3>2
  <2>5. QED  BY <2>2, <2>4
<1>7. toClient' \in Queues /\ Grows(toClient, toClient')
  BY <1>1, <1>2, TailGrows
<1>8. ASSUME NEW d \in Clients, NEW k \in Nat, Sends(d, k)'
      PROVE  \E m \in Nat :
               /\ Sends(d, k + m) /\ toClient'[d][k] = toClient[d][k + m]
               /\ toClient'[d][k].of # p
  <2>1. CASE d = c
    <3>1. k \in DOMAIN Tail(toClient[c]) /\ toClient'[c][k] = Tail(toClient[c])[k]
      BY <1>1, <1>2, <1>8, <2>1 DEF Sends, Queues
    <3>2. k \in 1..Len(toClient[c]) - 1 /\ k + 1 \in DOMAIN toClient[c] /\ k + 1 # 1
          /\ Tail(toClient[c])[k] = toClient[c][k + 1]
      BY <1>1, <1>2, <3>1
    <3>3. Sends(c, k + 1) /\ toClient'[c][k] = toClient[c][k + 1] /\ k + 1 \in Nat
      BY <1>8, <2>1, <3>1, <3>2 DEF Sends
    <3>4. toClient[c][k + 1].of # p
      BY <1>3, <3>2, <3>3 DEF Inv, PasteInv, OneSender
    <3>5. QED  BY <2>1, <3>3, <3>4
  <2>2. CASE d # c
    <3>1. toClient'[d] = toClient[d]
      BY <1>1, <1>2, <2>2 DEF Queues
    <3>2. Sends(d, k) /\ k + 0 = k
      BY <1>8, <3>1 DEF Sends
    <3>3. toClient[d][k].of # p
      BY <1>3, <2>2, <3>2 DEF Inv, PasteInv, OneSender
    <3>4. QED  BY <3>1, <3>2, <3>3
  <2>3. QED  BY <2>1, <2>2
<1>9. TypeInv'
  BY <1>1, <1>6, <1>7 DEF Inv, TypeInv
<1>10. OffersTyped'
  BY <1>7, OffersKept DEF Inv, PasteInv
<1>11. ASSUME NEW d \in Clients, NEW k \in Nat, Sends(d, k)'
       PROVE  LET i == toClient'[d][k].of IN
              /\ i \in DOMAIN pipes /\ pipes[i].source \in Sources
              /\ pipes[i].open /\ pipes[i].held = 0 /\ pipes[i].got = 0 /\ ~pipes[i].done
  <2>1. PICK m \in Nat : Sends(d, k + m) /\ toClient'[d][k] = toClient[d][k + m]
    BY <1>8, <1>11
  <2>2. k + m \in Nat
    OBVIOUS
  <2>3. QED  BY <2>1, <2>2 DEF Inv, PasteInv, SendsFresh
<1>12. SendsFresh'
  BY <1>1, <1>11 DEF SendsFresh, Sources
<1>13. ASSUME NEW d \in Clients, NEW x \in writers'[d]
       PROVE  /\ x.pipe \in DOMAIN pipes /\ pipes[x.pipe].source = x.source
              /\ pipes[x.pipe].open /\ ~pipes[x.pipe].done /\ x.left > 0
              /\ pipes[x.pipe].got + pipes[x.pipe].held + x.left = Sizes[x.source]
  <2>1. CASE x \in writers[d]
    BY <2>1 DEF Inv, PasteInv, WritersCount
  <2>2. CASE x = v
    BY <1>4, <1>5, <2>2
  <2>3. QED  BY <1>6, <2>1, <2>2
<1>14. WritersCount' /\ ClosedIsWhole'
  BY SMTT(30), <1>1, <1>13 DEF Inv, PasteInv, WritersCount, ClosedIsWhole, Expected
<1>15. OneSender'
  <2>1. \A d, e \in Clients : \A j, k \in Nat :
          Sends(d, j)' /\ Sends(e, k)' /\ toClient'[d][j].of = toClient'[e][k].of => d = e /\ j = k
    BY <1>2, <1>7, SendsApart DEF Inv, PasteInv
  <2>2. ASSUME NEW d \in Clients, NEW e \in Clients, NEW j \in Nat, NEW x \in writers'[e],
               Sends(d, j)'
        PROVE  toClient'[d][j].of # x.pipe
    <3>1. PICK m \in Nat : /\ Sends(d, j + m) /\ toClient'[d][j] = toClient[d][j + m]
                           /\ toClient'[d][j].of # p
      BY <1>8, <2>2
    <3>2. j + m \in Nat
      OBVIOUS
    <3>3. CASE x \in writers[e]
      BY <3>1, <3>2, <3>3 DEF Inv, PasteInv, OneSender
    <3>4. CASE x = v
      BY <1>5, <3>1, <3>4
    <3>5. QED  BY <1>6, <3>3, <3>4
  <2>3. ASSUME NEW d \in Clients, NEW e \in Clients, NEW x \in writers'[d], NEW y \in writers'[e],
               x.pipe = y.pipe
        PROVE  d = e /\ x = y
    <3>1. \A a \in Clients : \A z \in writers[a] : z.pipe # p
      BY <1>3 DEF Inv, PasteInv, OneSender
    <3>2. CASE x \in writers[d] /\ y \in writers[e]
      BY <2>3, <3>2 DEF Inv, PasteInv, OneSender
    <3>3. QED  BY <1>5, <1>6, <2>3, <3>1, <3>2
  <2>4. QED  BY <2>1, <2>2, <2>3 DEF OneSender
<1>16. QED  BY <1>9, <1>10, <1>12, <1>14, <1>15 DEF Inv, PasteInv

-----------------------------------------------------------------------------
(* A paste: the pipe is new, and so nothing else is about it.  When the    *)
(* offer stands for nothing it is closed and empty.                        *)
LEMMA RequestedKeeps ==
  ASSUME Inv, NEW q \in Queues, Grows(toClient, q), NEW c \in Clients, NEW o \in Offers,
         Requested(q, c, o),
         UNCHANGED <<selected, made, drag, stands, selection, dragged, writers>>
  PROVE  Inv'
<1> DEFINE s == stands[c][o]
           n == Len(pipes) + 1
           r == [reader |-> c, source |-> s, held |-> 0, got |-> 0,
                 open |-> s # None, done |-> FALSE, spoilt |-> FALSE]
<1>1. /\ pipes \in Seq(PipeRecords) /\ s \in Sources \cup {None} /\ toClient \in Queues
      /\ TypeInv /\ OneSender
  BY DEF Inv, PasteInv, TypeInv
<1>2. /\ r \in PipeRecords /\ r.source = s /\ r.held = 0 /\ r.got = 0 /\ ~r.done
      /\ (r.open <=> s # None)
  BY <1>1 DEF PipeRecords
<1>3. pipes' = Append(pipes, r)
  BY DEF Requested
<1>4. /\ pipes' \in Seq(PipeRecords) /\ n \in Nat /\ n \notin DOMAIN pipes
      /\ DOMAIN pipes' = DOMAIN pipes \cup {n} /\ Len(pipes') = n
      /\ pipes'[n] = r /\ \A i \in DOMAIN pipes : pipes'[i] = pipes[i]
  <2> HIDE DEF r
  <2>1. QED  BY <1>1, <1>2, <1>3
<1>5. toClient' = IF s = None THEN q ELSE SendTo(q, owner[s], "send", n)
  BY <1>4 DEF Requested
<1> HIDE DEF r, n
<1>6. toClient' \in Queues /\ \A d \in Clients :
        \/ toClient'[d] = q[d]
        \/ s # None /\ d = owner[s] /\ toClient'[d] = Append(q[d], Event("send", n))
  <2>1. CASE s = None
    BY <1>5, <2>1
  <2>2. CASE s # None
    <3>1. toClient' = [q EXCEPT ![owner[s]] = Append(@, Event("send", n))]
      BY <1>5, <2>2 DEF SendTo
    <3>2. Event("send", n) \in Events
      BY <1>4 DEF Event, Events, Types
    <3>3. q \in [Clients -> Seq(Events)]
      BY DEF Queues
    <3>4. CASE owner[s] \in Clients
      <4>1. Append(q[owner[s]], Event("send", n)) \in Seq(Events)
        BY <3>2, <3>3, <3>4
      <4>2. QED  BY <2>2, <3>1, <3>3, <3>4, <4>1 DEF Queues
    <3>5. CASE owner[s] \notin Clients
      BY <3>1, <3>3, <3>5 DEF Queues
    <3>6. QED  BY <3>4, <3>5
  <2>3. QED  BY <2>1, <2>2
<1>7. ASSUME NEW d \in Clients
      PROVE  \E m \in Nat : \A k \in DOMAIN toClient'[d] :
               \/ k + m \in DOMAIN toClient[d] /\ toClient'[d][k] = toClient[d][k + m]
               \/ toClient'[d][k].type # "send" /\ IsOffer(toClient'[d][k])
               \/ /\ s # None /\ d = owner[s] /\ k = Len(q[d]) + 1
                  /\ toClient'[d][k] = Event("send", n)
  <2>1. PICK m \in Nat : \A k \in DOMAIN q[d] :
          \/ k + m \in DOMAIN toClient[d] /\ q[d][k] = toClient[d][k + m]
          \/ q[d][k].type # "send" /\ IsOffer(q[d][k])
    BY DEF Grows
  <2>2. CASE toClient'[d] = q[d]
    BY <2>1, <2>2
  <2>3. CASE /\ s # None /\ d = owner[s] /\ toClient'[d] = Append(q[d], Event("send", n))
    <3>1. q[d] \in Seq(Events)
      BY DEF Queues
    <3>2. \A k \in DOMAIN toClient'[d] :
            \/ k \in DOMAIN q[d] /\ toClient'[d][k] = q[d][k]
            \/ k = Len(q[d]) + 1 /\ toClient'[d][k] = Event("send", n)
      BY <2>3, <3>1
    <3>3. QED  BY ZenonT(30), <2>1, <2>3, <3>2
  <2>4. QED  BY <1>6, <2>2, <2>3
<1>8. OffersTyped'
  <2>1. ASSUME NEW d \in Clients, NEW k \in DOMAIN toClient'[d]
        PROVE  IsOffer(toClient'[d][k])
    <3>1. PICK m \in Nat :
            \/ k + m \in DOMAIN toClient[d] /\ toClient'[d][k] = toClient[d][k + m]
            \/ toClient'[d][k].type # "send" /\ IsOffer(toClient'[d][k])
            \/ toClient'[d][k] = Event("send", n)
      BY <1>7
    <3>2. IsOffer(Event("send", n))
      BY DEF IsOffer, Event
    <3>3. QED  BY <3>1, <3>2 DEF Inv, PasteInv, OffersTyped
  <2>2. QED  BY <2>1 DEF OffersTyped, IsOffer
(* A request to write is an old one, or the new one. *)
<1>9. ASSUME NEW d \in Clients
      PROVE  \E m \in Nat : \A k \in Nat : Sends(d, k)' =>
               \/ Sends(d, k + m) /\ toClient'[d][k] = toClient[d][k + m]
               \/ s # None /\ d = owner[s] /\ k = Len(q[d]) + 1 /\ toClient'[d][k].of = n
  <2>1. PICK m \in Nat : \A k \in DOMAIN toClient'[d] :
          \/ k + m \in DOMAIN toClient[d] /\ toClient'[d][k] = toClient[d][k + m]
          \/ toClient'[d][k].type # "send" /\ IsOffer(toClient'[d][k])
          \/ /\ s # None /\ d = owner[s] /\ k = Len(q[d]) + 1
             /\ toClient'[d][k] = Event("send", n)
    BY <1>7
  <2>2. Event("send", n).of = n
    BY DEF Event
  <2>3. QED  BY <2>1, <2>2 DEF Sends
<1>10. ASSUME NEW d \in Clients, NEW k \in Nat, Sends(d, k)
       PROVE  toClient[d][k].of \in DOMAIN pipes /\ toClient[d][k].of # n
  BY <1>4, <1>10 DEF Inv, PasteInv, SendsFresh
<1>11. ASSUME NEW d \in Clients, NEW w \in writers[d]
       PROVE  w.pipe \in DOMAIN pipes /\ w.pipe # n
  BY <1>4 DEF Inv, PasteInv, WritersCount
<1>12. TypeInv'
  BY <1>4, <1>6 DEF Inv, TypeInv
<1>13. ASSUME NEW d \in Clients, NEW k \in Nat, Sends(d, k)'
       PROVE  LET i == toClient'[d][k].of IN
              /\ i \in DOMAIN pipes' /\ pipes'[i].source \in Sources
              /\ pipes'[i].open /\ pipes'[i].held = 0 /\ pipes'[i].got = 0 /\ ~pipes'[i].done
  <2>1. PICK m \in Nat :
          \/ Sends(d, k + m) /\ toClient'[d][k] = toClient[d][k + m]
          \/ s # None /\ toClient'[d][k].of = n
    BY <1>9, <1>13
  <2>2. CASE Sends(d, k + m) /\ toClient'[d][k] = toClient[d][k + m]
    <3>1. k + m \in Nat
      OBVIOUS
    <3>2. QED  BY <1>4, <2>2, <3>1 DEF Inv, PasteInv, SendsFresh
  <2>3. CASE s # None /\ toClient'[d][k].of = n
    BY <1>1, <1>2, <1>4, <2>3
  <2>4. QED  BY <2>1, <2>2, <2>3
<1>14. SendsFresh'
  BY <1>13 DEF SendsFresh, Sources
<1>15. ASSUME NEW d \in Clients, NEW w \in writers'[d]
       PROVE  /\ w.pipe \in DOMAIN pipes' /\ pipes'[w.pipe].source = w.source
              /\ pipes'[w.pipe].open /\ ~pipes'[w.pipe].done /\ w.left > 0
              /\ pipes'[w.pipe].got + pipes'[w.pipe].held + w.left = Sizes[w.source]
  BY <1>4 DEF Inv, PasteInv, WritersCount
<1>16. WritersCount'
  BY <1>15 DEF WritersCount
<1>17. ASSUME NEW i \in DOMAIN pipes'
       PROVE  /\ ~pipes'[i].open => pipes'[i].got + pipes'[i].held = Expected(pipes'[i].source)
              /\ pipes'[i].done => ~pipes'[i].open /\ pipes'[i].held = 0
  <2>1. CASE i \in DOMAIN pipes
    BY <1>4, <2>1 DEF Inv, PasteInv, ClosedIsWhole
  <2>2. CASE i = n
    <3>1. pipes'[i].source = s /\ (pipes'[i].open <=> s # None) /\ ~pipes'[i].done
          /\ pipes'[i].got = 0 /\ pipes'[i].held = 0
      BY <1>2, <1>4, <2>2
    <3>2. QED  BY <3>1 DEF Expected
  <2>3. QED  BY <1>4, <2>1, <2>2
<1>18. ClosedIsWhole'
  BY <1>17 DEF ClosedIsWhole, Expected
<1>19. OneSender'
  <2>1. ASSUME NEW d \in Clients, NEW e \in Clients, NEW j \in Nat, NEW k \in Nat,
               Sends(d, j)', Sends(e, k)', toClient'[d][j].of = toClient'[e][k].of
        PROVE  d = e /\ j = k
    <3>1. PICK m \in Nat : \A i \in Nat : Sends(d, i)' =>
            \/ Sends(d, i + m) /\ toClient'[d][i] = toClient[d][i + m]
            \/ s # None /\ d = owner[s] /\ i = Len(q[d]) + 1 /\ toClient'[d][i].of = n
      BY <1>9
    <3>2. PICK l \in Nat : \A i \in Nat : Sends(e, i)' =>
            \/ Sends(e, i + l) /\ toClient'[e][i] = toClient[e][i + l]
            \/ s # None /\ e = owner[s] /\ i = Len(q[e]) + 1 /\ toClient'[e][i].of = n
      BY <1>9
    <3>3. CASE toClient'[d][j].of = n
      <4>1. ~(Sends(d, j + m) /\ toClient'[d][j] = toClient[d][j + m])
        BY <1>10, <3>3
      <4>2. ~(Sends(e, k + l) /\ toClient'[e][k] = toClient[e][k + l])
        <5>1. toClient'[e][k].of = n /\ k + l \in Nat
          BY <2>1, <3>3
        <5>2. QED  BY <1>10, <5>1
      <4>3. QED  BY <2>1, <3>1, <3>2, <4>1, <4>2
    <3>4. CASE toClient'[d][j].of # n
      <4>1. j + m \in Nat /\ k + l \in Nat /\ k + m \in Nat
        OBVIOUS
      <4>2. Sends(d, j + m) /\ Sends(e, k + l)
            /\ toClient[d][j + m].of = toClient[e][k + l].of
        BY <2>1, <3>1, <3>2, <3>4
      <4>3. d = e
        BY <1>1, <4>1, <4>2 DEF OneSender
      <4>4. Sends(d, k + m) /\ toClient[d][j + m].of = toClient[d][k + m].of
        BY <2>1, <3>1, <3>4, <4>2, <4>3
      <4>5. j + m = k + m
        BY <1>1, <4>1, <4>2, <4>4 DEF OneSender
      <4>6. QED  BY <4>3, <4>5
    <3>5. QED  BY <3>3, <3>4
  <2>2. ASSUME NEW d \in Clients, NEW e \in Clients, NEW j \in Nat, NEW w \in writers'[e],
               Sends(d, j)'
        PROVE  toClient'[d][j].of # w.pipe
    <3>1. PICK m \in Nat :
            \/ Sends(d, j + m) /\ toClient'[d][j] = toClient[d][j + m]
            \/ toClient'[d][j].of = n
      BY <1>9, <2>2
    <3>2. j + m \in Nat /\ w \in writers[e]
      OBVIOUS
    <3>3. QED  BY <1>1, <1>11, <3>1, <3>2 DEF OneSender
  <2>3. ASSUME NEW d \in Clients, NEW e \in Clients, NEW v \in writers'[d], NEW w \in writers'[e],
               v.pipe = w.pipe
        PROVE  d = e /\ v = w
    BY <1>1, <2>3 DEF OneSender
  <2>4. QED  BY <2>1, <2>2, <2>3 DEF OneSender
<1>20. QED  BY <1>8, <1>12, <1>14, <1>16, <1>18, <1>19 DEF Inv, PasteInv

(* The selection is pasted. *)
LEMMA PasteKeeps == ASSUME Inv, NEW c \in Clients, ReceivePaste(c) PROVE Inv'
<1>1. /\ UNCHANGED <<selected, made, drag, stands, selection, dragged, writers>>
      /\ toClient[c] # <<>>
  BY DEF ReceivePaste, Receives, serverVars, sourceVars, offerVars
<1>2. TypeInv /\ toClient \in Queues /\ Taken(c) \in Queues /\ Grows(toClient, Taken(c))
  BY <1>1, TailGrows DEF Inv, TypeInv, Taken
<1>3. CASE selection[c] # None /\ Requested(Taken(c), c, selection[c])
  <2>1. selection[c] \in Offers
    BY <1>2, <1>3 DEF TypeInv
  <2>2. QED  BY <1>1, <1>2, <1>3, <2>1, RequestedKeeps
<1>4. CASE toClient' = Taken(c) /\ UNCHANGED pipes
  <2>1. Keeps
    BY <1>1, <1>2, <1>4 DEF Keeps, TypeInv
  <2>2. Quietly
    BY <1>1, <1>2, <1>4, <2>1, QuietTypes DEF Quietly, TypeInv
  <2>3. QED  BY <2>2, QuietKeeps
<1>5. QED  BY <1>3, <1>4 DEF ReceivePaste

(* What was dropped is read. *)
LEMMA TakeDroppedKeeps == ASSUME Inv, NEW c \in Clients, TakeDropped(c) PROVE Inv'
<1>1. /\ UNCHANGED <<selected, made, drag, stands, selection, dragged, writers>>
      /\ dragged[c] # None /\ Requested(toClient, c, dragged[c])
  BY DEF TakeDropped, serverVars, sourceVars, offerVars
<1>2. toClient \in Queues /\ Grows(toClient, toClient) /\ dragged[c] \in Offers
  BY <1>1, GrowsSame DEF Inv, TypeInv
<1>3. QED  BY <1>1, <1>2, RequestedKeeps

-----------------------------------------------------------------------------
(* It holds at first. *)
LEMMA InitInv == Init => Inv
<1> SUFFICES ASSUME Init PROVE Inv
  OBVIOUS
<1>1. TypeInv
  <2>1. toClient = [c \in Clients |-> <<>>] /\ toClient \in Queues
    BY DEF Init, Queues
  <2>2. drag \in [source : Sources \cup {None}, over : SUBSET Clients, accepted : BOOLEAN]
    BY DEF Init, NoDrag
  <2>3. selected \in Sources \cup {None} /\ made \in Nat
        /\ stands \in [Clients -> [Offers -> Sources \cup {None}]]
        /\ selection \in [Clients -> Offers \cup {None}]
        /\ dragged \in [Clients -> Offers \cup {None}]
    BY DEF Init
  <2>4. pipes \in Seq(PipeRecords) /\ writers \in [Clients -> SUBSET WriterRecords]
    BY DEF Init
  <2>5. QED  BY <2>1, <2>2, <2>3, <2>4 DEF TypeInv
<1>2. \A c \in Clients : toClient[c] = <<>> /\ DOMAIN toClient[c] = {}
  BY DEF Init
<1>3. \A c \in Clients : writers[c] = {}
  BY DEF Init
<1>4. pipes = <<>> /\ DOMAIN pipes = {}
  BY DEF Init
<1>5. \A c \in Clients, k \in Nat : ~Sends(c, k)
  BY <1>2 DEF Sends
<1>6. OffersTyped /\ SendsFresh /\ OneSender
  BY <1>2, <1>3, <1>5 DEF OffersTyped, SendsFresh, OneSender
<1>7. WritersCount /\ ClosedIsWhole
  BY <1>3, <1>4 DEF WritersCount, ClosedIsWhole
<1>8. QED  BY <1>1, <1>6, <1>7 DEF Inv, PasteInv

(* Every step keeps it. *)
LEMMA StepInv == Inv /\ [Next]_vars => Inv'
<1> SUFFICES ASSUME Inv, [Next]_vars PROVE Inv'
  OBVIOUS
<1> TypeInv /\ OffersTyped
  BY DEF Inv, PasteInv
<1>1. ASSUME NEW c \in Clients, FocusOn(c) \/ Point(c) \/ DragOver(c) \/ StartDrag(c)
      PROVE  Inv'
  BY <1>1, FocusOnQuiet, PointQuiet, DragOverQuiet, StartDragQuiet, QuietKeeps
<1>2. ASSUME NEW c \in Clients, Receive(c) PROVE Inv'
  <2>1. CASE ReceivePointer(c) \/ ReceiveSelection(c)
    BY <2>1, ReceivePointerQuiet, ReceiveSelectionQuiet, QuietKeeps
  <2>2. CASE ReceiveEnter(c) \/ ReceiveLeave(c) \/ ReceiveDrop(c)
    BY <2>2, ReceiveEnterQuiet, ReceiveLeaveQuiet, ReceiveDropQuiet, QuietKeeps
  <2>3. CASE ReceiveCopy(c) \/ ReceiveDropped(c) \/ ReceiveEnd(c)
    BY <2>3, ReceiveCopyQuiet, ReceiveEndQuiet, QuietKeeps
  <2>4. CASE ReceivePaste(c)
    BY <2>4, PasteKeeps
  <2>5. CASE ReceiveSend(c)
    BY <2>5, SendKeeps
  <2>6. QED  BY <1>2, <2>1, <2>2, <2>3, <2>4, <2>5 DEF Receive
<1>3. ASSUME NEW c \in Clients, TakeDropped(c) \/ Write(c) PROVE Inv'
  BY <1>3, TakeDroppedKeeps, WriteKeeps
<1>4. ASSUME NEW c \in Clients, NEW type \in {"finished", "cancelled"}, EndDrop(c, type)
      PROVE  Inv'
  BY <1>4, EndDropQuiet, QuietKeeps
<1>5. ASSUME NEW type \in {"copy", "paste"}, Press(type) PROVE Inv'
  BY <1>5, PressQuiet, QuietKeeps
<1>6. CASE Release
  BY <1>6, ReleaseQuiet, QuietKeeps
<1>7. ASSUME NEW p \in Pipes, Read(p) PROVE Inv'
  BY <1>7, ReadKeeps
<1>8. CASE UNCHANGED vars
  BY <1>8 DEF vars, serverVars, sourceVars, offerVars, pipeVars, Inv, TypeInv, PasteInv,
              OffersTyped, SendsFresh, WritersCount, ClosedIsWhole, OneSender, Sends
<1>9. QED  BY <1>1, <1>2, <1>3, <1>4, <1>5, <1>6, <1>7, <1>8 DEF Next

(* A pipe that was read to its end gave the whole of its source, whoever   *)
(* copies, drags and pastes, in whatever order.                            *)
THEOREM PasteCorrect == Spec => []PasteWhole
<1>1. Inv => PasteWhole
  <2>1. SUFFICES ASSUME Inv, NEW p \in DOMAIN pipes, pipes[p].done
                 PROVE  pipes[p].got = Expected(pipes[p].source)
    BY DEF PasteWhole, Expected
  <2>2. ~pipes[p].open /\ pipes[p].held = 0
        /\ pipes[p].got + pipes[p].held = Expected(pipes[p].source)
    BY <2>1 DEF Inv, PasteInv, ClosedIsWhole
  <2>3. pipes[p].got \in Nat
    <3>1. pipes[p] \in PipeRecords
      BY <2>1, PipeFacts DEF Inv
    <3>2. QED  BY <3>1 DEF PipeRecords
  <2>4. QED  BY <2>2, <2>3
<1>2. QED  BY <1>1, InitInv, StepInv, PTL DEF Spec

-----------------------------------------------------------------------------
(* The events about a source, which only its owner is sent, and those that *)
(* end it.                                                                 *)
Ends(e)     == e.type \in {"cancelled", "finished"}
Concerns(e) == e.type \in {"cancelled", "finished", "dropped", "send"}
Of(e, ps)   == IF e.type = "send" THEN ps[e.of].source ELSE e.of

(* The end of s is on its way. *)
Ended(q, s) == \E c \in Clients : \E k \in DOMAIN q[c] : Ends(q[c][k]) /\ q[c][k].of = s

(* Something may still be sent about s. *)
Standing(st, s) == \E c \in Clients, o \in Offers : st[c][o] = s
Live(s) == s \in {selected, drag.source} \/ Standing(stands, s)

(* A source that is made has an owner; only one that is made is alive.      *)
MadeInv ==
  /\ made <= Len(Sizes) /\ owner \in Seq(Clients) /\ Len(owner) = made
  /\ alive \subseteq 1..made

(* An event about a source finds it, as no event that ends it comes before. *)
Ordered(q, ps) ==
  \A c \in Clients : \A k \in DOMAIN q[c] : Concerns(q[c][k]) =>
    /\ Of(q[c][k], ps) \in alive /\ owner[Of(q[c][k], ps)] = c
    /\ \A j \in DOMAIN q[c] : j < k /\ Ends(q[c][j]) => q[c][j].of # Of(q[c][k], ps)

(* What something may still be sent about is alive, and its end not sent.   *)
LiveInv == \A s \in Sources : Live(s) => s \in alive /\ ~Ended(toClient, s)

CoreInv == MadeInv /\ Ordered(toClient, pipes) /\ LiveInv

(* Where the pointer is, and where what is dragged is, is told by events.  *)
Points == {"pointer_enter", "pointer_leave"}
Moves  == {"enter", "leave", "drop"}
Still(c, types)       == \A k \in DOMAIN toClient[c] : toClient[c][k].type \notin types
Announced(c, type, o) == \E k \in DOMAIN toClient[c] : toClient[c][k] = Event(type, o)
Entering(c)           == toClient[c] # <<>> /\ toClient[c][1].type = "enter"

(* The selection is not dragged. *)
SelectedInv ==
  selected # None =>
    /\ selected # drag.source
    /\ \A c \in Clients, o \in Offers : stands[c][o] = selected =>
         o # dragged[c] /\ ~Announced(c, "enter", o)

(* What is dragged is offered where it is, and nowhere else, by the event  *)
(* that is about to be taken, or the last one that was; it is not dropped. *)
OfferedInv ==
  \A c \in Clients, o \in Offers : stands[c][o] = drag.source /\ drag.source # None =>
    /\ c \in drag.over
    /\ o # selection[c] /\ ~Announced(c, "selection", o)
    /\ IF Entering(c) THEN o = toClient[c][1].of /\ o # dragged[c] ELSE o = dragged[c]

(* What is dragged is over one surface at most, which has heard of no end   *)
(* of it; it is accepted only by the one the pointer is over.               *)
OverInv ==
  /\ drag.over # {} => drag.source # None
  /\ \A c \in drag.over : /\ drag.over = {c}
                          /\ Still(c, {"leave", "drop"})
                          /\ Entering(c) \/ ~landed[c]
  /\ drag.accepted => \E c \in drag.over :
       /\ pointed[c] /\ dragged[c] # None /\ stands[c][dragged[c]] = drag.source
       /\ ~Entering(c)

(* What is dragged enters a surface that knows of nothing else about it;   *)
(* it leaves one that has nothing that was dropped, or where the pointer   *)
(* is no longer; it is dropped where the pointer is.                       *)
MovesInv ==
  /\ pointed \in [Clients -> BOOLEAN] /\ landed \in [Clients -> BOOLEAN]
  /\ \A c \in Clients : \A k \in DOMAIN toClient[c] :
       /\ toClient[c][k].type = "enter" =>
            /\ k = 1 /\ toClient[c][1].of \in Offers
            /\ stands[c][toClient[c][1].of] \in {None, drag.source}
       /\ toClient[c][k].type = "leave" => ~landed[c] \/ ~pointed[c] \/ Entering(c)
       /\ toClient[c][k].type = "drop" =>
            /\ pointed[c] /\ ~landed[c]
            /\ \A j \in DOMAIN toClient[c] : j < k => toClient[c][j].type \notin Moves
  /\ drag.over # {} \/ (\E c \in Clients : ~Still(c, Moves)) => \A c \in Clients : Still(c, Points)

DragInv == SelectedInv /\ OfferedInv /\ OverInv /\ MovesInv

-----------------------------------------------------------------------------
(* r is q with e added at the end of the queue of c. *)
Added(q, r, c, e) ==
  \A d \in Clients :
    /\ r[d] \in Seq(Events) /\ q[d] \in Seq(Events)
    /\ \A k \in DOMAIN q[d] : k \in DOMAIN r[d] /\ r[d][k] = q[d][k]
    /\ \A k \in DOMAIN r[d] :
         \/ k \in DOMAIN q[d]
         \/ /\ d = c /\ k = Len(q[d]) + 1 /\ r[d][k] = e
            /\ \A j \in DOMAIN q[d] : j < k
    /\ d = c => Len(q[d]) + 1 \in DOMAIN r[d] /\ r[d][Len(q[d]) + 1] = e

(* ... as it is once e is sent. *)
LEMMA SentEvents ==
  ASSUME NEW q \in Queues, NEW c, NEW type \in Types, NEW of \in Nat
  PROVE  Added(q, SendTo(q, c, type, of), c, Event(type, of))
<1> DEFINE e == Event(type, of)
           r == SendTo(q, c, type, of)
<1> SUFFICES ASSUME NEW d \in Clients
             PROVE  /\ r[d] \in Seq(Events) /\ q[d] \in Seq(Events)
                    /\ \A k \in DOMAIN q[d] : k \in DOMAIN r[d] /\ r[d][k] = q[d][k]
                    /\ \A k \in DOMAIN r[d] :
                         \/ k \in DOMAIN q[d]
                         \/ /\ d = c /\ k = Len(q[d]) + 1 /\ r[d][k] = e
                            /\ \A j \in DOMAIN q[d] : j < k
                    /\ d = c => Len(q[d]) + 1 \in DOMAIN r[d] /\ r[d][Len(q[d]) + 1] = e
  BY DEF Added
<1>1. e \in Events
  BY DEF Event, Events
<1>2. q \in [Clients -> Seq(Events)] /\ r = [q EXCEPT ![c] = Append(@, e)]
  BY DEF Queues, SendTo
<1>3. q[d] \in Seq(Events)
  BY <1>2
<1> HIDE DEF e, r
<1>4. CASE d # c
  <2>1. r[d] = q[d]
    BY <1>2, <1>4
  <2>2. QED  BY <1>3, <1>4, <2>1
<1>5. CASE d = c
  <2>1. r[d] = Append(q[d], e)
    BY <1>2, <1>5
  <2> DEFINE a == q[d]
  <2>2. a \in Seq(Events) /\ r[d] = Append(a, e)
    BY <1>3, <2>1
  <2> HIDE DEF a
  <2>3. /\ Append(a, e) \in Seq(Events)
        /\ \A k \in DOMAIN a : k \in DOMAIN Append(a, e) /\ Append(a, e)[k] = a[k]
        /\ \A k \in DOMAIN Append(a, e) :
             k \in DOMAIN a \/ (k = Len(a) + 1 /\ Append(a, e)[k] = e /\ \A j \in DOMAIN a : j < k)
        /\ Len(a) + 1 \in DOMAIN Append(a, e) /\ Append(a, e)[Len(a) + 1] = e
    BY <1>1, <2>2
  <2>4. QED  BY <1>5, <2>2, <2>3 DEF a
<1>6. QED  BY <1>4, <1>5

(* ... and once an event is taken. *)
LEMMA TakenEvents ==
  ASSUME NEW q \in Queues, NEW c \in Clients, q[c] # <<>>, NEW d \in Clients
  PROVE  LET r == [q EXCEPT ![c] = Tail(@)] IN
         /\ d # c => r[d] = q[d]
         /\ r[c] \in Seq(Events) /\ q[c] \in Seq(Events) /\ 1 \in DOMAIN q[c]
         /\ \A k \in DOMAIN r[c] : k + 1 \in DOMAIN q[c] /\ r[c][k] = q[c][k + 1] /\ k \in Nat \ {0}
         /\ \A k \in DOMAIN q[c] : k # 1 => k - 1 \in DOMAIN r[c] /\ r[c][k - 1] = q[c][k]
<1> DEFINE r == [q EXCEPT ![c] = Tail(@)]
           a == q[c]
<1>1. q \in [Clients -> Seq(Events)]
  BY DEF Queues
<1>2. a \in Seq(Events) /\ a # <<>> /\ r[c] = Tail(a) /\ (d # c => r[d] = q[d])
  BY <1>1
<1> HIDE DEF a
<1>3. /\ Tail(a) \in Seq(Events) /\ 1 \in DOMAIN a
      /\ \A k \in DOMAIN Tail(a) : k + 1 \in DOMAIN a /\ Tail(a)[k] = a[k + 1] /\ k \in Nat \ {0}
      /\ \A k \in DOMAIN a : k # 1 => k - 1 \in DOMAIN Tail(a) /\ Tail(a)[k - 1] = a[k]
  BY <1>2
<1>4. QED  BY <1>2, <1>3 DEF a

-----------------------------------------------------------------------------
(* An event that is about no source. *)
LEMMA PlainSent ==
  ASSUME NEW q \in Queues, NEW c, NEW type \in Types, NEW of \in Nat,
         type \notin {"cancelled", "finished", "dropped", "send"}
  PROVE  LET r == SendTo(q, c, type, of) IN
         /\ Ordered(q, pipes) => Ordered(r, pipes)
         /\ \A s : Ended(r, s) <=> Ended(q, s)
<1> DEFINE r == SendTo(q, c, type, of)
<1>1. ~Concerns(Event(type, of)) /\ ~Ends(Event(type, of))
  BY DEF Event, Concerns, Ends
<1>2. ASSUME NEW d \in Clients
      PROVE  /\ \A k \in DOMAIN q[d] : k \in DOMAIN r[d] /\ r[d][k] = q[d][k]
             /\ \A k \in DOMAIN r[d] : k \in DOMAIN q[d] \/ r[d][k] = Event(type, of)
  <2>1. Added(q, r, c, Event(type, of))
    BY SentEvents
  <2> HIDE DEF r
  <2>2. QED  BY <2>1 DEF Added
<1> HIDE DEF r
<1>3. ASSUME Ordered(q, pipes) PROVE Ordered(r, pipes)
  BY <1>1, <1>2, <1>3 DEF Ordered, Ends, Concerns
<1>4. ASSUME NEW s PROVE Ended(r, s) <=> Ended(q, s)
  BY <1>1, <1>2 DEF Ended
<1>5. QED  BY <1>3, <1>4 DEF r

(* What leaves is told so. *)
LEMMA LeftOrdered ==
  ASSUME NEW q \in Queues, NEW left, NEW type \in {"leave", "pointer_leave"}
  PROVE  LET r == LeaveSent(q, left, type) IN
         /\ Ordered(q, pipes) => Ordered(r, pipes)
         /\ \A s : Ended(r, s) <=> Ended(q, s)
<1>1. CASE left = {}
  BY <1>1 DEF LeaveSent
<1>2. CASE left # {}
  <2>1. type \in Types /\ type \notin {"cancelled", "finished", "dropped", "send"} /\ None \in Nat
    BY DEF Types, None
  <2>2. LeaveSent(q, left, type) = SendTo(q, CHOOSE c \in left : TRUE, type, None)
    BY <1>2 DEF LeaveSent
  <2>3. QED  BY <2>1, <2>2, PlainSent
<1>3. QED  BY <1>1, <1>2

(* The first event is taken. *)
LEMMA TakenOrdered ==
  ASSUME NEW q \in Queues, NEW c \in Clients, q[c] # <<>>
  PROVE  LET r == [q EXCEPT ![c] = Tail(@)] IN
         /\ Ordered(q, pipes) => Ordered(r, pipes)
         /\ \A s : Ended(r, s) => Ended(q, s)
         /\ \A s : Ended(q, s) => Ended(r, s) \/ (Ends(q[c][1]) /\ q[c][1].of = s)
<1> DEFINE r == [q EXCEPT ![c] = Tail(@)]
<1>1. /\ \A d \in Clients : d # c => r[d] = q[d]
      /\ q[c] \in Seq(Events) /\ 1 \in DOMAIN q[c]
      /\ \A k \in DOMAIN r[c] : k + 1 \in DOMAIN q[c] /\ r[c][k] = q[c][k + 1] /\ k \in Nat \ {0}
      /\ \A k \in DOMAIN q[c] : k # 1 => k - 1 \in DOMAIN r[c] /\ r[c][k - 1] = q[c][k]
  BY TakenEvents
<1> HIDE DEF r
<1>2. ASSUME Ordered(q, pipes) PROVE Ordered(r, pipes)
  <2>1. ASSUME NEW d \in Clients, NEW k \in DOMAIN r[d], Concerns(r[d][k])
        PROVE  /\ Of(r[d][k], pipes) \in alive /\ owner[Of(r[d][k], pipes)] = d
               /\ \A j \in DOMAIN r[d] : j < k /\ Ends(r[d][j]) => r[d][j].of # Of(r[d][k], pipes)
    <3>1. CASE d # c
      BY SMTT(30), <1>1, <1>2, <2>1, <3>1 DEF Ordered
    <3>2. CASE d = c
      <4>1. /\ k + 1 \in DOMAIN q[c] /\ r[c][k] = q[c][k + 1]
        BY <1>1, <3>2
      <4>2. /\ Of(q[c][k + 1], pipes) \in alive /\ owner[Of(q[c][k + 1], pipes)] = c
            /\ \A j \in DOMAIN q[c] : j < k + 1 /\ Ends(q[c][j]) => q[c][j].of # Of(q[c][k + 1], pipes)
        BY <1>2, <2>1, <3>2, <4>1 DEF Ordered
      <4>3. ASSUME NEW j \in DOMAIN r[c], j < k, Ends(r[c][j])
            PROVE  r[c][j].of # Of(r[c][k], pipes)
        <5>1. j + 1 \in DOMAIN q[c] /\ r[c][j] = q[c][j + 1] /\ j \in Nat /\ k \in Nat
          BY <1>1, <3>2
        <5>2. j + 1 < k + 1
          BY <4>3, <5>1
        <5>3. QED  BY <4>1, <4>2, <4>3, <5>1, <5>2
      <4>4. QED  BY <3>2, <4>1, <4>2, <4>3
    <3>3. QED  BY <3>1, <3>2
  <2>2. QED  BY <2>1 DEF Ordered
<1>3. ASSUME NEW s, Ended(r, s) PROVE Ended(q, s)
  BY <1>1, <1>3 DEF Ended
<1>4. ASSUME NEW s, Ended(q, s) PROVE Ended(r, s) \/ (Ends(q[c][1]) /\ q[c][1].of = s)
  <2>0. PICK d \in Clients : \E k \in DOMAIN q[d] : Ends(q[d][k]) /\ q[d][k].of = s
    BY <1>4 DEF Ended
  <2>1. PICK k \in DOMAIN q[d] : Ends(q[d][k]) /\ q[d][k].of = s
    BY <2>0
  <2>2. CASE d # c
    BY <1>1, <2>1, <2>2 DEF Ended
  <2>3. CASE d = c /\ k # 1
    <3>1. k - 1 \in DOMAIN r[c] /\ r[c][k - 1] = q[c][k]
      BY <1>1, <2>3
    <3>2. QED  BY <2>1, <2>3, <3>1 DEF Ended
  <2>4. QED  BY <2>1, <2>2, <2>3
<1>5. QED  BY <1>2, <1>3, <1>4 DEF r

(* An event about a source is sent while its end is not on its way. *)
LEMMA AddedOrdered ==
  ASSUME NEW q, NEW r, NEW ps, NEW e, NEW s \in alive, Added(q, r, owner[s], e),
         Concerns(e), Of(e, ps) = s, Ordered(q, ps), ~Ended(q, s)
  PROVE  Ordered(r, ps)
<1>1. ASSUME NEW d \in Clients, NEW k \in DOMAIN r[d], Concerns(r[d][k])
      PROVE  /\ Of(r[d][k], ps) \in alive /\ owner[Of(r[d][k], ps)] = d
             /\ \A j \in DOMAIN r[d] : j < k /\ Ends(r[d][j]) => r[d][j].of # Of(r[d][k], ps)
  <2>1. CASE k \in DOMAIN q[d]
    <3>1. ASSUME NEW j \in DOMAIN r[d], j < k PROVE j \in DOMAIN q[d] /\ r[d][j] = q[d][j]
      <4>1. k <= Len(q[d]) /\ j \in Nat /\ k \in Nat /\ Len(q[d]) \in Nat
        BY <2>1 DEF Added
      <4>2. j # Len(q[d]) + 1
        BY <3>1, <4>1
      <4>3. QED  BY <4>2 DEF Added
    <3>2. r[d][k] = q[d][k]
      BY <2>1 DEF Added
    <3>3. QED  BY <1>1, <2>1, <3>1, <3>2 DEF Ordered
  <2>2. CASE k \notin DOMAIN q[d]
    <3>1. d = owner[s] /\ k = Len(q[d]) + 1 /\ r[d][k] = e
      BY <2>2 DEF Added
    <3>2. ASSUME NEW j \in DOMAIN r[d], j < k, Ends(r[d][j]) PROVE r[d][j].of # s
      <4>1. j \in DOMAIN q[d] /\ r[d][j] = q[d][j]
        <5>1. j # k /\ j \in Nat /\ k \in Nat
          BY <3>2 DEF Added
        <5>2. QED  BY <3>1, <5>1 DEF Added
      <4>2. QED  BY <3>2, <4>1 DEF Ended
    <3>3. QED  BY <3>1, <3>2
  <2>3. QED  BY <2>1, <2>2
<1>2. QED  BY <1>1 DEF Ordered

(* A source is told something while its end is not on its way. *)
LEMMA ToldOrdered ==
  ASSUME NEW q \in Queues, NEW s \in Sources \cup {None},
         NEW type \in {"dropped", "cancelled", "finished"},
         Ordered(q, pipes), s # None => s \in alive /\ ~Ended(q, s)
  PROVE  LET r == Tell(q, s, type) IN
         /\ Ordered(r, pipes)
         /\ \A t : Ended(r, t) => Ended(q, t) \/ (type # "dropped" /\ t = s /\ s # None)
<1>1. CASE s = None
  BY <1>1 DEF Tell
<1>2. CASE s # None
  <2> DEFINE r == SendTo(q, owner[s], type, s)
             e == Event(type, s)
  <2>1. type \in Types /\ s \in Nat
    BY <1>2, DataDeviceAssumption DEF Types, Sources
  <2>2. /\ Concerns(e) /\ Of(e, pipes) = s /\ e.of = s /\ (Ends(e) <=> type # "dropped")
    BY DEF Event, Concerns, Of, Ends
  <2>3. Added(q, r, owner[s], e)
    BY <2>1, SentEvents
  <2> HIDE DEF r, e
  <2>4. Ordered(r, pipes)
    BY <1>2, <2>2, <2>3, AddedOrdered
  <2>5. ASSUME NEW t, Ended(r, t) PROVE Ended(q, t) \/ (type # "dropped" /\ t = s)
    BY <2>2, <2>3, <2>5 DEF Ended, Added
  <2>6. QED  BY <1>2, <2>4, <2>5 DEF r, Tell
<1>3. QED  BY <1>1, <1>2

(* ... of which its end arrives. *)
LEMMA ToldEnds ==
  ASSUME NEW q \in Queues, NEW s \in Sources \cup {None},
         NEW type \in {"dropped", "cancelled", "finished"}
  PROVE  LET r == Tell(q, s, type) IN
         /\ \A t : Ended(q, t) => Ended(r, t)
         /\ type # "dropped" /\ s # None /\ owner[s] \in Clients => Ended(r, s)
<1>1. CASE s = None
  BY <1>1 DEF Tell
<1>2. CASE s # None
  <2> DEFINE r == SendTo(q, owner[s], type, s)
             e == Event(type, s)
  <2>1. type \in Types /\ s \in Nat
    BY <1>2, DataDeviceAssumption DEF Types, Sources
  <2>2. e.of = s /\ (Ends(e) <=> type # "dropped")
    BY DEF Event, Ends
  <2>3. Added(q, r, owner[s], e)
    BY <2>1, SentEvents
  <2> HIDE DEF r, e
  <2>4. ASSUME NEW t, Ended(q, t) PROVE Ended(r, t)
    BY <2>3, <2>4 DEF Ended, Added
  <2>5. ASSUME type # "dropped", owner[s] \in Clients PROVE Ended(r, s)
    <3>1. \E k \in DOMAIN r[owner[s]] : r[owner[s]][k] = e
      BY <2>3, <2>5 DEF Added
    <3>2. QED  BY <2>2, <2>5, <3>1 DEF Ended
  <2>6. QED  BY <1>2, <2>4, <2>5 DEF r, Tell
<1>3. QED  BY <1>1, <1>2

-----------------------------------------------------------------------------
(* What stands for s is made to stand for nothing. *)
LEMMA InertStands ==
  ASSUME NEW st \in [Clients -> [Offers -> Sources \cup {None}]], NEW s, NEW t \in Sources,
         Standing(Inert(st, s), t)
  PROVE  t # s /\ Standing(st, t)
<1>1. PICK c \in Clients, o \in Offers : Inert(st, s)[c][o] = t
  BY DEF Standing
<1>2. (IF st[c][o] = s THEN None ELSE st[c][o]) = t
  BY <1>1 DEF Inert
<1>3. t # None
  BY DataDeviceAssumption DEF Sources, None
<1>4. QED  BY <1>2, <1>3 DEF Standing

(* An offer comes to stand for s. *)
LEMMA PutStands ==
  ASSUME NEW st \in [Clients -> [Offers -> Sources \cup {None}]], NEW c, NEW o, NEW s,
         NEW t \in Sources, Standing([st EXCEPT ![c][o] = s], t)
  PROVE  Standing(st, t) \/ t = s
<1>1. PICK d \in Clients, p \in Offers : [st EXCEPT ![c][o] = s][d][p] = t
  BY DEF Standing
<1>2. st[d][p] = t \/ t = s
  BY <1>1
<1>3. QED  BY <1>2 DEF Standing

(* A step that makes no source, and sends what it may. *)
LEMMA CoreKept ==
  ASSUME CoreInv, UNCHANGED <<made, owner, alive, pipes>>, Ordered(toClient', pipes),
         \A s \in Sources : Live(s)' => Live(s) /\ ~Ended(toClient', s)
  PROVE  CoreInv'
<1>1. MadeInv'
  BY DEF CoreInv, MadeInv
<1>2. (Ordered(toClient, pipes))'
  BY DEF Ordered, Of, Concerns, Ends
<1>3. LiveInv'
  BY DEF CoreInv, LiveInv, Ended, Ends
<1>4. QED  BY <1>1, <1>2, <1>3 DEF CoreInv

(* An application destroys an offer with the event it takes.               *)
LEMMA DestroyCore ==
  ASSUME TypeInv, CoreInv, NEW c \in Clients, NEW o \in Offers \cup {None},
         toClient[c] # <<>>, Destroy(c, o), Unfinished(c, o) \notin {selected, drag.source} \ {None},
         selected' = selected, drag'.source = drag.source, UNCHANGED <<made, owner, alive, pipes>>
  PROVE  CoreInv'
<1> DEFINE s == Unfinished(c, o)
           q == [toClient EXCEPT ![c] = Tail(@)]
<1>1. /\ s \in Sources \cup {None} /\ (o = None => s = None)
      /\ s # None => Live(s)
  BY DEF Unfinished, TypeInv, Live, Standing
<1>2. toClient \in Queues /\ toClient' = Tell(q, s, "cancelled")
  BY DEF TypeInv, Destroy
<1>3. q \in Queues /\ Ordered(q, pipes) /\ \A t : Ended(q, t) => Ended(toClient, t)
  BY <1>2, TailGrows, TakenOrdered DEF CoreInv
<1>4. s # None => s \in alive /\ ~Ended(q, s)
  BY <1>1, <1>3 DEF CoreInv, LiveInv
<1> HIDE DEF s, q
<1>5. Ordered(toClient', pipes) /\ \A t : Ended(toClient', t) => Ended(q, t) \/ t = s
  BY <1>1, <1>2, <1>3, <1>4, ToldOrdered
<1>6. ASSUME NEW t \in Sources, Standing(stands', t) PROVE t # s /\ Standing(stands, t)
  <2>1. stands \in [Clients -> [Offers -> Sources \cup {None}]]
    BY DEF TypeInv
  <2>2. t # None
    BY DataDeviceAssumption DEF Sources, None
  <2>3. CASE o = None
    BY <1>1, <1>6, <2>2, <2>3 DEF Destroy
  <2>4. CASE o # None
    <3>1. stands' = [Inert(stands, s) EXCEPT ![c][o] = None]
      BY <2>4 DEF Destroy, s
    <3>2. Inert(stands, s) \in [Clients -> [Offers -> Sources \cup {None}]]
      BY <2>1, InertTyped
    <3>3. Standing(Inert(stands, s), t)
      BY <1>6, <2>2, <3>1, <3>2, PutStands
    <3>4. QED  BY <2>1, <3>3, InertStands
  <2>5. QED  BY <2>3, <2>4
<1>7. ASSUME NEW t \in Sources, Live(t)' PROVE Live(t) /\ ~Ended(toClient', t)
  <2>1. t # None
    BY DataDeviceAssumption DEF Sources, None
  <2>2. Live(t) /\ t # s
    BY <1>6, <1>7, <2>1 DEF Live, s
  <2>3. QED  BY <1>3, <1>5, <2>2 DEF CoreInv, LiveInv
<1>8. QED  BY <1>5, <1>7, CoreKept

(* An application takes an event, and no more. *)
LEMMA TakeCore ==
  ASSUME TypeInv, CoreInv, NEW c \in Clients, toClient[c] # <<>>, Take(c),
         selected' = selected, drag'.source = drag.source, UNCHANGED <<made, owner, alive, pipes>>
  PROVE  CoreInv'
<1>1. toClient \in Queues /\ toClient' = [toClient EXCEPT ![c] = Tail(@)] /\ stands' = stands
  BY DEF TypeInv, Take, Taken
<1>2. Ordered(toClient', pipes) /\ \A t : Ended(toClient', t) => Ended(toClient, t)
  BY <1>1, TakenOrdered DEF CoreInv
<1>3. ASSUME NEW t \in Sources, Live(t)' PROVE Live(t) /\ ~Ended(toClient', t)
  <2>1. Live(t)
    BY <1>1, <1>3 DEF Live
  <2>2. QED  BY <1>2, <2>1 DEF CoreInv, LiveInv
<1>4. QED  BY <1>2, <1>3, CoreKept

(* The selection is sent, after other events. *)
LEMMA SelectionStands ==
  ASSUME TypeInv, NEW q \in Queues, NEW c, NEW s, SelectionSent(q, c, s)
  PROVE  /\ Ordered(q, pipes) => Ordered(toClient', pipes)
         /\ \A t : Ended(toClient', t) <=> Ended(q, t)
         /\ \A t \in Sources : Standing(stands', t) =>
              t = s \/ (t # selected /\ Standing(stands, t))
<1>1. "selection" \in Types /\ NewOffer(c) \in Nat
  BY OfferFacts DEF Types, SelectionSent
<1>2. toClient' = SendTo(q, c, "selection", NewOffer(c))
  BY DEF SelectionSent
<1>3. ASSUME NEW t \in Sources, Standing(stands', t)
      PROVE  t = s \/ (t # selected /\ Standing(stands, t))
  <2>1. stands \in [Clients -> [Offers -> Sources \cup {None}]]
    BY DEF TypeInv
  <2>2. Inert(stands, selected) \in [Clients -> [Offers -> Sources \cup {None}]]
    BY <2>1, InertTyped
  <2>3. Standing(Inert(stands, selected), t) \/ t = s
    BY <1>3, <2>2, PutStands DEF SelectionSent
  <2>4. QED  BY <2>1, <2>3, InertStands
<1>4. QED  BY <1>1, <1>2, <1>3, PlainSent

(* The types the lemmas need. *)
LEMMA Basics ==
  ASSUME TypeInv
  PROVE  /\ toClient \in Queues
         /\ stands \in [Clients -> [Offers -> Sources \cup {None}]]
         /\ selected \in Sources \cup {None} /\ drag.source \in Sources \cup {None}
         /\ \A t \in Sources : t # None /\ t \in Nat
         /\ \A c \in Clients : dragged[c] \in Offers \cup {None} /\ selection[c] \in Offers \cup {None}
         /\ None \notin Offers
<1>1. None \notin Sources /\ None \notin Offers /\ Sources \subseteq Nat
  BY DataDeviceAssumption DEF Sources, Offers, None
<1>2. QED  BY <1>1 DEF TypeInv

(* The first event of a queue. *)
LEMMA FirstEvent ==
  ASSUME TypeInv, NEW c \in Clients, toClient[c] # <<>>
  PROVE  1 \in DOMAIN toClient[c] /\ toClient[c][1] \in Events /\ toClient[c] \in Seq(Events)
BY DEF TypeInv, Queues

(* The keyboard goes to another client, which is offered the selection. *)
LEMMA FocusOnCore == ASSUME TypeInv, CoreInv, NEW c \in Clients, FocusOn(c) PROVE CoreInv'
<1>1. toClient \in Queues /\ UNCHANGED <<selected, drag, made, owner, alive, pipes>>
      /\ \A t \in Sources : t # None
  BY Basics DEF FocusOn, sourceVars, pipeVars
<1>2. CASE toClient' = SendTo(toClient, c, "selection", None) /\ UNCHANGED stands
  <2>1. Ordered(toClient', pipes) /\ \A t : Ended(toClient', t) <=> Ended(toClient, t)
    BY <1>1, <1>2, PlainSent DEF Types, None, CoreInv
  <2>2. \A t \in Sources : Live(t)' => Live(t)
    BY <1>1, <1>2 DEF Live
  <2>3. QED  BY <1>1, <2>1, <2>2, CoreKept DEF CoreInv, LiveInv
<1>3. CASE SelectionSent(toClient, c, selected)
  <2>1. /\ Ordered(toClient', pipes) /\ \A t : Ended(toClient', t) <=> Ended(toClient, t)
        /\ \A t \in Sources : Standing(stands', t) =>
             t = selected \/ (t # selected /\ Standing(stands, t))
    BY <1>1, <1>3, SelectionStands DEF CoreInv
  <2>2. \A t \in Sources : Live(t)' => Live(t)
    BY <1>1, <2>1 DEF Live
  <2>3. QED  BY <1>1, <2>1, <2>2, CoreKept DEF CoreInv, LiveInv
<1>4. QED  BY <1>2, <1>3 DEF FocusOn

(* Events about no source are sent, and no more stands for a source than did. *)
LEMMA PlainCore ==
  ASSUME CoreInv, UNCHANGED <<selected, made, owner, alive, pipes>>, drag'.source \in {drag.source, None},
         Ordered(toClient', pipes), \A t : Ended(toClient', t) <=> Ended(toClient, t),
         \A t \in Sources : Standing(stands', t) => Live(t), None \notin Sources
  PROVE  CoreInv'
<1>1. \A t \in Sources : Live(t)' => Live(t)
  BY DEF Live
<1>2. QED  BY <1>1, CoreKept DEF CoreInv, LiveInv

(* The user copies or pastes: the client with the keyboard is told. *)
LEMMA PressCore == ASSUME TypeInv, CoreInv, NEW type \in {"copy", "paste"}, Press(type) PROVE CoreInv'
<1>1. toClient \in Queues /\ UNCHANGED <<selected, drag, stands, made, owner, alive, pipes>>
      /\ None \notin Sources
  BY Basics DEF Press, serverVars, sourceVars, pipeVars
<1>2. toClient' = SendTo(toClient, focus, type, None)
  BY DEF Press
<1>3. Ordered(toClient', pipes) /\ \A t : Ended(toClient', t) <=> Ended(toClient, t)
  BY <1>1, <1>2, PlainSent DEF Types, None, CoreInv
<1>4. QED  BY <1>1, <1>3, PlainCore DEF Live

(* The pointer goes to another client. *)
LEMMA PointCore == ASSUME TypeInv, CoreInv, NEW c \in Clients, Point(c) PROVE CoreInv'
<1>1. toClient \in Queues /\ UNCHANGED <<selected, drag, stands, made, owner, alive, pipes>>
      /\ None \notin Sources
  BY Basics DEF Point, sourceVars, pipeVars
<1> DEFINE q == LeaveSent(toClient, pointer, "pointer_leave")
<1>2. q \in Queues /\ Ordered(q, pipes) /\ \A t : Ended(q, t) <=> Ended(toClient, t)
  BY <1>1, LeaveGrows, LeftOrdered DEF CoreInv
<1>3. toClient' = SendTo(q, c, "pointer_enter", None)
  BY DEF Point
<1> HIDE DEF q
<1>4. Ordered(toClient', pipes) /\ \A t : Ended(toClient', t) <=> Ended(q, t)
  BY <1>2, <1>3, PlainSent DEF Types, None
<1>5. QED  BY <1>1, <1>2, <1>4, PlainCore DEF Live

(* What is dragged goes over another surface, which is offered it. *)
LEMMA DragOverCore == ASSUME TypeInv, CoreInv, NEW c \in Clients, DragOver(c) PROVE CoreInv'
<1>1. toClient \in Queues /\ UNCHANGED <<selected, made, owner, alive, pipes>>
      /\ None \notin Sources /\ drag'.source = drag.source
  BY Basics DEF DragOver, sourceVars, pipeVars, TypeInv
<1> DEFINE q == LeaveSent(toClient, drag.over, "leave")
<1>2. q \in Queues /\ Ordered(q, pipes) /\ \A t : Ended(q, t) <=> Ended(toClient, t)
  BY <1>1, LeaveGrows, LeftOrdered DEF CoreInv
<1>3. toClient' = SendTo(q, c, "enter", NewOffer(c)) /\ NewOffer(c) \in Nat
  BY OfferFacts DEF DragOver
<1> HIDE DEF q
<1>4. Ordered(toClient', pipes) /\ \A t : Ended(toClient', t) <=> Ended(q, t)
  BY <1>2, <1>3, PlainSent DEF Types
<1>5. ASSUME NEW t \in Sources, Standing(stands', t) PROVE Live(t)
  <2>1. PICK d \in Clients, o \in Offers : stands'[d][o] = t
    BY <1>5 DEF Standing
  <2>2. stands'[d][o] \in {drag.source, None, stands[d][o]}
    BY DEF DragOver
  <2>3. QED  BY <1>1, <2>1, <2>2 DEF Live, Standing
<1>6. QED  BY <1>1, <1>2, <1>4, <1>5, PlainCore

(* What is dragged is dropped, or given up. *)
LEMMA ReleaseCore == ASSUME TypeInv, CoreInv, DragInv, Release PROVE CoreInv'
<1>1. toClient \in Queues /\ UNCHANGED <<selected, made, owner, alive, pipes>>
      /\ None \notin Sources /\ drag'.source = None /\ drag.source \in Sources /\ Live(drag.source)
      /\ drag.source \in alive /\ ~Ended(toClient, drag.source)
  BY Basics DEF Release, sourceVars, pipeVars, NoDrag, Live, CoreInv, LiveInv
<1>2. ASSUME NEW c \in Clients, UNCHANGED stands,
             toClient' = LeaveSent(SendTo(Tell(toClient, drag.source, "dropped"), c, "drop", None),
                                  drag.over, "leave")
      PROVE  CoreInv'
  <2> DEFINE q == Tell(toClient, drag.source, "dropped")
             r == SendTo(q, c, "drop", None)
  <2>1. /\ q \in Queues /\ Ordered(q, pipes) /\ \A t : Ended(q, t) <=> Ended(toClient, t)
    BY <1>1, TellGrows, ToldOrdered, ToldEnds DEF CoreInv
  <2>2. toClient' = LeaveSent(r, drag.over, "leave")
    BY <1>2
  <2> HIDE DEF q
  <2>3. r \in Queues /\ Ordered(r, pipes) /\ \A t : Ended(r, t) <=> Ended(q, t)
    <3>1. "drop" \in Types \ {"send"} /\ None \in Nat /\ IsOffer(Event("drop", None))
          /\ "drop" \notin {"cancelled", "finished", "dropped", "send"}
      BY DEF Types, None, IsOffer, Event
    <3>2. r \in Queues
      BY <2>1, <3>1, SendGrows
    <3>3. QED  BY <2>1, <3>1, <3>2, PlainSent
  <2> HIDE DEF r
  <2>4. Ordered(toClient', pipes) /\ \A t : Ended(toClient', t) <=> Ended(r, t)
    BY <2>2, <2>3, LeftOrdered
  <2>5. QED  BY <1>1, <1>2, <2>1, <2>3, <2>4, PlainCore DEF Live
<1>3. ASSUME stands' = Inert(stands, drag.source),
             toClient' = LeaveSent(Tell(toClient, drag.source, "cancelled"), drag.over, "leave")
      PROVE  CoreInv'
  <2> DEFINE q == Tell(toClient, drag.source, "cancelled")
  <2>1. /\ q \in Queues /\ Ordered(q, pipes)
        /\ \A t : Ended(q, t) => Ended(toClient, t) \/ t = drag.source
    BY <1>1, TellGrows, ToldOrdered DEF CoreInv
  <2>2. toClient' = LeaveSent(q, drag.over, "leave")
    BY <1>3
  <2> HIDE DEF q
  <2>3. Ordered(toClient', pipes) /\ \A t : Ended(toClient', t) <=> Ended(q, t)
    BY <2>1, <2>2, LeftOrdered
  <2>4. ASSUME NEW t \in Sources, Live(t)' PROVE Live(t) /\ ~Ended(toClient', t)
    <3>1. CASE Standing(stands', t)
      <4>1. t # drag.source /\ Standing(stands, t)
        BY <1>3, <3>1, Basics, InertStands
      <4>2. QED  BY <2>1, <2>3, <4>1 DEF Live, CoreInv, LiveInv
    <3>2. CASE t = selected
      <4>1. t # drag.source
        BY <1>1, <3>2 DEF DragInv, SelectedInv
      <4>2. QED  BY <2>1, <2>3, <3>2, <4>1 DEF Live, CoreInv, LiveInv
    <3>3. QED  BY <1>1, <2>4, <3>1, <3>2 DEF Live
  <2>5. QED  BY <1>1, <2>1, <2>3, <2>4, CoreKept
<1>4. QED
  <2>1. drag.over \subseteq Clients
    BY DEF TypeInv
  <2>2. QED  BY <1>2, <1>3, <2>1 DEF Release

(* What an application that destroys the offer dragged over it may end.    *)
LEMMA UnfinishedEnds ==
  ASSUME TypeInv, DragInv, NEW c \in Clients, NEW o,
         \/ o = selection[c]
         \/ o = dragged[c] /\ (Entering(c) \/ landed[c] \/ ~Still(c, {"leave", "drop"}))
  PROVE  Unfinished(c, o) \notin {selected, drag.source} \ {None}
<1>1. SUFFICES ASSUME o # None, o = dragged[c], stands[c][o] # None
               PROVE  stands[c][o] # selected /\ stands[c][o] # drag.source
  BY DEF Unfinished
<1>2. o \in Offers
  BY <1>1, Basics
<1>3. stands[c][o] # selected
  BY <1>1, <1>2 DEF DragInv, SelectedInv
<1>4. stands[c][o] # drag.source
  BY <1>1, <1>2 DEF DragInv, OfferedInv, OverInv
<1>5. QED  BY <1>3, <1>4

(* The first event of an application, of this type.                        *)
LEMMA FirstIs ==
  ASSUME TypeInv, NEW c \in Clients, NEW type, Receives(c, type)
  PROVE  /\ toClient[c] # <<>> /\ 1 \in DOMAIN toClient[c] /\ toClient[c][1].type = type
         /\ Entering(c) <=> type = "enter"
         /\ \A types : type \in types => ~Still(c, types)
BY FirstEvent DEF Receives, Entering, Still

(* The selection is known: the offer known before is given up. *)
LEMMA ReceiveSelectionCore ==
  ASSUME TypeInv, CoreInv, DragInv, NEW c \in Clients, ReceiveSelection(c) PROVE CoreInv'
<1>1. /\ UNCHANGED <<selected, drag, made, owner, alive, pipes>> /\ toClient[c] # <<>>
      /\ selection[c] \in Offers \cup {None} /\ Destroy(c, selection[c])
  BY Basics DEF ReceiveSelection, Receives, sourceVars, pipeVars
<1>2. QED  BY <1>1, UnfinishedEnds, DestroyCore

(* What is dragged comes in: the offer known before is given up. *)
LEMMA ReceiveEnterCore ==
  ASSUME TypeInv, CoreInv, DragInv, NEW c \in Clients, ReceiveEnter(c) PROVE CoreInv'
<1>1. /\ UNCHANGED <<selected, made, owner, alive, pipes>> /\ toClient[c] # <<>>
      /\ dragged[c] \in Offers \cup {None} /\ Destroy(c, dragged[c]) /\ Entering(c)
  BY Basics, FirstIs DEF ReceiveEnter, sourceVars, pipeVars
<1>2. drag'.source = drag.source
  BY DEF ReceiveEnter, TypeInv
<1>3. QED  BY <1>1, <1>2, UnfinishedEnds, DestroyCore

(* It leaves: its offer is given up, if there was one. *)
LEMMA ReceiveLeaveCore ==
  ASSUME TypeInv, CoreInv, DragInv, NEW c \in Clients, ReceiveLeave(c) PROVE CoreInv'
<1>1. /\ UNCHANGED <<selected, drag, made, owner, alive, pipes>> /\ toClient[c] # <<>>
      /\ dragged[c] \in Offers \cup {None} /\ ~Still(c, {"leave", "drop"})
      /\ Take(c) \/ Destroy(c, dragged[c])
  BY Basics, FirstIs DEF ReceiveLeave, sourceVars, pipeVars
<1>2. QED  BY <1>1, UnfinishedEnds, DestroyCore, TakeCore

(* The steps that only take an event. *)
LEMMA TakenCore ==
  ASSUME TypeInv, CoreInv, NEW c \in Clients,
         ReceivePointer(c) \/ ReceiveDrop(c) \/ ReceiveDropped(c) \/ ReceiveSend(c)
  PROVE  CoreInv'
<1>1. /\ UNCHANGED <<selected, drag, made, owner, alive, pipes>> /\ toClient[c] # <<>> /\ Take(c)
  BY DEF ReceivePointer, ReceiveDrop, ReceiveDropped, ReceiveSend, Receives, sourceVars, pipeVars
<1>2. QED  BY <1>1, TakeCore

(* What was dropped is done with: its source is told, and ends. *)
LEMMA EndDropCore ==
  ASSUME TypeInv, CoreInv, DragInv, NEW c \in Clients, NEW type \in {"finished", "cancelled"},
         EndDrop(c, type)
  PROVE  CoreInv'
<1> DEFINE o == dragged[c]
           s == stands[c][o]
<1>1. /\ UNCHANGED <<selected, drag, made, owner, alive, pipes>> /\ toClient \in Queues
      /\ o \in Offers /\ s \in Sources \cup {None} /\ (s # None => Live(s))
  BY Basics DEF EndDrop, sourceVars, pipeVars, Live, Standing, TypeInv
<1>2. s # None => s # selected /\ s # drag.source
  <2>1. Unfinished(c, o) = s
    BY <1>1, Basics DEF Unfinished
  <2>2. landed[c]
    BY DEF EndDrop
  <2>3. QED  BY <2>1, <2>2, UnfinishedEnds
<1>3. toClient' = Tell(toClient, s, type) /\ stands' = [Inert(stands, s) EXCEPT ![c][o] = None]
  BY DEF EndDrop
<1> HIDE DEF o, s
<1>4. Ordered(toClient', pipes) /\ \A t : Ended(toClient', t) => Ended(toClient, t) \/ t = s
  BY <1>1, <1>3, ToldOrdered DEF CoreInv, LiveInv
<1>5. ASSUME NEW t \in Sources, Standing(stands', t) PROVE t # s /\ Standing(stands, t)
  <2>1. t # None /\ stands \in [Clients -> [Offers -> Sources \cup {None}]]
    BY Basics
  <2>2. Inert(stands, s) \in [Clients -> [Offers -> Sources \cup {None}]]
    BY <2>1, InertTyped
  <2>3. Standing(Inert(stands, s), t)
    BY <1>3, <1>5, <2>1, <2>2, PutStands
  <2>4. QED  BY <2>1, <2>3, InertStands
<1>6. ASSUME NEW t \in Sources, Live(t)' PROVE Live(t) /\ ~Ended(toClient', t)
  <2>1. Live(t) /\ t # s
    BY <1>1, <1>2, <1>5, <1>6, Basics DEF Live
  <2>2. QED  BY <1>4, <2>1 DEF CoreInv, LiveInv
<1>7. QED  BY <1>1, <1>4, <1>6, CoreKept

(* Another source is made. *)
LEMMA GrownCore ==
  ASSUME TypeInv, CoreInv, NEW c \in Clients, made < Len(Sizes), made' = made + 1,
         owner' = Append(owner, c), alive' = alive \cup {made'}, pipes' = pipes,
         Ordered(toClient', pipes), \A t : Ended(toClient', t) => Ended(toClient, t) \/ t \in alive,
         \A t \in Sources : Live(t)' => t = made' \/ (Live(t) /\ ~Ended(toClient', t))
  PROVE  CoreInv'
<1>1. made \in Nat /\ Len(Sizes) \in Nat /\ owner \in Seq(Clients) /\ Len(owner) = made
      /\ alive \subseteq 1..made
  BY DataDeviceAssumption DEF TypeInv, CoreInv, MadeInv
<1>2. /\ owner' \in Seq(Clients) /\ Len(owner') = made' /\ \A s \in 1..made : owner'[s] = owner[s]
      /\ alive' \subseteq 1..made' /\ made' <= Len(Sizes) /\ made' \notin alive
  <2> DEFINE a == owner
             b == Append(a, c)
  <2>1. a \in Seq(Clients) /\ Len(a) = made /\ owner' = b
    BY <1>1
  <2> HIDE DEF a
  <2>2. b \in Seq(Clients) /\ Len(b) = Len(a) + 1 /\ \A s \in 1..Len(a) : b[s] = a[s]
    BY <2>1
  <2> HIDE DEF b
  <2>3. owner' \in Seq(Clients) /\ Len(owner') = made' /\ \A s \in 1..made : owner'[s] = owner[s]
    BY <2>1, <2>2 DEF a
  <2>4. alive' \subseteq 1..made' /\ made' <= Len(Sizes) /\ made' \notin alive
    BY <1>1
  <2>5. QED  BY <2>3, <2>4
<1>3. MadeInv'
  BY <1>2 DEF MadeInv
<1>4. (Ordered(toClient, pipes))'
  <2>1. ASSUME NEW d \in Clients, NEW k \in DOMAIN toClient'[d], Concerns(toClient'[d][k])
        PROVE  /\ Of(toClient'[d][k], pipes) \in alive' /\ owner'[Of(toClient'[d][k], pipes)] = d
               /\ \A j \in DOMAIN toClient'[d] :
                    j < k /\ Ends(toClient'[d][j]) => toClient'[d][j].of # Of(toClient'[d][k], pipes)
    <3> DEFINE s == Of(toClient'[d][k], pipes)
    <3>1. /\ s \in alive /\ owner[s] = d
          /\ \A j \in DOMAIN toClient'[d] : j < k /\ Ends(toClient'[d][j]) => toClient'[d][j].of # s
      BY <2>1 DEF Ordered
    <3> HIDE DEF s
    <3>2. s \in alive' /\ owner'[s] = d
      BY <1>1, <1>2, <3>1
    <3>3. QED  BY <3>1, <3>2 DEF s
  <2>2. QED  BY ZenonT(30), <2>1 DEF Ordered
<1>5. ASSUME NEW t \in Sources, Live(t)' PROVE t \in alive' /\ ~Ended(toClient', t)
  <2>1. CASE t = made'
    <3>1. ~Ended(toClient, made')
      <4>1. ASSUME NEW d \in Clients, NEW k \in DOMAIN toClient[d], Ends(toClient[d][k]),
                   toClient[d][k].of = made'
            PROVE  FALSE
        <5>1. Concerns(toClient[d][k]) /\ Of(toClient[d][k], pipes) = made'
          BY <4>1 DEF Ends, Concerns, Of
        <5>2. QED  BY <1>2, <5>1 DEF CoreInv, Ordered
      <4>2. QED  BY <4>1 DEF Ended
    <3>2. QED  BY <1>2, <2>1, <3>1
  <2>2. CASE Live(t) /\ ~Ended(toClient', t)
    BY <2>2 DEF CoreInv, LiveInv
  <2>3. QED  BY <1>5, <2>1, <2>2
<1>6. LiveInv'
  BY <1>5 DEF LiveInv, Ended, Ends
<1>7. QED  BY <1>3, <1>4, <1>6 DEF CoreInv

(* A source is made and dragged. *)
LEMMA StartDragCore == ASSUME TypeInv, CoreInv, NEW c \in Clients, StartDrag(c) PROVE CoreInv'
<1>1. toClient \in Queues /\ UNCHANGED <<selected, stands, pipes>> /\ drag'.source = made'
  BY Basics DEF StartDrag, offerVars, pipeVars, NoDrag
<1>2. Ordered(toClient', pipes) /\ \A t : Ended(toClient', t) <=> Ended(toClient, t)
  BY <1>1, LeftOrdered DEF StartDrag, CoreInv
<1>3. ASSUME NEW t \in Sources, Live(t)' PROVE t = made' \/ (Live(t) /\ ~Ended(toClient', t))
  <2>1. t = made' \/ Live(t)
    BY <1>1, <1>3 DEF Live
  <2>2. QED  BY <1>2, <2>1 DEF CoreInv, LiveInv
<1>4. QED  BY <1>1, <1>2, <1>3, GrownCore DEF StartDrag

(* A source is made and selected: the one selected before is told. *)
LEMMA ReceiveCopyCore ==
  ASSUME TypeInv, CoreInv, DragInv, NEW c \in Clients, ReceiveCopy(c) PROVE CoreInv'
<1> DEFINE q == [toClient EXCEPT ![c] = Tail(@)]
<1>1. toClient \in Queues /\ UNCHANGED <<drag, pipes>> /\ toClient[c] # <<>>
  BY Basics DEF ReceiveCopy, Receives, offerVars, pipeVars
<1>2. q \in Queues /\ Ordered(q, pipes) /\ \A t : Ended(q, t) => Ended(toClient, t)
  BY <1>1, TailGrows, TakenOrdered DEF CoreInv
<1>3. Taken(c) = q
  BY DEF Taken
<1> HIDE DEF q
<1>4. CASE Take(c) /\ selected' = selected
  <2>1. toClient' = q /\ stands' = stands
    BY <1>3, <1>4 DEF Take
  <2>2. ASSUME NEW t \in Sources, Live(t)' PROVE t = made' \/ (Live(t) /\ ~Ended(toClient', t))
    BY <1>1, <1>2, <1>4, <2>1, <2>2 DEF Live, CoreInv, LiveInv
  <2>3. QED  BY <1>1, <1>2, <2>1, <2>2, GrownCore DEF ReceiveCopy
<1>5. CASE selected' = made' /\ SelectionSent(Tell(q, selected, "cancelled"), focus, made')
  <2> DEFINE r == Tell(q, selected, "cancelled")
  <2>1. selected \in Sources \cup {None} /\ (selected # None => selected \in alive /\ ~Ended(q, selected))
    BY <1>2, Basics DEF CoreInv, LiveInv, Live
  <2>2. /\ r \in Queues /\ Ordered(r, pipes)
        /\ \A t : Ended(r, t) => Ended(q, t) \/ (t = selected /\ selected # None)
    BY <1>2, <2>1, TellGrows, ToldOrdered
  <2>3. SelectionSent(r, focus, made')
    BY <1>5
  <2> HIDE DEF r
  <2>4. /\ Ordered(toClient', pipes) /\ \A t : Ended(toClient', t) <=> Ended(r, t)
        /\ \A t \in Sources : Standing(stands', t) => t = made' \/ (t # selected /\ Standing(stands, t))
    BY <2>2, <2>3, SelectionStands
  <2>5. ASSUME NEW t \in Sources, Live(t)' PROVE t = made' \/ (Live(t) /\ ~Ended(toClient', t))
    <3>1. CASE t = drag.source
      <4>1. t # selected \/ selected = None
        BY <3>1 DEF DragInv, SelectedInv
      <4>2. QED  BY <1>2, <2>2, <2>4, <3>1, <4>1 DEF Live, CoreInv, LiveInv
    <3>2. CASE Standing(stands', t) /\ t # made'
      BY <1>2, <2>2, <2>4, <3>2 DEF Live, CoreInv, LiveInv
    <3>3. QED  BY <1>1, <1>5, <2>5, <3>1, <3>2 DEF Live
  <2>6. \A t : Ended(toClient', t) => Ended(toClient, t) \/ t \in alive
    BY <1>2, <2>1, <2>2, <2>4
  <2>7. QED  BY <1>1, <2>4, <2>5, <2>6, GrownCore DEF ReceiveCopy
<1>6. QED  BY <1>3, <1>4, <1>5 DEF ReceiveCopy

(* The pipes are what they were, as far as their sources go. *)
LEMMA OrderedPipes ==
  ASSUME NEW q, NEW ps, Ordered(q, pipes),
         \A d \in Clients : \A k \in DOMAIN q[d] :
           q[d][k].type = "send" => ps[q[d][k].of].source = pipes[q[d][k].of].source
  PROVE  Ordered(q, ps)
<1>1. ASSUME NEW d \in Clients, NEW k \in DOMAIN q[d]
      PROVE  Of(q[d][k], ps) = Of(q[d][k], pipes)
  BY DEF Of
<1>2. QED  BY <1>1 DEF Ordered

(* What there is to paste is asked for. *)
LEMMA RequestedCore ==
  ASSUME TypeInv, CoreInv, NEW q \in Queues, Ordered(q, pipes), NEW c \in Clients, NEW o \in Offers,
         \A t : Ended(q, t) => Ended(toClient, t), Requested(q, c, o),
         \A d \in Clients : \A k \in DOMAIN q[d] : q[d][k].type = "send" => q[d][k].of \in DOMAIN pipes,
         UNCHANGED <<selected, drag, stands, made, owner, alive>>
  PROVE  CoreInv'
<1> DEFINE s == stands[c][o]
           n == Len(pipes')
           e == Event("send", n)
<1>1. /\ s \in Sources \cup {None} /\ (s # None => Live(s))
      /\ s # None => s \in alive /\ ~Ended(q, s)
  BY Basics DEF Live, Standing, CoreInv, LiveInv
<1>2. /\ n \in Nat /\ pipes'[n].source = s
      /\ \A p \in DOMAIN pipes : pipes'[p] = pipes[p]
  <2> DEFINE r == [reader |-> c, source |-> s, held |-> 0, got |-> 0,
                   open |-> s # None, done |-> FALSE, spoilt |-> FALSE]
             a == pipes
  <2>1. a \in Seq(PipeRecords) /\ r \in PipeRecords /\ r.source = s
    BY <1>1 DEF TypeInv, PipeRecords
  <2>2. pipes' = Append(a, r)
    BY DEF Requested
  <2> HIDE DEF a, r
  <2>3. /\ Len(Append(a, r)) = Len(a) + 1 /\ Len(a) \in Nat /\ Append(a, r)[Len(a) + 1] = r
        /\ \A p \in DOMAIN a : Append(a, r)[p] = a[p]
    BY <2>1
  <2>4. QED  BY <2>1, <2>2, <2>3 DEF a
<1>3. Ordered(q, pipes')
  BY <1>2, OrderedPipes
<1>4. toClient' = IF s = None THEN q ELSE SendTo(q, owner[s], "send", n)
  BY DEF Requested
<1> HIDE DEF s, n
<1>5. Ordered(toClient', pipes') /\ \A t : Ended(toClient', t) => Ended(q, t)
  <2>1. CASE s = None
    BY <1>3, <1>4, <2>1
  <2>2. CASE s # None
    <3>1. "send" \in Types /\ Concerns(e) /\ ~Ends(e) /\ Of(e, pipes') = s
      BY <1>2 DEF Types, Concerns, Ends, Of, Event
    <3>2. Added(q, toClient', owner[s], e)
      BY <1>2, <1>4, <2>2, <3>1, SentEvents
    <3> HIDE DEF e
    <3>3. Ordered(toClient', pipes')
      BY <1>1, <1>3, <2>2, <3>1, <3>2, AddedOrdered
    <3>4. \A t : Ended(toClient', t) => Ended(q, t)
      BY <3>1, <3>2 DEF Ended, Added
    <3>5. QED  BY <3>3, <3>4
  <2>3. QED  BY <2>1, <2>2
<1>6. MadeInv'
  BY DEF CoreInv, MadeInv
<1>7. (Ordered(toClient, pipes))'
  BY <1>5 DEF Ordered
<1>8. ASSUME NEW t \in Sources, Live(t)' PROVE t \in alive' /\ ~Ended(toClient', t)
  BY <1>5, <1>8 DEF Live, CoreInv, LiveInv
<1>9. LiveInv'
  BY <1>8 DEF LiveInv, Ended, Ends
<1>10. QED  BY <1>6, <1>7, <1>9 DEF CoreInv

(* A request to write names a pipe. *)
LEMMA SendsPipes ==
  ASSUME Inv, NEW d \in Clients, NEW k \in DOMAIN toClient[d], toClient[d][k].type = "send"
  PROVE  toClient[d][k].of \in DOMAIN pipes
<1>1. k \in Nat /\ Sends(d, k)
  BY DEF Inv, TypeInv, Queues, Sends
<1>2. QED  BY <1>1 DEF Inv, PasteInv, SendsFresh

(* The selection is asked for. *)
LEMMA ReceivePasteCore ==
  ASSUME Inv, CoreInv, NEW c \in Clients, ReceivePaste(c) PROVE CoreInv'
<1> DEFINE q == [toClient EXCEPT ![c] = Tail(@)]
<1>1. /\ TypeInv /\ toClient \in Queues /\ toClient[c] # <<>> /\ selection[c] \in Offers \cup {None}
      /\ UNCHANGED <<selected, drag, stands, made, owner, alive>>
  BY Basics DEF ReceivePaste, Receives, serverVars, sourceVars, Inv
<1>2. q \in Queues /\ Ordered(q, pipes) /\ \A t : Ended(q, t) => Ended(toClient, t)
  BY <1>1, TailGrows, TakenOrdered DEF CoreInv
<1>3. ASSUME NEW d \in Clients, NEW k \in DOMAIN q[d], q[d][k].type = "send"
      PROVE  q[d][k].of \in DOMAIN pipes
  <2>1. d # c => q[d] = toClient[d]
    BY <1>1, TakenEvents
  <2>2. d = c => k + 1 \in DOMAIN toClient[c] /\ q[c][k] = toClient[c][k + 1]
    BY <1>1, TakenEvents
  <2> HIDE DEF q
  <2>3. QED  BY <1>3, <2>1, <2>2, SendsPipes
<1>4. Taken(c) = q
  BY DEF Taken
<1> HIDE DEF q
<1>5. CASE selection[c] # None /\ Requested(q, c, selection[c])
  BY <1>1, <1>2, <1>3, <1>5, RequestedCore
<1>6. CASE Take(c) /\ pipes' = pipes
  BY <1>1, <1>6, TakeCore
<1>7. QED  BY <1>1, <1>4, <1>5, <1>6 DEF ReceivePaste, Take

(* What was dropped is asked for. *)
LEMMA TakeDroppedCore ==
  ASSUME Inv, CoreInv, NEW c \in Clients, TakeDropped(c) PROVE CoreInv'
<1>1. /\ TypeInv /\ toClient \in Queues /\ dragged[c] \in Offers
      /\ UNCHANGED <<selected, drag, stands, made, owner, alive>>
  BY Basics DEF TakeDropped, serverVars, sourceVars, Inv
<1>2. QED  BY <1>1, SendsPipes, RequestedCore DEF TakeDropped, CoreInv

(* A source is deleted. *)
LEMMA ReceiveEndCore ==
  ASSUME TypeInv, CoreInv, NEW c \in Clients, ReceiveEnd(c) PROVE CoreInv'
<1> DEFINE q == [toClient EXCEPT ![c] = Tail(@)]
           s == toClient[c][1].of
<1>1. /\ toClient \in Queues /\ toClient[c] # <<>> /\ 1 \in DOMAIN toClient[c]
      /\ UNCHANGED <<selected, drag, stands, made, owner, pipes>>
      /\ toClient' = q /\ alive' = alive \ {s} /\ Ends(toClient[c][1])
  BY Basics, FirstEvent DEF ReceiveEnd, Receives, Take, Taken, pipeVars, Ends
<1>2. Ordered(q, pipes) /\ \A t : Ended(q, t) => Ended(toClient, t)
  BY <1>1, TakenOrdered DEF CoreInv
<1>3. ~Live(s) \/ s \notin Sources
  <2>1. Concerns(toClient[c][1]) /\ Of(toClient[c][1], pipes) = s
    BY <1>1 DEF Ends, Concerns, Of
  <2>2. Ended(toClient, s)
    BY <1>1 DEF Ended
  <2>3. QED  BY <2>2 DEF CoreInv, LiveInv
<1>4. ASSUME NEW d \in Clients, NEW k \in DOMAIN q[d], Concerns(q[d][k])
      PROVE  Of(q[d][k], pipes) # s
  <2>1. owner[s] = c
    <3>1. Concerns(toClient[c][1]) /\ Of(toClient[c][1], pipes) = s
      BY <1>1 DEF Ends, Concerns, Of
    <3>2. QED  BY <1>1, <3>1 DEF CoreInv, Ordered
  <2>2. CASE d # c
    BY <1>2, <1>4, <2>1, <2>2 DEF Ordered
  <2>3. CASE d = c
    <3>1. k + 1 \in DOMAIN toClient[c] /\ q[c][k] = toClient[c][k + 1] /\ k \in Nat \ {0}
      BY <1>1, <2>3, TakenEvents
    <3>2. 1 < k + 1
      BY <3>1
    <3>3. QED  BY <1>1, <1>4, <2>3, <3>1, <3>2 DEF CoreInv, Ordered
  <2>4. QED  BY <2>2, <2>3
<1> HIDE DEF q, s
<1>5. (Ordered(toClient, pipes))'
  <2>1. ASSUME NEW d \in Clients, NEW k \in DOMAIN toClient'[d], Concerns(toClient'[d][k])
        PROVE  /\ Of(toClient'[d][k], pipes) \in alive' /\ owner[Of(toClient'[d][k], pipes)] = d
               /\ \A j \in DOMAIN toClient'[d] :
                    j < k /\ Ends(toClient'[d][j]) => toClient'[d][j].of # Of(toClient'[d][k], pipes)
    BY <1>1, <1>2, <1>4, <2>1 DEF Ordered
  <2>2. QED  BY <1>1, <2>1 DEF Ordered
<1>6. MadeInv'
  BY <1>1 DEF CoreInv, MadeInv
<1>7. ASSUME NEW t \in Sources, Live(t)' PROVE t \in alive' /\ ~Ended(toClient', t)
  BY <1>1, <1>2, <1>3, <1>7 DEF Live, CoreInv, LiveInv
<1>8. LiveInv'
  BY <1>7 DEF LiveInv, Ended, Ends
<1>9. QED  BY <1>5, <1>6, <1>8 DEF CoreInv

(* A pipe is written to, or read from. *)
LEMMA PipeCore ==
  ASSUME Inv, CoreInv,
         (\E c \in Clients : Write(c)) \/ (\E p \in Pipes : Read(p))
  PROVE  CoreInv'
<1>1. UNCHANGED <<selected, drag, stands, made, owner, alive, toClient>> /\ TypeInv
  BY DEF Write, Read, serverVars, sourceVars, Inv
<1>2. \A p \in DOMAIN pipes : pipes'[p].source = pipes[p].source
  <2>1. \A p \in DOMAIN pipes : pipes[p] \in PipeRecords
    BY PipeFacts DEF Inv
  <2>2. ASSUME NEW c \in Clients, NEW w \in writers[c],
               pipes' = [pipes EXCEPT ![w.pipe].held = @ + 1,
                                      ![w.pipe].spoilt = @ \/ w.source \notin alive,
                                      ![w.pipe].open = w.left > 1]
        PROVE  \A p \in DOMAIN pipes : pipes'[p].source = pipes[p].source
    BY <2>1, <2>2 DEF PipeRecords
  <2>3. ASSUME NEW p \in DOMAIN pipes,
               \/ pipes' = [pipes EXCEPT ![p].got = @ + pipes[p].held, ![p].held = 0]
               \/ pipes' = [pipes EXCEPT ![p].done = TRUE]
        PROVE  \A r \in DOMAIN pipes : pipes'[r].source = pipes[r].source
    BY <2>1, <2>3 DEF PipeRecords
  <2>4. QED  BY <2>2, <2>3 DEF Write, Read
<1>3. Ordered(toClient, pipes')
  BY <1>2, SendsPipes, OrderedPipes DEF CoreInv
<1>4. (Ordered(toClient, pipes))'
  BY <1>1, <1>3 DEF Ordered
<1>5. MadeInv' /\ LiveInv'
  BY <1>1 DEF CoreInv, MadeInv, LiveInv, Live, Standing, Ended, Ends
<1>6. QED  BY <1>4, <1>5 DEF CoreInv

-----------------------------------------------------------------------------
(* What an application hears of where anything is.                         *)
Heard == Moves \cup Points \cup {"selection"}

(* The events of these types in r are those in q, but for what the         *)
(* applications S have taken.                                              *)
Shifted(q, r, types, S) ==
  \A c \in Clients :
    LET n == IF c \in S THEN 1 ELSE 0 IN
    /\ \A k \in DOMAIN r[c] : r[c][k].type \in types =>
         k + n \in DOMAIN q[c] /\ r[c][k] = q[c][k + n]
    /\ \A k \in DOMAIN q[c] : q[c][k].type \in types /\ k # n =>
         k - n \in DOMAIN r[c] /\ r[c][k - n] = q[c][k]

(* Nothing was taken or sent. *)
LEMMA ShiftSame == ASSUME NEW q \in Queues, NEW types PROVE Shifted(q, q, types, {})
<1>1. \A c \in Clients : \A k \in DOMAIN q[c] : k + 0 = k /\ k - 0 = k
  BY DEF Queues
<1>2. QED  BY <1>1 DEF Shifted

(* An event was taken. *)
LEMMA ShiftTaken ==
  ASSUME NEW q \in Queues, NEW c \in Clients, q[c] # <<>>, NEW types
  PROVE  Shifted(q, [q EXCEPT ![c] = Tail(@)], types, {c})
<1> DEFINE r == [q EXCEPT ![c] = Tail(@)]
<1>1. /\ \A d \in Clients : d # c => r[d] = q[d]
      /\ \A k \in DOMAIN r[c] : k + 1 \in DOMAIN q[c] /\ r[c][k] = q[c][k + 1]
      /\ \A k \in DOMAIN q[c] : k # 1 => k - 1 \in DOMAIN r[c] /\ r[c][k - 1] = q[c][k]
  BY TakenEvents
<1>2. \A d \in Clients : \A k \in DOMAIN q[d] : k + 0 = k /\ k - 0 = k
  BY DEF Queues
<1> HIDE DEF r
<1>3. ASSUME NEW d \in Clients
      PROVE  LET n == IF d \in {c} THEN 1 ELSE 0 IN
             /\ \A k \in DOMAIN r[d] : r[d][k].type \in types =>
                  k + n \in DOMAIN q[d] /\ r[d][k] = q[d][k + n]
             /\ \A k \in DOMAIN q[d] : q[d][k].type \in types /\ k # n =>
                  k - n \in DOMAIN r[d] /\ r[d][k - n] = q[d][k]
  <2>1. CASE d = c
    BY <1>1, <2>1
  <2>2. CASE d # c
    BY <1>1, <1>2, <2>2
  <2>3. QED  BY <2>1, <2>2
<1>4. QED  BY <1>3 DEF Shifted, r

(* An event of another type was sent. *)
LEMMA ShiftSent ==
  ASSUME NEW q \in Queues, NEW r \in Queues, NEW types, NEW S, Shifted(q, r, types, S),
         NEW c, NEW type \in Types \ types, NEW of \in Nat
  PROVE  Shifted(q, SendTo(r, c, type, of), types, S)
<1> DEFINE s == SendTo(r, c, type, of)
           e == Event(type, of)
<1>1. Added(r, s, c, e) /\ e.type \notin types
  BY SentEvents DEF Event
<1> HIDE DEF s, e
<1>2. ASSUME NEW d \in Clients, NEW n \in {0, 1}, n = IF d \in S THEN 1 ELSE 0
      PROVE  /\ \A k \in DOMAIN s[d] : s[d][k].type \in types =>
                  k + n \in DOMAIN q[d] /\ s[d][k] = q[d][k + n]
             /\ \A k \in DOMAIN q[d] : q[d][k].type \in types /\ k # n =>
                  k - n \in DOMAIN s[d] /\ s[d][k - n] = q[d][k]
  <2>1. /\ \A k \in DOMAIN r[d] : r[d][k].type \in types =>
             k + n \in DOMAIN q[d] /\ r[d][k] = q[d][k + n]
        /\ \A k \in DOMAIN q[d] : q[d][k].type \in types /\ k # n =>
             k - n \in DOMAIN r[d] /\ r[d][k - n] = q[d][k]
    BY <1>2 DEF Shifted
  <2>2. ASSUME NEW k \in DOMAIN s[d], s[d][k].type \in types
        PROVE  k + n \in DOMAIN q[d] /\ s[d][k] = q[d][k + n]
    BY <1>1, <2>1, <2>2 DEF Added
  <2>3. ASSUME NEW k \in DOMAIN q[d], q[d][k].type \in types, k # n
        PROVE  k - n \in DOMAIN s[d] /\ s[d][k - n] = q[d][k]
    BY <1>1, <2>1, <2>3 DEF Added
  <2>4. QED  BY <2>2, <2>3
<1>3. QED  BY <1>2 DEF Shifted, s

(* The owner of a source was told what became of it. *)
LEMMA ShiftTold ==
  ASSUME NEW q \in Queues, NEW r \in Queues, NEW types \in SUBSET Heard, NEW S,
         Shifted(q, r, types, S), NEW s \in Sources \cup {None},
         NEW type \in {"dropped", "cancelled", "finished"}
  PROVE  Shifted(q, Tell(r, s, type), types, S)
<1>1. type \in Types \ types
  BY DEF Types, Heard, Moves, Points
<1>2. s \in Nat
  BY DataDeviceAssumption DEF Sources, None
<1>3. QED  BY <1>1, <1>2, ShiftSent DEF Tell

(* What a step that neither sends nor takes events of these types leaves.  *)
LEMMA ShiftFacts ==
  ASSUME TypeInv, TypeInv', MovesInv, NEW types, NEW S, Shifted(toClient, toClient', types, S),
         Moves \subseteq types, NEW c \in Clients,
         c \in S => toClient[c] # <<>> /\ toClient[c][1].type \notin types
  PROVE  /\ Entering(c)' <=> Entering(c)
         /\ Entering(c) => toClient'[c][1] = toClient[c][1]
         /\ \A T \in SUBSET types : Still(c, T)' <=> Still(c, T)
         /\ \A type \in types : \A o : Announced(c, type, o)' <=> Announced(c, type, o)
<1>1. PICK n \in {0, 1} :
        /\ n = IF c \in S THEN 1 ELSE 0
        /\ \A k \in DOMAIN toClient'[c] : toClient'[c][k].type \in types =>
             k + n \in DOMAIN toClient[c] /\ toClient'[c][k] = toClient[c][k + n]
        /\ \A k \in DOMAIN toClient[c] : toClient[c][k].type \in types /\ k # n =>
             k - n \in DOMAIN toClient'[c] /\ toClient'[c][k - n] = toClient[c][k]
  BY DEF Shifted
<1>2. /\ toClient[c] \in Seq(Events) /\ toClient'[c] \in Seq(Events)
      /\ toClient[c] # <<>> <=> 1 \in DOMAIN toClient[c]
      /\ toClient'[c] # <<>> <=> 1 \in DOMAIN toClient'[c]
  BY DEF TypeInv, Queues
<1>3. ASSUME NEW k \in DOMAIN toClient[c], toClient[c][k].type \in types
      PROVE  k - n \in DOMAIN toClient'[c] /\ toClient'[c][k - n] = toClient[c][k]
  BY <1>1, <1>2, <1>3
<1>4. /\ \A T \in SUBSET types : Still(c, T)' <=> Still(c, T)
  <2>1. ASSUME NEW T \in SUBSET types, ~Still(c, T)' PROVE ~Still(c, T)
    BY <1>1, <2>1 DEF Still
  <2>2. ASSUME NEW T \in SUBSET types, ~Still(c, T) PROVE ~Still(c, T)'
    BY <1>3, <2>2 DEF Still
  <2>3. QED  BY <2>1, <2>2
<1>5. \A type \in types : \A o : Announced(c, type, o)' <=> Announced(c, type, o)
  <2>1. ASSUME NEW type \in types, NEW o, Announced(c, type, o)' PROVE Announced(c, type, o)
    BY <1>1, <2>1 DEF Announced, Event
  <2>2. ASSUME NEW type \in types, NEW o, Announced(c, type, o) PROVE Announced(c, type, o)'
    BY <1>3, <2>2 DEF Announced, Event
  <2>3. QED  BY <2>1, <2>2
<1>6. "enter" \in types
  BY DEF Moves
<1>7. ASSUME Entering(c) PROVE Entering(c)' /\ toClient'[c][1] = toClient[c][1]
  <2>1. 1 \in DOMAIN toClient[c] /\ toClient[c][1].type = "enter"
    BY <1>2, <1>7 DEF Entering
  <2>2. n = 0
    BY <1>1, <1>6, <2>1
  <2>3. 1 \in DOMAIN toClient'[c] /\ toClient'[c][1] = toClient[c][1]
    BY <1>3, <1>6, <2>1, <2>2
  <2>4. QED  BY <1>2, <2>1, <2>3 DEF Entering
<1>8. ASSUME Entering(c)' PROVE Entering(c)
  <2>1. 1 \in DOMAIN toClient'[c] /\ toClient'[c][1].type = "enter"
    BY <1>2, <1>8 DEF Entering
  <2>2. 1 + n \in DOMAIN toClient[c] /\ toClient[c][1 + n].type = "enter"
    BY <1>1, <1>6, <2>1
  <2>3. 1 + n = 1
    BY <2>2 DEF MovesInv
  <2>4. QED  BY <1>2, <2>2, <2>3 DEF Entering
<1>9. QED  BY <1>4, <1>5, <1>7, <1>8

(* The moves on their way are the same, and nothing new is dropped.        *)
LEMMA MovesKept ==
  ASSUME TypeInv, TypeInv', MovesInv, NEW types, NEW S, Shifted(toClient, toClient', types, S),
         Moves \cup Points \subseteq types,
         \A c \in S : toClient[c] # <<>> /\ toClient[c][1].type \notin types,
         pointed' = pointed, landed' \in [Clients -> BOOLEAN], \A c \in Clients : landed'[c] => landed[c],
         drag'.over # {} => drag.over # {},
         \A c \in Clients : Entering(c) => stands'[c][toClient[c][1].of] \in {None, drag'.source}
  PROVE  MovesInv'
<1>1. ASSUME NEW c \in Clients
      PROVE  /\ Entering(c)' <=> Entering(c)
             /\ Entering(c) => toClient'[c][1] = toClient[c][1]
             /\ \A T \in SUBSET types : Still(c, T)' <=> Still(c, T)
  BY ShiftFacts
<1>2. ASSUME NEW c \in Clients, NEW k \in DOMAIN toClient'[c]
      PROVE  /\ toClient'[c][k].type = "enter" =>
                  /\ k = 1 /\ toClient'[c][1].of \in Offers
                  /\ stands'[c][toClient'[c][1].of] \in {None, drag'.source}
             /\ toClient'[c][k].type = "leave" => ~landed'[c] \/ ~pointed'[c] \/ Entering(c)'
             /\ toClient'[c][k].type = "drop" =>
                  /\ pointed'[c] /\ ~landed'[c]
                  /\ \A j \in DOMAIN toClient'[c] : j < k => toClient'[c][j].type \notin Moves
  <2>1. PICK n \in {0, 1} :
        /\ n = IF c \in S THEN 1 ELSE 0
        /\ \A j \in DOMAIN toClient'[c] : toClient'[c][j].type \in types =>
             j + n \in DOMAIN toClient[c] /\ toClient'[c][j] = toClient[c][j + n]
    BY DEF Shifted
  <2>2. SUFFICES ASSUME toClient'[c][k].type \in Moves
                 PROVE  /\ toClient'[c][k].type = "enter" =>
                             /\ k = 1 /\ toClient'[c][1].of \in Offers
                             /\ stands'[c][toClient'[c][1].of] \in {None, drag'.source}
                        /\ toClient'[c][k].type = "leave" => ~landed'[c] \/ ~pointed'[c] \/ Entering(c)'
                        /\ toClient'[c][k].type = "drop" =>
                             /\ pointed'[c] /\ ~landed'[c]
                             /\ \A j \in DOMAIN toClient'[c] : j < k => toClient'[c][j].type \notin Moves
    BY DEF Moves
  <2>3. k + n \in DOMAIN toClient[c] /\ toClient'[c][k] = toClient[c][k + n] /\ k \in Nat \ {0}
    BY <2>1, <2>2 DEF TypeInv, Queues
  <2>4. CASE toClient'[c][k].type = "enter"
    <3>1. k + n = 1 /\ toClient[c][1].of \in Offers
      BY <2>3, <2>4 DEF MovesInv
    <3>2. k = 1 /\ n = 0
      BY <2>3, <3>1
    <3>3. 1 \in DOMAIN toClient[c] /\ toClient[c][1].type = "enter" /\ toClient[c] # <<>>
      BY <2>3, <2>4, <3>2 DEF TypeInv, Queues
    <3>4. Entering(c)
      BY <3>3 DEF Entering
    <3>5. QED  BY <1>1, <2>4, <3>1, <3>2, <3>4
  <2>5. CASE toClient'[c][k].type = "leave"
    <3>1. ~landed[c] \/ ~pointed[c] \/ Entering(c)
      BY <2>3, <2>5 DEF MovesInv
    <3>2. QED  BY <1>1, <2>5, <3>1
  <2>6. CASE toClient'[c][k].type = "drop"
    <3>1. /\ pointed[c] /\ ~landed[c]
          /\ \A j \in DOMAIN toClient[c] : j < k + n => toClient[c][j].type \notin Moves
      BY <2>3, <2>6 DEF MovesInv
    <3>2. ASSUME NEW j \in DOMAIN toClient'[c], j < k, toClient'[c][j].type \in Moves PROVE FALSE
      <4>1. j + n \in DOMAIN toClient[c] /\ toClient'[c][j] = toClient[c][j + n] /\ j \in Nat
        BY <2>1, <3>2 DEF TypeInv, Queues
      <4>2. j + n < k + n
        BY <2>3, <3>2, <4>1
      <4>3. QED  BY <3>1, <3>2, <4>1, <4>2
    <3>3. QED  BY <2>6, <3>1, <3>2
  <2>7. QED  BY <2>2, <2>4, <2>5, <2>6 DEF Moves
<1>3. drag'.over # {} \/ (\E c \in Clients : ~Still(c, Moves)') => \A c \in Clients : Still(c, Points)'
  <2>1. drag.over # {} \/ (\E c \in Clients : ~Still(c, Moves)) => \A c \in Clients : Still(c, Points)
    BY DEF MovesInv
  <2>2. \A c \in Clients : (Still(c, Moves)' <=> Still(c, Moves)) /\ (Still(c, Points)' <=> Still(c, Points))
    BY <1>1
  <2>3. QED  BY <2>1, <2>2
<1>4. pointed' \in [Clients -> BOOLEAN]
  BY DEF MovesInv
<1>5. QED  BY <1>2, <1>3, <1>4 DEF MovesInv, Still, Moves, Points

-----------------------------------------------------------------------------
(* Nothing that is told of changes. *)
LEMMA RolesKept ==
  ASSUME TypeInv, TypeInv', DragInv, NEW S, Shifted(toClient, toClient', Heard, S),
         \A c \in S : toClient[c] # <<>> /\ toClient[c][1].type \notin Heard,
         UNCHANGED <<selected, drag, stands, selection, dragged, pointed, landed>>
  PROVE  DragInv'
<1>1. Moves \cup Points \subseteq Heard /\ {"leave", "drop"} \subseteq Heard
      /\ {"enter", "selection"} \subseteq Heard
  BY DEF Heard, Moves
<1>2. ASSUME NEW c \in Clients
      PROVE  /\ Entering(c)' <=> Entering(c)
             /\ Entering(c) => toClient'[c][1] = toClient[c][1]
             /\ Still(c, {"leave", "drop"})' <=> Still(c, {"leave", "drop"})
             /\ \A o : Announced(c, "enter", o)' <=> Announced(c, "enter", o)
             /\ \A o : Announced(c, "selection", o)' <=> Announced(c, "selection", o)
  <2>1. MovesInv
    BY DEF DragInv
  <2>2. QED  BY <1>1, <2>1, ShiftFacts
<1>3. SelectedInv'
  BY <1>2 DEF DragInv, SelectedInv
<1>4. OfferedInv'
  BY <1>2 DEF DragInv, OfferedInv
<1>5. drag.over \subseteq Clients
  BY DEF TypeInv
<1>6. OverInv'
  BY <1>2, <1>5 DEF DragInv, OverInv
<1>7. MovesInv'
  <2>1. \A c \in Clients : Entering(c) => stands[c][toClient[c][1].of] \in {None, drag.source}
    BY FirstEvent DEF DragInv, MovesInv, Entering
  <2>2. MovesInv /\ landed \in [Clients -> BOOLEAN]
    BY DEF DragInv, MovesInv
  <2>3. QED  BY <1>1, <2>1, <2>2, MovesKept
<1>8. QED  BY <1>3, <1>4, <1>6, <1>7 DEF DragInv

(* An offer that is made is new to its application. *)
LEMMA NewIsUnknown ==
  ASSUME NEW c, Fresh(c)
  PROVE  /\ NewOffer(c) \in Offers /\ NewOffer(c) # selection[c] /\ NewOffer(c) # dragged[c]
         /\ stands[c][NewOffer(c)] = None
         /\ ~Announced(c, "enter", NewOffer(c)) /\ ~Announced(c, "selection", NewOffer(c))
<1>1. Unknown(c, NewOffer(c)) /\ NewOffer(c) \in Offers
  <2>1. \E o \in Offers : Unknown(c, o)
    BY DEF Fresh
  <2>2. QED  BY <2>1 DEF NewOffer
<1>2. QED  BY <1>1 DEF Unknown, Announced, Event

(* What the offers stand for once the selection is sent. *)
LEMMA SentStands ==
  ASSUME TypeInv, NEW q, NEW c, NEW s, SelectionSent(q, c, s), NEW d \in Clients, NEW o \in Offers
  PROVE  stands'[d][o] = IF d = c /\ o = NewOffer(c) THEN s
                         ELSE IF stands[d][o] = selected THEN None ELSE stands[d][o]
<1>1. stands' = [Inert(stands, selected) EXCEPT ![c][NewOffer(c)] = s]
  BY DEF SelectionSent
<1>2. NewOffer(c) \in Offers
  BY NewIsUnknown DEF SelectionSent
<1>3. QED  BY <1>1, <1>2 DEF Inert

(* The selection is sent, after events about sources. *)
LEMMA SelectionRoles ==
  ASSUME TypeInv, TypeInv', DragInv, NEW q \in Queues, NEW S, Shifted(toClient, q, Heard, S),
         \A c \in S : toClient[c] # <<>> /\ toClient[c][1].type \notin Heard,
         NEW c, NEW s \in Sources, SelectionSent(q, c, s), selected' = s, s # drag.source,
         s # selected => ~Standing(stands, s),
         UNCHANGED <<drag, selection, dragged, pointed, landed>>
  PROVE  DragInv'
<1> DEFINE n == NewOffer(c)
<1>1. /\ n \in Offers /\ n # selection[c] /\ n # dragged[c] /\ stands[c][n] = None
      /\ ~Announced(c, "enter", n) /\ ~Announced(c, "selection", n)
  BY NewIsUnknown DEF SelectionSent
<1>2. /\ s # None /\ MovesInv /\ drag.over \subseteq Clients /\ n \in Nat
  BY <1>1, Basics, OfferFacts DEF DragInv, TypeInv
<1>3. toClient' = SendTo(q, c, "selection", n)
  BY DEF SelectionSent
<1>4. \A d \in Clients, o \in Offers :
        stands'[d][o] = IF d = c /\ o = n THEN s
                        ELSE IF stands[d][o] = selected THEN None ELSE stands[d][o]
  BY SentStands
<1> HIDE DEF n
<1>5. Shifted(toClient, toClient', Moves \cup Points, S) /\ Shifted(toClient, q, Moves \cup Points, S)
  <2>1. Shifted(toClient, q, Moves \cup Points, S)
    BY DEF Shifted, Heard
  <2>2. "selection" \in Types \ (Moves \cup Points)
    BY DEF Types, Moves, Points
  <2>3. toClient \in Queues
    BY DEF TypeInv
  <2>4. QED  BY <1>2, <1>3, <2>1, <2>2, <2>3, ShiftSent
<1>6. ASSUME NEW d \in Clients
      PROVE  /\ Entering(d)' <=> Entering(d)
             /\ Entering(d) => toClient'[d][1] = toClient[d][1]
             /\ Still(d, {"leave", "drop"})' <=> Still(d, {"leave", "drop"})
             /\ \A o : Announced(d, "enter", o)' <=> Announced(d, "enter", o)
  <2>1. Moves \subseteq Moves \cup Points /\ {"leave", "drop"} \subseteq Moves \cup Points
        /\ "enter" \in Moves \cup Points /\ Moves \cup Points \subseteq Heard
    BY DEF Moves, Heard
  <2>2. QED  BY <1>2, <1>5, <2>1, ShiftFacts
<1>7. ASSUME NEW d \in Clients, NEW o, Announced(d, "selection", o)', d # c \/ o # n
      PROVE  Announced(d, "selection", o)
  <2>1. PICK k \in DOMAIN toClient'[d] : toClient'[d][k] = Event("selection", o)
    BY <1>7 DEF Announced
  <2>2. k \in DOMAIN q[d] /\ q[d][k] = toClient'[d][k]
    <3>1. Added(q, toClient', c, Event("selection", n)) /\ q \in Queues
      BY <1>2, <1>3, SentEvents DEF Types
    <3>2. Event("selection", o) # Event("selection", n) \/ d # c
      BY <1>7 DEF Event
    <3>3. QED  BY <2>1, <3>1, <3>2 DEF Added
  <2>3. toClient'[d][k].type \in Heard
    BY <2>1 DEF Event, Heard
  <2>4. \E j \in DOMAIN toClient[d] : q[d][k] = toClient[d][j]
    BY <2>2, <2>3 DEF Shifted
  <2>5. QED  BY <2>1, <2>2, <2>4 DEF Announced
<1>8. SelectedInv'
  <2>1. ASSUME NEW d \in Clients, NEW o \in Offers, stands'[d][o] = s
        PROVE  o # dragged[d] /\ ~Announced(d, "enter", o)'
    <3>1. d = c /\ o = n
      BY <1>2, <1>4, <2>1 DEF Standing
    <3>2. QED  BY <1>1, <1>6, <3>1
  <2>2. QED  BY <2>1 DEF SelectedInv
<1>9. ASSUME NEW d \in Clients, NEW o \in Offers, drag.source # None
      PROVE  stands'[d][o] = drag.source <=> stands[d][o] = drag.source
  BY <1>1, <1>2, <1>4, <1>9 DEF DragInv, SelectedInv
<1>10. OfferedInv'
  <2>1. ASSUME NEW d \in Clients, NEW o \in Offers, stands'[d][o] = drag.source, drag.source # None
        PROVE  /\ d \in drag.over
               /\ o # selection[d] /\ ~Announced(d, "selection", o)'
               /\ IF Entering(d)' THEN o = toClient'[d][1].of /\ o # dragged[d] ELSE o = dragged[d]
    <3>1. stands[d][o] = drag.source
      BY <1>9, <2>1
    <3>2. d # c \/ o # n
      BY <1>1, <2>1, <3>1
    <3>3. ~Announced(d, "selection", o)'
      BY <1>7, <2>1, <3>1, <3>2 DEF DragInv, OfferedInv
    <3>4. QED  BY <1>6, <2>1, <3>1, <3>3 DEF DragInv, OfferedInv
  <2>2. QED  BY <2>1 DEF OfferedInv
<1>11. OverInv'
  <2>1. ASSUME drag.accepted
        PROVE  \E d \in drag.over :
                 /\ pointed[d] /\ dragged[d] # None /\ stands'[d][dragged[d]] = drag.source
                 /\ ~Entering(d)'
    <3>1. PICK d \in drag.over : /\ pointed[d] /\ dragged[d] # None
                                 /\ stands[d][dragged[d]] = drag.source /\ ~Entering(d)
      BY <2>1 DEF DragInv, OverInv
    <3>2. d \in Clients /\ dragged[d] \in Offers /\ drag.source # None
      BY <1>2, <3>1, Basics DEF DragInv, OverInv
    <3>3. QED  BY <1>6, <1>9, <3>1, <3>2
  <2>2. QED  BY <1>2, <1>6, <2>1 DEF DragInv, OverInv
<1>12. MovesInv'
  <2>1. ASSUME NEW d \in Clients, Entering(d)
        PROVE  stands'[d][toClient[d][1].of] \in {None, drag.source}
    <3>1. /\ toClient[d][1].of \in Offers /\ stands[d][toClient[d][1].of] \in {None, drag.source}
          /\ toClient[d][1] \in Events /\ 1 \in DOMAIN toClient[d]
      BY <1>2, <2>1, FirstEvent DEF Entering, MovesInv
    <3>2. Announced(d, "enter", toClient[d][1].of)
      BY <2>1, <3>1 DEF Announced, Event, Events, Entering
    <3>3. d # c \/ toClient[d][1].of # n
      BY <1>1, <3>2
    <3>4. QED  BY <1>4, <3>1, <3>3
  <2>2. landed \in [Clients -> BOOLEAN]
    BY <1>2 DEF MovesInv
  <2>3. \A d \in S : toClient[d] # <<>> /\ toClient[d][1].type \notin Moves \cup Points
    BY DEF Heard
  <2>4. QED  BY <1>2, <1>5, <2>1, <2>2, <2>3, MovesKept
<1>13. QED  BY <1>8, <1>10, <1>11, <1>12 DEF DragInv

-----------------------------------------------------------------------------
(* The steps that are about no offer, and no pointer. *)
LEMMA PlainRoles ==
  ASSUME TypeInv, TypeInv', DragInv, NEW c \in Clients,
         ReceiveDropped(c) \/ ReceiveSend(c) \/ ReceiveEnd(c)
  PROVE  DragInv'
<1>1. /\ UNCHANGED <<selected, drag, stands, selection, dragged, pointed, landed>>
      /\ toClient[c] # <<>> /\ toClient[c][1].type \in {"dropped", "send", "cancelled", "finished"}
      /\ toClient' = [toClient EXCEPT ![c] = Tail(@)]
  BY DEF ReceiveDropped, ReceiveSend, ReceiveEnd, Receives, Take, Taken, offerVars
<1>2. Shifted(toClient, toClient', Heard, {c})
  BY <1>1, ShiftTaken DEF TypeInv
<1>3. toClient[c][1].type \notin Heard
  BY <1>1 DEF Heard, Moves, Points
<1> HIDE DEF Heard
<1>4. \A d \in {c} : toClient[d] # <<>> /\ toClient[d][1].type \notin Heard
  BY <1>1, <1>3
<1>5. UNCHANGED <<selected, drag, stands, selection, dragged, pointed, landed>>
  BY <1>1
<1>6. QED  BY <1>2, <1>4, <1>5, RolesKept

(* A key is pressed. *)
LEMMA PressRoles ==
  ASSUME TypeInv, TypeInv', DragInv, NEW type \in {"copy", "paste"}, Press(type)
  PROVE  DragInv'
<1>1. /\ UNCHANGED <<selected, drag, stands, selection, dragged, pointed, landed>>
      /\ toClient' = SendTo(toClient, focus, type, None) /\ toClient \in Queues
  BY DEF Press, serverVars, offerVars, TypeInv
<1>2. type \in Types \ Heard /\ None \in Nat
  BY DEF Types, Heard, Moves, Points, None
<1>3. Shifted(toClient, toClient', Heard, {})
  BY <1>1, <1>2, ShiftSame, ShiftSent
<1>4. QED  BY <1>1, <1>3, RolesKept

(* What there is to paste is asked for. *)
LEMMA RequestedShift ==
  ASSUME TypeInv, TypeInv', NEW q \in Queues, NEW S, Shifted(toClient, q, Heard, S),
         NEW c, NEW o, Requested(q, c, o)
  PROVE  Shifted(toClient, toClient', Heard, S)
<1> DEFINE s == stands[c][o]
           n == Len(pipes')
<1>1. toClient' = IF s = None THEN q ELSE SendTo(q, owner[s], "send", n)
  BY DEF Requested
<1>2. n \in Nat /\ "send" \in Types \ Heard /\ toClient \in Queues
  BY DEF TypeInv, Types, Heard, Moves, Points
<1> HIDE DEF s, n
<1>3. QED  BY <1>1, <1>2, ShiftSent

(* ... by a key or once it is dropped. *)
LEMMA PasteRoles ==
  ASSUME TypeInv, TypeInv', DragInv, NEW c \in Clients, ReceivePaste(c) \/ TakeDropped(c)
  PROVE  DragInv'
<1>1. UNCHANGED <<selected, drag, stands, selection, dragged, pointed, landed>>
  BY DEF ReceivePaste, TakeDropped, serverVars, offerVars
<1>2. toClient \in Queues
  BY DEF TypeInv
<1>3. CASE ReceivePaste(c)
  <2>1. toClient[c] # <<>> /\ toClient[c][1].type \notin Heard
    BY <1>3 DEF ReceivePaste, Receives, Heard, Moves, Points
  <2>2. Taken(c) \in Queues /\ Shifted(toClient, Taken(c), Heard, {c})
    BY <1>2, <2>1, TailGrows, ShiftTaken DEF Taken
  <2>3. Shifted(toClient, toClient', Heard, {c})
    BY <1>3, <2>2, RequestedShift DEF ReceivePaste
  <2>4. QED  BY <1>1, <2>1, <2>3, RolesKept
<1>4. CASE TakeDropped(c)
  <2>1. Shifted(toClient, toClient', Heard, {})
    BY <1>2, <1>4, ShiftSame, RequestedShift DEF TakeDropped
  <2>2. QED  BY <1>1, <2>1, RolesKept
<1>5. QED  BY <1>3, <1>4

(* A pipe is written to, or read from. *)
LEMMA PipeRoles ==
  ASSUME TypeInv, TypeInv', DragInv, (\E c \in Clients : Write(c)) \/ (\E p \in Pipes : Read(p))
  PROVE  DragInv'
<1>1. UNCHANGED <<selected, drag, stands, toClient, selection, dragged, pointed, landed>>
  BY DEF Write, Read, serverVars, offerVars
<1>2. Shifted(toClient, toClient', Heard, {})
  BY <1>1, ShiftSame DEF TypeInv
<1>3. QED  BY <1>1, <1>2, RolesKept

(* A source is given away as the selection. *)
LEMMA CopyRoles ==
  ASSUME TypeInv, TypeInv', CoreInv, DragInv, NEW c \in Clients, ReceiveCopy(c)
  PROVE  DragInv'
<1> DEFINE q == [toClient EXCEPT ![c] = Tail(@)]
<1>1. /\ toClient \in Queues /\ UNCHANGED <<drag, selection, dragged, pointed, landed>>
      /\ toClient[c] # <<>> /\ toClient[c][1].type \notin Heard /\ Taken(c) = q
  BY Basics DEF ReceiveCopy, Receives, offerVars, Heard, Moves, Points, Taken
<1>2. q \in Queues /\ Shifted(toClient, q, Heard, {c})
  BY <1>1, TailGrows, ShiftTaken
<1> HIDE DEF q
<1>3. CASE Take(c) /\ selected' = selected
  BY <1>1, <1>2, <1>3, RolesKept DEF Take
<1>4. CASE selected' = made' /\ SelectionSent(Tell(q, selected, "cancelled"), focus, made')
  <2> DEFINE r == Tell(q, selected, "cancelled")
  <2>1. selected \in Sources \cup {None}
    BY Basics
  <2>2. r \in Queues /\ Shifted(toClient, r, Heard, {c})
    BY <1>1, <1>2, <2>1, TellGrows, ShiftTold
  <2>3. SelectionSent(r, focus, made')
    BY <1>4
  <2> HIDE DEF r
  <2>4. made' \in Sources /\ made' \notin alive
    BY NextSource DEF ReceiveCopy, CoreInv, MadeInv, TypeInv
  <2>5. ~Live(made')
    BY <2>4 DEF CoreInv, LiveInv
  <2>6. made' # drag.source /\ ~Standing(stands, made')
    BY <2>5 DEF Live
  <2>7. QED  BY <1>1, <1>4, <2>2, <2>3, <2>4, <2>6, SelectionRoles
<1>5. QED  BY <1>1, <1>3, <1>4 DEF ReceiveCopy

-----------------------------------------------------------------------------
(* No offer comes to stand for anything, and what is dragged is offered as *)
(* before: only what was dropped may go.                                   *)
Narrows ==
  /\ selected' = selected /\ drag' = drag /\ pointed' = pointed
  /\ landed' \in [Clients -> BOOLEAN] /\ \A c \in Clients : landed'[c] => landed[c]
  /\ \A c \in Clients : dragged'[c] = dragged[c] \/ (dragged'[c] = None /\ landed[c])
  /\ \A c \in Clients, o \in Offers :
       /\ stands'[c][o] \in {None, stands[c][o]}
       /\ stands[c][o] = drag.source /\ drag.source # None =>
            /\ stands'[c][o] = drag.source
            /\ o # selection'[c] /\ ~Announced(c, "selection", o)'

(* Such a step disturbs nothing about what is dragged, if no move is taken. *)
LEMMA NarrowRoles ==
  ASSUME TypeInv, TypeInv', DragInv, NEW S, Shifted(toClient, toClient', Moves \cup Points, S),
         \A c \in S : toClient[c] # <<>> /\ toClient[c][1].type \notin Moves \cup Points, Narrows
  PROVE  DragInv'
<1>0. /\ selected' = selected /\ drag' = drag /\ pointed' = pointed
      /\ landed' \in [Clients -> BOOLEAN] /\ \A c \in Clients : landed'[c] => landed[c]
      /\ \A c \in Clients : dragged'[c] = dragged[c] \/ (dragged'[c] = None /\ landed[c])
      /\ \A c \in Clients, o \in Offers :
           /\ stands'[c][o] \in {None, stands[c][o]}
           /\ stands[c][o] = drag.source /\ drag.source # None =>
                /\ stands'[c][o] = drag.source
                /\ o # selection'[c] /\ ~Announced(c, "selection", o)'
  BY DEF Narrows
<1>1. MovesInv /\ drag.over \subseteq Clients /\ None \notin Offers
  BY Basics DEF DragInv, TypeInv
<1>2. ASSUME NEW c \in Clients
      PROVE  /\ Entering(c)' <=> Entering(c)
             /\ Entering(c) => toClient'[c][1] = toClient[c][1]
             /\ Still(c, {"leave", "drop"})' <=> Still(c, {"leave", "drop"})
             /\ \A o : Announced(c, "enter", o)' <=> Announced(c, "enter", o)
  <2>1. Moves \subseteq Moves \cup Points /\ {"leave", "drop"} \subseteq Moves \cup Points
        /\ "enter" \in Moves \cup Points
    BY DEF Moves
  <2>2. QED  BY <1>1, <2>1, ShiftFacts
<1>3. SelectedInv'
  <2>1. ASSUME selected # None, NEW c \in Clients, NEW o \in Offers, stands'[c][o] = selected
        PROVE  o # dragged'[c] /\ ~Announced(c, "enter", o)'
    <3>1. stands[c][o] = selected
      BY <1>0, <2>1
    <3>2. o # dragged[c] /\ ~Announced(c, "enter", o)
      BY <2>1, <3>1 DEF DragInv, SelectedInv
    <3>3. QED  BY <1>0, <1>1, <1>2, <3>2
  <2>2. selected # None => selected # drag.source
    BY DEF DragInv, SelectedInv
  <2>3. QED  BY <1>0, <2>1, <2>2 DEF SelectedInv
<1>4. OfferedInv'
  <2>1. ASSUME NEW c \in Clients, NEW o \in Offers, stands'[c][o] = drag.source, drag.source # None
        PROVE  /\ c \in drag.over
               /\ o # selection'[c] /\ ~Announced(c, "selection", o)'
               /\ IF Entering(c)' THEN o = toClient'[c][1].of /\ o # dragged'[c] ELSE o = dragged'[c]
    <3>1. stands[c][o] = drag.source
      BY <1>0, <2>1
    <3>2. /\ c \in drag.over
          /\ IF Entering(c) THEN o = toClient[c][1].of /\ o # dragged[c] ELSE o = dragged[c]
      BY <2>1, <3>1 DEF DragInv, OfferedInv
    <3>3. Entering(c) \/ ~landed[c]
      BY <3>2 DEF DragInv, OverInv
    <3>4. QED  BY <1>0, <1>1, <1>2, <2>1, <3>1, <3>2, <3>3
  <2>2. QED  BY <1>0, <2>1 DEF OfferedInv
<1>5. OverInv'
  <2>1. ASSUME drag.accepted
        PROVE  \E c \in drag.over :
                 /\ pointed[c] /\ dragged'[c] # None /\ stands'[c][dragged'[c]] = drag.source
                 /\ ~Entering(c)'
    <3>1. PICK c \in drag.over : /\ pointed[c] /\ dragged[c] # None
                                 /\ stands[c][dragged[c]] = drag.source /\ ~Entering(c)
      BY <2>1 DEF DragInv, OverInv
    <3>2. c \in Clients /\ dragged[c] \in Offers /\ drag.source # None /\ ~landed[c]
      BY <1>1, <3>1, Basics DEF DragInv, OverInv
    <3>3. dragged'[c] = dragged[c] /\ stands'[c][dragged[c]] = drag.source
      BY <1>0, <3>1, <3>2
    <3>4. QED  BY <1>2, <3>1, <3>2, <3>3
  <2>2. QED  BY <1>0, <1>1, <1>2, <2>1 DEF DragInv, OverInv
<1>6. MovesInv'
  <2>1. ASSUME NEW c \in Clients, Entering(c)
        PROVE  stands'[c][toClient[c][1].of] \in {None, drag.source}
    <3>1. toClient[c][1].of \in Offers /\ stands[c][toClient[c][1].of] \in {None, drag.source}
      BY <1>1, <2>1, FirstEvent DEF Entering, MovesInv
    <3>2. QED  BY <1>0, <3>1
  <2>2. QED  BY <1>0, <1>1, <2>1, MovesKept
<1>7. QED  BY <1>3, <1>4, <1>5, <1>6 DEF DragInv

(* The keyboard goes to another client. *)
LEMMA FocusOnRoles ==
  ASSUME TypeInv, TypeInv', DragInv, NEW c \in Clients, FocusOn(c) PROVE DragInv'
<1>1. /\ UNCHANGED <<selected, drag, selection, dragged, pointed, landed>>
      /\ toClient \in Queues /\ selected \in Sources \cup {None} /\ None \notin Offers
      /\ \A s \in Sources : s # None
  BY Basics DEF FocusOn, offerVars
<1>2. CASE toClient' = SendTo(toClient, c, "selection", None) /\ stands' = stands
  <2>1. "selection" \in Types \ (Moves \cup Points) /\ None \in Nat
    BY DEF Types, Moves, Points, None
  <2>2. Shifted(toClient, toClient', Moves \cup Points, {})
    BY <1>1, <1>2, <2>1, ShiftSame, ShiftSent
  <2>3. ASSUME NEW d \in Clients, NEW o \in Offers, Announced(d, "selection", o)'
        PROVE  Announced(d, "selection", o)
    <3>1. Added(toClient, toClient', c, Event("selection", None))
      BY <1>1, <1>2, <2>1, SentEvents
    <3>2. PICK k \in DOMAIN toClient'[d] : toClient'[d][k] = Event("selection", o)
      BY <2>3 DEF Announced
    <3>3. Event("selection", o) # Event("selection", None)
      BY <1>1 DEF Event
    <3>4. k \in DOMAIN toClient[d] /\ toClient[d][k] = Event("selection", o)
      BY <3>1, <3>2, <3>3 DEF Added
    <3>5. QED  BY <3>4 DEF Announced
  <2>4. \A d \in Clients, o \in Offers :
           /\ stands'[d][o] \in {None, stands[d][o]}
           /\ stands[d][o] = drag.source /\ drag.source # None =>
                /\ stands'[d][o] = drag.source
                /\ o # selection'[d] /\ ~Announced(d, "selection", o)'
    BY <1>1, <1>2, <2>3 DEF DragInv, OfferedInv
  <2>5. landed' \in [Clients -> BOOLEAN] /\ selected' = selected /\ drag' = drag /\ pointed' = pointed
        /\ (\A d \in Clients : landed'[d] => landed[d])
        /\ \A d \in Clients : dragged'[d] = dragged[d]
    BY <1>1 DEF DragInv, MovesInv
  <2>6. Narrows
    BY <2>4, <2>5 DEF Narrows
  <2> DEFINE S == {}
  <2>7. /\ Shifted(toClient, toClient', Moves \cup Points, S)
        /\ \A d \in S : toClient[d] # <<>> /\ toClient[d][1].type \notin Moves \cup Points
    BY <2>2
  <2> HIDE DEF S
  <2>8. QED  BY <2>6, <2>7, NarrowRoles
<1>3. CASE selected # None /\ SelectionSent(toClient, c, selected)
  <2>1. selected # drag.source
    BY <1>3 DEF DragInv, SelectedInv
  <2>2. Shifted(toClient, toClient, Heard, {})
    BY <1>1, ShiftSame
  <2>3. QED  BY <1>1, <1>3, <2>1, <2>2, SelectionRoles
<1>4. QED  BY <1>2, <1>3 DEF FocusOn

(* What the offers stand for once one is destroyed. *)
LEMMA DestroyedStands ==
  ASSUME TypeInv, NEW c \in Clients, NEW o \in Offers \cup {None}, Destroy(c, o),
         NEW d \in Clients, NEW p \in Offers
  PROVE  stands'[d][p] =
           IF o # None /\ ((d = c /\ p = o) \/ stands[d][p] = Unfinished(c, o)) THEN None
           ELSE stands[d][p]
<1> DEFINE s == Unfinished(c, o)
<1>1. stands' = IF o = None THEN stands ELSE [Inert(stands, s) EXCEPT ![c][o] = None]
  BY DEF Destroy
<1> HIDE DEF s
<1>2. CASE o = None
  BY <1>1, <1>2
<1>3. CASE o # None
  BY <1>1, <1>3 DEF Inert, s
<1>4. QED  BY <1>2, <1>3

(* ... and what is on its way. *)
LEMMA DestroyedShift ==
  ASSUME TypeInv, NEW c \in Clients, toClient[c] # <<>>, NEW o \in Offers \cup {None}, Destroy(c, o)
  PROVE  Shifted(toClient, toClient', Heard, {c})
<1> DEFINE q == [toClient EXCEPT ![c] = Tail(@)]
           s == Unfinished(c, o)
<1>1. toClient \in Queues /\ s \in Sources \cup {None}
  BY DEF TypeInv, Unfinished
<1>2. q \in Queues /\ Shifted(toClient, q, Heard, {c})
  BY <1>1, TailGrows, ShiftTaken
<1>3. toClient' = Tell(q, s, "cancelled")
  BY DEF Destroy
<1> HIDE DEF q, s
<1>4. QED  BY <1>1, <1>2, <1>3, ShiftTold

(* The selection arrives. *)
LEMMA ReceiveSelectionRoles ==
  ASSUME TypeInv, TypeInv', DragInv, NEW c \in Clients, ReceiveSelection(c) PROVE DragInv'
<1> DEFINE o == selection[c]
<1>1. /\ UNCHANGED <<selected, drag, dragged, pointed, landed>>
      /\ selection' = [selection EXCEPT ![c] = toClient[c][1].of] /\ Destroy(c, o)
      /\ toClient[c] # <<>> /\ toClient[c][1].type = "selection" /\ o \in Offers \cup {None}
  BY Basics DEF ReceiveSelection, Receives
<1>2. Shifted(toClient, toClient', Heard, {c})
  BY <1>1, DestroyedShift
<1>3. Shifted(toClient, toClient', Moves \cup Points, {c})
  BY <1>2 DEF Shifted, Heard
<1>4. Unfinished(c, o) \notin {selected, drag.source} \ {None}
  BY <1>1, UnfinishedEnds
<1>5. \A d \in Clients, p \in Offers :
        stands'[d][p] =
           IF o # None /\ ((d = c /\ p = o) \/ stands[d][p] = Unfinished(c, o)) THEN None
           ELSE stands[d][p]
  BY <1>1, DestroyedStands
<1>6. ASSUME NEW d \in Clients, NEW p \in Offers, stands[d][p] = drag.source, drag.source # None
      PROVE  /\ stands'[d][p] = drag.source
             /\ p # selection'[d] /\ ~Announced(d, "selection", p)'
  <2>1. p # selection[d] /\ ~Announced(d, "selection", p)
    BY <1>6 DEF DragInv, OfferedInv
  <2>2. stands'[d][p] = drag.source
    BY <1>4, <1>5, <1>6, <2>1
  <2>3. p # selection'[d]
    <3>1. CASE d # c
      BY <1>1, <2>1, <3>1 DEF TypeInv
    <3>2. CASE d = c
      <4>1. 1 \in DOMAIN toClient[c] /\ toClient[c][1] \in Events
        BY <1>1, FirstEvent
      <4>2. toClient[c][1] = Event("selection", toClient[c][1].of)
        BY <1>1, <4>1 DEF Events, Event
      <4>3. p # toClient[c][1].of
        BY <2>1, <3>2, <4>1, <4>2 DEF Announced
      <4>4. QED  BY <1>1, <3>2, <4>3 DEF TypeInv
    <3>3. QED  BY <3>1, <3>2
  <2>4. ~Announced(d, "selection", p)'
    <3>1. ASSUME NEW k \in DOMAIN toClient'[d], toClient'[d][k] = Event("selection", p)
          PROVE  \E j \in DOMAIN toClient[d] : toClient[d][j] = Event("selection", p)
      BY <1>2, <3>1 DEF Shifted, Heard, Event
    <3>2. QED  BY <2>1, <3>1 DEF Announced
  <2>5. QED  BY <2>2, <2>3, <2>4
<1>7. \A d \in Clients, p \in Offers :
           /\ stands'[d][p] \in {None, stands[d][p]}
           /\ stands[d][p] = drag.source /\ drag.source # None =>
                /\ stands'[d][p] = drag.source
                /\ p # selection'[d] /\ ~Announced(d, "selection", p)'
  BY <1>5, <1>6
<1>8. /\ landed' \in [Clients -> BOOLEAN] /\ selected' = selected /\ drag' = drag /\ pointed' = pointed
      /\ (\A d \in Clients : landed'[d] => landed[d])
      /\ \A d \in Clients : dragged'[d] = dragged[d]
  BY <1>1 DEF DragInv, MovesInv
<1>9. \A d \in {c} : toClient[d] # <<>> /\ toClient[d][1].type \notin Moves \cup Points
  BY <1>1 DEF Moves, Points
<1>10. Narrows
  BY <1>7, <1>8 DEF Narrows
<1>11. QED  BY <1>3, <1>9, <1>10, NarrowRoles

(* What was dropped is finished. *)
LEMMA EndDropRoles ==
  ASSUME TypeInv, TypeInv', DragInv, NEW c \in Clients, NEW type \in {"finished", "cancelled"},
         EndDrop(c, type)
  PROVE  DragInv'
<1> DEFINE o == dragged[c]
           s == stands[c][o]
<1>1. /\ UNCHANGED <<selected, drag, selection, pointed>> /\ toClient \in Queues
      /\ o \in Offers /\ s \in Sources \cup {None} /\ landed[c] /\ None \notin Offers
      /\ dragged' = [dragged EXCEPT ![c] = None] /\ landed' = [landed EXCEPT ![c] = FALSE]
      /\ \A t \in Sources : t # None
  BY Basics DEF EndDrop, TypeInv
<1>2. s # None => s # drag.source
  <2>1. Unfinished(c, o) = s
    BY <1>1 DEF Unfinished
  <2>2. QED  BY <1>1, <2>1, UnfinishedEnds
<1>3. toClient' = Tell(toClient, s, type)
  BY DEF EndDrop
<1>4. ASSUME NEW d \in Clients, NEW p \in Offers
      PROVE  stands'[d][p] = IF (d = c /\ p = o) \/ stands[d][p] = s THEN None ELSE stands[d][p]
  <2>1. stands' = [Inert(stands, s) EXCEPT ![c][o] = None]
    BY DEF EndDrop
  <2> HIDE DEF o, s
  <2>2. QED  BY <1>1, <2>1 DEF Inert
<1>5. Shifted(toClient, toClient', Heard, {})
  <2> HIDE DEF s
  <2>1. QED  BY <1>1, <1>3, ShiftSame, ShiftTold
<1>6. Shifted(toClient, toClient', Moves \cup Points, {})
  BY <1>5 DEF Shifted, Heard
<1>7. ASSUME NEW d \in Clients, NEW p \in Offers, stands[d][p] = drag.source, drag.source # None
      PROVE  /\ stands'[d][p] = drag.source
             /\ p # selection'[d] /\ ~Announced(d, "selection", p)'
  <2>1. p # selection[d] /\ ~Announced(d, "selection", p)
    BY <1>7 DEF DragInv, OfferedInv
  <2>2. stands'[d][p] = drag.source
    BY <1>2, <1>4, <1>7
  <2>3. ~Announced(d, "selection", p)'
    <3>1. ASSUME NEW k \in DOMAIN toClient'[d], toClient'[d][k] = Event("selection", p)
          PROVE  \E j \in DOMAIN toClient[d] : toClient[d][j] = Event("selection", p)
      BY <1>5, <3>1 DEF Shifted, Heard, Event
    <3>2. QED  BY <2>1, <3>1 DEF Announced
  <2>4. QED  BY <1>1, <2>1, <2>2, <2>3
<1>8. \A d \in Clients, p \in Offers :
           /\ stands'[d][p] \in {None, stands[d][p]}
           /\ stands[d][p] = drag.source /\ drag.source # None =>
                /\ stands'[d][p] = drag.source
                /\ p # selection'[d] /\ ~Announced(d, "selection", p)'
  BY <1>4, <1>7
<1>9. landed' \in [Clients -> BOOLEAN] /\ \A d \in Clients : landed'[d] => landed[d]
  BY <1>1 DEF DragInv, MovesInv
<1>10. \A d \in Clients : dragged'[d] = dragged[d] \/ (dragged'[d] = None /\ landed[d])
  BY <1>1 DEF TypeInv
<1>11. selected' = selected /\ drag' = drag /\ pointed' = pointed
  BY <1>1
<1>12. Narrows
  BY <1>8, <1>9, <1>10, <1>11 DEF Narrows
<1> DEFINE S == {}
<1>13. /\ Shifted(toClient, toClient', Moves \cup Points, S)
       /\ \A d \in S : toClient[d] # <<>> /\ toClient[d][1].type \notin Moves \cup Points
  BY <1>6
<1> HIDE DEF S
<1>14. QED  BY <1>12, <1>13, NarrowRoles

-----------------------------------------------------------------------------
(* Nothing is on its way but where the pointer is, and nothing is dragged  *)
(* over a surface.                                                         *)
LEMMA PointsRoles ==
  ASSUME TypeInv, TypeInv', DragInv,
         UNCHANGED <<selected, stands, selection, dragged, pointed, landed>>,
         drag'.over = {}, ~drag'.accepted, drag'.source # None => ~Live(drag'.source),
         \A c \in Clients : \A k \in DOMAIN toClient'[c] : toClient'[c][k].type \in Points
  PROVE  DragInv'
<1>1. \A c \in Clients : Still(c, Moves)' /\ \A o : ~Announced(c, "enter", o)'
  BY DEF Still, Announced, Event, Moves, Points
<1>2. SelectedInv'
  BY <1>1 DEF DragInv, SelectedInv, Live
<1>3. OfferedInv'
  BY DEF OfferedInv, Live, Standing
<1>4. OverInv'
  BY DEF OverInv
<1>5. MovesInv'
  BY <1>1 DEF DragInv, MovesInv, Still, Moves
<1>6. QED  BY <1>2, <1>3, <1>4, <1>5 DEF DragInv

(* Something leaves. *)
LEMMA LeftEvents ==
  ASSUME NEW q \in Queues, NEW left, NEW type \in {"leave", "pointer_leave"}
  PROVE  \A c \in Clients : \A k \in DOMAIN LeaveSent(q, left, type)[c] :
           (k \in DOMAIN q[c] /\ LeaveSent(q, left, type)[c][k] = q[c][k])
           \/ LeaveSent(q, left, type)[c][k] = Event(type, None)
<1> DEFINE r == LeaveSent(q, left, type)
           e == Event(type, None)
<1>1. CASE left = {}
  BY <1>1 DEF LeaveSent
<1>2. CASE left # {}
  <2>1. r = SendTo(q, CHOOSE c \in left : TRUE, type, None) /\ type \in Types /\ None \in Nat
    BY <1>2 DEF LeaveSent, Types, None
  <2>2. Added(q, r, CHOOSE c \in left : TRUE, e)
    BY <2>1, SentEvents
  <2> HIDE DEF r, e
  <2>3. \A c \in Clients : \A k \in DOMAIN r[c] : (k \in DOMAIN q[c] /\ r[c][k] = q[c][k]) \/ r[c][k] = e
    BY <2>2 DEF Added
  <2>4. QED  BY <2>3 DEF r, e
<1>3. QED  BY <1>1, <1>2

(* The pointer enters a surface. *)
LEMMA PointRoles ==
  ASSUME TypeInv, TypeInv', DragInv, NEW c \in Clients, Point(c) PROVE DragInv'
<1> DEFINE q == LeaveSent(toClient, pointer, "pointer_leave")
<1>1. /\ UNCHANGED <<selected, drag, stands, selection, dragged, pointed, landed>>
      /\ drag = NoDrag /\ toClient \in Queues /\ q \in Queues
      /\ \A d \in Clients : DOMAIN toClient[d] = {}
      /\ toClient' = SendTo(q, c, "pointer_enter", None)
  BY Basics, LeaveGrows DEF Point, offerVars, Quiet
<1>2. \A d \in Clients : \A k \in DOMAIN q[d] : q[d][k] = Event("pointer_leave", None)
  BY <1>1, LeftEvents
<1> HIDE DEF q
<1>3. Added(q, toClient', c, Event("pointer_enter", None))
  BY <1>1, SentEvents DEF Types, None
<1>4. \A d \in Clients : \A k \in DOMAIN toClient'[d] : toClient'[d][k].type \in Points
  BY <1>2, <1>3 DEF Added, Event, Points
<1>5. drag'.over = {} /\ ~drag'.accepted /\ drag'.source = None
  BY <1>1 DEF NoDrag
<1>6. QED  BY <1>1, <1>4, <1>5, PointsRoles

(* A drag starts. *)
LEMMA StartDragRoles ==
  ASSUME TypeInv, TypeInv', CoreInv, DragInv, NEW c \in Clients, StartDrag(c) PROVE DragInv'
<1>1. /\ UNCHANGED <<selected, stands, selection, dragged, pointed, landed>>
      /\ drag'.over = {} /\ ~drag'.accepted /\ drag'.source = made' /\ toClient \in Queues
      /\ \A d \in Clients : DOMAIN toClient[d] = {}
      /\ toClient' = LeaveSent(toClient, pointer, "pointer_leave")
  BY Basics DEF StartDrag, offerVars, NoDrag, Quiet
<1>2. \A d \in Clients : \A k \in DOMAIN toClient'[d] : toClient'[d][k].type \in Points
  <2>1. \A d \in Clients : \A k \in DOMAIN toClient'[d] : toClient'[d][k] = Event("pointer_leave", None)
    BY <1>1, LeftEvents
  <2>2. QED  BY <2>1 DEF Event, Points
<1>3. made' \in Sources /\ made' \notin alive
  BY NextSource DEF StartDrag, CoreInv, MadeInv, TypeInv
<1>4. ~Live(drag'.source)
  BY <1>1, <1>3 DEF CoreInv, LiveInv
<1>5. QED  BY <1>1, <1>2, <1>4, PointsRoles

(* What is dragged comes over a surface. *)
LEMMA DragOverRoles ==
  ASSUME TypeInv, TypeInv', DragInv, NEW c \in Clients, DragOver(c) PROVE DragInv'
<1> DEFINE q == LeaveSent(toClient, drag.over, "leave")
           n == NewOffer(c)
<1>1. /\ UNCHANGED <<selected, selection, dragged, pointed, landed>>
      /\ toClient \in Queues /\ q \in Queues
      /\ \A d \in Clients : toClient[d] = <<>> /\ DOMAIN toClient[d] = {} /\ Len(toClient[d]) = 0
      /\ drag.source # None /\ drag.over # {c} /\ drag.over \subseteq Clients
      /\ drag'.source = drag.source /\ drag'.over = {c} /\ ~drag'.accepted
      /\ toClient' = SendTo(q, c, "enter", n)
  BY Basics, LeaveGrows DEF DragOver, offerVars, Quiet, TypeInv
<1>2. /\ n \in Offers /\ n \in Nat /\ n # selection[c] /\ n # dragged[c]
  BY NewIsUnknown, OfferFacts DEF DragOver
<1>3. ASSUME NEW d \in Clients, NEW o \in Offers
      PROVE  stands'[d][o] = IF d = c /\ o = n THEN drag.source
                             ELSE IF stands[d][o] = drag.source THEN None ELSE stands[d][o]
  BY DEF DragOver
<1>4. \A d \in Clients : \A k \in DOMAIN q[d] :
        k = 1 /\ d \in drag.over /\ q[d][k] = Event("leave", None)
  <2>1. CASE drag.over = {}
    BY <1>1, <2>1 DEF LeaveSent
  <2>2. CASE drag.over # {}
    <3>1. q = SendTo(toClient, CHOOSE d \in drag.over : TRUE, "leave", None)
      BY <2>2 DEF LeaveSent
    <3>2. PICK x \in drag.over : x = CHOOSE d \in drag.over : TRUE
      BY <2>2
    <3> HIDE DEF q
    <3>3. Added(toClient, q, x, Event("leave", None))
      BY <1>1, <3>1, <3>2, SentEvents DEF Types, None
    <3>4. QED  BY <1>1, <3>2, <3>3 DEF Added
  <2>3. QED  BY <2>1, <2>2
<1>5. c \notin drag.over
  BY <1>1 DEF DragInv, OverInv
<1> HIDE DEF q, n
<1>6. Added(q, toClient', c, Event("enter", n))
  BY <1>1, <1>2, SentEvents DEF Types
<1>7. Len(q[c]) = 0 /\ \A k \in DOMAIN q[c] : FALSE
  <2>1. \A k \in DOMAIN q[c] : FALSE
    BY <1>4, <1>5
  <2>2. q[c] \in Seq(Events)
    BY <1>1 DEF Queues
  <2>3. Len(q[c]) \in Nat /\ (Len(q[c]) > 0 => 1 \in DOMAIN q[c])
    BY <2>2
  <2>4. QED  BY <2>1, <2>3
<1>8. /\ 1 \in DOMAIN toClient'[c] /\ toClient'[c][1] = Event("enter", n) /\ toClient'[c] # <<>>
      /\ \A k \in DOMAIN toClient'[c] : k = 1
  BY <1>6, <1>7 DEF Added
<1>9. \A d \in Clients \ {c} : \A k \in DOMAIN toClient'[d] :
         k = 1 /\ d \in drag.over /\ toClient'[d][k] = Event("leave", None)
  BY <1>4, <1>6 DEF Added
<1>10. Entering(c)' /\ toClient'[c][1].of = n
  BY <1>8 DEF Entering, Event
<1>11. ASSUME NEW d \in Clients, NEW o
       PROVE  /\ Announced(d, "enter", o)' => d = c /\ o = n
              /\ ~Announced(d, "selection", o)'
  BY <1>8, <1>9 DEF Announced, Event
<1>12. SelectedInv'
  <2>1. ASSUME selected # None, NEW d \in Clients, NEW o \in Offers, stands'[d][o] = selected
        PROVE  o # dragged[d] /\ ~Announced(d, "enter", o)'
    <3>1. selected # drag.source
      BY <2>1 DEF DragInv, SelectedInv
    <3>2. stands[d][o] = selected /\ ~(d = c /\ o = n)
      BY <1>3, <2>1, <3>1
    <3>3. QED  BY <1>11, <2>1, <3>2 DEF DragInv, SelectedInv
  <2>2. QED  BY <1>1, <2>1 DEF DragInv, SelectedInv
<1>13. OfferedInv'
  <2>1. ASSUME NEW d \in Clients, NEW o \in Offers, stands'[d][o] = drag.source
        PROVE  d = c /\ o = n
    BY <1>1, <1>3, <2>1
  <2>2. QED  BY <1>1, <1>2, <1>10, <1>11, <2>1 DEF OfferedInv
<1>14. OverInv'
  <2>1. Still(c, {"leave", "drop"})'
    BY <1>8 DEF Still, Event
  <2>2. QED  BY <1>1, <1>10, <2>1 DEF OverInv
<1>15. MovesInv'
  <2>1. ASSUME NEW d \in Clients, NEW k \in DOMAIN toClient'[d]
        PROVE  /\ toClient'[d][k].type = "enter" =>
                    /\ k = 1 /\ toClient'[d][1].of \in Offers
                    /\ stands'[d][toClient'[d][1].of] \in {None, drag'.source}
               /\ toClient'[d][k].type = "leave" => ~landed'[d] \/ ~pointed'[d] \/ Entering(d)'
               /\ toClient'[d][k].type # "drop" /\ toClient'[d][k].type \notin Points
    <3>1. CASE d = c
      <4>1. k = 1 /\ toClient'[d][k].type = "enter"
        BY <1>8, <3>1 DEF Event
      <4>2. QED  BY <1>1, <1>2, <1>3, <1>10, <3>1, <4>1 DEF Points
    <3>2. CASE d # c
      <4>1. k = 1 /\ d \in drag.over /\ toClient'[d][k].type = "leave"
        BY <1>9, <3>2 DEF Event
      <4>2. ~landed[d]
        BY <1>1, <4>1 DEF DragInv, OverInv, Entering
      <4>3. QED  BY <1>1, <4>1, <4>2 DEF Points
    <3>3. QED  BY <3>1, <3>2
  <2>2. pointed' \in [Clients -> BOOLEAN] /\ landed' \in [Clients -> BOOLEAN]
    BY <1>1 DEF DragInv, MovesInv
  <2>3. QED  BY <2>1, <2>2 DEF MovesInv, Still
<1>16. QED  BY <1>12, <1>13, <1>14, <1>15 DEF DragInv

-----------------------------------------------------------------------------
(* A move of what is dragged is taken: no other is on its way but a leave. *)
LEMMA MoveTaken ==
  ASSUME TypeInv, TypeInv', DragInv, NEW c \in Clients, toClient[c] # <<>>,
         toClient[c][1].type \in Moves, Shifted(toClient, toClient', Heard, {c})
  PROVE  /\ ~Entering(c)' /\ \A k \in DOMAIN toClient'[c] : toClient'[c][k].type \notin {"enter", "drop"}
         /\ \A d \in Clients : /\ \A o : Announced(d, "enter", o)' => Announced(d, "enter", o)
                               /\ \A o : Announced(d, "selection", o)' => Announced(d, "selection", o)
                               /\ \A T \in SUBSET Heard : Still(d, T) => Still(d, T)'
         /\ \A d \in Clients \ {c} : /\ Entering(d)' <=> Entering(d)
                                     /\ Entering(d) => toClient'[d][1] = toClient[d][1]
<1>1. MovesInv /\ "enter" \in Heard /\ "selection" \in Heard /\ {"enter", "drop"} \subseteq Heard
      /\ {"enter", "drop"} \subseteq Moves
  BY DEF DragInv, Heard, Moves
<1>2. /\ 1 \in DOMAIN toClient[c] /\ \A d \in Clients : toClient'[d] \in Seq(Events)
      /\ \A d \in Clients : toClient[d] \in Seq(Events)
  BY FirstEvent DEF TypeInv, Queues
<1>3. ASSUME NEW d \in Clients
      PROVE  LET n == IF d = c THEN 1 ELSE 0 IN
             /\ \A k \in DOMAIN toClient'[d] : toClient'[d][k].type \in Heard =>
                  k + n \in DOMAIN toClient[d] /\ toClient'[d][k] = toClient[d][k + n]
             /\ \A k \in DOMAIN toClient[d] : toClient[d][k].type \in Heard /\ k # n =>
                  k - n \in DOMAIN toClient'[d] /\ toClient'[d][k - n] = toClient[d][k]
  BY DEF Shifted
<1>4. \A k \in DOMAIN toClient'[c] : toClient'[c][k].type \notin {"enter", "drop"}
  <2>1. SUFFICES ASSUME NEW k \in DOMAIN toClient'[c], toClient'[c][k].type \in {"enter", "drop"}
                 PROVE  FALSE
    OBVIOUS
  <2>2. k + 1 \in DOMAIN toClient[c] /\ toClient'[c][k] = toClient[c][k + 1] /\ k \in Nat \ {0}
    BY <1>1, <1>2, <1>3, <2>1
  <2>3. k + 1 # 1 /\ 1 < k + 1
    BY <2>2
  <2>4. QED  BY <1>1, <1>2, <2>1, <2>2, <2>3 DEF MovesInv
<1>5. ~Entering(c)'
  <2>1. toClient'[c] # <<>> => 1 \in DOMAIN toClient'[c]
    BY <1>2
  <2>2. QED  BY <1>4, <2>1 DEF Entering
<1>6. ASSUME NEW d \in Clients
      PROVE  /\ \A o : Announced(d, "enter", o)' => Announced(d, "enter", o)
             /\ \A o : Announced(d, "selection", o)' => Announced(d, "selection", o)
             /\ \A T \in SUBSET Heard : Still(d, T) => Still(d, T)'
  <2>1. \A k \in DOMAIN toClient'[d] : toClient'[d][k].type \in Heard =>
          \E j \in DOMAIN toClient[d] : toClient'[d][k] = toClient[d][j]
    BY <1>3
  <2>2. ASSUME NEW type \in Heard, NEW o, Announced(d, type, o)' PROVE Announced(d, type, o)
    <3>1. PICK k \in DOMAIN toClient'[d] : toClient'[d][k] = Event(type, o)
      BY <2>2 DEF Announced
    <3>2. toClient'[d][k].type \in Heard
      BY <3>1 DEF Event
    <3>3. QED  BY <2>1, <3>1, <3>2 DEF Announced
  <2>3. ASSUME NEW T \in SUBSET Heard, Still(d, T) PROVE Still(d, T)'
    BY <2>1, <2>3 DEF Still
  <2>4. QED  BY <1>1, <2>2, <2>3
<1>7. ASSUME NEW d \in Clients \ {c}
      PROVE  /\ Entering(d)' <=> Entering(d)
             /\ Entering(d) => toClient'[d][1] = toClient[d][1]
  <2>1. /\ \A k \in DOMAIN toClient'[d] : toClient'[d][k].type \in Heard =>
             k \in DOMAIN toClient[d] /\ toClient'[d][k] = toClient[d][k]
        /\ \A k \in DOMAIN toClient[d] : toClient[d][k].type \in Heard =>
             k \in DOMAIN toClient'[d] /\ toClient'[d][k] = toClient[d][k]
    <3>1. /\ \A k \in DOMAIN toClient'[d] : k \in Nat \ {0} /\ k + 0 = k
          /\ \A k \in DOMAIN toClient[d] : k \in Nat \ {0} /\ k - 0 = k
      BY <1>2
    <3>2. QED  BY <1>3, <3>1
  <2>2. /\ toClient'[d] # <<>> <=> 1 \in DOMAIN toClient'[d]
        /\ toClient[d] # <<>> <=> 1 \in DOMAIN toClient[d]
    BY <1>2
  <2>3. QED  BY <1>1, <2>1, <2>2 DEF Entering
<1>8. QED  BY <1>4, <1>5, <1>6, <1>7

(* ... after which the leave finds nothing that was dropped, or that the   *)
(* pointer is gone.                                                        *)
LEMMA MoveMoves ==
  ASSUME TypeInv, TypeInv', DragInv, NEW c \in Clients, toClient[c] # <<>>,
         toClient[c][1].type \in Moves, Shifted(toClient, toClient', Heard, {c}),
         pointed' \in [Clients -> BOOLEAN], landed' \in [Clients -> BOOLEAN],
         ~landed'[c] \/ ~pointed'[c],
         \A d \in Clients \ {c} : pointed'[d] = pointed[d] /\ landed'[d] = landed[d],
         \A d \in Clients, o \in Offers : stands'[d][o] \in {None, stands[d][o]},
         drag'.source = drag.source, drag'.over = drag.over
  PROVE  MovesInv'
<1>1. /\ \A k \in DOMAIN toClient'[c] : toClient'[c][k].type \notin {"enter", "drop"}
      /\ \A d \in Clients : \A T \in SUBSET Heard : Still(d, T) => Still(d, T)'
      /\ \A d \in Clients \ {c} : Entering(d)' <=> Entering(d)
  BY MoveTaken
<1>2. ASSUME NEW d \in Clients, NEW k \in DOMAIN toClient'[d]
      PROVE  /\ toClient'[d][k].type = "enter" =>
                  /\ k = 1 /\ toClient'[d][1].of \in Offers
                  /\ stands'[d][toClient'[d][1].of] \in {None, drag'.source}
             /\ toClient'[d][k].type = "leave" => ~landed'[d] \/ ~pointed'[d] \/ Entering(d)'
             /\ toClient'[d][k].type = "drop" =>
                  /\ pointed'[d] /\ ~landed'[d]
                  /\ \A j \in DOMAIN toClient'[d] : j < k => toClient'[d][j].type \notin Moves
  <2>1. CASE d = c
    BY <1>1, <2>1
  <2>2. CASE d # c
    <3>1. \A j \in DOMAIN toClient'[d] : toClient'[d][j].type \in Moves =>
            j \in DOMAIN toClient[d] /\ toClient'[d][j] = toClient[d][j]
      <4>1. \A j \in DOMAIN toClient'[d] : j + 0 = j
        BY DEF TypeInv, Queues
      <4>2. QED  BY <2>2, <4>1 DEF Shifted, Heard
    <3>2. SUFFICES ASSUME toClient'[d][k].type \in Moves
                   PROVE  /\ toClient'[d][k].type = "enter" =>
                                /\ k = 1 /\ toClient'[d][1].of \in Offers
                                /\ stands'[d][toClient'[d][1].of] \in {None, drag'.source}
                          /\ toClient'[d][k].type = "leave" => ~landed'[d] \/ ~pointed'[d] \/ Entering(d)'
                          /\ toClient'[d][k].type = "drop" =>
                                /\ pointed'[d] /\ ~landed'[d]
                                /\ \A j \in DOMAIN toClient'[d] : j < k => toClient'[d][j].type \notin Moves
      BY DEF Moves
    <3>3. k \in DOMAIN toClient[d] /\ toClient'[d][k] = toClient[d][k]
      BY <3>1, <3>2
    <3>4. /\ toClient[d][k].type = "enter" =>
               /\ k = 1 /\ toClient[d][1].of \in Offers
               /\ stands[d][toClient[d][1].of] \in {None, drag.source}
          /\ toClient[d][k].type = "leave" => ~landed[d] \/ ~pointed[d] \/ Entering(d)
          /\ toClient[d][k].type = "drop" =>
               /\ pointed[d] /\ ~landed[d]
               /\ \A j \in DOMAIN toClient[d] : j < k => toClient[d][j].type \notin Moves
      BY <3>3 DEF DragInv, MovesInv
    <3>5. toClient'[d][k].type = "enter" =>
               /\ k = 1 /\ toClient'[d][1].of \in Offers
               /\ stands'[d][toClient'[d][1].of] \in {None, drag'.source}
      BY <3>3, <3>4
    <3>6. toClient'[d][k].type = "leave" => ~landed'[d] \/ ~pointed'[d] \/ Entering(d)'
      BY <1>1, <2>2, <3>3, <3>4
    <3>7. toClient'[d][k].type = "drop" =>
               /\ pointed'[d] /\ ~landed'[d]
               /\ \A j \in DOMAIN toClient'[d] : j < k => toClient'[d][j].type \notin Moves
      BY <2>2, <3>1, <3>3, <3>4
    <3>8. QED  BY <3>5, <3>6, <3>7
  <2>3. QED  BY <2>1, <2>2
<1>3. \A d \in Clients : Still(d, Points)'
  <2>1. ~Still(c, Moves)
    BY FirstEvent DEF Still
  <2>2. \A d \in Clients : Still(d, Points)
    BY <2>1 DEF DragInv, MovesInv
  <2>3. QED  BY <1>1, <2>2 DEF Heard
<1>4. QED  BY <1>2, <1>3 DEF MovesInv, Still

(* Where the pointer is comes in: nothing moves. *)
LEMMA ReceivePointerRoles ==
  ASSUME TypeInv, TypeInv', DragInv, NEW c \in Clients, ReceivePointer(c) PROVE DragInv'
<1>1. /\ UNCHANGED <<selected, drag, stands, selection, dragged, landed>>
      /\ toClient[c] # <<>> /\ toClient[c][1].type \in Points /\ toClient \in Queues
      /\ toClient' = [toClient EXCEPT ![c] = Tail(@)]
  BY Basics DEF ReceivePointer, Receives, Take, Taken, Points
<1>2. drag.over = {} /\ ~drag.accepted /\ \A d \in Clients : Still(d, Moves)
  <2>1. ~Still(c, Points)
    BY <1>1, FirstEvent DEF Still
  <2>2. QED  BY <2>1 DEF DragInv, MovesInv, OverInv
<1>3. Shifted(toClient, toClient', Heard, {c})
  BY <1>1, ShiftTaken
<1>4. ASSUME NEW d \in Clients, NEW k \in DOMAIN toClient'[d]
      PROVE  toClient'[d][k].type \notin Moves
  <2>1. toClient'[d][k].type \in Heard => \E j \in DOMAIN toClient[d] : toClient'[d][k] = toClient[d][j]
    BY <1>3 DEF Shifted
  <2>2. QED  BY <1>2, <2>1 DEF Still, Heard
<1>5. \A d \in Clients : Still(d, Moves)' /\ \A o : ~Announced(d, "enter", o)'
  BY <1>4 DEF Still, Announced, Event, Moves
<1>6. SelectedInv'
  BY <1>1, <1>5 DEF DragInv, SelectedInv
<1>7. OfferedInv'
  BY <1>1, <1>2 DEF DragInv, OfferedInv
<1>8. OverInv'
  BY <1>1, <1>2 DEF OverInv
<1>9. pointed' \in [Clients -> BOOLEAN] /\ landed' \in [Clients -> BOOLEAN]
  BY <1>1 DEF ReceivePointer, DragInv, MovesInv
<1>10. MovesInv'
  BY <1>1, <1>2, <1>4, <1>5, <1>9 DEF MovesInv, Moves
<1>11. QED  BY <1>6, <1>7, <1>8, <1>10 DEF DragInv

(* What is dragged enters. *)
LEMMA ReceiveEnterRoles ==
  ASSUME TypeInv, TypeInv', DragInv, NEW c \in Clients, ReceiveEnter(c) PROVE DragInv'
<1> DEFINE n == toClient[c][1].of
           u == Unfinished(c, dragged[c])
<1>1. /\ UNCHANGED <<selected, selection>> /\ drag'.source = drag.source /\ drag'.over = drag.over
      /\ toClient[c] # <<>> /\ toClient[c][1].type = "enter" /\ Entering(c)
      /\ dragged[c] \in Offers \cup {None} /\ None \notin Offers /\ Destroy(c, dragged[c])
      /\ pointed' = [pointed EXCEPT ![c] = TRUE]
      /\ dragged' = [dragged EXCEPT ![c] = n]
      /\ landed' = [landed EXCEPT ![c] = FALSE]
      /\ drag.over \subseteq Clients
  BY Basics DEF ReceiveEnter, Receives, Entering, TypeInv
<1>2. /\ n \in Offers /\ toClient[c][1] = Event("enter", n) /\ Announced(c, "enter", n)
  <2>1. 1 \in DOMAIN toClient[c] /\ toClient[c][1] \in Events
    BY <1>1, FirstEvent
  <2>2. QED  BY <1>1, <2>1 DEF DragInv, MovesInv, Events, Event, Announced
<1>3. u \notin {selected, drag.source} \ {None}
  BY <1>1, UnfinishedEnds
<1>4. \A d \in Clients, o \in Offers :
        stands'[d][o] =
           IF dragged[c] # None /\ ((d = c /\ o = dragged[c]) \/ stands[d][o] = u) THEN None
           ELSE stands[d][o]
  BY <1>1, DestroyedStands
<1>5. Shifted(toClient, toClient', Heard, {c})
  BY <1>1, DestroyedShift
<1>6. toClient[c][1].type \in Moves
  BY <1>1 DEF Moves
<1>7. /\ ~Entering(c)'
      /\ \A d \in Clients : /\ \A o : Announced(d, "enter", o)' => Announced(d, "enter", o)
                            /\ \A o : Announced(d, "selection", o)' => Announced(d, "selection", o)
                            /\ \A T \in SUBSET Heard : Still(d, T) => Still(d, T)'
      /\ \A d \in Clients \ {c} : /\ Entering(d)' <=> Entering(d)
                                  /\ Entering(d) => toClient'[d][1] = toClient[d][1]
  BY <1>1, <1>5, <1>6, MoveTaken
<1>8. /\ dragged'[c] = n /\ \A d \in Clients \ {c} : dragged'[d] = dragged[d]
      /\ pointed' \in [Clients -> BOOLEAN] /\ landed' \in [Clients -> BOOLEAN]
      /\ pointed'[c] /\ ~landed'[c]
      /\ \A d \in Clients \ {c} : pointed'[d] = pointed[d] /\ landed'[d] = landed[d]
  BY <1>1 DEF TypeInv, DragInv, MovesInv
<1> HIDE DEF n, u
<1>9. ASSUME NEW d \in Clients, NEW o \in Offers, stands[d][o] = drag.source, drag.source # None
      PROVE  /\ stands'[d][o] = drag.source
             /\ d = c => o = n /\ o # dragged[c]
  <2>1. d = c => o = n /\ o # dragged[c]
    BY <1>1, <1>9 DEF DragInv, OfferedInv, n
  <2>2. QED  BY <1>3, <1>4, <1>9, <2>1
<1>10. SelectedInv'
  <2>1. ASSUME selected # None, NEW d \in Clients, NEW o \in Offers, stands'[d][o] = selected
        PROVE  o # dragged'[d] /\ ~Announced(d, "enter", o)'
    <3>1. stands[d][o] = selected
      BY <1>4, <2>1
    <3>2. o # dragged[d] /\ ~Announced(d, "enter", o)
      BY <2>1, <3>1 DEF DragInv, SelectedInv
    <3>3. QED  BY <1>2, <1>7, <1>8, <3>2
  <2>2. QED  BY <1>1, <2>1 DEF DragInv, SelectedInv
<1>11. OfferedInv'
  <2>1. ASSUME NEW d \in Clients, NEW o \in Offers, stands'[d][o] = drag.source, drag.source # None
        PROVE  /\ d \in drag.over
               /\ o # selection[d] /\ ~Announced(d, "selection", o)'
               /\ IF Entering(d)' THEN o = toClient'[d][1].of /\ o # dragged'[d] ELSE o = dragged'[d]
    <3>1. stands[d][o] = drag.source
      BY <1>4, <2>1
    <3>2. /\ d \in drag.over /\ o # selection[d] /\ ~Announced(d, "selection", o)
          /\ IF Entering(d) THEN o = toClient[d][1].of /\ o # dragged[d] ELSE o = dragged[d]
      BY <2>1, <3>1 DEF DragInv, OfferedInv
    <3>3. CASE d = c
      BY <1>7, <1>8, <1>9, <2>1, <3>1, <3>2, <3>3
    <3>4. CASE d # c
      BY <1>7, <1>8, <3>2, <3>4
    <3>5. QED  BY <3>3, <3>4
  <2>2. QED  BY <1>1, <2>1 DEF OfferedInv
<1>12. OverInv'
  <2>1. ASSUME drag'.accepted
        PROVE  \E d \in drag.over :
                 /\ pointed'[d] /\ dragged'[d] # None /\ stands'[d][dragged'[d]] = drag.source
                 /\ ~Entering(d)'
    <3>1. CASE drag' = drag
      <4>1. PICK d \in drag.over : /\ pointed[d] /\ dragged[d] # None
                                   /\ stands[d][dragged[d]] = drag.source /\ ~Entering(d)
        BY <2>1, <3>1 DEF DragInv, OverInv
      <4>2. d \in Clients \ {c} /\ dragged[d] \in Offers /\ drag.source # None
        BY <1>1, <4>1, Basics DEF DragInv, OverInv
      <4>3. stands'[d][dragged[d]] = drag.source
        BY <1>9, <4>1, <4>2
      <4>4. QED  BY <1>7, <1>8, <4>1, <4>2, <4>3
    <3>2. CASE drag.over = {c} /\ stands[c][n] = drag.source
      <4>1. drag.source # None
        BY <3>2 DEF DragInv, OverInv
      <4>2. stands'[c][n] = drag.source
        BY <1>2, <1>9, <3>2, <4>1
      <4>3. QED  BY <1>1, <1>2, <1>7, <1>8, <3>2, <4>2
    <3>3. QED  BY <3>1, <3>2 DEF ReceiveEnter, n
  <2>2. ASSUME NEW d \in drag.over
        PROVE  /\ drag.over = {d} /\ Still(d, {"leave", "drop"})' /\ (Entering(d)' \/ ~landed'[d])
    <3>1. /\ d \in Clients /\ drag.over = {d} /\ Still(d, {"leave", "drop"})
          /\ Entering(d) \/ ~landed[d]
      BY <1>1 DEF DragInv, OverInv
    <3>2. {"leave", "drop"} \in SUBSET Heard
      BY DEF Heard, Moves
    <3>3. QED  BY <1>7, <1>8, <3>1, <3>2
  <2>3. drag.over # {} => drag.source # None
    BY DEF DragInv, OverInv
  <2>4. QED  BY <1>1, <2>1, <2>2, <2>3 DEF OverInv
<1>13. MovesInv'
  <2>1. \A d \in Clients, o \in Offers : stands'[d][o] \in {None, stands[d][o]}
    BY <1>4
  <2>2. QED  BY <1>1, <1>5, <1>6, <1>8, <2>1, MoveMoves
<1>14. QED  BY <1>10, <1>11, <1>12, <1>13 DEF DragInv

(* What is dragged, or was dropped, is gone from where the pointer left.   *)
LEMMA MoveAway ==
  ASSUME TypeInv, TypeInv', DragInv, NEW c \in Clients, toClient[c] # <<>>,
         toClient[c][1].type \in {"leave", "drop"}, Shifted(toClient, toClient', Heard, {c}),
         UNCHANGED <<selected, drag, selection>>,
         pointed' \in [Clients -> BOOLEAN], landed' \in [Clients -> BOOLEAN], ~pointed'[c],
         dragged'[c] \in {None, dragged[c]},
         \A d \in Clients \ {c} : /\ pointed'[d] = pointed[d] /\ landed'[d] = landed[d]
                                  /\ dragged'[d] = dragged[d],
         \A d \in Clients, o \in Offers :
           /\ stands'[d][o] \in {None, stands[d][o]}
           /\ stands[d][o] = drag.source => stands'[d][o] = drag.source
  PROVE  DragInv'
<1>1. toClient[c][1].type \in Moves /\ ~Still(c, {"leave", "drop"})
      /\ {"leave", "drop"} \in SUBSET Heard /\ drag.over \subseteq Clients /\ None \notin Offers
  BY FirstEvent, Basics DEF Moves, Still, Heard, TypeInv
<1>2. c \notin drag.over
  BY <1>1 DEF DragInv, OverInv
<1>3. /\ \A d \in Clients : /\ \A o : Announced(d, "enter", o)' => Announced(d, "enter", o)
                            /\ \A o : Announced(d, "selection", o)' => Announced(d, "selection", o)
                            /\ \A T \in SUBSET Heard : Still(d, T) => Still(d, T)'
      /\ \A d \in Clients \ {c} : /\ Entering(d)' <=> Entering(d)
                                  /\ Entering(d) => toClient'[d][1] = toClient[d][1]
  BY <1>1, MoveTaken
<1>4. SelectedInv'
  <2>1. ASSUME selected # None, NEW d \in Clients, NEW o \in Offers, stands'[d][o] = selected
        PROVE  o # dragged'[d] /\ ~Announced(d, "enter", o)'
    <3>1. stands[d][o] = selected
      BY <2>1
    <3>2. o # dragged[d] /\ ~Announced(d, "enter", o)
      BY <2>1, <3>1 DEF DragInv, SelectedInv
    <3>3. QED  BY <1>1, <1>3, <3>2
  <2>2. QED  BY <2>1 DEF DragInv, SelectedInv
<1>5. OfferedInv'
  <2>1. ASSUME NEW d \in Clients, NEW o \in Offers, stands'[d][o] = drag.source, drag.source # None
        PROVE  /\ d \in drag.over
               /\ o # selection[d] /\ ~Announced(d, "selection", o)'
               /\ IF Entering(d)' THEN o = toClient'[d][1].of /\ o # dragged'[d] ELSE o = dragged'[d]
    <3>1. stands[d][o] = drag.source
      BY <2>1
    <3>2. /\ d \in drag.over /\ o # selection[d] /\ ~Announced(d, "selection", o)
          /\ IF Entering(d) THEN o = toClient[d][1].of /\ o # dragged[d] ELSE o = dragged[d]
      BY <2>1, <3>1 DEF DragInv, OfferedInv
    <3>3. d \in Clients \ {c}
      BY <1>2, <3>2
    <3>4. QED  BY <1>3, <3>2, <3>3
  <2>2. QED  BY <2>1 DEF OfferedInv
<1>6. OverInv'
  <2>1. ASSUME drag.accepted
        PROVE  \E d \in drag.over :
                 /\ pointed'[d] /\ dragged'[d] # None /\ stands'[d][dragged'[d]] = drag.source
                 /\ ~Entering(d)'
    <3>1. PICK d \in drag.over : /\ pointed[d] /\ dragged[d] # None
                                 /\ stands[d][dragged[d]] = drag.source /\ ~Entering(d)
      BY <2>1 DEF DragInv, OverInv
    <3>2. d \in Clients \ {c} /\ dragged[d] \in Offers
      BY <1>1, <1>2, <3>1, Basics
    <3>3. stands'[d][dragged[d]] = drag.source
      BY <3>1, <3>2
    <3>4. QED  BY <1>3, <3>1, <3>2, <3>3
  <2>2. ASSUME NEW d \in drag.over
        PROVE  /\ drag.over = {d} /\ Still(d, {"leave", "drop"})' /\ (Entering(d)' \/ ~landed'[d])
    <3>1. /\ d \in Clients \ {c} /\ drag.over = {d} /\ Still(d, {"leave", "drop"})
          /\ Entering(d) \/ ~landed[d]
      BY <1>1, <1>2 DEF DragInv, OverInv
    <3>2. QED  BY <1>1, <1>3, <3>1
  <2>3. drag.over # {} => drag.source # None
    BY DEF DragInv, OverInv
  <2>4. QED  BY <2>1, <2>2, <2>3 DEF OverInv
<1>7. MovesInv'
  <2>1. /\ \A d \in Clients, o \in Offers : stands'[d][o] \in {None, stands[d][o]}
        /\ \A d \in Clients \ {c} : pointed'[d] = pointed[d] /\ landed'[d] = landed[d]
        /\ drag'.source = drag.source /\ drag'.over = drag.over
    OBVIOUS
  <2>2. QED  BY <1>1, <2>1, MoveMoves
<1>8. QED  BY <1>4, <1>5, <1>6, <1>7 DEF DragInv

-----------------------------------------------------------------------------
(* It leaves. *)
LEMMA ReceiveLeaveRoles ==
  ASSUME TypeInv, TypeInv', DragInv, NEW c \in Clients, ReceiveLeave(c) PROVE DragInv'
<1>1. /\ UNCHANGED <<selected, drag, selection>> /\ toClient \in Queues
      /\ toClient[c] # <<>> /\ toClient[c][1].type \in {"leave", "drop"}
      /\ dragged[c] \in Offers \cup {None} /\ ~Still(c, {"leave", "drop"})
      /\ pointed \in [Clients -> BOOLEAN] /\ landed \in [Clients -> BOOLEAN]
  BY Basics, FirstIs DEF ReceiveLeave, Receives, offerVars, DragInv, MovesInv
<1>2. CASE ~pointed[c] /\ Take(c) /\ UNCHANGED <<dragged, pointed, landed>>
  <2>1. Shifted(toClient, toClient', Heard, {c}) /\ stands' = stands
    BY <1>1, <1>2, ShiftTaken DEF Take, Taken
  <2>2. /\ pointed' \in [Clients -> BOOLEAN] /\ landed' \in [Clients -> BOOLEAN] /\ ~pointed'[c]
        /\ dragged'[c] \in {None, dragged[c]}
        /\ \A d \in Clients \ {c} : /\ pointed'[d] = pointed[d] /\ landed'[d] = landed[d]
                                    /\ dragged'[d] = dragged[d]
        /\ \A d \in Clients, o \in Offers :
             /\ stands'[d][o] \in {None, stands[d][o]}
             /\ stands[d][o] = drag.source => stands'[d][o] = drag.source
    BY <1>1, <1>2, <2>1
  <2>3. QED  BY <1>1, <2>1, <2>2, MoveAway
<1>3. CASE /\ Destroy(c, dragged[c]) /\ pointed' = [pointed EXCEPT ![c] = FALSE]
           /\ dragged' = [dragged EXCEPT ![c] = None] /\ landed' = [landed EXCEPT ![c] = FALSE]
  <2>1. Shifted(toClient, toClient', Heard, {c})
    BY <1>1, <1>3, DestroyedShift
  <2>2. Unfinished(c, dragged[c]) \notin {selected, drag.source} \ {None}
    BY <1>1, UnfinishedEnds
  <2>3. ASSUME NEW d \in Clients, NEW o \in Offers
        PROVE  stands'[d][o] =
                 IF dragged[c] # None
                    /\ ((d = c /\ o = dragged[c]) \/ stands[d][o] = Unfinished(c, dragged[c]))
                 THEN None ELSE stands[d][o]
    BY <1>1, <1>3, DestroyedStands
  <2>4. ASSUME NEW d \in Clients, NEW o \in Offers, stands[d][o] = drag.source
        PROVE  stands'[d][o] = drag.source
    <3>1. CASE drag.source = None
      BY <2>3, <2>4, <3>1
    <3>2. CASE drag.source # None
      <4>1. d # c
        BY <1>1, <2>4, <3>2 DEF DragInv, OfferedInv, OverInv
      <4>2. QED  BY <2>2, <2>3, <2>4, <3>2, <4>1
    <3>3. QED  BY <3>1, <3>2
  <2>5. /\ pointed' \in [Clients -> BOOLEAN] /\ landed' \in [Clients -> BOOLEAN] /\ ~pointed'[c]
        /\ dragged'[c] \in {None, dragged[c]}
        /\ \A d \in Clients \ {c} : /\ pointed'[d] = pointed[d] /\ landed'[d] = landed[d]
                                    /\ dragged'[d] = dragged[d]
        /\ \A d \in Clients, o \in Offers :
             /\ stands'[d][o] \in {None, stands[d][o]}
             /\ stands[d][o] = drag.source => stands'[d][o] = drag.source
    BY <1>1, <1>3, <2>3, <2>4 DEF TypeInv
  <2>6. QED  BY <1>1, <2>1, <2>5, MoveAway
<1>4. QED  BY <1>2, <1>3 DEF ReceiveLeave, offerVars

(* It is dropped. *)
LEMMA ReceiveDropRoles ==
  ASSUME TypeInv, TypeInv', DragInv, NEW c \in Clients, ReceiveDrop(c) PROVE DragInv'
<1>1. /\ UNCHANGED <<selected, drag, selection, dragged, stands>> /\ toClient \in Queues
      /\ toClient[c] # <<>> /\ toClient[c][1].type \in {"leave", "drop"}
      /\ pointed \in [Clients -> BOOLEAN] /\ landed \in [Clients -> BOOLEAN]
      /\ toClient' = [toClient EXCEPT ![c] = Tail(@)]
      /\ landed' = [landed EXCEPT ![c] = pointed[c]] /\ pointed' = [pointed EXCEPT ![c] = FALSE]
  BY Basics DEF ReceiveDrop, Receives, Take, Taken, DragInv, MovesInv
<1>2. Shifted(toClient, toClient', Heard, {c})
  BY <1>1, ShiftTaken
<1>3. /\ pointed' \in [Clients -> BOOLEAN] /\ landed' \in [Clients -> BOOLEAN] /\ ~pointed'[c]
      /\ dragged'[c] \in {None, dragged[c]}
      /\ \A d \in Clients \ {c} : /\ pointed'[d] = pointed[d] /\ landed'[d] = landed[d]
                                  /\ dragged'[d] = dragged[d]
      /\ \A d \in Clients, o \in Offers :
           /\ stands'[d][o] \in {None, stands[d][o]}
           /\ stands[d][o] = drag.source => stands'[d][o] = drag.source
  BY <1>1
<1>4. QED  BY <1>1, <1>2, <1>3, MoveAway

(* The drag is over: what was dragged leaves, or is dropped first. *)
LEMMA ReleasedMoves ==
  ASSUME TypeInv, TypeInv', DragInv, drag' = NoDrag, drag.source # None,
         UNCHANGED <<pointed, landed>>,
         \A c \in Clients, o \in Offers : stands'[c][o] \in {None, stands[c][o]},
         \A c \in Clients, o \in Offers :
           stands'[c][o] = drag.source => drag.accepted /\ stands[c][o] = drag.source,
         \A c \in Clients : \A k \in DOMAIN toClient'[c] : toClient'[c][k].type \in Heard =>
           \/ k \in DOMAIN toClient[c] /\ toClient'[c][k] = toClient[c][k]
           \/ c \in drag.over /\ toClient'[c][k] = Event("leave", None)
           \/ /\ drag.accepted /\ c \in drag.over /\ toClient'[c][k] = Event("drop", None)
              /\ \A j \in DOMAIN toClient'[c] : j < k /\ toClient'[c][j].type \in Heard =>
                   j \in DOMAIN toClient[c] /\ toClient'[c][j] = toClient[c][j],
         \A c \in Clients : Entering(c) => Entering(c)'
  PROVE  MovesInv'
<1>1. drag.over \subseteq Clients /\ drag'.over = {} /\ drag'.source = None
      /\ \A c \in drag.over : drag.over = {c} /\ (Entering(c) \/ ~landed[c])
  BY DEF TypeInv, NoDrag, DragInv, OverInv
<1>2. ASSUME drag.accepted, NEW c \in drag.over
      PROVE  pointed[c] /\ ~landed[c] /\ Still(c, Moves)
  <2>1. pointed[c] /\ ~Entering(c) /\ ~landed[c] /\ Still(c, {"leave", "drop"})
    BY <1>1, <1>2 DEF DragInv, OverInv
  <2>2. c \in Clients /\ (1 \in DOMAIN toClient[c] => toClient[c] # <<>>)
    BY <1>1 DEF TypeInv, Queues
  <2>3. \A k \in DOMAIN toClient[c] : toClient[c][k].type # "enter"
    BY <2>1, <2>2 DEF Entering, DragInv, MovesInv
  <2>4. QED  BY <2>1, <2>3 DEF Still, Moves
<1>3. ASSUME NEW c \in Clients, NEW k \in DOMAIN toClient'[c]
      PROVE  /\ toClient'[c][k].type = "enter" =>
                  /\ k = 1 /\ toClient'[c][1].of \in Offers
                  /\ stands'[c][toClient'[c][1].of] \in {None, drag'.source}
             /\ toClient'[c][k].type = "leave" => ~landed'[c] \/ ~pointed'[c] \/ Entering(c)'
             /\ toClient'[c][k].type = "drop" =>
                  /\ pointed'[c] /\ ~landed'[c]
                  /\ \A j \in DOMAIN toClient'[c] : j < k => toClient'[c][j].type \notin Moves
  <2>1. SUFFICES ASSUME toClient'[c][k].type \in Moves
                   PROVE  /\ toClient'[c][k].type = "enter" =>
                                /\ k = 1 /\ toClient'[c][1].of \in Offers
                                /\ stands'[c][toClient'[c][1].of] \in {None, drag'.source}
                          /\ toClient'[c][k].type = "leave" => ~landed'[c] \/ ~pointed'[c] \/ Entering(c)'
                          /\ toClient'[c][k].type = "drop" =>
                                /\ pointed'[c] /\ ~landed'[c]
                                /\ \A j \in DOMAIN toClient'[c] : j < k => toClient'[c][j].type \notin Moves
    BY DEF Moves
  <2>2. CASE k \in DOMAIN toClient[c] /\ toClient'[c][k] = toClient[c][k]
    <3>1. /\ toClient[c][k].type = "enter" =>
               /\ k = 1 /\ toClient[c][1].of \in Offers
               /\ stands[c][toClient[c][1].of] \in {None, drag.source}
          /\ toClient[c][k].type = "leave" => ~landed[c] \/ ~pointed[c] \/ Entering(c)
          /\ toClient[c][k].type = "drop" =>
               /\ pointed[c] /\ ~landed[c]
               /\ \A j \in DOMAIN toClient[c] : j < k => toClient[c][j].type \notin Moves
      BY <2>2 DEF DragInv, MovesInv
    <3>2. ASSUME toClient[c][k].type = "enter"
          PROVE  /\ k = 1 /\ toClient'[c][1].of \in Offers
                 /\ stands'[c][toClient'[c][1].of] \in {None, drag'.source}
      <4> DEFINE o == toClient[c][1].of
      <4>1. k = 1 /\ o \in Offers /\ stands[c][o] \in {None, drag.source}
        BY <3>1, <3>2
      <4>2. stands'[c][o] \in {None, drag.source}
        BY <4>1
      <4>3. stands'[c][o] # drag.source
        <5>1. Entering(c)
          BY <2>2, <3>2, <4>1, FirstEvent DEF Entering, TypeInv, Queues
        <5>2. ASSUME drag.accepted, stands[c][o] = drag.source PROVE FALSE
          <6>1. c \in drag.over
            BY <4>1, <5>2 DEF DragInv, OfferedInv
          <6>2. QED  BY <1>1, <5>1, <5>2, <6>1 DEF DragInv, OverInv
        <5>3. QED  BY <4>1, <5>2
      <4>4. QED  BY <2>2, <4>1, <4>2, <4>3
    <3>3. toClient[c][k].type = "leave" => ~landed'[c] \/ ~pointed'[c] \/ Entering(c)'
      BY <3>1
    <3>4. ASSUME toClient[c][k].type = "drop", NEW j \in DOMAIN toClient'[c], j < k
          PROVE  toClient'[c][j].type \notin Moves
      <4>1. c \notin drag.over
        BY <2>2, <3>4 DEF DragInv, OverInv, Still
      <4>2. toClient'[c][j].type \in Heard =>
              j \in DOMAIN toClient[c] /\ toClient'[c][j] = toClient[c][j]
        BY <4>1
      <4>3. QED  BY <3>1, <3>4, <4>2 DEF Heard
    <3>5. QED  BY <2>2, <3>1, <3>2, <3>3, <3>4
  <2>3. CASE c \in drag.over /\ toClient'[c][k] = Event("leave", None)
    BY <1>1, <2>3 DEF Event
  <2>4. CASE /\ drag.accepted /\ c \in drag.over /\ toClient'[c][k] = Event("drop", None)
             /\ \A j \in DOMAIN toClient'[c] : j < k /\ toClient'[c][j].type \in Heard =>
                  j \in DOMAIN toClient[c] /\ toClient'[c][j] = toClient[c][j]
    <3>1. \A j \in DOMAIN toClient'[c] : j < k => toClient'[c][j].type \notin Moves
      BY <1>2, <2>4 DEF Still, Heard
    <3>2. QED  BY <1>2, <2>4, <3>1 DEF Event
  <2>5. toClient'[c][k].type \in Heard
    BY <2>1 DEF Heard
  <2>6. QED  BY <2>2, <2>3, <2>4, <2>5
<1>4. ASSUME NEW d \in Clients, ~Still(d, Moves)' PROVE \A c \in Clients : Still(c, Points)'
  <2>1. PICK k \in DOMAIN toClient'[d] : toClient'[d][k].type \in Moves
    BY <1>4 DEF Still
  <2>2. drag.over # {} \/ ~Still(d, Moves)
    BY <2>1 DEF Still, Heard
  <2>3. \A c \in Clients : Still(c, Points)
    BY <2>2 DEF DragInv, MovesInv
  <2>4. ASSUME NEW c \in Clients, NEW j \in DOMAIN toClient'[c] PROVE toClient'[c][j].type \notin Points
    <3>1. SUFFICES ASSUME toClient'[c][j].type \in Points PROVE FALSE
      OBVIOUS
    <3>2. toClient'[c][j] # Event("leave", None) /\ toClient'[c][j] # Event("drop", None)
          /\ toClient'[c][j].type \in Heard
      BY <3>1 DEF Event, Points, Heard
    <3>3. j \in DOMAIN toClient[c] /\ toClient'[c][j] = toClient[c][j]
      BY <3>2
    <3>4. QED  BY <2>3, <3>1, <3>3 DEF Still
  <2>5. QED  BY <2>4 DEF Still
<1>5. pointed' \in [Clients -> BOOLEAN] /\ landed' \in [Clients -> BOOLEAN]
  BY DEF DragInv, MovesInv
<1>6. QED  BY <1>1, <1>3, <1>4, <1>5 DEF MovesInv

(* The button is released. *)
LEMMA ReleaseRoles == ASSUME TypeInv, TypeInv', DragInv, Release PROVE DragInv'
<1>1. /\ UNCHANGED <<selected, selection, dragged, pointed, landed>> /\ toClient \in Queues
      /\ drag' = NoDrag /\ drag'.source = None /\ drag'.over = {} /\ ~drag'.accepted
      /\ drag.source # None /\ drag.source \in Sources \cup {None} /\ drag.over \subseteq Clients
      /\ None \in Nat
  BY Basics DEF Release, offerVars, NoDrag, TypeInv, None
<1> DEFINE News(c, k) ==
             \/ k \in DOMAIN toClient[c] /\ toClient'[c][k] = toClient[c][k]
             \/ c \in drag.over /\ toClient'[c][k] = Event("leave", None)
             \/ /\ drag.accepted /\ c \in drag.over /\ toClient'[c][k] = Event("drop", None)
                /\ \A j \in DOMAIN toClient'[c] : j < k /\ toClient'[c][j].type \in Heard =>
                     j \in DOMAIN toClient[c] /\ toClient'[c][j] = toClient[c][j]
<1>2. /\ \A c \in Clients, o \in Offers :
           /\ stands'[c][o] \in {None, stands[c][o]}
           /\ stands'[c][o] = drag.source => drag.accepted /\ stands[c][o] = drag.source
      /\ \A c \in Clients : \A k \in DOMAIN toClient'[c] : toClient'[c][k].type \in Heard => News(c, k)
      /\ \A c \in Clients : Entering(c) => Entering(c)'
  <2>1. ASSUME drag.accepted, NEW c \in drag.over, stands' = stands,
               toClient' = LeaveSent(SendTo(Tell(toClient, drag.source, "dropped"), c, "drop", None),
                                    drag.over, "leave")
        PROVE  /\ \A d \in Clients : \A k \in DOMAIN toClient'[d] : toClient'[d][k].type \in Heard => News(d, k)
               /\ \A d \in Clients : Entering(d) => Entering(d)'
    <3> DEFINE q == Tell(toClient, drag.source, "dropped")
               r == SendTo(q, c, "drop", None)
    <3>1. /\ q \in Queues /\ Shifted(toClient, q, Heard, {}) /\ c \in Clients
      BY <1>1, TellGrows, ShiftSame, ShiftTold
    <3>2. drag.over = {c} /\ (CHOOSE x \in drag.over : TRUE) = c
      <4>1. drag.over = {c}
        BY <2>1 DEF DragInv, OverInv
      <4>2. QED  BY <4>1
    <3>3. toClient' = SendTo(r, c, "leave", None)
      BY <2>1, <3>2 DEF LeaveSent
    <3> HIDE DEF q
    <3>4. r \in Queues
      <4>1. "drop" \in Types \ {"send", "selection", "enter"}
        BY DEF Types
      <4>2. QED  BY <3>1, <4>1, GrowsSame, PlainGrows
    <3>5. Added(q, r, c, Event("drop", None))
      BY <1>1, <3>1, SentEvents DEF Types
    <3> HIDE DEF r
    <3>6. Added(r, toClient', c, Event("leave", None))
      BY <1>1, <3>3, <3>4, SentEvents DEF Types
    <3>7. ASSUME NEW d \in Clients
          PROVE  /\ \A k \in DOMAIN q[d] : q[d][k].type \in Heard =>
                      k \in DOMAIN toClient[d] /\ q[d][k] = toClient[d][k]
                 /\ \A k \in DOMAIN toClient[d] : toClient[d][k].type \in Heard =>
                      k \in DOMAIN q[d] /\ q[d][k] = toClient[d][k]
      <4>1. /\ \A k \in DOMAIN q[d] : k + 0 = k
            /\ \A k \in DOMAIN toClient[d] : k - 0 = k /\ k # 0
        BY <1>1, <3>1 DEF Queues
      <4>2. QED  BY <3>1, <4>1 DEF Shifted
    <3>8. ASSUME NEW d \in Clients, NEW k \in DOMAIN toClient'[d], toClient'[d][k].type \in Heard
          PROVE  News(d, k)
      <4>1. CASE k \notin DOMAIN r[d]
        BY <3>2, <3>6, <4>1 DEF Added
      <4>2. CASE k \in DOMAIN r[d] /\ k \in DOMAIN q[d]
        BY <3>5, <3>6, <3>7, <3>8, <4>2 DEF Added
      <4>3. CASE k \in DOMAIN r[d] /\ k \notin DOMAIN q[d]
        <5>1. d = c /\ k = Len(q[c]) + 1 /\ r[d][k] = Event("drop", None) /\ toClient'[d][k] = r[d][k]
          BY <3>5, <3>6, <4>3 DEF Added
        <5>2. ASSUME NEW j \in DOMAIN toClient'[c], j < k, toClient'[c][j].type \in Heard
              PROVE  j \in DOMAIN toClient[c] /\ toClient'[c][j] = toClient[c][j]
          <6>1. j \in DOMAIN r[c]
            <7>1. j \in Nat /\ k \in Nat /\ ~(k < j)
              BY <3>1, <3>4, <4>3, <5>1, <5>2 DEF Queues, TypeInv
            <7>2. QED  BY <3>1, <3>6, <4>3, <5>1, <7>1 DEF Added
          <6>2. j \in DOMAIN q[c]
            <7>1. j # k
              BY <3>1, <3>4, <4>3, <5>1, <5>2 DEF Queues
            <7>2. QED  BY <3>1, <3>5, <5>1, <6>1, <7>1 DEF Added
          <6>3. QED  BY <3>1, <3>5, <3>6, <3>7, <5>2, <6>1, <6>2 DEF Added
        <5>3. QED  BY <2>1, <5>1, <5>2
      <4>4. QED  BY <4>1, <4>2, <4>3
    <3>9. ASSUME NEW d \in Clients, Entering(d) PROVE Entering(d)'
      <4>1. 1 \in DOMAIN toClient[d] /\ toClient[d][1].type = "enter" /\ "enter" \in Heard
        BY <3>9, FirstEvent DEF Entering, Heard, Moves
      <4>2. 1 \in DOMAIN toClient'[d] /\ toClient'[d][1].type = "enter"
        BY <3>5, <3>6, <3>7, <4>1 DEF Added
      <4>3. QED  BY <4>2 DEF Entering, TypeInv, Queues
    <3>10. QED  BY <3>8, <3>9
  <2>2. ASSUME toClient' = LeaveSent(Tell(toClient, drag.source, "cancelled"), drag.over, "leave")
        PROVE  /\ \A d \in Clients : \A k \in DOMAIN toClient'[d] : toClient'[d][k].type \in Heard => News(d, k)
               /\ \A d \in Clients : Entering(d) => Entering(d)'
    <3> DEFINE q == Tell(toClient, drag.source, "cancelled")
    <3>1. q \in Queues /\ Shifted(toClient, q, Heard, {})
      BY <1>1, TellGrows, ShiftSame, ShiftTold
    <3> HIDE DEF q
    <3>2. ASSUME NEW d \in Clients
          PROVE  /\ \A k \in DOMAIN q[d] : k \in DOMAIN toClient'[d] /\ toClient'[d][k] = q[d][k]
                 /\ \A k \in DOMAIN toClient'[d] :
                      \/ k \in DOMAIN q[d]
                      \/ d \in drag.over /\ toClient'[d][k] = Event("leave", None)
      <4>1. CASE drag.over = {}
        BY <2>2, <4>1 DEF LeaveSent, q
      <4>2. CASE drag.over # {}
        <5>1. PICK x \in drag.over : x = CHOOSE y \in drag.over : TRUE
          BY <4>2
        <5>2. toClient' = SendTo(q, x, "leave", None)
          BY <2>2, <4>2, <5>1 DEF LeaveSent, q
        <5>3. Added(q, toClient', x, Event("leave", None))
          BY <1>1, <3>1, <5>2, SentEvents DEF Types
        <5>4. QED  BY <5>1, <5>3 DEF Added
      <4>3. QED  BY <4>1, <4>2
    <3>3. ASSUME NEW d \in Clients
          PROVE  /\ \A k \in DOMAIN q[d] : q[d][k].type \in Heard =>
                      k \in DOMAIN toClient[d] /\ q[d][k] = toClient[d][k]
                 /\ \A k \in DOMAIN toClient[d] : toClient[d][k].type \in Heard =>
                      k \in DOMAIN q[d] /\ q[d][k] = toClient[d][k]
      <4>1. /\ \A k \in DOMAIN q[d] : k + 0 = k
            /\ \A k \in DOMAIN toClient[d] : k - 0 = k /\ k # 0
        BY <1>1, <3>1 DEF Queues
      <4>2. QED  BY <3>1, <4>1 DEF Shifted
    <3>4. ASSUME NEW d \in Clients, NEW k \in DOMAIN toClient'[d], toClient'[d][k].type \in Heard
          PROVE  News(d, k)
      BY <3>2, <3>3, <3>4
    <3>5. ASSUME NEW d \in Clients, Entering(d) PROVE Entering(d)'
      <4>1. 1 \in DOMAIN toClient[d] /\ toClient[d][1].type = "enter" /\ "enter" \in Heard
        BY <3>5, FirstEvent DEF Entering, Heard, Moves
      <4>2. 1 \in DOMAIN toClient'[d] /\ toClient'[d][1].type = "enter"
        BY <3>2, <3>3, <4>1
      <4>3. QED  BY <4>2 DEF Entering, TypeInv, Queues
    <3>6. QED  BY <3>4, <3>5
  <2>3. CASE drag.accepted /\ stands' = stands
    BY <2>1, <2>3, <1>1 DEF Release
  <2>4. CASE ~drag.accepted
    <3>1. \A c \in Clients, o \in Offers :
            stands'[c][o] = IF stands[c][o] = drag.source THEN None ELSE stands[c][o]
      BY <2>4 DEF Release, Inert
    <3>2. QED  BY <1>1, <2>2, <2>4, <3>1 DEF Release
  <2>5. QED  BY <2>3, <2>4 DEF Release
<1>3. \A c \in Clients, o \in Offers : Announced(c, "enter", o)' => Announced(c, "enter", o)
  <2>1. ASSUME NEW c \in Clients, NEW o \in Offers, NEW k \in DOMAIN toClient'[c],
               toClient'[c][k] = Event("enter", o)
        PROVE  k \in DOMAIN toClient[c] /\ toClient[c][k] = Event("enter", o)
    <3>1. /\ toClient'[c][k].type \in Heard /\ toClient'[c][k] # Event("leave", None)
          /\ toClient'[c][k] # Event("drop", None)
      BY <2>1 DEF Event, Heard, Moves
    <3>2. QED  BY <1>2, <2>1, <3>1
  <2>2. QED  BY <2>1 DEF Announced
<1>4. SelectedInv'
  <2>1. ASSUME selected # None, NEW c \in Clients, NEW o \in Offers, stands'[c][o] = selected
        PROVE  o # dragged[c] /\ ~Announced(c, "enter", o)'
    <3>1. stands[c][o] = selected
      BY <1>2, <2>1
    <3>2. QED  BY <1>3, <2>1, <3>1 DEF DragInv, SelectedInv
  <2>2. QED  BY <1>1, <2>1 DEF SelectedInv
<1>5. OfferedInv' /\ OverInv'
  BY <1>1 DEF OfferedInv, OverInv
<1>6. MovesInv'
  BY <1>1, <1>2, ReleasedMoves
<1>7. QED  BY <1>4, <1>5, <1>6 DEF DragInv

-----------------------------------------------------------------------------
(* The invariant of the sources, and of what is dragged. *)
SourceInv == Inv /\ CoreInv /\ DragInv

(* No source is made yet. *)
LEMMA InitSources == Init => SourceInv
<1> SUFFICES ASSUME Init PROVE SourceInv
  OBVIOUS
<1>1. Inv /\ \A s \in Sources : s # None
  BY InitInv, Basics DEF Inv
<1>2. \A c \in Clients : toClient[c] = <<>> /\ DOMAIN toClient[c] = {}
  BY DEF Init
<1>3. /\ selected = None /\ drag.source = None /\ drag.over = {} /\ ~drag.accepted
      /\ \A c \in Clients, o \in Offers : stands[c][o] = None
      /\ pointed \in [Clients -> BOOLEAN] /\ landed \in [Clients -> BOOLEAN]
  BY DEF Init, NoDrag
<1>4. MadeInv
  BY DataDeviceAssumption DEF Init, MadeInv
<1>5. Ordered(toClient, pipes)
  BY <1>2 DEF Ordered
<1>6. LiveInv
  BY <1>1, <1>3 DEF LiveInv, Live, Standing
<1>7. SelectedInv /\ OfferedInv /\ OverInv
  BY <1>3 DEF SelectedInv, OfferedInv, OverInv
<1>8. MovesInv
  BY <1>2, <1>3 DEF MovesInv, Still
<1>9. QED  BY <1>1, <1>4, <1>5, <1>6, <1>7, <1>8 DEF SourceInv, CoreInv, DragInv

(* The state is left as it is. *)
LEMMA SourcesStutter == ASSUME SourceInv, UNCHANGED vars PROVE CoreInv' /\ DragInv'
<1>1. UNCHANGED <<selected, drag, stands, toClient, made, owner, alive, selection, dragged,
                  pointed, landed, pipes>>
  BY DEF vars, serverVars, sourceVars, offerVars, pipeVars
<1>2. MadeInv' /\ LiveInv'
  BY <1>1 DEF SourceInv, CoreInv, MadeInv, LiveInv, Live, Standing, Ended, Ends
<1>3. (Ordered(toClient, pipes))'
  BY <1>1 DEF SourceInv, CoreInv, Ordered
<1>4. SelectedInv' /\ OfferedInv'
  BY <1>1 DEF SourceInv, DragInv, SelectedInv, OfferedInv, Announced, Entering
<1>5. OverInv'
  BY <1>1 DEF SourceInv, DragInv, OverInv, Entering, Still
<1>6. MovesInv'
  BY <1>1 DEF SourceInv, DragInv, MovesInv, Entering, Still
<1>7. QED  BY <1>2, <1>3, <1>4, <1>5, <1>6 DEF CoreInv, DragInv

(* Every step keeps sources, offers and moves together. *)
LEMMA StepSources == SourceInv /\ [Next]_vars => SourceInv'
<1> SUFFICES ASSUME SourceInv, [Next]_vars PROVE SourceInv'
  OBVIOUS
<1>0. Inv /\ CoreInv /\ DragInv /\ TypeInv /\ Inv' /\ TypeInv'
  <2>1. Inv /\ CoreInv /\ DragInv
    BY DEF SourceInv
  <2>2. Inv'
    BY <2>1, StepInv
  <2>3. QED  BY <2>1, <2>2 DEF Inv
<1>1. ASSUME NEW c \in Clients, FocusOn(c) \/ Point(c) \/ DragOver(c) \/ StartDrag(c)
      PROVE  CoreInv' /\ DragInv'
  BY <1>0, <1>1, FocusOnCore, FocusOnRoles, PointCore, PointRoles, DragOverCore, DragOverRoles,
     StartDragCore, StartDragRoles
<1>2. ASSUME NEW c \in Clients, Receive(c) PROVE CoreInv' /\ DragInv'
  <2>1. CASE ReceivePointer(c)
    BY <1>0, <2>1, TakenCore, ReceivePointerRoles
  <2>2. CASE ReceiveSelection(c)
    BY <1>0, <2>2, ReceiveSelectionCore, ReceiveSelectionRoles
  <2>3. CASE ReceiveEnter(c)
    BY <1>0, <2>3, ReceiveEnterCore, ReceiveEnterRoles
  <2>4. CASE ReceiveLeave(c)
    BY <1>0, <2>4, ReceiveLeaveCore, ReceiveLeaveRoles
  <2>5. CASE ReceiveDrop(c)
    BY <1>0, <2>5, TakenCore, ReceiveDropRoles
  <2>6. CASE ReceiveCopy(c)
    BY <1>0, <2>6, ReceiveCopyCore, CopyRoles
  <2>7. CASE ReceivePaste(c)
    BY <1>0, <2>7, ReceivePasteCore, PasteRoles
  <2>8. CASE ReceiveSend(c) \/ ReceiveDropped(c)
    BY <1>0, <2>8, TakenCore, PlainRoles
  <2>9. CASE ReceiveEnd(c)
    BY <1>0, <2>9, ReceiveEndCore, PlainRoles
  <2>10. QED  BY <1>2, <2>1, <2>2, <2>3, <2>4, <2>5, <2>6, <2>7, <2>8, <2>9 DEF Receive
<1>3. ASSUME NEW c \in Clients, TakeDropped(c) PROVE CoreInv' /\ DragInv'
  BY <1>0, <1>3, TakeDroppedCore, PasteRoles
<1>4. ASSUME NEW c \in Clients, NEW type \in {"finished", "cancelled"}, EndDrop(c, type)
      PROVE  CoreInv' /\ DragInv'
  BY <1>0, <1>4, EndDropCore, EndDropRoles
<1>5. ASSUME NEW type \in {"copy", "paste"}, Press(type) PROVE CoreInv' /\ DragInv'
  BY <1>0, <1>5, PressCore, PressRoles
<1>6. ASSUME Release PROVE CoreInv' /\ DragInv'
  BY <1>0, <1>6, ReleaseCore, ReleaseRoles
<1>7. ASSUME (\E c \in Clients : Write(c)) \/ (\E p \in Pipes : Read(p)) PROVE CoreInv' /\ DragInv'
  BY <1>0, <1>7, PipeCore, PipeRoles
<1>8. ASSUME UNCHANGED vars PROVE CoreInv' /\ DragInv'
  BY <1>8, SourcesStutter
<1>9. CoreInv' /\ DragInv'
  BY <1>1, <1>2, <1>3, <1>4, <1>5, <1>6, <1>7, <1>8 DEF Next
<1>10. QED  BY <1>0, <1>9 DEF SourceInv

(* One event at most ends a source. *)
LEMMA EndedOnce ==
  ASSUME SourceInv, NEW s \in 1..made
  PROVE  Cardinality(Ending(s)) <= IF s \in alive THEN 1 ELSE 0
<1> DEFINE c == owner[s]
<1>1. c \in Clients
  BY DEF SourceInv, CoreInv, MadeInv
<1>2. ASSUME NEW k \in Ending(s)
      PROVE  /\ k \in DOMAIN toClient[c] /\ k \in Nat /\ s \in alive /\ Ends(toClient[c][k])
             /\ toClient[c][k].of = s
             /\ \A j \in DOMAIN toClient[c] : j < k /\ Ends(toClient[c][j]) => toClient[c][j].of # s
  <2>1. k \in DOMAIN toClient[c] /\ Ends(toClient[c][k]) /\ toClient[c][k].of = s
    BY DEF Ending, Queued, Ends
  <2>2. Concerns(toClient[c][k]) /\ Of(toClient[c][k], pipes) = s
    BY <2>1 DEF Concerns, Ends, Of
  <2>3. k \in Nat
    BY <1>1, <2>1 DEF SourceInv, Inv, TypeInv, Queues
  <2>4. QED  BY <1>1, <2>1, <2>2, <2>3 DEF SourceInv, CoreInv, Ordered
<1> HIDE DEF c
<1>3. \A j, k \in Ending(s) : j = k
  <2>1. ASSUME NEW j \in Ending(s), NEW k \in Ending(s), j < k PROVE FALSE
    BY <1>2, <2>1
  <2>2. ASSUME NEW j \in Ending(s), NEW k \in Ending(s) PROVE j = k
    <3>1. j \in Nat /\ k \in Nat
      BY <1>2
    <3>2. ~(j < k) /\ ~(k < j)
      BY <2>1
    <3>3. QED  BY <3>1, <3>2
  <2>3. QED  BY <2>2
<1>4. CASE Ending(s) = {}
  <2>1. Cardinality({}) = 0
    BY FS_EmptySet
  <2>2. QED  BY <1>4, <2>1
<1>5. CASE Ending(s) # {}
  <2>1. PICK k \in Ending(s) : TRUE
    BY <1>5
  <2>2. Ending(s) = {k} /\ s \in alive
    BY <1>2, <1>3, <2>1
  <2>3. Cardinality({k}) = 1
    BY FS_Singleton
  <2>4. QED  BY <2>2, <2>3
<1>6. QED  BY <1>4, <1>5

(* Whatever is offered, and whatever an event is about, has not been       *)
(* deleted, and it is deleted once.                                        *)
THEOREM SourcesCorrect == Spec => []SourcesLive
<1>1. SourceInv => SourcesLive
  <2> SUFFICES ASSUME SourceInv PROVE SourcesLive
    OBVIOUS
  <2>0. TypeInv /\ CoreInv
    BY DEF SourceInv, Inv
  <2>1. {selected, drag.source} \ {None} \subseteq alive
    BY <2>0, Basics DEF CoreInv, LiveInv, Live
  <2>2. \A c \in Clients, o \in Offers : stands[c][o] # None => stands[c][o] \in alive
    BY <2>0, Basics DEF CoreInv, LiveInv, Live, Standing
  <2>3. \A s \in 1..made : Cardinality(Ending(s)) <= IF s \in alive THEN 1 ELSE 0
    BY EndedOnce
  <2>4. ASSUME NEW c \in Clients, NEW k \in Queued(c, {"dropped"}) PROVE toClient[c][k].of \in alive
    BY <2>0 DEF Queued, CoreInv, Ordered, Concerns, Of
  <2>5. ASSUME NEW c \in Clients, NEW k \in Queued(c, {"send"})
        PROVE  pipes[toClient[c][k].of].source \in alive
    BY <2>0 DEF Queued, CoreInv, Ordered, Concerns, Of
  <2>6. QED  BY <2>1, <2>2, <2>3, <2>4, <2>5 DEF SourcesLive
<1>2. QED  BY <1>1, InitSources, StepSources, PTL DEF Spec

(* What was dropped is taken away by another drag only, whenever the leave *)
(* that follows the drop arrives.                                          *)
THEOREM DropCorrect == Spec => DropKept
<1>1. ASSUME SourceInv, NEW c \in Clients, landed[c], ~landed'[c], Receive(c), ~ReceiveEnter(c)
      PROVE  FALSE
  <2>1. TypeInv /\ DragInv
    BY <1>1 DEF SourceInv, Inv
  <2>2. ~ReceiveDrop(c)
    <3>1. SUFFICES ASSUME Receives(c, "drop") PROVE FALSE
      BY DEF ReceiveDrop
    <3>2. 1 \in DOMAIN toClient[c] /\ toClient[c][1].type = "drop"
      BY <2>1, <3>1, FirstIs
    <3>3. QED  BY <1>1, <2>1, <3>2 DEF DragInv, MovesInv
  <2>3. ~ReceiveLeave(c)
    <3>1. SUFFICES ASSUME Receives(c, "leave"), pointed[c] PROVE FALSE
      BY <1>1 DEF ReceiveLeave, offerVars
    <3>2. 1 \in DOMAIN toClient[c] /\ toClient[c][1].type = "leave" /\ ~Entering(c)
      BY <2>1, <3>1, FirstIs
    <3>3. QED  BY <1>1, <2>1, <3>1, <3>2 DEF DragInv, MovesInv
  <2>4. landed' = landed
    BY <1>1, <2>2, <2>3 DEF Receive, ReceivePointer, ReceiveSelection, ReceiveCopy, ReceivePaste,
       ReceiveSend, ReceiveDropped, ReceiveEnd, offerVars
  <2>5. QED  BY <1>1, <2>4
<1>2. SourceInv /\ [Next]_vars =>
        [\A c \in Clients : landed[c] /\ ~landed'[c] => ~Receive(c) \/ ReceiveEnter(c)]_vars
  BY <1>1
<1>3. QED  BY <1>2, InitSources, StepSources, PTL DEF Spec, DropKept

-----------------------------------------------------------------------------
(* What is dropped waits, where it was dropped, for its end; so does what  *)
(* is about to be dropped there.                                           *)
Lands(c) == landed[c] \/ ~Still(c, {"drop"})
Waits(s) == \E c \in Clients, o \in Offers : stands[c][o] = s /\ o = dragged[c] /\ Lands(c)

Handled(s) == s \in {selected, drag.source} \/ Ended(toClient, s) \/ Waits(s)
EndsInv    == \A s \in alive \ refused : Handled(s)

(* No event is lost: some applications may have taken one. *)
Kept(q, r, S) ==
  \A c \in Clients : \A k \in DOMAIN q[c] :
    (c \in S /\ k = 1) \/ \E j \in DOMAIN r[c] : r[c][j] = q[c][k]

(* Events are sent ... *)
LEMMA KeptSent ==
  ASSUME NEW q, NEW r \in Queues, NEW S, Kept(q, r, S), NEW c, NEW type \in Types, NEW of \in Nat
  PROVE  Kept(q, SendTo(r, c, type, of), S)
<1> DEFINE t == SendTo(r, c, type, of)
<1>1. \A d \in Clients : \A k \in DOMAIN r[d] : k \in DOMAIN t[d] /\ t[d][k] = r[d][k]
  <2>1. Added(r, t, c, Event(type, of))
    BY SentEvents
  <2> HIDE DEF t
  <2>2. QED  BY <2>1 DEF Added
<1> HIDE DEF t
<1>2. ASSUME NEW d \in Clients, NEW k \in DOMAIN q[d], ~(d \in S /\ k = 1)
      PROVE  \E j \in DOMAIN t[d] : t[d][j] = q[d][k]
  <2>1. PICK j \in DOMAIN r[d] : r[d][j] = q[d][k]
    BY <1>2 DEF Kept
  <2>2. QED  BY <1>1, <2>1
<1>3. QED  BY <1>2 DEF Kept, t

(* ... to an owner ... *)
LEMMA KeptTold ==
  ASSUME NEW q, NEW r \in Queues, NEW S, Kept(q, r, S), NEW s \in Sources \cup {None},
         NEW type \in {"dropped", "cancelled", "finished"}
  PROVE  Kept(q, Tell(r, s, type), S)
<1>1. type \in Types
  BY DEF Types
<1>2. s \in Nat
  BY DataDeviceAssumption DEF Sources, None
<1>3. QED  BY <1>1, <1>2, KeptSent DEF Tell

(* ... or where something leaves ... *)
LEMMA KeptLeft ==
  ASSUME NEW q, NEW r \in Queues, NEW S, Kept(q, r, S), NEW left,
         NEW type \in {"leave", "pointer_leave"}
  PROVE  Kept(q, LeaveSent(r, left, type), S)
<1>1. type \in Types /\ None \in Nat
  BY DEF Types, None
<1>2. QED  BY <1>1, KeptSent DEF LeaveSent

(* ... and taken. *)
LEMMA KeptTaken ==
  ASSUME NEW q \in Queues, NEW c \in Clients, q[c] # <<>>
  PROVE  Kept(q, [q EXCEPT ![c] = Tail(@)], {c})
<1> DEFINE r == [q EXCEPT ![c] = Tail(@)]
<1>1. /\ \A d \in Clients : d # c => r[d] = q[d]
      /\ \A k \in DOMAIN q[c] : k # 1 => k - 1 \in DOMAIN r[c] /\ r[c][k - 1] = q[c][k]
  BY TakenEvents
<1> HIDE DEF r
<1>2. ASSUME NEW d \in Clients, NEW k \in DOMAIN q[d], ~(d \in {c} /\ k = 1)
      PROVE  \E j \in DOMAIN r[d] : r[d][j] = q[d][k]
  <2>1. CASE d # c
    BY <1>1, <2>1
  <2>2. CASE d = c
    BY <1>1, <1>2, <2>2
  <2>3. QED  BY <2>1, <2>2
<1>3. QED  BY <1>2 DEF Kept, r

(* Nothing is sent, and nothing taken. *)
LEMMA KeptSame == \A q : Kept(q, q, {})
BY DEF Kept

(* A step that handles what it leaves behind. *)
LEMMA EndsKept ==
  ASSUME EndsInv, NEW S, Kept(toClient, toClient', S),
         \A c \in S : Ends(toClient[c][1]) => toClient[c][1].of \notin alive',
         \A s \in alive' \ refused' : s \in alive \ refused \/ s \in {selected', drag'.source},
         \A s \in alive' \ refused' : s \in {selected, drag.source} => Handled(s)',
         \A s \in (alive' \ refused') \ {selected', drag'.source}, c \in Clients, o \in Offers :
           stands[c][o] = s /\ o = dragged[c] /\ Lands(c) =>
             Ended(toClient', s) \/ (stands'[c][o] = s /\ o = dragged'[c] /\ Lands(c)')
  PROVE  EndsInv'
<1>1. SUFFICES ASSUME NEW s \in alive' \ refused' PROVE Handled(s)'
  BY DEF EndsInv
<1>2. Ended(toClient', s) => Handled(s)'
  BY DEF Handled, Ended, Ends
<1>3. CASE Ended(toClient, s)
  <2>1. PICK c \in Clients : \E k \in DOMAIN toClient[c] : Ends(toClient[c][k]) /\ toClient[c][k].of = s
    BY <1>3 DEF Ended
  <2>2. PICK k \in DOMAIN toClient[c] : Ends(toClient[c][k]) /\ toClient[c][k].of = s
    BY <2>1
  <2>3. ~(c \in S /\ k = 1)
    BY <2>2
  <2>4. \E j \in DOMAIN toClient'[c] : toClient'[c][j] = toClient[c][k]
    BY <2>3 DEF Kept
  <2>5. Ended(toClient', s)
    BY <2>2, <2>4 DEF Ended
  <2>6. QED  BY <1>2, <2>5
<1>4. CASE Waits(s) /\ s \notin {selected', drag'.source}
  <2>1. PICK c \in Clients, o \in Offers : stands[c][o] = s /\ o = dragged[c] /\ Lands(c)
    BY <1>4 DEF Waits
  <2>2. Ended(toClient', s) \/ (stands'[c][o] = s /\ o = dragged'[c] /\ Lands(c)')
    BY <1>4, <2>1
  <2>3. (stands'[c][o] = s /\ o = dragged'[c] /\ Lands(c)') => Handled(s)'
    BY DEF Handled, Waits
  <2>4. QED  BY <1>2, <2>2, <2>3
<1>5. CASE s \in {selected', drag'.source}
  BY <1>5 DEF Handled
<1>6. QED  BY <1>3, <1>4, <1>5 DEF EndsInv, Handled

(* Where it lands, it still does. *)
LEMMA LandsKept ==
  ASSUME NEW S, Kept(toClient, toClient', S), NEW c \in Clients, landed[c] => landed'[c],
         c \in S => toClient[c][1].type # "drop", Lands(c)
  PROVE  Lands(c)'
<1>1. CASE landed[c]
  BY <1>1 DEF Lands
<1>2. CASE ~Still(c, {"drop"})
  <2>1. PICK k \in DOMAIN toClient[c] : toClient[c][k].type = "drop"
    BY <1>2 DEF Still
  <2>2. \E j \in DOMAIN toClient'[c] : toClient'[c][j] = toClient[c][k]
    BY <2>1 DEF Kept
  <2>3. ~Still(c, {"drop"})'
    BY <2>1, <2>2 DEF Still
  <2>4. QED  BY <2>3 DEF Lands
<1>3. QED  BY <1>1, <1>2 DEF Lands

(* A step that leaves alone what is dropped. *)
LEMMA EndsApart ==
  ASSUME EndsInv, NEW S, Kept(toClient, toClient', S),
         \A c \in S : /\ Ends(toClient[c][1]) => toClient[c][1].of \notin alive'
                      /\ toClient[c][1].type # "drop",
         \A s \in alive' \ refused' : s \in alive \ refused \/ s \in {selected', drag'.source},
         \A s \in alive' \ refused' : s \in {selected, drag.source} => Handled(s)',
         UNCHANGED <<dragged, landed>>,
         \A s \in (alive' \ refused') \ {selected', drag'.source}, c \in Clients, o \in Offers :
           stands[c][o] = s /\ o = dragged[c] => Ended(toClient', s) \/ stands'[c][o] = s
  PROVE  EndsInv'
<1>1. \A c \in Clients : Lands(c) => Lands(c)'
  BY LandsKept
<1>2. QED  BY <1>1, EndsKept

(* The owner of a source that is not deleted. *)
LEMMA OwnerIs ==
  ASSUME CoreInv, NEW s \in alive
  PROVE  owner[s] \in Clients /\ s \in Sources /\ s # None
<1>1. s \in 1..made /\ made <= Len(Sizes) /\ owner \in Seq(Clients) /\ Len(owner) = made
  BY DEF CoreInv, MadeInv
<1>2. Len(Sizes) \in Nat /\ made \in Nat /\ owner[s] \in Clients
  BY <1>1, DataDeviceAssumption
<1>3. QED  BY <1>1, <1>2 DEF Sources, None

(* An offer is destroyed with the event taken: what it stood for is told.  *)
LEMMA DestroyEnds ==
  ASSUME TypeInv, CoreInv, EndsInv, NEW c \in Clients, NEW x \in Offers \cup {None}, Destroy(c, x),
         toClient[c] # <<>>, toClient[c][1].type \in {"selection", "enter", "leave"},
         UNCHANGED <<selected, alive, refused>>, drag'.source = drag.source,
         \A d \in Clients \ {c} : dragged'[d] = dragged[d] /\ landed'[d] = landed[d],
         (dragged'[c] = dragged[c] /\ landed'[c] = landed[c]) \/ x = dragged[c]
  PROVE  EndsInv'
<1> DEFINE q == [toClient EXCEPT ![c] = Tail(@)]
           u == Unfinished(c, x)
<1>1. /\ toClient \in Queues /\ q \in Queues /\ u \in Sources \cup {None} /\ None \notin Offers
      /\ toClient' = Tell(q, u, "cancelled") /\ (u # None => Live(u))
  <2>1. toClient \in Queues /\ None \notin Offers /\ q \in Queues
    BY Basics, TailGrows
  <2>2. u \in Sources \cup {None} /\ (u # None => Live(u))
    BY Basics DEF Unfinished, Live, Standing
  <2>3. toClient' = Tell(q, u, "cancelled")
    BY DEF Destroy
  <2>4. QED  BY <2>1, <2>2, <2>3
<1>2. \A d \in Clients, o \in Offers :
        stands'[d][o] = IF x # None /\ ((d = c /\ o = x) \/ stands[d][o] = u) THEN None ELSE stands[d][o]
  BY DestroyedStands
<1>3. x # None /\ x = dragged[c] => u = stands[c][x]
  BY DEF Unfinished
<1>4. Kept(toClient, q, {c})
  BY <1>1, KeptTaken
<1> HIDE DEF q, u
<1>5. Kept(toClient, toClient', {c})
  BY <1>1, <1>4, KeptTold
<1>6. u # None => Ended(toClient', u)
  <2>1. u # None => u \in alive
    BY <1>1 DEF CoreInv, LiveInv
  <2>2. u # None => owner[u] \in Clients
    BY <2>1, OwnerIs
  <2>3. QED  BY <1>1, <2>2, ToldEnds
<1>7. toClient[c][1].type # "drop" /\ ~Ends(toClient[c][1])
  BY DEF Ends
<1>8. ASSUME NEW s \in alive, NEW d \in Clients, NEW o \in Offers,
             stands[d][o] = s, o = dragged[d], Lands(d)
      PROVE  Ended(toClient', s) \/ (stands'[d][o] = s /\ o = dragged'[d] /\ Lands(d)')
  <2>1. s # None
    BY OwnerIs
  <2>2. CASE s = u
    BY <1>6, <2>1, <2>2
  <2>3. CASE s # u
    <3>1. ~(d = c /\ o = x)
      BY <1>1, <1>3, <1>8, <2>3
    <3>2. stands'[d][o] = s
      BY <1>2, <1>8, <2>3, <3>1
    <3>3. dragged'[d] = dragged[d] /\ landed'[d] = landed[d]
      BY <1>8, <3>1
    <3>4. Lands(d)'
      BY <1>5, <1>7, <1>8, <3>3, LandsKept
    <3>5. QED  BY <1>8, <3>2, <3>3, <3>4
  <2>4. QED  BY <2>2, <2>3
<1>9. \A s \in alive \ refused : s \in {selected, drag.source} => Handled(s)'
  BY DEF Handled
<1>10. QED  BY <1>5, <1>7, <1>8, <1>9, EndsKept

(* The first event is taken, and it ends no source that is there. *)
LEMMA TakeEnds ==
  ASSUME TypeInv, EndsInv, NEW c \in Clients, toClient[c] # <<>>, Kept(toClient, toClient', {c}),
         toClient[c][1].type # "drop", Ends(toClient[c][1]) => toClient[c][1].of \notin alive',
         alive' \ refused' \subseteq alive \ refused,
         selected' = selected, drag' = drag, UNCHANGED <<stands, dragged, landed>>
  PROVE  EndsInv'
<1>1. \A s \in alive' \ refused' : s \in {selected, drag.source} => Handled(s)'
  BY DEF Handled
<1>2. QED  BY <1>1, EndsApart

-----------------------------------------------------------------------------
(* The steps, one by one: the keyboard goes to another client. *)
LEMMA FocusOnEnds ==
  ASSUME TypeInv, DragInv, CoreInv, EndsInv, NEW c \in Clients, FocusOn(c) PROVE EndsInv'
<1>1. /\ UNCHANGED <<selected, drag, alive, refused, dragged, landed>> /\ toClient \in Queues
      /\ Kept(toClient, toClient, {}) /\ "selection" \in Types /\ None \in Nat
      /\ \A s \in alive \ refused : s \in {selected, drag.source} => Handled(s)'
  BY Basics, KeptSame DEF FocusOn, sourceVars, offerVars, Types, None, Handled
<1>2. CASE toClient' = SendTo(toClient, c, "selection", None) /\ stands' = stands
  <2>1. Kept(toClient, toClient', {})
    BY <1>1, <1>2, KeptSent
  <2>2. QED  BY <1>1, <1>2, <2>1, EndsApart
<1>3. CASE SelectionSent(toClient, c, selected)
  <2>1. NewOffer(c) \in Nat /\ NewOffer(c) # dragged[c]
    BY <1>3, NewIsUnknown, OfferFacts DEF SelectionSent
  <2>2. Kept(toClient, toClient', {})
    BY <1>1, <1>3, <2>1, KeptSent DEF SelectionSent
  <2>3. ASSUME NEW s \in alive, s # selected, NEW d \in Clients, NEW o \in Offers,
               stands[d][o] = s, o = dragged[d]
        PROVE  stands'[d][o] = s
    BY <1>3, <2>1, <2>3, SentStands
  <2>4. QED  BY <1>1, <2>2, <2>3, EndsApart
<1>4. QED  BY <1>2, <1>3 DEF FocusOn

(* A key is pressed, or the pointer enters a surface. *)
LEMMA PointEnds ==
  ASSUME TypeInv, EndsInv,
         (\E type \in {"copy", "paste"} : Press(type)) \/ (\E c \in Clients : Point(c))
  PROVE  EndsInv'
<1>1. /\ UNCHANGED <<selected, drag, stands, alive, refused, dragged, landed>> /\ toClient \in Queues
      /\ Kept(toClient, toClient, {}) /\ {"copy", "paste", "pointer_enter"} \subseteq Types /\ None \in Nat
      /\ \A s \in alive \ refused : s \in {selected, drag.source} => Handled(s)'
  BY Basics, KeptSame DEF Press, Point, serverVars, sourceVars, offerVars, Types, None, Handled
<1>2. Kept(toClient, toClient', {})
  <2>1. ASSUME NEW type \in {"copy", "paste"}, Press(type) PROVE Kept(toClient, toClient', {})
    BY <1>1, <2>1, KeptSent DEF Press
  <2>2. ASSUME NEW c \in Clients, Point(c) PROVE Kept(toClient, toClient', {})
    <3> DEFINE q == LeaveSent(toClient, pointer, "pointer_leave")
    <3>1. q \in Queues /\ Kept(toClient, q, {})
      BY <1>1, LeaveGrows, KeptLeft
    <3>2. toClient' = SendTo(q, c, "pointer_enter", None)
      BY <2>2 DEF Point
    <3> HIDE DEF q
    <3>3. QED  BY <1>1, <3>1, <3>2, KeptSent
  <2>3. QED  BY <2>1, <2>2
<1>3. QED  BY <1>1, <1>2, EndsApart

(* A drag starts. *)
LEMMA StartDragEnds ==
  ASSUME TypeInv, CoreInv, EndsInv, NEW c \in Clients, StartDrag(c) PROVE EndsInv'
<1>1. /\ UNCHANGED <<selected, stands, refused, dragged, landed>> /\ toClient \in Queues
      /\ alive' = alive \cup {drag'.source} /\ drag.source = None
      /\ drag'.source \in Sources /\ None \notin Sources
  BY Basics, NextSource DEF StartDrag, offerVars, NoDrag
<1>2. Kept(toClient, toClient', {})
  BY <1>1, KeptSame, KeptLeft DEF StartDrag
<1>3. ASSUME NEW s \in alive' \ refused', s \in {selected, drag.source} PROVE Handled(s)'
  <2>1. s # None
    BY <1>1, <1>3, OwnerIs
  <2>2. QED  BY <1>1, <1>3, <2>1 DEF Handled
<1>4. QED  BY <1>1, <1>2, <1>3, EndsApart

(* What is dragged comes over a surface. *)
LEMMA DragOverEnds ==
  ASSUME TypeInv, CoreInv, EndsInv, NEW c \in Clients, DragOver(c) PROVE EndsInv'
<1> DEFINE q == LeaveSent(toClient, drag.over, "leave")
<1>1. /\ UNCHANGED <<selected, alive, refused, dragged, landed>> /\ toClient \in Queues
      /\ drag'.source = drag.source
      /\ \A s \in alive \ refused : s \in {selected, drag.source} => Handled(s)'
  BY Basics DEF DragOver, sourceVars, offerVars, TypeInv, Handled
<1>2. Kept(toClient, q, {}) /\ q \in Queues
  BY <1>1, KeptSame, KeptLeft, LeaveGrows
<1>3. /\ toClient' = SendTo(q, c, "enter", NewOffer(c)) /\ NewOffer(c) \in Nat /\ "enter" \in Types
      /\ NewOffer(c) # dragged[c]
  BY OfferFacts, NewIsUnknown DEF DragOver, Types
<1> HIDE DEF q
<1>4. Kept(toClient, toClient', {})
  BY <1>2, <1>3, KeptSent
<1>5. ASSUME NEW s \in alive, s # drag.source, NEW d \in Clients, NEW o \in Offers,
             stands[d][o] = s, o = dragged[d]
      PROVE  stands'[d][o] = s
  BY <1>3, <1>5 DEF DragOver
<1>6. QED  BY <1>1, <1>4, <1>5, EndsApart

(* The button is released. *)
LEMMA ReleaseEnds == ASSUME TypeInv, TypeInv', CoreInv, DragInv, EndsInv, Release PROVE EndsInv'
<1>1. /\ UNCHANGED <<selected, alive, refused, dragged, landed>> /\ toClient \in Queues
      /\ drag'.source = None /\ drag.source # None /\ drag.source \in Sources \cup {None}
      /\ drag.over \subseteq Clients /\ None \in Nat /\ {"drop", "leave"} \subseteq Types
      /\ None \notin Offers
  BY Basics DEF Release, sourceVars, offerVars, NoDrag, TypeInv, Types, None
<1> PICK s : s = drag.source
  OBVIOUS
<1>2. ASSUME drag.accepted, NEW c \in drag.over, stands' = stands,
             toClient' = LeaveSent(SendTo(Tell(toClient, drag.source, "dropped"), c, "drop", None),
                                  drag.over, "leave")
      PROVE  EndsInv'
  <2> DEFINE q == Tell(toClient, drag.source, "dropped")
             r == SendTo(q, c, "drop", None)
  <2>1. q \in Queues /\ Kept(toClient, q, {})
    BY <1>1, TellGrows, KeptSame, KeptTold
  <2>2. toClient' = LeaveSent(r, drag.over, "leave")
    BY <1>2
  <2> HIDE DEF q
  <2>3. r \in Queues /\ Kept(toClient, r, {})
    <3>1. "drop" \in Types \ {"send", "selection", "enter"}
      BY DEF Types
    <3>2. QED  BY <1>1, <2>1, <3>1, GrowsSame, PlainGrows, KeptSent
  <2>4. Added(q, r, c, Event("drop", None))
    BY <1>1, <2>1, SentEvents
  <2> HIDE DEF r
  <2>5. Kept(toClient, toClient', {}) /\ Kept(r, toClient', {})
    BY <2>2, <2>3, KeptSame, KeptLeft
  <2>6. Lands(c)'
    <3>1. PICK k \in DOMAIN r[c] : r[c][k] = Event("drop", None)
      BY <1>1, <2>4 DEF Added
    <3>2. PICK j \in DOMAIN toClient'[c] : toClient'[c][j] = Event("drop", None)
      BY <1>1, <2>5, <3>1 DEF Kept
    <3>3. QED  BY <3>2 DEF Lands, Still, Event
  <2>7. Waits(s)'
    <3>1. dragged[c] # None /\ stands[c][dragged[c]] = drag.source
      <4>1. drag.over = {c}
        BY <1>2 DEF DragInv, OverInv
      <4>2. QED  BY <1>2, <4>1 DEF DragInv, OverInv
    <3>2. dragged[c] \in Offers /\ c \in Clients
      BY <1>1, <3>1, Basics
    <3>3. dragged'[c] = dragged[c] /\ stands'[c][dragged[c]] = drag.source
      BY <1>1, <1>2, <3>1
    <3>4. QED  BY <2>6, <3>2, <3>3 DEF Waits
  <2>8. Handled(s)'
    BY <2>7 DEF Handled
  <2>9. \A t \in alive \ refused : t \in {selected, drag.source} => Handled(t)'
    BY <1>1, <2>8 DEF Handled
  <2>10. QED  BY <1>1, <1>2, <2>5, <2>9, EndsApart
<1>3. ASSUME stands' = Inert(stands, drag.source),
             toClient' = LeaveSent(Tell(toClient, drag.source, "cancelled"), drag.over, "leave")
      PROVE  EndsInv'
  <2> DEFINE q == Tell(toClient, drag.source, "cancelled")
  <2>1. q \in Queues /\ Kept(toClient, q, {})
    BY <1>1, TellGrows, KeptSame, KeptTold
  <2>2. drag.source \in alive => Ended(q, drag.source)
    BY <1>1, OwnerIs, ToldEnds
  <2>3. toClient' = LeaveSent(q, drag.over, "leave")
    BY <1>3
  <2> HIDE DEF q
  <2>4. Kept(toClient, toClient', {})
    BY <2>1, <2>3, KeptLeft
  <2>5. drag.source \in alive => Ended(toClient', drag.source)
    BY <2>1, <2>2, <2>3, LeftOrdered
  <2>6. s \in alive => Handled(s)'
    BY <2>5 DEF Handled, Ended, Ends
  <2>7. \A t \in alive \ refused : t \in {selected, drag.source} => Handled(t)'
    BY <1>1, <2>6 DEF Handled
  <2>8. ASSUME NEW t \in alive, NEW d \in Clients, NEW o \in Offers, stands[d][o] = t, o = dragged[d]
        PROVE  Ended(toClient', t) \/ stands'[d][o] = t
    BY <1>3, <2>5, <2>8 DEF Inert
  <2>9. QED  BY <1>1, <2>4, <2>7, <2>8, EndsApart
<1>4. QED  BY <1>1, <1>2, <1>3 DEF Release

(* An event that ends nothing is taken. *)
LEMMA PlainEnds ==
  ASSUME TypeInv, EndsInv, NEW c \in Clients,
         ReceivePointer(c) \/ ReceiveSend(c) \/ ReceiveDropped(c) \/ ReceiveEnd(c)
  PROVE  EndsInv'
<1>1. /\ selected' = selected /\ drag' = drag /\ UNCHANGED <<stands, dragged, landed>>
      /\ toClient[c] # <<>> /\ toClient[c][1].type # "drop"
      /\ toClient' = [toClient EXCEPT ![c] = Tail(@)] /\ alive' \ refused' \subseteq alive \ refused
      /\ Ends(toClient[c][1]) => toClient[c][1].of \notin alive'
  BY DEF ReceivePointer, ReceiveSend, ReceiveDropped, ReceiveEnd, Receives, Take, Taken,
     sourceVars, offerVars, Ends
<1>2. Kept(toClient, toClient', {c})
  BY <1>1, KeptTaken, Basics
<1>3. QED  BY <1>1, <1>2, TakeEnds

(* Another offer comes, or what is dragged leaves. *)
LEMMA OfferEnds ==
  ASSUME TypeInv, CoreInv, EndsInv, NEW c \in Clients,
         ReceiveSelection(c) \/ ReceiveEnter(c) \/ ReceiveLeave(c)
  PROVE  EndsInv'
<1>1. /\ UNCHANGED <<selected, alive, refused>> /\ drag'.source = drag.source
      /\ toClient[c] # <<>> /\ toClient[c][1].type \in {"selection", "enter", "leave"}
      /\ dragged[c] \in Offers \cup {None} /\ selection[c] \in Offers \cup {None}
      /\ toClient \in Queues
  BY Basics DEF ReceiveSelection, ReceiveEnter, ReceiveLeave, Receives, sourceVars, TypeInv
<1>2. CASE ReceiveSelection(c)
  <2>1. Destroy(c, selection[c]) /\ UNCHANGED <<dragged, landed>>
    BY <1>2 DEF ReceiveSelection
  <2>2. QED  BY <1>1, <2>1, DestroyEnds
<1>3. CASE Take(c) /\ UNCHANGED <<drag, dragged, landed>>
  <2>1. Kept(toClient, toClient', {c}) /\ stands' = stands
    BY <1>1, <1>3, KeptTaken DEF Take, Taken
  <2>2. ~Ends(toClient[c][1]) /\ toClient[c][1].type # "drop"
    BY <1>1 DEF Ends
  <2>3. QED  BY <1>1, <1>3, <2>1, <2>2, TakeEnds
<1>4. CASE Destroy(c, dragged[c]) /\ \A d \in Clients \ {c} : dragged'[d] = dragged[d] /\ landed'[d] = landed[d]
  BY <1>1, <1>4, DestroyEnds
<1>5. QED
  <2>1. CASE ReceiveEnter(c)
    <3>1. \A d \in Clients \ {c} : dragged'[d] = dragged[d] /\ landed'[d] = landed[d]
      BY <2>1 DEF ReceiveEnter
    <3>2. QED  BY <1>4, <2>1, <3>1 DEF ReceiveEnter
  <2>2. CASE ReceiveLeave(c)
    <3>1. CASE Take(c) /\ UNCHANGED offerVars
      BY <1>3, <2>2, <3>1 DEF ReceiveLeave, offerVars
    <3>2. CASE /\ Destroy(c, dragged[c]) /\ dragged' = [dragged EXCEPT ![c] = None]
               /\ landed' = [landed EXCEPT ![c] = FALSE]
      BY <1>4, <3>2
    <3>3. QED  BY <2>2, <3>1, <3>2 DEF ReceiveLeave
  <2>3. QED  BY <1>2, <2>1, <2>2

(* It is dropped. *)
LEMMA DropEnds ==
  ASSUME TypeInv, DragInv, EndsInv, NEW c \in Clients, ReceiveDrop(c) PROVE EndsInv'
<1>1. /\ UNCHANGED <<selected, drag, stands, alive, refused, dragged>> /\ toClient \in Queues
      /\ toClient[c] # <<>> /\ toClient[c][1].type = "drop" /\ 1 \in DOMAIN toClient[c]
      /\ toClient' = [toClient EXCEPT ![c] = Tail(@)] /\ landed' = [landed EXCEPT ![c] = pointed[c]]
  BY Basics, FirstIs DEF ReceiveDrop, Receives, Take, Taken, sourceVars
<1>2. pointed[c] /\ landed \in [Clients -> BOOLEAN]
  BY <1>1 DEF DragInv, MovesInv
<1>3. Kept(toClient, toClient', {c}) /\ ~Ends(toClient[c][1])
  BY <1>1, KeptTaken DEF Ends
<1>4. ASSUME NEW d \in Clients, Lands(d) PROVE Lands(d)'
  <2>1. CASE d = c
    BY <1>1, <1>2, <2>1 DEF Lands
  <2>2. CASE d # c
    <3>1. landed[d] => landed'[d]
      BY <1>1, <1>2, <2>2
    <3>2. d \in {c} => toClient[d][1].type # "drop"
      BY <2>2
    <3>3. QED  BY <1>3, <1>4, <3>1, <3>2, LandsKept
  <2>3. QED  BY <2>1, <2>2
<1>5. \A s \in alive \ refused : s \in {selected, drag.source} => Handled(s)'
  BY <1>1 DEF Handled
<1>6. \A d \in {c} : Ends(toClient[d][1]) => toClient[d][1].of \notin alive'
  BY <1>3
<1>7. /\ selected' = selected /\ drag' = drag /\ alive' = alive /\ refused' = refused
      /\ stands' = stands /\ dragged' = dragged
  BY <1>1
<1>8. QED  BY <1>3, <1>4, <1>5, <1>6, <1>7, EndsKept

(* What was dropped is finished. *)
LEMMA EndDropEnds ==
  ASSUME TypeInv, CoreInv, EndsInv, NEW c \in Clients, NEW type \in {"finished", "cancelled"},
         EndDrop(c, type)
  PROVE  EndsInv'
<1> DEFINE x == dragged[c]
           u == stands[c][x]
<1>1. /\ UNCHANGED <<selected, drag, alive, refused>> /\ toClient \in Queues
      /\ x \in Offers /\ u \in Sources \cup {None}
      /\ toClient' = Tell(toClient, u, type)
      /\ dragged' = [dragged EXCEPT ![c] = None] /\ landed' = [landed EXCEPT ![c] = FALSE]
  BY Basics DEF EndDrop, sourceVars
<1>2. ASSUME NEW d \in Clients, NEW o \in Offers
      PROVE  stands'[d][o] = IF (d = c /\ o = x) \/ stands[d][o] = u THEN None ELSE stands[d][o]
  <2>1. stands' = [Inert(stands, u) EXCEPT ![c][x] = None]
    BY DEF EndDrop
  <2> HIDE DEF x, u
  <2>2. QED  BY <1>1, <2>1 DEF Inert
<1>3. u # None => Live(u)
  BY <1>1 DEF Live, Standing
<1>4. u = stands[c][x] /\ x = dragged[c]
  OBVIOUS
<1> HIDE DEF x, u
<1>5. Kept(toClient, toClient', {})
  BY <1>1, KeptSame, KeptTold
<1>6. u # None => Ended(toClient', u)
  <2>1. u # None => u \in alive
    BY <1>1, <1>3 DEF CoreInv, LiveInv
  <2>2. u # None => owner[u] \in Clients
    BY <2>1, OwnerIs
  <2>3. QED  BY <1>1, <2>2, ToldEnds
<1>7. ASSUME NEW s \in alive, NEW d \in Clients, NEW o \in Offers,
             stands[d][o] = s, o = dragged[d], Lands(d)
      PROVE  Ended(toClient', s) \/ (stands'[d][o] = s /\ o = dragged'[d] /\ Lands(d)')
  <2>1. s # None
    BY OwnerIs
  <2>2. CASE s = u
    BY <1>6, <2>1, <2>2
  <2>3. CASE s # u
    <3>1. d # c
      BY <1>4, <1>7, <2>3
    <3>2. stands'[d][o] = s
      BY <1>2, <1>7, <2>3, <3>1
    <3>3. dragged'[d] = dragged[d] /\ landed'[d] = landed[d]
      BY <1>1, <3>1 DEF EndDrop
    <3>4. Lands(d)'
      BY <1>5, <1>7, <3>3, LandsKept
    <3>5. QED  BY <1>7, <3>2, <3>3, <3>4
  <2>4. QED  BY <2>2, <2>3
<1>8. \A s \in alive \ refused : s \in {selected, drag.source} => Handled(s)'
  BY <1>1 DEF Handled
<1>9. QED  BY <1>1, <1>5, <1>7, <1>8, EndsKept

-----------------------------------------------------------------------------
(* A source is given away: the one selected before is told. *)
LEMMA CopyEnds ==
  ASSUME TypeInv, CoreInv, DragInv, EndsInv, NEW c \in Clients, ReceiveCopy(c) PROVE EndsInv'
<1> DEFINE q == [toClient EXCEPT ![c] = Tail(@)]
<1>1. /\ toClient \in Queues /\ UNCHANGED <<drag, dragged, landed>> /\ Taken(c) = q
      /\ toClient[c] # <<>> /\ toClient[c][1].type # "drop" /\ ~Ends(toClient[c][1])
      /\ alive' = alive \cup {made'}
  BY Basics DEF ReceiveCopy, Receives, offerVars, Taken, Ends
<1>2. q \in Queues /\ Kept(toClient, q, {c})
  BY <1>1, TailGrows, KeptTaken
<1> HIDE DEF q
<1>3. CASE Take(c) /\ refused' = refused \cup {made'} /\ selected' = selected
  <2>1. Kept(toClient, toClient', {c}) /\ stands' = stands
    BY <1>1, <1>2, <1>3 DEF Take
  <2>2. selected' = selected /\ drag' = drag /\ UNCHANGED <<stands, dragged, landed>>
        /\ alive' \ refused' \subseteq alive \ refused
    BY <1>1, <1>3, <2>1
  <2>3. QED  BY <1>1, <2>1, <2>2, TakeEnds
<1>4. CASE /\ selected' = made' /\ refused' = refused
           /\ SelectionSent(Tell(q, selected, "cancelled"), focus, made')
  <2> PICK u : u = selected
    OBVIOUS
  <2> DEFINE r == Tell(q, u, "cancelled")
  <2>1. u \in Sources \cup {None}
    BY Basics
  <2>2. r \in Queues /\ Kept(toClient, r, {c})
    BY <1>2, <2>1, TellGrows, KeptTold
  <2>3. u \in alive => Ended(r, u)
    BY <1>2, <2>1, OwnerIs, ToldEnds
  <2>4. SelectionSent(r, focus, made')
    BY <1>4
  <2> HIDE DEF r
  <2>5. NewOffer(focus) \in Nat /\ NewOffer(focus) # dragged[focus] /\ "selection" \in Types
        /\ toClient' = SendTo(r, focus, "selection", NewOffer(focus))
    BY <2>4, NewIsUnknown, OfferFacts DEF SelectionSent, Types
  <2>6. Kept(toClient, toClient', {c})
    BY <2>2, <2>5, KeptSent
  <2>7. u \in alive => Ended(toClient', u)
    BY <2>2, <2>3, <2>4, SelectionStands
  <2>8. ASSUME NEW s \in alive, s # u, NEW d \in Clients, NEW o \in Offers,
               stands[d][o] = s, o = dragged[d]
        PROVE  stands'[d][o] = s
    BY <2>4, <2>5, <2>8, SentStands
  <2>9. ASSUME NEW s \in alive' \ refused', s \in {selected, drag.source} PROVE Handled(s)'
    <3>1. CASE s = drag.source
      BY <1>1, <3>1 DEF Handled
    <3>2. CASE s = u /\ s \in alive
      BY <2>7, <3>2 DEF Handled, Ended, Ends
    <3>3. CASE s = made'
      BY <1>4, <3>3 DEF Handled
    <3>4. QED  BY <1>1, <2>9, <3>1, <3>2, <3>3
  <2>10. ASSUME NEW s \in (alive' \ refused') \ {selected', drag'.source},
                NEW d \in Clients, NEW o \in Offers, stands[d][o] = s, o = dragged[d]
         PROVE  Ended(toClient', s) \/ stands'[d][o] = s
    <3>1. s \in alive
      BY <1>1, <1>4, <2>10
    <3>2. QED  BY <2>7, <2>8, <2>10, <3>1
  <2>11. \A s \in alive' \ refused' : s \in alive \ refused \/ s \in {selected', drag'.source}
    BY <1>1, <1>4
  <2>12. \A d \in {c} : /\ Ends(toClient[d][1]) => toClient[d][1].of \notin alive'
                        /\ toClient[d][1].type # "drop"
    BY <1>1
  <2>13. UNCHANGED <<dragged, landed>>
    BY <1>1
  <2>14. QED  BY <2>6, <2>9, <2>10, <2>11, <2>12, <2>13, EndsApart
<1>5. QED  BY <1>1, <1>3, <1>4 DEF ReceiveCopy

(* What there is to paste is asked for. *)
LEMMA RequestedKept ==
  ASSUME TypeInv', NEW q \in Queues, NEW S, Kept(toClient, q, S), NEW c, NEW o, Requested(q, c, o)
  PROVE  Kept(toClient, toClient', S)
<1> DEFINE s == stands[c][o]
           n == Len(pipes')
<1>1. toClient' = IF s = None THEN q ELSE SendTo(q, owner[s], "send", n)
  BY DEF Requested
<1>2. n \in Nat /\ "send" \in Types
  BY DEF TypeInv, Types
<1> HIDE DEF s, n
<1>3. QED  BY <1>1, <1>2, KeptSent

(* ... by a key, or once it is dropped, or a pipe is written to or read.   *)
LEMMA PasteEnds ==
  ASSUME TypeInv, TypeInv', EndsInv,
         \/ \E c \in Clients : ReceivePaste(c) \/ TakeDropped(c) \/ Write(c)
         \/ \E p \in Pipes : Read(p)
  PROVE  EndsInv'
<1>1. /\ UNCHANGED <<selected, drag, stands, alive, refused, dragged, landed>> /\ toClient \in Queues
      /\ \A s \in alive \ refused : s \in {selected, drag.source} => Handled(s)'
      /\ Kept(toClient, toClient, {})
  BY Basics, KeptSame DEF ReceivePaste, TakeDropped, Write, Read, serverVars, sourceVars, offerVars, Handled
<1>2. ASSUME NEW c \in Clients, ReceivePaste(c) PROVE EndsInv'
  <2>1. toClient[c] # <<>> /\ ~Ends(toClient[c][1]) /\ toClient[c][1].type # "drop"
    BY <1>2 DEF ReceivePaste, Receives, Ends
  <2>2. Taken(c) \in Queues /\ Kept(toClient, Taken(c), {c})
    BY <1>1, <2>1, TailGrows, KeptTaken DEF Taken
  <2>3. Kept(toClient, toClient', {c})
    BY <1>2, <2>2, RequestedKept DEF ReceivePaste
  <2>4. selected' = selected /\ drag' = drag /\ UNCHANGED <<stands, dragged, landed>>
        /\ alive' \ refused' \subseteq alive \ refused
    BY <1>1
  <2>5. QED  BY <2>1, <2>3, <2>4, TakeEnds
<1>3. CASE Kept(toClient, toClient', {})
  BY <1>1, <1>3, EndsApart
<1>4. ASSUME NEW c \in Clients, TakeDropped(c) PROVE Kept(toClient, toClient', {})
  BY <1>1, <1>4, RequestedKept DEF TakeDropped
<1>5. ASSUME (\E c \in Clients : Write(c)) \/ (\E p \in Pipes : Read(p))
      PROVE  Kept(toClient, toClient', {})
  BY <1>1, <1>5 DEF Write, Read
<1>6. QED  BY <1>2, <1>3, <1>4, <1>5

(* Every step handles what it leaves behind. *)
LEMMA StepEnds == SourceInv /\ EndsInv /\ [Next]_vars => EndsInv'
<1> SUFFICES ASSUME SourceInv, EndsInv, [Next]_vars PROVE EndsInv'
  OBVIOUS
<1>0. TypeInv /\ CoreInv /\ DragInv /\ TypeInv'
  BY StepInv DEF SourceInv, Inv
<1>1. ASSUME NEW c \in Clients, FocusOn(c) \/ Point(c) \/ DragOver(c) \/ StartDrag(c)
      PROVE  EndsInv'
  BY <1>0, <1>1, FocusOnEnds, PointEnds, DragOverEnds, StartDragEnds
<1>2. ASSUME NEW c \in Clients, Receive(c) PROVE EndsInv'
  BY <1>0, <1>2, PlainEnds, OfferEnds, DropEnds, CopyEnds, PasteEnds DEF Receive
<1>3. ASSUME NEW c \in Clients, NEW type \in {"finished", "cancelled"}, EndDrop(c, type)
      PROVE  EndsInv'
  BY <1>0, <1>3, EndDropEnds
<1>4. ASSUME NEW type \in {"copy", "paste"}, Press(type) PROVE EndsInv'
  BY <1>0, <1>4, PointEnds
<1>5. CASE Release
  BY <1>0, <1>5, ReleaseEnds
<1>6. CASE (\E c \in Clients : TakeDropped(c) \/ Write(c)) \/ (\E p \in Pipes : Read(p))
  BY <1>0, <1>6, PasteEnds
<1>7. CASE UNCHANGED vars
  BY <1>7 DEF vars, serverVars, sourceVars, offerVars, EndsInv, Handled, Ended, Ends, Waits, Lands, Still
<1>8. QED  BY <1>1, <1>2, <1>3, <1>4, <1>5, <1>6, <1>7 DEF Next

(* No source is left behind: but for those that were refused, each is      *)
(* offered, waits where it was dropped to be finished, or is about to be   *)
(* deleted.                                                                *)
THEOREM EndsCorrect == Spec => []SourcesEnd
<1>1. Init => EndsInv
  BY DEF Init, EndsInv
<1>2. SourceInv /\ EndsInv => SourcesEnd
  <2> SUFFICES ASSUME SourceInv, EndsInv PROVE SourcesEnd
    OBVIOUS
  <2>0. TypeInv /\ CoreInv
    BY DEF SourceInv, Inv
  <2>1. ASSUME NEW s, Ended(toClient, s) PROVE Ending(s) # {}
    <3>1. PICK c \in Clients : \E k \in DOMAIN toClient[c] : Ends(toClient[c][k]) /\ toClient[c][k].of = s
      BY <2>1 DEF Ended
    <3>2. PICK k \in DOMAIN toClient[c] : Ends(toClient[c][k]) /\ toClient[c][k].of = s
      BY <3>1
    <3>3. Concerns(toClient[c][k]) /\ Of(toClient[c][k], pipes) = s
      BY <3>2 DEF Ends, Concerns, Of
    <3>4. owner[s] = c
      BY <2>0, <3>3 DEF CoreInv, Ordered
    <3>5. k \in Ending(s)
      BY <3>2, <3>4 DEF Ending, Queued, Ends
    <3>6. QED  BY <3>5
  <2>2. ASSUME NEW s, Waits(s)
        PROVE  \E c \in Clients, o \in Offers :
                 stands[c][o] = s /\ o = dragged[c] /\ (landed[c] \/ Queued(c, {"drop"}) # {})
    BY <2>2 DEF Waits, Lands, Still, Queued
  <2>3. QED  BY <2>1, <2>2 DEF SourcesEnd, EndsInv, Handled
<1>3. QED  BY <1>1, <1>2, InitSources, StepSources, StepEnds, PTL DEF Spec

=============================================================================
