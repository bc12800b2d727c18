---------------------------- MODULE ImRelayProofs ----------------------------
(***************************************************************************)
(* Proofs about ImRelay.  First the types and the invariants of the        *)
(* compositor; then the messages under way on each connection and what     *)
(* they make up for; last what holds once all of them are handled: what an *)
(* application that keeps its text inputs knows of the focus, whom the     *)
(* input method serves, where its popup is and what it shows.              *)
(***************************************************************************)
EXTENDS ImRelay, FiniteSetTheorems, SequenceTheorems, TLAPS

(* Any channel: taking its head and appending a message keep its type. *)
LEMMA TailType ==
  ASSUME NEW S, NEW q \in Seq(S), q # <<>>
  PROVE  Head(q) \in S /\ Tail(q) \in Seq(S)
  OBVIOUS

(* Sending one more message on a channel keeps its type. *)
LEMMA AppendType ==
  ASSUME NEW S, NEW q \in Seq(S), NEW m \in S
  PROVE  Append(q, m) \in Seq(S)
  OBVIOUS

(* So does sending several at once. *)
LEMMA ConcatType ==
  ASSUME NEW S, NEW q \in Seq(S), NEW r \in Seq(S)
  PROVE  q \o r \in Seq(S)
  OBVIOUS

(* The done events of a blur or a send are messages to the context. *)
LEMMA SendDoneType ==
  ASSUME NEW n \in Nat, NEW set \in {"activate", "deactivate", "keep"},
         ChannelTypeOK, MethodTypeOK, SendDone(set, n)
  PROVE  toContext' \in Seq(ToContext) /\ dones' \in Nat
<1> DEFINE m  == [type |-> "done", set |-> set]
           ms == [k \in 1..n |-> m]
<1>1. m \in ToContext
  BY DEF ToContext
<1>2. toContext' = toContext \o ms /\ dones' = dones + n
  BY DEF SendDone
<1> HIDE DEF m
<1>3. ms \in Seq(ToContext)
  BY <1>1
<1>4. toContext \in Seq(ToContext) /\ dones \in Nat
  BY DEF ChannelTypeOK, MethodTypeOK
<1> HIDE DEF ms
<1>5. toContext' \in Seq(ToContext)
  BY <1>2, <1>3, <1>4, ConcatType
<1>6. QED
  BY <1>2, <1>4, <1>5

(* What a text input is sent, an enter, a leave or a done, is a message to it. *)
LEMMA ReplyType ==
  ASSUME NEW i \in Inputs, NEW n \in Nat, NEW text \in Texts,
         ChannelTypeOK, Reply(i, n, text)
  PROVE  toClient' \in [Clients -> Seq(ToClient)]
<1>1. [type |-> "done", input |-> i, serial |-> n, preedit |-> text] \in ToClient
  BY DEF ToClient
<1>2. Owner[i] \in Clients
  BY WireAssumption
<1>3. toClient \in [Clients -> Seq(ToClient)]
  BY DEF ChannelTypeOK
<1>4. QED
  BY <1>1, <1>2, <1>3, AppendType DEF Reply

(* The popup is placed at a position of the screen. *)
LEMMA PlacedType ==
  ASSUME NEW i, NEW mapped, anchor' \in [Inputs -> Rects]
  PROVE  Placed(mapped, i) \in Rects \cup {None, Wild}
  BY DEF Placed

(* Deactivating the input method leaves its flags and the popup typed. *)
LEMMA BlurType ==
  ASSUME NEW n \in Nat, WireTypeOK, Blur(n)
  PROVE  /\ focused' \in NullableInput /\ active' \in BOOLEAN
         /\ popup' \in Rects \cup {None, Wild}
         /\ toContext' \in Seq(ToContext) /\ dones' \in Nat
<1>1. focused' \in NullableInput
  BY DEF Blur, NullableInput
<1>2. CASE present /\ on
  <2>1. active' = FALSE /\ popup' = None /\ SendDone("deactivate", n)
    BY <1>2 DEF Blur
  <2>2. QED
    BY <1>1, <2>1, SendDoneType DEF WireTypeOK
<1>3. CASE ~(present /\ on)
  BY <1>1, <1>3 DEF Blur, WireTypeOK, MethodTypeOK, ChannelTypeOK
<1>4. QED
  BY <1>2, <1>3

(* Sending the state of a text input leaves the server and its channel typed. *)
LEMMA SendType ==
  ASSUME NEW i, NEW set \in {"activate", "keep"},
         WireTypeOK, anchor' \in [Inputs -> Rects], Send(i, set)
  PROVE  /\ active' \in BOOLEAN
         /\ popup' \in Rects \cup {None, Wild}
         /\ toContext' \in Seq(ToContext) /\ dones' \in Nat
<1>1. active' \in BOOLEAN
  BY DEF Send
<1>2. popup' \in Rects \cup {None, Wild}
  BY PlacedType DEF Send
<1>3. SendDone(set, 1)
  BY DEF Send
<1>4. QED
  BY <1>1, <1>2, <1>3, SendDoneType DEF WireTypeOK

(* Focusing a text input leaves the server and its channel typed. *)
LEMMA FocusType ==
  ASSUME NEW i \in Inputs, WireTypeOK, anchor' \in [Inputs -> Rects], Focus(i)
  PROVE  /\ focused' \in NullableInput /\ active' \in BOOLEAN
         /\ popup' \in Rects \cup {None, Wild}
         /\ toContext' \in Seq(ToContext) /\ dones' \in Nat
<1>1. focused' \in NullableInput
  BY DEF Focus, NullableInput
<1>2. CASE present /\ on
  BY <1>1, <1>2, SendType DEF Focus
<1>3. CASE ~(present /\ on)
  BY <1>1, <1>3 DEF Focus, WireTypeOK, MethodTypeOK, ChannelTypeOK
<1>4. QED
  BY <1>2, <1>3

-----------------------------------------------------------------------------
(* Every action of the server keeps the types. *)
LEMMA FocusChangeType ==
  ASSUME WireTypeOK, NEW s \in NullableInput, FocusChange(s)
  PROVE  WireTypeOK'
<1> DEFINE left    == {i \in exists : focus # None /\ surface[i] = focus}
           entered == {i \in exists : s # None /\ Owner[i] = Owner[s]}
           Tell(c, type, s1, is) ==
             IF is = {} \/ \E i \in is : Owner[i] # c THEN <<>>
             ELSE <<[type |-> type, surface |-> s1, inputs |-> is]>>
<1>1. left \in SUBSET Inputs /\ entered \in SUBSET Inputs
  BY DEF WireTypeOK, TextTypeOK
<1>2. Cardinality(left) \in Nat
  BY <1>1, WireAssumption, FS_Subset, FS_CardinalityType
<1>3. \A c \in Clients : Tell(c, "leave", focus, left) \in Seq(ToClient)
  <2>1. left # {} => focus \in Inputs
    BY DEF WireTypeOK, TextTypeOK, NullableInput
  <2> HIDE DEF left
  <2>2. left # {} =>
          [type |-> "leave", surface |-> focus, inputs |-> left] \in ToClient
    BY <1>1, <2>1 DEF ToClient
  <2>3. QED
    BY <2>2
<1>4. \A c \in Clients : Tell(c, "enter", s, entered) \in Seq(ToClient)
  <2>1. entered # {} => s \in Inputs
    BY DEF NullableInput
  <2> HIDE DEF entered
  <2>2. entered # {} =>
          [type |-> "enter", surface |-> s, inputs |-> entered] \in ToClient
    BY <1>1, <2>1 DEF ToClient
  <2>3. QED
    BY <2>2
<1>5. toClient' \in [Clients -> Seq(ToClient)]
  <2>1. toClient' = [c \in Clients |->
          toClient[c] \o Tell(c, "leave", focus, left)
                      \o Tell(c, "enter", s, entered)]
    BY DEF FocusChange
  <2> HIDE DEF Tell, left, entered
  <2>2. ASSUME NEW c \in Clients
        PROVE  toClient[c] \o Tell(c, "leave", focus, left)
                           \o Tell(c, "enter", s, entered) \in Seq(ToClient)
    BY <1>3, <1>4, ConcatType DEF WireTypeOK, ChannelTypeOK
  <2>3. QED
    BY <2>1, <2>2
<1>6. TextTypeOK'
  <2>1. focused' \in NullableInput
    BY <1>2, BlurType DEF FocusChange, Unrelayed, WireTypeOK, TextTypeOK
  <2>2. QED
    BY <2>1 DEF FocusChange, WireTypeOK, TextTypeOK, NullableInput
<1>7. MethodTypeOK' /\ toContext' \in Seq(ToContext)
  <2>1. CASE left = {}
    BY <2>1 DEF FocusChange, Unrelayed, WireTypeOK, MethodTypeOK, ChannelTypeOK
  <2>2. CASE left # {}
    <3>1. /\ Blur(Cardinality(left))
          /\ UNCHANGED <<present, on, current, grab, buffered, lost>>
      BY <2>2 DEF FocusChange
    <3>2. QED
      BY <1>2, <3>1, BlurType DEF WireTypeOK, MethodTypeOK
  <2>3. QED
    BY <2>1, <2>2
<1>8. ClientTypeOK' /\ ContextTypeOK'
  BY DEF FocusChange, WireTypeOK, ClientTypeOK, ContextTypeOK, clientVars,
         contextVars
<1>9. ChannelTypeOK'
  <2>1. UserEvent /\ UNCHANGED <<toServer, fromContext>>
    BY DEF FocusChange
  <2>2. QED
    BY <1>5, <1>7, <2>1 DEF UserEvent, WireTypeOK, ChannelTypeOK
<1>10. QED
  BY <1>6, <1>7, <1>8, <1>9 DEF WireTypeOK

(* The enable listener, wm/main.cc:482. *)
LEMMA EnableType ==
  ASSUME NEW i \in Inputs, WireTypeOK, anchor' \in [Inputs -> Rects], Enable(i)
  PROVE  /\ focused' \in NullableInput /\ active' \in BOOLEAN
         /\ popup' \in Rects \cup {None, Wild}
         /\ toContext' \in Seq(ToContext) /\ dones' \in Nat
         /\ toClient' \in [Clients -> Seq(ToClient)]
<1>1. /\ focused' \in NullableInput /\ active' \in BOOLEAN
      /\ popup' \in Rects \cup {None, Wild}
      /\ toContext' \in Seq(ToContext) /\ dones' \in Nat
  <2>1. CASE surface[i] # None
    BY <2>1, FocusType DEF Enable
  <2>2. CASE surface[i] = None
    BY <2>2 DEF Enable, Unrelayed, WireTypeOK, TextTypeOK, MethodTypeOK,
                ChannelTypeOK
  <2>3. QED
    BY <2>1, <2>2
<1>2. serial[i] + 1 \in Nat /\ Empty \in Texts
  BY WireAssumption DEF WireTypeOK, TextTypeOK
<1>3. QED
  BY <1>1, <1>2, ReplyType DEF Enable, WireTypeOK

(* The disable listener, wm/main.cc:517. *)
LEMMA DisableType ==
  ASSUME NEW i \in Inputs, WireTypeOK, Disable(i)
  PROVE  /\ focused' \in NullableInput /\ active' \in BOOLEAN
         /\ popup' \in Rects \cup {None, Wild}
         /\ toContext' \in Seq(ToContext) /\ dones' \in Nat
         /\ toClient' \in [Clients -> Seq(ToClient)]
<1>1. /\ focused' \in NullableInput /\ active' \in BOOLEAN
      /\ popup' \in Rects \cup {None, Wild}
      /\ toContext' \in Seq(ToContext) /\ dones' \in Nat
  <2>1. CASE focused = i
    BY <2>1, BlurType DEF Disable
  <2>2. CASE focused # i
    BY <2>2 DEF Disable, Unrelayed, WireTypeOK, TextTypeOK, MethodTypeOK,
                ChannelTypeOK
  <2>3. QED
    BY <2>1, <2>2
<1>2. serial[i] + 1 \in Nat /\ Empty \in Texts
  BY WireAssumption DEF WireTypeOK, TextTypeOK
<1>3. QED
  BY <1>1, <1>2, ReplyType DEF Disable, WireTypeOK

(* The commit listener, wm/main.cc:494. *)
LEMMA CommitType ==
  ASSUME NEW i \in Inputs, WireTypeOK, anchor' \in [Inputs -> Rects], Commit(i)
  PROVE  /\ focused' \in NullableInput /\ active' \in BOOLEAN
         /\ popup' \in Rects \cup {None, Wild}
         /\ toContext' \in Seq(ToContext) /\ dones' \in Nat
         /\ toClient' \in [Clients -> Seq(ToClient)]
<1> DEFINE listened == surface[i] # None /\ enabled'[i]
           relayed  == listened /\ focused # None /\ present /\ on
<1>1. /\ focused' \in NullableInput /\ active' \in BOOLEAN
      /\ popup' \in Rects \cup {None, Wild}
      /\ toContext' \in Seq(ToContext) /\ dones' \in Nat
  <2>1. CASE listened /\ focused = None
    BY <2>1, FocusType DEF Commit
  <2>2. CASE relayed
    <3>1. Send(i, "keep") /\ UNCHANGED focused
      BY <2>2 DEF Commit
    <3>2. QED
      BY <3>1, SendType DEF WireTypeOK, TextTypeOK
  <2>3. CASE ~(listened /\ focused = None) /\ ~relayed
    <3>1. Unrelayed
      BY <2>3 DEF Commit
    <3>2. QED
      BY <3>1 DEF Unrelayed, WireTypeOK, TextTypeOK, MethodTypeOK, ChannelTypeOK
  <2>4. QED
    BY <2>1, <2>2, <2>3
<1>2. /\ serial[i] + 1 \in Nat
      /\ (IF relayed THEN current ELSE Empty) \in Texts
  BY WireAssumption DEF WireTypeOK, TextTypeOK, MethodTypeOK
<1>3. Reply(i, serial[i] + 1, IF relayed THEN current ELSE Empty)
  BY DEF Commit
<1> HIDE DEF relayed
<1>4. QED
  BY <1>1, <1>2, <1>3, ReplyType DEF WireTypeOK

(* A commit dispatched to whichever of the three listeners applies. *)
LEMMA ReceiveCommitType ==
  ASSUME WireTypeOK, NEW c \in Clients, ReceiveCommit(c)
  PROVE  WireTypeOK'
<1> DEFINE m == Head(toServer[c])
           i == m.input
<1>1. /\ toServer[c] \in Seq(ToServer) /\ toServer[c] # <<>>
      /\ m.type = "commit"
  BY DEF ReceiveCommit, Arrives, WireTypeOK, ChannelTypeOK
<1>2. m \in ToServer /\ Tail(toServer[c]) \in Seq(ToServer)
  BY <1>1, TailType
<1>3. i \in Inputs /\ m.rect \in Rects
  BY <1>1, <1>2 DEF ToServer
<1>4. /\ enabled' = [enabled EXCEPT ![i] = \/ m.request = "enable"
                                           \/ m.request = "keep" /\ @]
      /\ serial' = [serial EXCEPT ![i] = @ + 1]
      /\ anchor' = IF m.request = "disable" THEN anchor
                   ELSE [anchor EXCEPT ![i] = m.rect]
      /\ CASE enabled'[i] /\ ~enabled[i] -> Enable(i)
           [] enabled[i] /\ ~enabled'[i] -> Disable(i)
           [] OTHER -> Commit(i)
      /\ toServer' = [toServer EXCEPT ![c] = Tail(@)]
      /\ UNCHANGED <<focus, exists, surface, present, on, current, grab,
                     buffered, lost, clientVars, contextVars, fromContext,
                     events>>
  BY DEF ReceiveCommit
<1> HIDE DEF m, i
<1>5. /\ enabled' \in [Inputs -> BOOLEAN]
      /\ serial' \in [Inputs -> Nat]
      /\ anchor' \in [Inputs -> Rects]
  BY <1>3, <1>4 DEF WireTypeOK, TextTypeOK
<1>6. Enable(i) \/ Disable(i) \/ Commit(i)
  BY <1>4
<1>7. /\ focused' \in NullableInput /\ active' \in BOOLEAN
      /\ popup' \in Rects \cup {None, Wild}
      /\ toContext' \in Seq(ToContext) /\ dones' \in Nat
      /\ toClient' \in [Clients -> Seq(ToClient)]
  BY <1>3, <1>5, <1>6, EnableType, DisableType, CommitType
<1>8. TextTypeOK'
  BY <1>4, <1>5, <1>7 DEF WireTypeOK, TextTypeOK
<1>9. MethodTypeOK'
  BY <1>4, <1>7 DEF WireTypeOK, MethodTypeOK
<1>10. ClientTypeOK' /\ ContextTypeOK'
  BY <1>4 DEF WireTypeOK, ClientTypeOK, ContextTypeOK, clientVars, contextVars
<1>11. ChannelTypeOK'
  BY <1>2, <1>4, <1>7 DEF WireTypeOK, ChannelTypeOK
<1>12. QED
  BY <1>8, <1>9, <1>10, <1>11 DEF WireTypeOK

(* An arriving message has the channel's type, and so has what is left. *)
LEMMA ArrivesType ==
  ASSUME NEW S, NEW q \in Seq(S), NEW types, Arrives(q, types)
  PROVE  Head(q) \in S /\ Head(q).type \in types /\ Tail(q) \in Seq(S)
  BY TailType DEF Arrives

(* A text input created, wm/main.cc:1119. *)
LEMMA ReceiveCreateType ==
  ASSUME WireTypeOK, NEW c \in Clients, ReceiveCreate(c)
  PROVE  WireTypeOK'
<1> DEFINE m == Head(toServer[c])
<1>1. toServer[c] \in Seq(ToServer) /\ Arrives(toServer[c], {"create"})
  BY DEF ReceiveCreate, WireTypeOK, ChannelTypeOK
<1>2. m \in ToServer /\ m.type = "create" /\ Tail(toServer[c]) \in Seq(ToServer)
  BY <1>1, ArrivesType
<1>3. m.input \in Inputs
  BY <1>2 DEF ToServer
<1>4. /\ exists' = exists \cup {m.input}
      /\ toServer' = [toServer EXCEPT ![c] = Tail(@)]
      /\ UNCHANGED <<focus, surface, enabled, serial, anchor, focused,
                     methodVars, clientVars, contextVars, toClient, toContext,
                     fromContext, events>>
  BY DEF ReceiveCreate
<1> HIDE DEF m
<1>5. TextTypeOK'
  BY <1>3, <1>4 DEF WireTypeOK, TextTypeOK
<1>6. MethodTypeOK' /\ ClientTypeOK' /\ ContextTypeOK'
  BY <1>4 DEF WireTypeOK, MethodTypeOK, ClientTypeOK, ContextTypeOK,
              methodVars, clientVars, contextVars
<1>7. ChannelTypeOK'
  BY <1>2, <1>4 DEF WireTypeOK, ChannelTypeOK
<1>8. QED
  BY <1>5, <1>6, <1>7 DEF WireTypeOK

(* A text input destroyed, wm/main.cc:528. *)
LEMMA ReceiveDestroyType ==
  ASSUME WireTypeOK, NEW c \in Clients, ReceiveDestroy(c)
  PROVE  WireTypeOK'
<1> DEFINE i == Head(toServer[c]).input
<1>1. toServer[c] \in Seq(ToServer) /\ Arrives(toServer[c], {"destroy"})
  BY DEF ReceiveDestroy, WireTypeOK, ChannelTypeOK
<1>2. Tail(toServer[c]) \in Seq(ToServer)
  BY <1>1, ArrivesType
<1>3. /\ exists' = exists \ {i}
      /\ surface' = [surface EXCEPT ![i] = None]
      /\ IF focused = i THEN Blur(1) ELSE Unrelayed
      /\ toServer' = [toServer EXCEPT ![c] = Tail(@)]
      /\ UNCHANGED <<focus, enabled, serial, anchor, present, on, current,
                     grab, buffered, lost, clientVars, contextVars, toClient,
                     fromContext, events>>
  BY DEF ReceiveDestroy
<1> HIDE DEF i
<1>4. /\ focused' \in NullableInput /\ active' \in BOOLEAN
      /\ popup' \in Rects \cup {None, Wild}
      /\ toContext' \in Seq(ToContext) /\ dones' \in Nat
  <2>1. CASE focused = i
    BY <1>3, <2>1, BlurType
  <2>2. CASE focused # i
    BY <1>3, <2>2 DEF Unrelayed, WireTypeOK, TextTypeOK, MethodTypeOK,
                      ChannelTypeOK
  <2>3. QED
    BY <2>1, <2>2
<1>5. TextTypeOK'
  BY <1>3, <1>4 DEF WireTypeOK, TextTypeOK, NullableInput
<1>6. MethodTypeOK'
  BY <1>3, <1>4 DEF WireTypeOK, MethodTypeOK
<1>7. ClientTypeOK' /\ ContextTypeOK'
  BY <1>3 DEF WireTypeOK, ClientTypeOK, ContextTypeOK, clientVars, contextVars
<1>8. ChannelTypeOK'
  BY <1>2, <1>3, <1>4 DEF WireTypeOK, ChannelTypeOK
<1>9. QED
  BY <1>5, <1>6, <1>7, <1>8 DEF WireTypeOK

(* The key that toggles the input method, wm/main.cc:373. *)
LEMMA ToggleKeyType ==
  ASSUME WireTypeOK, ToggleKey
  PROVE  WireTypeOK'
<1>1. focused \in Inputs /\ on' \in BOOLEAN /\ anchor' \in [Inputs -> Rects]
  BY DEF ToggleKey, WireTypeOK, TextTypeOK, NullableInput, MethodTypeOK
<1>2. /\ active' \in BOOLEAN /\ popup' \in Rects \cup {None, Wild}
      /\ toContext' \in Seq(ToContext) /\ dones' \in Nat
      /\ toClient' \in [Clients -> Seq(ToClient)]
  <2>1. CASE on'
    <3>1. Send(focused, "activate") /\ UNCHANGED toClient
      BY <2>1 DEF ToggleKey
    <3>2. QED
      BY <1>1, <3>1, SendType DEF WireTypeOK, ChannelTypeOK
  <2>2. CASE ~on'
    <3>1. /\ active' = FALSE /\ popup' = None /\ SendDone("deactivate", 1)
          /\ Reply(focused, serial[focused], Empty)
      BY <2>2 DEF ToggleKey
    <3>2. serial[focused] \in Nat /\ Empty \in Texts
      BY <1>1, WireAssumption DEF WireTypeOK, TextTypeOK
    <3>3. QED
      BY <1>1, <3>1, <3>2, SendDoneType, ReplyType DEF WireTypeOK
  <2>3. QED
    BY <2>1, <2>2
<1>3. /\ UserEvent
      /\ UNCHANGED <<focus, exists, surface, enabled, serial, anchor, focused,
                     present, current, grab, buffered, lost, clientVars,
                     contextVars, toServer, fromContext>>
  BY DEF ToggleKey
<1>4. TextTypeOK' /\ ClientTypeOK' /\ ContextTypeOK'
  BY <1>3 DEF WireTypeOK, TextTypeOK, ClientTypeOK, ContextTypeOK, clientVars,
              contextVars
<1>5. MethodTypeOK' /\ ChannelTypeOK'
  BY <1>1, <1>2, <1>3 DEF WireTypeOK, MethodTypeOK, ChannelTypeOK, UserEvent
<1>6. QED
  BY <1>4, <1>5 DEF WireTypeOK

(* A key passed to the grab. *)
LEMMA GrabbedKeyType ==
  ASSUME WireTypeOK, GrabbedKey
  PROVE  WireTypeOK'
<1>1. [type |-> "key"] \in ToContext
  BY DEF ToContext
<1>2. /\ UserEvent
      /\ toContext' = Append(toContext, [type |-> "key"])
      /\ UNCHANGED <<textVars, methodVars, clientVars, contextVars, toServer,
                     toClient, fromContext>>
  BY DEF GrabbedKey
<1>3. toContext' \in Seq(ToContext)
  BY <1>1, <1>2, AppendType DEF WireTypeOK, ChannelTypeOK
<1>4. TextTypeOK' /\ MethodTypeOK' /\ ClientTypeOK' /\ ContextTypeOK'
  BY <1>2 DEF WireTypeOK, TextTypeOK, MethodTypeOK, ClientTypeOK,
              ContextTypeOK, textVars, methodVars, clientVars, contextVars
<1>5. ChannelTypeOK'
  BY <1>2, <1>3 DEF WireTypeOK, ChannelTypeOK, UserEvent
<1>6. QED
  BY <1>4, <1>5 DEF WireTypeOK

(* A commit of the input method relayed, wm/main.cc:1064. *)
LEMMA ReceiveContextCommitType ==
  ASSUME WireTypeOK, ReceiveContextCommit
  PROVE  WireTypeOK'
<1> DEFINE m == Head(fromContext)
<1>1. fromContext \in Seq(FromContext) /\ Arrives(fromContext, {"commit"})
  BY DEF ReceiveContextCommit, WireTypeOK, ChannelTypeOK
<1>2. m \in FromContext /\ m.type = "commit" /\ fromContext' \in Seq(FromContext)
  BY <1>1, ArrivesType DEF ReceiveContextCommit
<1>3. m.preedit \in Texts
  BY <1>2 DEF FromContext
<1>4. /\ current' \in Texts /\ toClient' \in [Clients -> Seq(ToClient)]
      /\ lost' \in BOOLEAN
  <2>1. /\ current' = m.preedit \/ UNCHANGED current
        /\ \/ UNCHANGED toClient
           \/ focused # None /\ Reply(focused, serial[focused], m.preedit)
           \/ focused # None /\ Reply(focused, serial[focused], current)
        /\ lost' = (lost /\ m.forward) \/ lost' = (lost \/ ~m.forward)
    BY DEF ReceiveContextCommit, Take, Pass
  <2>2. focused # None => focused \in Inputs /\ serial[focused] \in Nat
    BY DEF WireTypeOK, TextTypeOK, NullableInput
  <2> HIDE DEF m
  <2>3. QED
    BY <1>3, <2>1, <2>2, ReplyType
       DEF WireTypeOK, MethodTypeOK, ChannelTypeOK
<1>5. UNCHANGED <<textVars, present, on, active, dones, grab, buffered, popup,
                  clientVars, contextVars, toServer, toContext, events>>
  BY DEF ReceiveContextCommit
<1>6. TextTypeOK' /\ ClientTypeOK' /\ ContextTypeOK'
  BY <1>5 DEF WireTypeOK, TextTypeOK, ClientTypeOK, ContextTypeOK, textVars,
              clientVars, contextVars
<1>7. MethodTypeOK' /\ ChannelTypeOK'
  BY <1>2, <1>4, <1>5 DEF WireTypeOK, MethodTypeOK, ChannelTypeOK
<1>8. QED
  BY <1>6, <1>7 DEF WireTypeOK

(* The keyboard grabbed or released by the input method. *)
LEMMA ReceiveGrabType ==
  ASSUME WireTypeOK, ReceiveGrab
  PROVE  WireTypeOK'
<1>1. fromContext' \in Seq(FromContext)
  BY ArrivesType DEF ReceiveGrab, WireTypeOK, ChannelTypeOK
<1>2. /\ grab' \in BOOLEAN
      /\ UNCHANGED <<textVars, present, on, active, dones, current, buffered,
                     popup, lost, clientVars, contextVars, toServer, toClient,
                     toContext, events>>
  BY DEF ReceiveGrab
<1>3. QED
  BY <1>1, <1>2 DEF WireTypeOK, TextTypeOK, MethodTypeOK, ClientTypeOK,
     ContextTypeOK, ChannelTypeOK, textVars, clientVars, contextVars

(* The first buffer of the popup, which maps it. *)
LEMMA ReceiveFrameType ==
  ASSUME WireTypeOK, ReceiveFrame
  PROVE  WireTypeOK'
<1>1. fromContext' \in Seq(FromContext)
  BY ArrivesType DEF ReceiveFrame, WireTypeOK, ChannelTypeOK
<1>2. anchor' \in [Inputs -> Rects]
  BY DEF ReceiveFrame, WireTypeOK, TextTypeOK
<1>3. popup' \in Rects \cup {None, Wild}
  BY <1>2, PlacedType DEF ReceiveFrame
<1>4. /\ buffered' = TRUE
      /\ UNCHANGED <<focus, exists, surface, enabled, serial, anchor, focused,
                     present, on, active, dones, current, grab, lost,
                     clientVars, contextVars, toServer, toClient, toContext,
                     events>>
  BY DEF ReceiveFrame
<1>5. TextTypeOK' /\ ClientTypeOK' /\ ContextTypeOK'
  BY <1>4 DEF WireTypeOK, TextTypeOK, ClientTypeOK, ContextTypeOK, clientVars,
              contextVars
<1>6. MethodTypeOK' /\ ChannelTypeOK'
  BY <1>1, <1>3, <1>4 DEF WireTypeOK, MethodTypeOK, ChannelTypeOK
<1>7. QED
  BY <1>5, <1>6 DEF WireTypeOK

(* The input method process gone. *)
LEMMA ReceiveHangupType ==
  ASSUME WireTypeOK, ReceiveHangup
  PROVE  WireTypeOK'
<1>1. TextTypeOK' /\ ClientTypeOK' /\ ContextTypeOK'
  BY DEF ReceiveHangup, WireTypeOK, TextTypeOK, ClientTypeOK, ContextTypeOK,
         textVars, clientVars, contextVars
<1>2. MethodTypeOK'
  BY WireAssumption DEF ReceiveHangup, MethodTypeOK
<1>3. toContext' = <<>> /\ fromContext' = <<>>
      /\ UNCHANGED <<toServer, toClient, events>>
  BY DEF ReceiveHangup
<1>4. ChannelTypeOK'
  BY <1>3 DEF WireTypeOK, ChannelTypeOK
<1>5. QED
  BY <1>1, <1>2, <1>4 DEF WireTypeOK

-----------------------------------------------------------------------------
(* So does every action of the applications. *)
LEMMA ClientCommitType ==
  ASSUME NEW i \in Inputs, NEW request \in {"enable", "disable", "keep"},
         WireTypeOK, caret' \in [Inputs -> Rects], ClientCommit(i, request)
  PROVE  /\ cserial' \in [Inputs -> Nat]
         /\ toServer' \in [Clients -> Seq(ToServer)]
<1> DEFINE m == [type |-> "commit", input |-> i, request |-> request,
                 rect |-> caret'[i]]
<1>1. m \in ToServer
  BY DEF ToServer
<1>2. Owner[i] \in Clients
  BY WireAssumption
<1>3. /\ cserial' = [cserial EXCEPT ![i] = @ + 1]
      /\ toServer' = [toServer EXCEPT ![Owner[i]] = Append(@, m)]
  BY DEF ClientCommit
<1> HIDE DEF m
<1>4. QED
  BY <1>1, <1>2, <1>3, AppendType DEF WireTypeOK, ClientTypeOK, ChannelTypeOK

(* The enter handler, client.cc:480. *)
LEMMA ReceiveEnterType ==
  ASSUME WireTypeOK, NEW c \in Clients, ReceiveEnter(c)
  PROVE  WireTypeOK'
<1> DEFINE m == Head(toClient[c])
<1>1. toClient[c] \in Seq(ToClient) /\ Arrives(toClient[c], {"enter"})
  BY DEF ReceiveEnter, WireTypeOK, ChannelTypeOK
<1>2. m \in ToClient /\ m.type = "enter" /\ Tail(toClient[c]) \in Seq(ToClient)
  BY <1>1, ArrivesType
<1>3. m.surface \in Inputs
  BY <1>2 DEF ToClient
<1>4. /\ UNCHANGED caret
      /\ \/ UNCHANGED cfocus /\ NoCommit
         \/ /\ cfocus' = [cfocus EXCEPT ![c] = m.surface]
            /\ ClientCommit(m.surface, "enable") \/ NoCommit
      /\ toClient' = [toClient EXCEPT ![c] = Tail(@)]
      /\ UNCHANGED <<textVars, methodVars, contextVars, life, cdone, preedit,
                     valid, position, toContext, fromContext, events>>
  BY DEF ReceiveEnter
<1> HIDE DEF m
<1>5. /\ cserial' \in [Inputs -> Nat]
      /\ toServer' \in [Clients -> Seq(ToServer)]
  BY <1>3, <1>4, ClientCommitType
     DEF NoCommit, WireTypeOK, ClientTypeOK, ChannelTypeOK
<1>6. ClientTypeOK'
  BY <1>3, <1>4, <1>5 DEF WireTypeOK, ClientTypeOK, NullableInput
<1>7. ChannelTypeOK'
  BY <1>2, <1>4, <1>5 DEF WireTypeOK, ChannelTypeOK
<1>8. TextTypeOK' /\ MethodTypeOK' /\ ContextTypeOK'
  BY <1>4 DEF WireTypeOK, TextTypeOK, MethodTypeOK, ContextTypeOK, textVars,
              methodVars, contextVars
<1>9. QED
  BY <1>6, <1>7, <1>8 DEF WireTypeOK

(* The text an application shows is a text. *)
LEMMA ShowType ==
  ASSUME NEW i \in Inputs, NEW t \in Texts, WireTypeOK, Show(i, t)
  PROVE  preedit' \in [Inputs -> Texts] /\ valid' \in [Inputs -> BOOLEAN]
  BY DEF Show, WireTypeOK, ClientTypeOK

(* The leave handler, client.cc:486. *)
LEMMA ReceiveLeaveType ==
  ASSUME WireTypeOK, NEW c \in Clients, ReceiveLeave(c)
  PROVE  WireTypeOK'
<1>1. toClient[c] \in Seq(ToClient) /\ Arrives(toClient[c], {"leave"})
  BY DEF ReceiveLeave, WireTypeOK, ChannelTypeOK
<1>2. Tail(toClient[c]) \in Seq(ToClient)
  BY <1>1, ArrivesType
<1>3. /\ \/ UNCHANGED <<cfocus, preedit, valid>>
         \/ /\ cfocus' = [cfocus EXCEPT ![c] = None] /\ cfocus[c] # None
            /\ Show(cfocus[c], Empty) \/ UNCHANGED <<preedit, valid>>
      /\ toClient' = [toClient EXCEPT ![c] = Tail(@)]
      /\ UNCHANGED <<textVars, methodVars, contextVars, life, cserial, cdone,
                     caret, position, toServer, toContext, fromContext,
                     events>>
  BY DEF ReceiveLeave
<1>4. cfocus[c] # None => cfocus[c] \in Inputs
  BY DEF WireTypeOK, ClientTypeOK, NullableInput
<1>5. preedit' \in [Inputs -> Texts] /\ valid' \in [Inputs -> BOOLEAN]
  BY <1>3, <1>4, ShowType, WireAssumption DEF WireTypeOK, ClientTypeOK
<1>6. ClientTypeOK'
  BY <1>3, <1>5 DEF WireTypeOK, ClientTypeOK, NullableInput
<1>7. ChannelTypeOK'
  BY <1>2, <1>3 DEF WireTypeOK, ChannelTypeOK
<1>8. TextTypeOK' /\ MethodTypeOK' /\ ContextTypeOK'
  BY <1>3 DEF WireTypeOK, TextTypeOK, MethodTypeOK, ContextTypeOK, textVars,
              methodVars, contextVars
<1>9. QED
  BY <1>6, <1>7, <1>8 DEF WireTypeOK

(* The done handler, client.cc:502. *)
LEMMA ReceiveDoneType ==
  ASSUME WireTypeOK, NEW c \in Clients, ReceiveDone(c)
  PROVE  WireTypeOK'
<1> DEFINE m == Head(toClient[c])
           f == cfocus[c]
           t == IF f = m.input THEN m.preedit ELSE Empty
<1>1. toClient[c] \in Seq(ToClient) /\ Arrives(toClient[c], {"done"})
  BY DEF ReceiveDone, WireTypeOK, ChannelTypeOK
<1>2. m \in ToClient /\ m.type = "done" /\ Tail(toClient[c]) \in Seq(ToClient)
  BY <1>1, ArrivesType
<1>3. m.input \in Inputs /\ m.serial \in Nat /\ t \in Texts
  BY <1>2, WireAssumption DEF ToClient
<1>4. /\ \/ UNCHANGED <<cdone, preedit, valid>>
         \/ /\ cdone' = [cdone EXCEPT ![m.input] = m.serial]
            /\ \/ UNCHANGED <<preedit, valid>>
               \/ f # None /\ Show(f, t)
      /\ toClient' = [toClient EXCEPT ![c] = Tail(@)]
      /\ UNCHANGED <<textVars, methodVars, contextVars, life, cfocus, cserial,
                     caret, position, toServer, toContext, fromContext,
                     events>>
  BY DEF ReceiveDone
<1>5. f # None => f \in Inputs
  BY DEF WireTypeOK, ClientTypeOK, NullableInput
<1> HIDE DEF m, f, t
<1>6. preedit' \in [Inputs -> Texts] /\ valid' \in [Inputs -> BOOLEAN]
  BY <1>3, <1>4, <1>5, ShowType DEF WireTypeOK, ClientTypeOK
<1>7. ClientTypeOK'
  BY <1>3, <1>4, <1>6 DEF WireTypeOK, ClientTypeOK
<1>8. ChannelTypeOK'
  BY <1>2, <1>4 DEF WireTypeOK, ChannelTypeOK
<1>9. TextTypeOK' /\ MethodTypeOK' /\ ContextTypeOK'
  BY <1>4 DEF WireTypeOK, TextTypeOK, MethodTypeOK, ContextTypeOK, textVars,
              methodVars, contextVars
<1>10. QED
  BY <1>7, <1>8, <1>9 DEF WireTypeOK

(* The idle callback of the window, vt/window.cc:848. *)
LEMMA IdleType ==
  ASSUME WireTypeOK, NEW i \in Inputs, Idle(i)
  PROVE  WireTypeOK'
<1>1. /\ valid' = [valid EXCEPT ![i] = TRUE]
      /\ caret' = [caret EXCEPT ![i] = <<position[i], preedit[i]>>]
      /\ ClientCommit(i, "keep") \/ NoCommit
      /\ UNCHANGED <<textVars, methodVars, contextVars, life, cfocus, cdone,
                     preedit, position, toClient, toContext, fromContext,
                     events>>
  BY DEF Idle
<1>2. caret' \in [Inputs -> Rects] /\ valid' \in [Inputs -> BOOLEAN]
  BY <1>1 DEF WireTypeOK, ClientTypeOK, Rects
<1>3. cserial' \in [Inputs -> Nat] /\ toServer' \in [Clients -> Seq(ToServer)]
  BY <1>1, <1>2, ClientCommitType
     DEF NoCommit, WireTypeOK, ClientTypeOK, ChannelTypeOK
<1>4. ClientTypeOK' /\ ChannelTypeOK'
  BY <1>1, <1>2, <1>3 DEF WireTypeOK, ClientTypeOK, ChannelTypeOK
<1>5. TextTypeOK' /\ MethodTypeOK' /\ ContextTypeOK'
  BY <1>1 DEF WireTypeOK, TextTypeOK, MethodTypeOK, ContextTypeOK, textVars,
              methodVars, contextVars
<1>6. QED
  BY <1>4, <1>5 DEF WireTypeOK

(* Output that moves the caret. *)
LEMMA OutputType ==
  ASSUME WireTypeOK, NEW i \in Inputs, Output(i)
  PROVE  WireTypeOK'
<1>1. /\ UserEvent
      /\ valid' = [valid EXCEPT ![i] = FALSE]
      /\ UNCHANGED <<textVars, methodVars, contextVars, life, cfocus, cserial,
                     cdone, preedit, caret, channels>>
  BY DEF Output
<1>2. PICK p \in Positions : position' = [position EXCEPT ![i] = p]
  BY DEF Output
<1>3. ClientTypeOK'
  BY <1>1, <1>2 DEF WireTypeOK, ClientTypeOK
<1>4. TextTypeOK' /\ MethodTypeOK' /\ ContextTypeOK'
  BY <1>1 DEF WireTypeOK, TextTypeOK, MethodTypeOK, ContextTypeOK, textVars,
              methodVars, contextVars
<1>5. ChannelTypeOK'
  BY <1>1 DEF WireTypeOK, ChannelTypeOK, channels, UserEvent
<1>6. QED
  BY <1>3, <1>4, <1>5 DEF WireTypeOK

(* An application creates its text input. *)
LEMMA CreateInputType ==
  ASSUME WireTypeOK, NEW i \in Inputs, CreateInput(i)
  PROVE  WireTypeOK'
<1> DEFINE create  == [type |-> "create", input |-> i]
           enable  == [type |-> "commit", input |-> i, request |-> "enable",
                       rect |-> caret[i]]
           created == Append(toServer[Owner[i]], create)
           entered == cfocus[Owner[i]] = i
<1>1. create \in ToServer /\ enable \in ToServer
  BY DEF ToServer, WireTypeOK, ClientTypeOK
<1>2. Owner[i] \in Clients
  BY WireAssumption
<1>3. /\ UserEvent
      /\ life' = [life EXCEPT ![i] = "live"]
      /\ cserial' = [cserial EXCEPT ![i] = IF entered THEN @ + 1 ELSE @]
      /\ toServer' = [toServer EXCEPT ![Owner[i]] =
           IF ~entered THEN created ELSE Append(created, enable)]
      /\ UNCHANGED <<textVars, methodVars, contextVars, cfocus, cdone, preedit,
                     valid, caret, position, toClient, toContext, fromContext>>
  BY DEF CreateInput
<1> HIDE DEF create, enable
<1>4. created \in Seq(ToServer) /\ Append(created, enable) \in Seq(ToServer)
  BY <1>1, <1>2, AppendType DEF WireTypeOK, ChannelTypeOK
<1> HIDE DEF created, entered
<1>5. ClientTypeOK'
  BY <1>3 DEF WireTypeOK, ClientTypeOK
<1>6. ChannelTypeOK'
  BY <1>2, <1>3, <1>4 DEF WireTypeOK, ChannelTypeOK, UserEvent
<1>7. TextTypeOK' /\ MethodTypeOK' /\ ContextTypeOK'
  BY <1>3 DEF WireTypeOK, TextTypeOK, MethodTypeOK, ContextTypeOK, textVars,
              methodVars, contextVars
<1>8. QED
  BY <1>5, <1>6, <1>7 DEF WireTypeOK

(* An application destroys its text input. *)
LEMMA DestroyInputType ==
  ASSUME WireTypeOK, NEW i \in Inputs, DestroyInput(i)
  PROVE  WireTypeOK'
<1> DEFINE destroy == [type |-> "destroy", input |-> i]
           disable == [type |-> "commit", input |-> i, request |-> "disable",
                       rect |-> caret[i]]
<1>1. destroy \in ToServer /\ disable \in ToServer
  BY DEF ToServer, WireTypeOK, ClientTypeOK
<1>2. Owner[i] \in Clients
  BY WireAssumption
<1>3. /\ UserEvent
      /\ life' = [life EXCEPT ![i] = "gone"]
      /\ \/ /\ Show(i, Empty)
            /\ cserial' = [cserial EXCEPT ![i] = @ + 1]
            /\ toServer' = [toServer EXCEPT ![Owner[i]] =
                              @ \o <<disable, destroy>>]
         \/ /\ toServer' = [toServer EXCEPT ![Owner[i]] = Append(@, destroy)]
            /\ UNCHANGED <<preedit, valid, cserial>>
      /\ UNCHANGED <<textVars, methodVars, contextVars, cfocus, cdone, caret,
                     position, toClient, toContext, fromContext>>
  BY DEF DestroyInput
<1> HIDE DEF destroy, disable
<1>4. toServer' \in [Clients -> Seq(ToServer)]
  <2>1. /\ toServer[Owner[i]] \o <<disable, destroy>> \in Seq(ToServer)
        /\ Append(toServer[Owner[i]], destroy) \in Seq(ToServer)
    BY <1>1, <1>2, AppendType, ConcatType DEF WireTypeOK, ChannelTypeOK
  <2>2. QED
    BY <1>2, <1>3, <2>1 DEF WireTypeOK, ChannelTypeOK
<1>5. preedit' \in [Inputs -> Texts] /\ valid' \in [Inputs -> BOOLEAN]
  BY <1>3, ShowType, WireAssumption DEF WireTypeOK, ClientTypeOK
<1>6. ClientTypeOK'
  <2>1. cserial' \in [Inputs -> Nat]
    <3>1. cserial' = [cserial EXCEPT ![i] = @ + 1] \/ cserial' = cserial
      BY <1>3
    <3>2. QED
      BY <3>1 DEF WireTypeOK, ClientTypeOK
  <2>2. life' \in [Inputs -> {"none", "live", "gone"}]
    BY <1>3 DEF WireTypeOK, ClientTypeOK
  <2>3. UNCHANGED <<cfocus, cdone, caret, position>>
    BY <1>3
  <2>4. QED
    BY <1>5, <2>1, <2>2, <2>3 DEF WireTypeOK, ClientTypeOK
<1>7. ChannelTypeOK'
  BY <1>3, <1>4 DEF WireTypeOK, ChannelTypeOK, UserEvent
<1>8. TextTypeOK' /\ MethodTypeOK' /\ ContextTypeOK'
  BY <1>3 DEF WireTypeOK, TextTypeOK, MethodTypeOK, ContextTypeOK, textVars,
              methodVars, contextVars
<1>9. QED
  BY <1>6, <1>7, <1>8 DEF WireTypeOK

-----------------------------------------------------------------------------
(* And every action of the input method process. *)
LEMMA ContextMessages ==
  /\ [type |-> "grab"] \in FromContext
  /\ [type |-> "release"] \in FromContext
  /\ [type |-> "hangup"] \in FromContext
  /\ Frame \in FromContext
  /\ \A n \in Nat, t \in Texts :
       /\ Composed(n, t) \in FromContext
       /\ [Composed(n, t) EXCEPT !.forward = TRUE] \in FromContext
  BY DEF FromContext, Frame, Composed

(* The input method process starts. *)
LEMMA StartType ==
  ASSUME WireTypeOK, Start
  PROVE  WireTypeOK'
<1>1. fromContext' \in Seq(FromContext)
  BY ContextMessages DEF Start
<1>2. /\ UserEvent
      /\ running' = TRUE /\ iactive' = FALSE /\ iserial' = 0 /\ igrab' = FALSE
      /\ cs' = Empty /\ repeating' = FALSE
      /\ present' = TRUE /\ on' = FALSE
      /\ UNCHANGED <<textVars, active, dones, current, grab, buffered, popup,
                     lost, clientVars, toServer, toClient, toContext>>
  BY DEF Start
<1>3. TextTypeOK' /\ MethodTypeOK' /\ ClientTypeOK'
  BY <1>2 DEF WireTypeOK, TextTypeOK, MethodTypeOK, ClientTypeOK, textVars,
              clientVars
<1>4. ContextTypeOK'
  BY <1>2, WireAssumption DEF ContextTypeOK
<1>5. ChannelTypeOK'
  BY <1>1, <1>2 DEF WireTypeOK, ChannelTypeOK, UserEvent
<1>6. QED
  BY <1>3, <1>4, <1>5 DEF WireTypeOK

(* The input method process exits. *)
LEMMA ExitType ==
  ASSUME WireTypeOK, Exit
  PROVE  WireTypeOK'
<1>1. fromContext' \in Seq(FromContext)
  BY ContextMessages, AppendType DEF Exit, WireTypeOK, ChannelTypeOK
<1>2. /\ UserEvent
      /\ running' = FALSE /\ iactive' = FALSE /\ iserial' = 0 /\ igrab' = FALSE
      /\ cs' = Empty /\ repeating' = FALSE
      /\ UNCHANGED <<textVars, methodVars, clientVars, toServer, toClient,
                     toContext>>
  BY DEF Exit
<1>3. TextTypeOK' /\ MethodTypeOK' /\ ClientTypeOK'
  BY <1>2 DEF WireTypeOK, TextTypeOK, MethodTypeOK, ClientTypeOK, textVars,
              methodVars, clientVars
<1>4. ContextTypeOK'
  BY <1>2, WireAssumption DEF ContextTypeOK
<1>5. ChannelTypeOK'
  BY <1>1, <1>2 DEF WireTypeOK, ChannelTypeOK, UserEvent
<1>6. QED
  BY <1>3, <1>4, <1>5 DEF WireTypeOK

(* The done handler of the context, im/main.cc:174. *)
LEMMA ContextDoneType ==
  ASSUME WireTypeOK, ContextDone
  PROVE  WireTypeOK'
<1>1. toContext' \in Seq(ToContext)
  BY ArrivesType DEF ContextDone, WireTypeOK, ChannelTypeOK
<1>2. iserial' \in Nat /\ iactive' \in BOOLEAN /\ igrab' \in BOOLEAN
  <2>1. iserial' = iserial + 1
    BY DEF ContextDone, CountDone
  <2>2. iactive' = TRUE \/ iactive' = FALSE \/ iactive' = iactive
    BY DEF ContextDone
  <2>3. igrab' = iactive'
    BY DEF ContextDone
  <2>4. iactive' \in BOOLEAN
    BY <2>2 DEF WireTypeOK, ContextTypeOK
  <2>5. QED
    BY <2>1, <2>3, <2>4 DEF WireTypeOK, ContextTypeOK
<1>3. fromContext' \in Seq(FromContext) /\ repeating' \in BOOLEAN
  <2>1. TakeKeyboard \/ GiveBackKeyboard \/ UNCHANGED <<fromContext, repeating>>
    BY DEF ContextDone
  <2>2. CASE TakeKeyboard
    <3> DEFINE resend == IF cs = Empty THEN <<>> ELSE <<Composed(iserial', cs)>>
    <3>1. Composed(iserial', cs) \in FromContext
      BY <1>2, ContextMessages DEF WireTypeOK, ContextTypeOK
    <3>2. [type |-> "grab"] \in FromContext /\ Frame \in FromContext
      BY ContextMessages
    <3>3. /\ resend \in Seq(FromContext)
          /\ <<[type |-> "grab"]>> \in Seq(FromContext)
          /\ <<Frame>> \in Seq(FromContext)
      BY <3>1, <3>2
    <3>4. fromContext' = fromContext \o <<[type |-> "grab"]>> \o resend \o <<Frame>>
          /\ UNCHANGED repeating
      BY <2>2 DEF TakeKeyboard
    <3> HIDE DEF resend
    <3>5. QED
      BY <3>3, <3>4, ConcatType DEF WireTypeOK, ContextTypeOK, ChannelTypeOK
  <2>3. CASE GiveBackKeyboard
    BY <2>3, ContextMessages, AppendType
       DEF GiveBackKeyboard, WireTypeOK, ChannelTypeOK
  <2>4. CASE UNCHANGED <<fromContext, repeating>>
    BY <2>4 DEF WireTypeOK, ContextTypeOK, ChannelTypeOK
  <2>5. QED
    BY <2>1, <2>2, <2>3, <2>4
<1>4. UNCHANGED <<textVars, methodVars, clientVars, running, cs, toServer,
                  toClient, events>>
  BY DEF ContextDone
<1>5. TextTypeOK' /\ MethodTypeOK' /\ ClientTypeOK'
  BY <1>4 DEF WireTypeOK, TextTypeOK, MethodTypeOK, ClientTypeOK, textVars,
              methodVars, clientVars
<1>6. ContextTypeOK' /\ ChannelTypeOK'
  BY <1>1, <1>2, <1>3, <1>4 DEF WireTypeOK, ContextTypeOK, ChannelTypeOK
<1>7. QED
  BY <1>5, <1>6 DEF WireTypeOK

(* What the engine sends for a key, and a key handed back, are messages. *)
LEMMA EngineTakesKeyType ==
  ASSUME WireTypeOK, NEW ACTION back, EngineTakesKey(back),
         cs' \in Texts => back \in Seq(FromContext)
  PROVE  cs' \in Texts /\ fromContext' \in Seq(FromContext)
<1>1. PICK out \in SeqOf(Texts, MaxSends), redraw \in {<<>>, <<Frame>>} :
        /\ cs' = IF out = <<>> THEN cs ELSE out[Len(out)]
        /\ fromContext' = fromContext
                          \o [k \in DOMAIN out |-> Composed(iserial, out[k])]
                          \o redraw \o back
  BY DEF EngineTakesKey
<1>2. PICK n \in 0..MaxSends : out \in [1..n -> Texts]
  BY DEF SeqOf
<1>3. n \in Nat /\ out \in Seq(Texts) /\ Len(out) = n /\ DOMAIN out = 1..n
  BY <1>2, WireAssumption
<1>4. cs' \in Texts
  <2>1. CASE out = <<>>
    BY <1>1, <2>1 DEF WireTypeOK, ContextTypeOK
  <2>2. CASE out # <<>>
    <3>1. n \in 1..n
      BY <1>3, <2>2
    <3>2. QED
      BY <1>1, <1>2, <1>3, <2>2, <3>1
  <2>3. QED
    BY <2>1, <2>2
<1>5. redraw \in Seq(FromContext)
  <2>1. Frame \in FromContext
    BY ContextMessages
  <2>2. <<Frame>> \in Seq(FromContext) /\ <<>> \in Seq(FromContext)
    BY <2>1
  <2>3. redraw = <<>> \/ redraw = <<Frame>>
    BY <1>1
  <2>4. QED
    BY <2>2, <2>3
<1> DEFINE ms == [k \in DOMAIN out |-> Composed(iserial, out[k])]
<1>6. ms \in Seq(FromContext)
  <2>1. \A k \in 1..n : Composed(iserial, out[k]) \in FromContext
    <3>1. iserial \in Nat
      BY DEF WireTypeOK, ContextTypeOK
    <3>2. \A m \in Nat, t \in Texts : Composed(m, t) \in FromContext
      BY ContextMessages
    <3>3. QED
      BY <1>2, <3>1, <3>2
  <2>2. QED
    BY <1>3, <2>1
<1>7. fromContext' = fromContext \o ms \o redraw \o back
  BY <1>1
<1> HIDE DEF ms
<1>8. fromContext \o ms \o redraw \in Seq(FromContext)
  BY <1>5, <1>6, ConcatType DEF WireTypeOK, ChannelTypeOK
<1>9. QED
  BY <1>4, <1>7, <1>8, ConcatType

(* A key of the grab, im/main.cc:204. *)
LEMMA ContextKeyType ==
  ASSUME WireTypeOK, ContextKey
  PROVE  WireTypeOK'
<1>1. toContext' \in Seq(ToContext)
  BY ArrivesType DEF ContextKey, WireTypeOK, ChannelTypeOK
<1>2. cs' \in Texts /\ fromContext' \in Seq(FromContext)
      /\ repeating' \in BOOLEAN
  <2>1. CASE UNCHANGED <<cs, fromContext, repeating>>
    BY <2>1 DEF WireTypeOK, ContextTypeOK, ChannelTypeOK
  <2>2. CASE EngineTakesKey(<<>>) /\ repeating' \in BOOLEAN
    <3>1. <<>> \in Seq(FromContext)
      OBVIOUS
    <3>2. QED
      BY <2>2, <3>1, EngineTakesKeyType
  <2>3. CASE EngineTakesKey(HandedBack) /\ repeating' \in BOOLEAN
    <3>1. cs' \in Texts => HandedBack \in Seq(FromContext)
      <4>1. ASSUME cs' \in Texts
            PROVE  [Composed(iserial, cs') EXCEPT !.forward = TRUE] \in FromContext
        BY <4>1, ContextMessages DEF WireTypeOK, ContextTypeOK
      <4>2. QED
        BY <4>1 DEF HandedBack
    <3>2. QED
      BY <2>3, <3>1, EngineTakesKeyType
  <2>4. QED
    BY <2>1, <2>2, <2>3 DEF ContextKey
<1>3. UNCHANGED <<textVars, methodVars, clientVars, running, iactive, iserial,
                  igrab, toServer, toClient, events>>
  BY DEF ContextKey
<1>4. TextTypeOK' /\ MethodTypeOK' /\ ClientTypeOK'
  BY <1>3 DEF WireTypeOK, TextTypeOK, MethodTypeOK, ClientTypeOK, textVars,
              methodVars, clientVars
<1>5. ContextTypeOK' /\ ChannelTypeOK'
  BY <1>1, <1>2, <1>3 DEF WireTypeOK, ContextTypeOK, ChannelTypeOK
<1>6. QED
  BY <1>4, <1>5 DEF WireTypeOK

(* The repeat timer, im/main.cc:182. *)
LEMMA RepeatType ==
  ASSUME WireTypeOK, Repeat
  PROVE  WireTypeOK'
<1>1. cs' \in Texts /\ fromContext' \in Seq(FromContext)
  <2>1. EngineTakesKey(<<>>)
    BY DEF Repeat
  <2>2. <<>> \in Seq(FromContext)
    OBVIOUS
  <2>3. QED
    BY <2>1, <2>2, EngineTakesKeyType
<1>2. /\ UserEvent
      /\ UNCHANGED <<textVars, methodVars, clientVars, running, iactive,
                     iserial, igrab, repeating, toServer, toClient, toContext>>
  BY DEF Repeat
<1>3. TextTypeOK' /\ MethodTypeOK' /\ ClientTypeOK'
  BY <1>2 DEF WireTypeOK, TextTypeOK, MethodTypeOK, ClientTypeOK, textVars,
              methodVars, clientVars
<1>4. ContextTypeOK' /\ ChannelTypeOK'
  BY <1>1, <1>2 DEF WireTypeOK, ContextTypeOK, ChannelTypeOK, UserEvent
<1>5. QED
  BY <1>3, <1>4 DEF WireTypeOK

-----------------------------------------------------------------------------
(* The program starts typed. *)
LEMMA InitType == Init => TypeOK
<1> SUFFICES ASSUME Init PROVE WireTypeOK
  BY DEF TypeOK
<1>1. TextTypeOK
  BY WireAssumption DEF Init, TextTypeOK, NullableInput, Rects
<1>2. MethodTypeOK
  BY WireAssumption DEF Init, MethodTypeOK
<1>3. ClientTypeOK
  BY WireAssumption DEF Init, ClientTypeOK, NullableInput, Rects
<1>4. ContextTypeOK
  BY WireAssumption DEF Init, ContextTypeOK
<1>5. ChannelTypeOK
  BY ContextMessages DEF Init, ChannelTypeOK
<1>6. QED
  BY <1>1, <1>2, <1>3, <1>4, <1>5 DEF WireTypeOK

(* Every step keeps the types: one step per action. *)
LEMMA NextType == TypeOK /\ [Next]_vars => TypeOK'
<1> SUFFICES ASSUME WireTypeOK, [Next]_vars PROVE WireTypeOK'
  BY DEF TypeOK
<1>1. CASE ServerNext
  BY <1>1, FocusChangeType, ReceiveCommitType, ReceiveCreateType,
     ReceiveDestroyType, ToggleKeyType, GrabbedKeyType,
     ReceiveContextCommitType, ReceiveGrabType, ReceiveFrameType,
     ReceiveHangupType
     DEF ServerNext, ServerReceives, ServerReceivesContext
<1>2. CASE ClientNext
  BY <1>2, ReceiveEnterType, ReceiveLeaveType, ReceiveDoneType, IdleType,
     OutputType, CreateInputType, DestroyInputType
     DEF ClientNext, ClientReceives
<1>3. CASE ContextNext
  BY <1>3, StartType, ExitType, ContextDoneType, ContextKeyType, RepeatType
     DEF ContextNext, ContextReceives
<1>4. CASE UNCHANGED vars
  BY <1>4 DEF vars, textVars, methodVars, clientVars, contextVars, channels,
     WireTypeOK, TextTypeOK, MethodTypeOK, ClientTypeOK, ContextTypeOK,
     ChannelTypeOK
<1>5. QED
  BY <1>1, <1>2, <1>3, <1>4 DEF Next

(* Type correctness: whatever the numbers of applications, text inputs and *)
(* compositions, the three parties and their channels only ever hold       *)
(* values and messages of the kinds wm, libxade and im declare.            *)
THEOREM TypeCorrect == Spec => []TypeOK
  BY InitType, NextType, PTL DEF Spec

-----------------------------------------------------------------------------
(* The inductive invariant of the server.  ActiveIffServing alone is not   *)
(* inductive: that activating finds a surface to place the popup by needs  *)
(* FocusedIsEntered, and that the popup is unmapped when the input method  *)
(* goes needs both.                                                        *)
ServerInv == ActiveIffServing /\ FocusedIsEntered /\ PopupIffActive

(* Anything that leaves the variables of the server alone keeps it. *)
LEMMA ServerInvFrame ==
  ASSUME ServerInv,
         UNCHANGED <<focus, exists, surface, enabled, focused, present, on,
                     active, buffered, popup>>
  PROVE  ServerInv'
  BY DEF ServerInv, ActiveIffServing, FocusedIsEntered, PopupIffActive

(* The popup is placed on the screen exactly when it is mapped. *)
LEMMA PlacedWhenMapped ==
  ASSUME NEW mapped \in BOOLEAN, NEW i \in Inputs, surface[i] # None,
         anchor' \in [Inputs -> Rects]
  PROVE  /\ Placed(mapped, i) # Wild
         /\ Placed(mapped, i) # None <=> mapped
<1>1. anchor'[i] # None /\ anchor'[i] # Wild /\ None # Wild
  BY WireAssumption
<1>2. QED
  BY <1>1 DEF Placed

(* What blurring, sending and focusing establish. *)
LEMMA BlurServer ==
  ASSUME ServerInv, NEW n, Blur(n), UNCHANGED <<present, on, buffered>>
  PROVE  focused' = None /\ ActiveIffServing' /\ PopupIffActive'
<1>1. focused' = None
  BY DEF Blur
<1>2. CASE present /\ on
  <2>1. active' = FALSE /\ popup' = None
    BY <1>2 DEF Blur
  <2>2. QED
    BY <1>1, <2>1, WireAssumption DEF ActiveIffServing, PopupIffActive
<1>3. CASE ~(present /\ on)
  <2>1. UNCHANGED <<active, popup>>
    BY <1>3 DEF Blur
  <2>2. QED
    BY <1>1, <1>3, <2>1 DEF ServerInv, ActiveIffServing, PopupIffActive
<1>4. QED
  BY <1>2, <1>3

(* Sending keeps what the server knows of its text input. *)
LEMMA SendServer ==
  ASSUME WireTypeOK, NEW i \in Inputs, surface[i] # None, NEW set, Send(i, set),
         anchor' \in [Inputs -> Rects], buffered' = buffered
  PROVE  /\ active' = (active \/ set = "activate")
         /\ PopupIffActive'
<1>1. /\ active' = (active \/ set = "activate")
      /\ popup' = Placed(active' /\ buffered, i)
  BY DEF Send
<1>2. (active' /\ buffered) \in BOOLEAN
  BY DEF WireTypeOK, MethodTypeOK
<1>3. popup' # Wild /\ (popup' # None <=> active' /\ buffered)
  BY <1>1, <1>2, PlacedWhenMapped
<1>4. QED
  BY <1>1, <1>3 DEF PopupIffActive

(* Focusing an enabled input of the entered surface establishes it. *)
LEMMA FocusServer ==
  ASSUME WireTypeOK, ServerInv, NEW i \in Inputs, surface[i] # None, Focus(i),
         anchor' \in [Inputs -> Rects], UNCHANGED <<present, on, buffered>>
  PROVE  focused' = i /\ ActiveIffServing' /\ PopupIffActive'
<1>1. focused' = i /\ i # None
  BY WireAssumption DEF Focus
<1>2. CASE present /\ on
  <2>1. Send(i, "activate")
    BY <1>2 DEF Focus
  <2>2. active' = TRUE /\ PopupIffActive'
    BY <2>1, SendServer
  <2>3. QED
    BY <1>1, <1>2, <2>2 DEF ActiveIffServing
<1>3. CASE ~(present /\ on)
  <2>1. UNCHANGED <<active, popup>>
    BY <1>3 DEF Focus
  <2>2. QED
    BY <1>1, <1>3, <2>1 DEF ServerInv, ActiveIffServing, PopupIffActive
<1>4. QED
  BY <1>2, <1>3

(* Dropping a stale commit leaves the invariant alone. *)
LEMMA UnrelayedServer ==
  ASSUME ServerInv, Unrelayed, UNCHANGED <<present, on, buffered>>
  PROVE  focused' = focused /\ ActiveIffServing' /\ PopupIffActive'
  BY DEF Unrelayed, ServerInv, ActiveIffServing, PopupIffActive

(* The keyboard focus moves, wm/main.cc:1271. *)
LEMMA FocusChangeServer ==
  ASSUME WireTypeOK, ServerInv, NEW s \in NullableInput, FocusChange(s)
  PROVE  ServerInv'
<1> DEFINE left    == {i \in exists : focus # None /\ surface[i] = focus}
           entered == {i \in exists : s # None /\ Owner[i] = Owner[s]}
<1>1. /\ focus' = s
      /\ surface' = [i \in Inputs |-> IF i \in entered THEN s
                                      ELSE IF i \in left THEN None
                                      ELSE surface[i]]
      /\ IF left = {} THEN Unrelayed ELSE Blur(Cardinality(left))
      /\ UNCHANGED <<exists, enabled, present, on, buffered>>
  BY DEF FocusChange
<1>2. focused' = None /\ ActiveIffServing' /\ PopupIffActive'
  <2>1. CASE left = {}
    <3>1. focused' = focused /\ ActiveIffServing' /\ PopupIffActive'
      BY <1>1, <2>1, UnrelayedServer
    <3>2. focused # None => focused \in left
      BY DEF ServerInv, FocusedIsEntered, WireTypeOK, TextTypeOK, NullableInput
    <3>3. QED
      BY <2>1, <3>1, <3>2
  <2>2. CASE left # {}
    <3>1. Blur(Cardinality(left)) /\ UNCHANGED <<present, on, buffered>>
      BY <1>1, <2>2
    <3>2. QED
      BY <3>1, BlurServer
  <2>3. QED
    BY <2>1, <2>2
<1>3. \A i \in Inputs : surface'[i] # None => surface'[i] = s /\ i \in exists
  BY <1>1 DEF ServerInv, FocusedIsEntered
<1>4. FocusedIsEntered'
  BY <1>1, <1>2, <1>3 DEF FocusedIsEntered
<1>5. QED
  BY <1>2, <1>4 DEF ServerInv

(* The three listeners keep the invariant of the server. *)
LEMMA ReceiveCommitServer ==
  ASSUME WireTypeOK, WireTypeOK', ServerInv, NEW c \in Clients,
         ReceiveCommit(c)
  PROVE  ServerInv'
<1> DEFINE m == Head(toServer[c])
           i == m.input
<1>1. toServer[c] \in Seq(ToServer) /\ Arrives(toServer[c], {"commit"})
  BY DEF ReceiveCommit, WireTypeOK, ChannelTypeOK
<1>2. m \in ToServer /\ m.type = "commit"
  BY <1>1, ArrivesType
<1>3. i \in Inputs
  BY <1>2 DEF ToServer
<1>4. /\ enabled' = [enabled EXCEPT ![i] = \/ m.request = "enable"
                                           \/ m.request = "keep" /\ @]
      /\ CASE enabled'[i] /\ ~enabled[i] -> Enable(i)
           [] enabled[i] /\ ~enabled'[i] -> Disable(i)
           [] OTHER -> Commit(i)
      /\ UNCHANGED <<focus, exists, surface, present, on, buffered>>
  BY DEF ReceiveCommit
<1> HIDE DEF m, i
<1>5. anchor' \in [Inputs -> Rects]
  BY DEF WireTypeOK, TextTypeOK
<1>6. \A j \in Inputs \ {i} : enabled'[j] = enabled[j]
  BY <1>4 DEF WireTypeOK, TextTypeOK
<1>7. \A j \in Inputs : surface'[j] # None => surface'[j] = focus' /\ j \in exists'
  BY <1>4 DEF ServerInv, FocusedIsEntered
<1>8. CASE enabled'[i] /\ ~enabled[i]
  <2>1. Enable(i)
    BY <1>4, <1>8
  <2>2. CASE surface[i] # None
    <3>1. focused' = i /\ ActiveIffServing' /\ PopupIffActive'
      BY <1>3, <1>4, <1>5, <2>1, <2>2, FocusServer DEF Enable
    <3>2. QED
      BY <1>3, <1>4, <1>7, <1>8, <2>2, <3>1 DEF ServerInv, FocusedIsEntered
  <2>3. CASE surface[i] = None
    <3>1. focused' = focused /\ ActiveIffServing' /\ PopupIffActive'
      BY <1>4, <2>1, <2>3, UnrelayedServer DEF Enable
    <3>2. focused # None => focused # i /\ focused \in Inputs
      BY <2>3 DEF ServerInv, FocusedIsEntered, WireTypeOK, TextTypeOK,
                  NullableInput
    <3>3. QED
      BY <1>4, <1>6, <1>7, <3>1, <3>2 DEF ServerInv, FocusedIsEntered
  <2>4. QED
    BY <2>2, <2>3
<1>9. CASE enabled[i] /\ ~enabled'[i]
  <2>1. Disable(i)
    BY <1>4, <1>9
  <2>2. CASE focused = i
    <3>1. focused' = None /\ ActiveIffServing' /\ PopupIffActive'
      BY <1>4, <2>1, <2>2, BlurServer DEF Disable
    <3>2. QED
      BY <1>7, <3>1 DEF ServerInv, FocusedIsEntered
  <2>3. CASE focused # i
    <3>1. focused' = focused /\ ActiveIffServing' /\ PopupIffActive'
      BY <1>4, <2>1, <2>3, UnrelayedServer DEF Disable
    <3>2. focused # None => focused \in Inputs
      BY DEF WireTypeOK, TextTypeOK, NullableInput
    <3>3. QED
      BY <1>4, <1>6, <1>7, <2>3, <3>1, <3>2 DEF ServerInv, FocusedIsEntered
  <2>4. QED
    BY <2>2, <2>3
<1>10. CASE enabled[i] = enabled'[i]
  <2> DEFINE listened == surface[i] # None /\ enabled'[i]
             relayed  == listened /\ focused # None /\ present /\ on
  <2>1. CASE listened /\ focused = None
    <3>1. Focus(i)
      BY <1>4, <1>10, <2>1 DEF Commit
    <3>2. focused' = i /\ ActiveIffServing' /\ PopupIffActive'
      BY <1>3, <1>4, <1>5, <2>1, <3>1, FocusServer
    <3>3. QED
      BY <1>3, <1>4, <1>7, <2>1, <3>2 DEF ServerInv, FocusedIsEntered
  <2>2. CASE relayed
    <3>1. Send(i, "keep") /\ UNCHANGED focused
      BY <1>4, <1>10, <2>2 DEF Commit
    <3>2. active' = (active \/ "keep" = "activate") /\ PopupIffActive'
      BY <1>3, <1>4, <1>5, <2>2, <3>1, SendServer
    <3>3. active' = active
      BY <3>2 DEF WireTypeOK, MethodTypeOK
    <3>4. ActiveIffServing'
      BY <1>4, <3>1, <3>3 DEF ServerInv, ActiveIffServing
    <3>5. FocusedIsEntered'
      BY <1>4, <1>6, <1>7, <1>10, <3>1
         DEF ServerInv, FocusedIsEntered, WireTypeOK, TextTypeOK, NullableInput
    <3>6. QED
      BY <3>2, <3>4, <3>5 DEF ServerInv
  <2>3. CASE ~(listened /\ focused = None) /\ ~relayed
    <3>1. Unrelayed
      BY <1>4, <1>10, <2>3 DEF Commit
    <3>2. focused' = focused /\ ActiveIffServing' /\ PopupIffActive'
      BY <1>4, <3>1, UnrelayedServer
    <3>3. QED
      BY <1>4, <1>6, <1>7, <1>10, <3>2
         DEF ServerInv, FocusedIsEntered, WireTypeOK, TextTypeOK, NullableInput
  <2>4. QED
    BY <2>1, <2>2, <2>3
<1>11. QED
  BY <1>3, <1>8, <1>9, <1>10 DEF WireTypeOK, TextTypeOK

(* A new text input is neither enabled nor focused. *)
LEMMA ReceiveCreateServer ==
  ASSUME ServerInv, NEW c \in Clients, ReceiveCreate(c)
  PROVE  ServerInv'
<1>1. /\ exists \subseteq exists'
      /\ UNCHANGED <<focus, surface, enabled, focused, methodVars>>
  BY DEF ReceiveCreate
<1>2. QED
  BY <1>1 DEF methodVars, ServerInv, ActiveIffServing, FocusedIsEntered,
              PopupIffActive

(* A text input that goes away is blurred first. *)
LEMMA ReceiveDestroyServer ==
  ASSUME WireTypeOK, ServerInv, NEW c \in Clients, ReceiveDestroy(c)
  PROVE  ServerInv'
<1> DEFINE i == Head(toServer[c]).input
<1>1. /\ exists' = exists \ {i}
      /\ surface' = [surface EXCEPT ![i] = None]
      /\ IF focused = i THEN Blur(1) ELSE Unrelayed
      /\ UNCHANGED <<focus, enabled, present, on, buffered>>
  BY DEF ReceiveDestroy
<1> HIDE DEF i
<1>2. \A j \in Inputs : surface'[j] # None => /\ j # i
                                              /\ surface'[j] = surface[j]
  BY <1>1 DEF WireTypeOK, TextTypeOK
<1>3. \A j \in Inputs : surface'[j] # None => surface'[j] = focus' /\ j \in exists'
  BY <1>1, <1>2 DEF ServerInv, FocusedIsEntered
<1>4. CASE focused = i
  <2>1. focused' = None /\ ActiveIffServing' /\ PopupIffActive'
    BY <1>1, <1>4, BlurServer
  <2>2. QED
    BY <1>3, <2>1 DEF ServerInv, FocusedIsEntered
<1>5. CASE focused # i
  <2>1. focused' = focused /\ ActiveIffServing' /\ PopupIffActive'
    BY <1>1, <1>5, UnrelayedServer
  <2>2. focused # None => surface'[focused] = surface[focused]
    BY <1>1, <1>5 DEF WireTypeOK, TextTypeOK, NullableInput
  <2>3. QED
    BY <1>1, <1>3, <2>1, <2>2 DEF ServerInv, FocusedIsEntered
<1>6. QED
  BY <1>4, <1>5

(* Toggling off blurs; toggling on focuses nothing by itself. *)
LEMMA ToggleKeyServer ==
  ASSUME WireTypeOK, WireTypeOK', ServerInv, ToggleKey
  PROVE  ServerInv'
<1>1. /\ present /\ focused # None /\ on' = ~on
      /\ UNCHANGED <<focus, exists, surface, enabled, focused, present,
                     buffered, anchor>>
  BY DEF ToggleKey
<1>2. focused \in Inputs /\ surface[focused] # None
  BY <1>1 DEF WireTypeOK, TextTypeOK, NullableInput, ServerInv, FocusedIsEntered
<1>3. FocusedIsEntered'
  BY <1>1 DEF ServerInv, FocusedIsEntered
<1>4. CASE on'
  <2>1. Send(focused, "activate")
    BY <1>4 DEF ToggleKey
  <2>2. anchor' \in [Inputs -> Rects]
    BY DEF WireTypeOK, TextTypeOK
  <2>3. active' = TRUE /\ PopupIffActive'
    BY <1>1, <1>2, <2>1, <2>2, SendServer
  <2>4. QED
    BY <1>1, <1>3, <1>4, <2>3 DEF ServerInv, ActiveIffServing
<1>5. CASE ~on'
  <2>1. active' = FALSE /\ popup' = None
    BY <1>5 DEF ToggleKey
  <2>2. QED
    BY <1>1, <1>3, <1>5, <2>1, WireAssumption
       DEF ServerInv, ActiveIffServing, PopupIffActive
<1>6. QED
  BY <1>4, <1>5

(* Only an active input method has its popup mapped. *)
LEMMA ReceiveFrameServer ==
  ASSUME WireTypeOK, ServerInv, ReceiveFrame
  PROVE  ServerInv'
<1>1. /\ buffered' = TRUE /\ UNCHANGED anchor
      /\ popup' = Placed(active, focused)
      /\ UNCHANGED <<focus, exists, surface, enabled, focused, present, on,
                     active>>
  BY DEF ReceiveFrame
<1>2. CASE active
  <2>1. focused \in Inputs /\ surface[focused] # None
    BY <1>2 DEF WireTypeOK, TextTypeOK, NullableInput, ServerInv,
                ActiveIffServing, FocusedIsEntered
  <2>2. popup' # Wild /\ popup' # None
    <3>1. anchor' \in [Inputs -> Rects] /\ active \in BOOLEAN
      BY <1>1 DEF WireTypeOK, TextTypeOK, MethodTypeOK
    <3>2. QED
      BY <1>1, <1>2, <2>1, <3>1, PlacedWhenMapped
  <2>3. QED
    BY <1>1, <1>2, <2>2
       DEF ServerInv, ActiveIffServing, FocusedIsEntered, PopupIffActive
<1>3. CASE ~active
  <2>1. popup' = None
    BY <1>1, <1>3 DEF Placed
  <2>2. QED
    BY <1>1, <1>3, <2>1, WireAssumption
       DEF ServerInv, ActiveIffServing, FocusedIsEntered, PopupIffActive
<1>4. QED
  BY <1>2, <1>3

(* The process gone takes its flags and its popup along. *)
LEMMA ReceiveHangupServer ==
  ASSUME ServerInv, ReceiveHangup
  PROVE  ServerInv'
<1>1. /\ present' = FALSE /\ active' = FALSE /\ popup' = None
      /\ UNCHANGED textVars
  BY DEF ReceiveHangup
<1>2. QED
  BY <1>1, WireAssumption
     DEF textVars, ServerInv, ActiveIffServing, FocusedIsEntered, PopupIffActive

(* A new process starts inactive, with no popup. *)
LEMMA StartServer ==
  ASSUME ServerInv, Start
  PROVE  ServerInv'
<1>1. /\ ~present /\ on' = FALSE
      /\ UNCHANGED <<textVars, active, buffered, popup>>
  BY DEF Start
<1>2. QED
  BY <1>1
     DEF textVars, ServerInv, ActiveIffServing, FocusedIsEntered, PopupIffActive

(* The other actions leave the server alone. *)
LEMMA ClientServer ==
  ASSUME ServerInv, ClientNext
  PROVE  ServerInv'
<1>1. UNCHANGED <<textVars, methodVars>>
  BY DEF ClientNext, ClientReceives, ReceiveEnter, ReceiveLeave, ReceiveDone,
         Idle, Output, CreateInput, DestroyInput
<1>2. QED
  BY <1>1, ServerInvFrame DEF textVars, methodVars

(* Every step keeps the invariant of the server. *)
LEMMA NextServer == TypeOK /\ TypeOK' /\ ServerInv /\ [Next]_vars => ServerInv'
<1> SUFFICES ASSUME WireTypeOK, WireTypeOK', ServerInv, [Next]_vars
             PROVE  ServerInv'
  BY DEF TypeOK
<1>1. ASSUME GrabbedKey \/ ReceiveContextCommit \/ ReceiveGrab
      PROVE  ServerInv'
  BY <1>1, ServerInvFrame
     DEF GrabbedKey, ReceiveContextCommit, ReceiveGrab, textVars, methodVars
<1>2. ASSUME Exit \/ ContextDone \/ ContextKey \/ Repeat
      PROVE  ServerInv'
  BY <1>2, ServerInvFrame
     DEF Exit, ContextDone, ContextKey, Repeat, textVars, methodVars
<1>3. ASSUME UNCHANGED vars
      PROVE  ServerInv'
  BY <1>3, ServerInvFrame DEF vars, textVars, methodVars
<1>4. CASE ServerNext
  BY <1>1, <1>4, FocusChangeServer, ReceiveCommitServer, ReceiveCreateServer,
     ReceiveDestroyServer, ToggleKeyServer, ReceiveFrameServer,
     ReceiveHangupServer
     DEF ServerNext, ServerReceives, ServerReceivesContext
<1>5. CASE ContextNext
  BY <1>2, <1>5, StartServer DEF ContextNext, ContextReceives
<1>6. QED
  BY <1>3, <1>4, <1>5, ClientServer DEF Next

(* Nothing is focused at the start. *)
LEMMA InitServer == Init => ServerInv
  BY WireAssumption
     DEF Init, ServerInv, ActiveIffServing, FocusedIsEntered, PopupIffActive

(* The state of the server is consistent: what is active, focused, mapped   *)
(* and entered agree, together because each needs the others to be kept.    *)
THEOREM ServerCorrect == Spec => []ServerInv
<1>1. TypeOK /\ TypeOK' /\ ServerInv /\ [Next]_vars => ServerInv'
  BY NextServer
<1>2. QED
  BY <1>1, TypeCorrect, InitServer, PTL DEF Spec

(* The input method object is active exactly while it is on and serves a   *)
(* text input: wlroots' flag, v_on and v_focused_text_input never part.    *)
THEOREM ActiveCorrect == Spec => []ActiveIffServing
<1>1. ServerInv => ActiveIffServing
  BY DEF ServerInv
<1>2. QED
  BY <1>1, ServerCorrect, PTL

(* The text input served has entered the focused surface and is enabled.   *)
THEOREM FocusedCorrect == Spec => []FocusedIsEntered
<1>1. ServerInv => FocusedIsEntered
  BY DEF ServerInv
<1>2. QED
  BY <1>1, ServerCorrect, PTL

(* t_input_popup::f_move, called with the popup mapped, never reads        *)
(* through a null v_focused_text_input or focused_surface, and the popup   *)
(* is mapped exactly while the input method is active and has drawn it.    *)
THEOREM PopupCorrect == Spec => []PopupIffActive
<1>1. ServerInv => PopupIffActive
  BY DEF ServerInv
<1>2. QED
  BY <1>1, ServerCorrect, PTL

-----------------------------------------------------------------------------
(* Only the grab starts the repeat timer, and releasing it stops the timer. *)
LEMMA NextRepeat == RepeatHasGrab /\ [Next]_vars => RepeatHasGrab'
<1> SUFFICES ASSUME RepeatHasGrab, [Next]_vars PROVE RepeatHasGrab'
  OBVIOUS
<1>1. CASE ServerNext
  <2>1. UNCHANGED contextVars
    BY <1>1 DEF ServerNext, ServerReceives, ServerReceivesContext, FocusChange,
       ReceiveCommit, ReceiveCreate, ReceiveDestroy, ToggleKey, GrabbedKey,
       ReceiveContextCommit, ReceiveGrab, ReceiveFrame, ReceiveHangup
  <2>2. QED
    BY <2>1 DEF contextVars, RepeatHasGrab
<1>2. CASE ClientNext
  <2>1. UNCHANGED contextVars
    BY <1>2 DEF ClientNext, ClientReceives, ReceiveEnter, ReceiveLeave,
       ReceiveDone, Idle, Output, CreateInput, DestroyInput
  <2>2. QED
    BY <2>1 DEF contextVars, RepeatHasGrab
<1>3. CASE ContextDone
  <2>1. igrab' = iactive'
    BY <1>3 DEF ContextDone
  <2>2. CASE ~iactive' /\ igrab
    BY <1>3, <2>2 DEF ContextDone, GiveBackKeyboard, RepeatHasGrab
  <2>3. CASE iactive' \/ ~igrab
    BY <1>3, <2>1, <2>3 DEF ContextDone, TakeKeyboard, RepeatHasGrab
  <2>4. QED
    BY <2>2, <2>3
<1>4. CASE Start \/ Exit \/ ContextKey \/ Repeat
  BY <1>4 DEF Start, Exit, ContextKey, Repeat, RepeatHasGrab
<1>5. CASE UNCHANGED vars
  BY <1>5 DEF vars, contextVars, RepeatHasGrab
<1>6. QED
  BY <1>1, <1>2, <1>3, <1>4, <1>5 DEF Next, ContextNext, ContextReceives

(* Key repeat never outlives the keyboard grab it came from.               *)
THEOREM RepeatCorrect == Spec => []RepeatHasGrab
<1>1. Init => RepeatHasGrab
  BY DEF Init, RepeatHasGrab
<1>2. QED
  BY <1>1, NextRepeat, PTL DEF Spec

-----------------------------------------------------------------------------
(***************************************************************************)
(* What the messages on their way will still do: the proofs of             *)
(* GrabFollowsActivation and SerialsAgree.  Both compare the two ends of a *)
(* connection, and are proved from what its messages in flight make up.    *)
(*                                                                         *)
(* First what is still on its way in a channel, a queue of messages, and   *)
(* the lemmas about it these proofs and those of RelayFocusProofs share.   *)
(* A set of messages M stands for those a party listens to.                *)
(***************************************************************************)

(* Where the messages of M are in the channel q. *)
Hits(q, M) == {k \in DOMAIN q : q[k] \in M}

(* How many they are. *)
Pending(q, M) == Cardinality(Hits(q, M))

(* Once q is handled by a party that the messages of M put in a state,     *)
(* those of G in a good one, it is in a good state; before says whether it *)
(* is in one now.                                                          *)
Leaves(q, M, G, before) ==
  \/ \E k \in Hits(q, M) : q[k] \in G /\ \A j \in Hits(q, M) : j <= k
  \/ Hits(q, M) = {} /\ before

(* Each message of N finds a party that the messages of M put in a state in *)
(* a good one; before says whether it is in one now.                       *)
InTurn(q, M, N, G, before) ==
  \A k \in DOMAIN q : q[k] \in N => Leaves(SubSeq(q, 1, k - 1), M, G, before)

-----------------------------------------------------------------------------
(* The messages in a channel are finitely many. *)
LEMMA PendingType ==
  ASSUME NEW S, NEW q \in Seq(S), NEW M
  PROVE  IsFiniteSet(Hits(q, M)) /\ Pending(q, M) \in Nat
<1>1. Hits(q, M) \in SUBSET (1..Len(q)) /\ Len(q) \in Int
  BY DEF Hits
<1>2. IsFiniteSet(1..Len(q))
  BY <1>1, FS_Interval
<1>3. IsFiniteSet(Hits(q, M))
  BY <1>1, <1>2, FS_Subset
<1>4. QED
  BY <1>3, FS_CardinalityType DEF Pending

(* Nothing is pending in an empty channel, or of messages it has none of. *)
LEMMA PendingNone ==
  ASSUME NEW q, NEW M, Hits(q, M) = {}
  PROVE  Pending(q, M) = 0
  BY FS_EmptySet DEF Pending

(* An empty channel has none. *)
LEMMA HitsEmpty ==
  ASSUME NEW M
  PROVE  Hits(<<>>, M) = {}
  BY DEF Hits

(* A channel with one message. *)
LEMMA HitsOne ==
  ASSUME NEW m, NEW M
  PROVE  Hits(<<m>>, M) = IF m \in M THEN {1} ELSE {}
  BY DEF Hits

(* What is pending in two pieces of a channel is pending in the whole. *)
LEMMA HitsConcat ==
  ASSUME NEW S, NEW q \in Seq(S), NEW r \in Seq(S), NEW M
  PROVE  Hits(q \o r, M) = Hits(q, M) \cup {k + Len(q) : k \in Hits(r, M)}
<1>1. /\ DOMAIN (q \o r) = 1..(Len(q) + Len(r))
      /\ DOMAIN q = 1..Len(q) /\ DOMAIN r = 1..Len(r)
      /\ Len(q) \in Nat /\ Len(r) \in Nat
  OBVIOUS
<1>2. \A k \in 1..(Len(q) + Len(r)) :
        (q \o r)[k] = IF k <= Len(q) THEN q[k] ELSE r[k - Len(q)]
  OBVIOUS
<1>3. ASSUME NEW k \in Hits(q \o r, M)
      PROVE  k \in Hits(q, M) \cup {j + Len(q) : j \in Hits(r, M)}
  <2>1. k \in 1..(Len(q) + Len(r)) /\ (q \o r)[k] \in M
    BY <1>1 DEF Hits
  <2>2. CASE k <= Len(q)
    BY <1>1, <1>2, <2>1, <2>2 DEF Hits
  <2>3. CASE k > Len(q)
    <3>1. k - Len(q) \in Hits(r, M)
      BY <1>1, <1>2, <2>1, <2>3 DEF Hits
    <3>2. k = (k - Len(q)) + Len(q)
      BY <1>1, <2>1
    <3>3. QED
      BY <3>1, <3>2
  <2>4. QED
    BY <1>1, <2>1, <2>2, <2>3
<1>4. ASSUME NEW k \in Hits(q, M)
      PROVE  k \in Hits(q \o r, M)
  BY <1>1, <1>2 DEF Hits
<1>5. ASSUME NEW k \in Hits(r, M)
      PROVE  k + Len(q) \in Hits(q \o r, M)
  <2>1. k \in 1..Len(r) /\ r[k] \in M
    BY <1>1 DEF Hits
  <2>2. /\ k + Len(q) \in 1..(Len(q) + Len(r))
        /\ ~(k + Len(q) <= Len(q)) /\ (k + Len(q)) - Len(q) = k
    BY <1>1, <2>1
  <2>3. QED
    BY <1>1, <1>2, <2>1, <2>2 DEF Hits
<1>6. QED
  BY <1>3, <1>4, <1>5

(* ... and they add up. *)
LEMMA PendingConcat ==
  ASSUME NEW S, NEW q \in Seq(S), NEW r \in Seq(S), NEW M
  PROVE  Pending(q \o r, M) = Pending(q, M) + Pending(r, M)
<1> DEFINE n == Len(q)
           moved == {k + n : k \in Hits(r, M)}
<1>1. n \in Nat /\ Hits(q, M) \subseteq 1..n /\ Hits(r, M) \subseteq 1..Len(r)
      /\ Len(r) \in Nat
  BY DEF Hits
<1>2. IsFiniteSet(Hits(q, M)) /\ IsFiniteSet(Hits(r, M))
      /\ Pending(q, M) \in Nat
  BY PendingType
<1>3. Hits(q \o r, M) = Hits(q, M) \cup moved
  BY HitsConcat
<1> HIDE DEF n
<1>4. ExistsBijection(Hits(r, M), moved)
  <2> DEFINE f == [k \in Hits(r, M) |-> k + n]
  <2>1. f \in Bijection(Hits(r, M), moved)
    BY <1>1 DEF Bijection, Injection, Surjection, IsInjective
  <2>2. QED
    BY <2>1 DEF ExistsBijection
<1>5. IsFiniteSet(moved) /\ Cardinality(moved) = Cardinality(Hits(r, M))
  BY <1>2, <1>4, FS_Bijection
<1>6. Hits(q, M) \cap moved = {}
  BY <1>1
<1>7. Cardinality(Hits(q, M) \cap moved) = 0
  BY <1>6, FS_EmptySet
<1>8. /\ Cardinality(Hits(q, M)) \in Nat
      /\ Cardinality(moved) \in Nat
  BY <1>2, <1>5, FS_CardinalityType
<1> HIDE DEF moved
<1>9. Cardinality(Hits(q, M) \cup moved)
        = Cardinality(Hits(q, M)) + Cardinality(moved)
  <2>1. Cardinality(Hits(q, M) \cup moved)
          = Cardinality(Hits(q, M)) + Cardinality(moved)
              - Cardinality(Hits(q, M) \cap moved)
    BY <1>2, <1>5, FS_Union
  <2>2. \A a, b \in Nat : a + b - 0 = a + b
    OBVIOUS
  <2>3. QED
    BY <1>7, <1>8, <2>1, <2>2
<1>10. QED
  BY <1>3, <1>5, <1>9 DEF Pending

(* What a channel leaves its reader in, piece by piece: the second piece    *)
(* starts from where the first one leaves it.                               *)
LEMMA LeavesConcat ==
  ASSUME NEW S, NEW q \in Seq(S), NEW r \in Seq(S), NEW M, NEW G,
         NEW before
  PROVE  Leaves(q \o r, M, G, before)
           <=> Leaves(r, M, G, Leaves(q, M, G, before))
<1>1. /\ Len(q) \in Nat /\ Len(r) \in Nat
      /\ Hits(q, M) \subseteq 1..Len(q) /\ Hits(r, M) \subseteq 1..Len(r)
  BY DEF Hits
<1>2. Hits(q \o r, M) = Hits(q, M) \cup {k + Len(q) : k \in Hits(r, M)}
  BY HitsConcat
<1>3. /\ \A k \in 1..Len(q) : (q \o r)[k] = q[k]
      /\ \A k \in 1..Len(r) : (q \o r)[k + Len(q)] = r[k]
  OBVIOUS
<1>4. CASE Hits(r, M) = {}
  <2>1. Hits(q \o r, M) = Hits(q, M)
    BY <1>2, <1>4
  <2>2. Leaves(q \o r, M, G, before) <=> Leaves(q, M, G, before)
    BY <1>1, <1>3, <2>1 DEF Leaves
  <2>3. Leaves(r, M, G, Leaves(q, M, G, before)) <=> Leaves(q, M, G, before)
    BY <1>4 DEF Leaves
  <2>4. QED
    BY <2>2, <2>3
<1>5. CASE Hits(r, M) # {}
  <2> DEFINE L == \E k \in Hits(r, M) : /\ r[k] \in G
                                         /\ \A j \in Hits(r, M) : j <= k
  <2>1. Leaves(r, M, G, Leaves(q, M, G, before)) <=> L
    BY <1>5 DEF Leaves
  <2>2. ASSUME L PROVE Leaves(q \o r, M, G, before)
    <3>1. PICK k \in Hits(r, M) : r[k] \in G /\ \A j \in Hits(r, M) : j <= k
      BY <2>2
    <3>2. k + Len(q) \in Hits(q \o r, M) /\ (q \o r)[k + Len(q)] \in G
      BY <1>1, <1>2, <1>3, <3>1
    <3>3. \A j \in Hits(q \o r, M) : j <= k + Len(q)
      BY <1>1, <1>2, <3>1
    <3>4. QED
      BY <3>2, <3>3 DEF Leaves
  <2>3. ASSUME Leaves(q \o r, M, G, before) PROVE L
    <3>1. Hits(q \o r, M) # {}
      BY <1>2, <1>5
    <3>2. PICK k \in Hits(q \o r, M) : /\ (q \o r)[k] \in G
                                       /\ \A j \in Hits(q \o r, M) : j <= k
      BY <2>3, <3>1 DEF Leaves
    <3> DEFINE n == Len(q)
    <3>3. n \in Nat /\ Hits(r, M) \subseteq Nat \ {0}
      BY <1>1
    <3>4. \A j \in Hits(r, M) : j + n <= k
      BY <1>2, <3>2
    <3>5. k \notin Hits(q, M)
      <4>1. PICK j \in Hits(r, M) : TRUE
        BY <1>5
      <4>2. j \in Nat \ {0} /\ j + n <= k
        BY <3>3, <3>4, <4>1
      <4>3. ASSUME k \in 1..n PROVE FALSE
        BY <3>3, <4>2, <4>3
      <4>4. QED
        BY <1>1, <4>3
    <3>6. PICK h \in Hits(r, M) : k = h + Len(q)
      BY <1>2, <3>5
    <3>7. r[h] \in G
      BY <1>1, <1>3, <3>2, <3>6
    <3>8. ASSUME NEW j \in Hits(r, M) PROVE j <= h
      <4>1. j \in Nat /\ h \in Nat /\ n \in Nat /\ j + n <= h + n
        BY <3>3, <3>4, <3>6
      <4> HIDE DEF n
      <4>2. QED
        BY <4>1
    <3>9. QED
      BY <3>7, <3>8
  <2>4. QED
    BY <2>1, <2>2, <2>3
<1>6. QED
  BY <1>4, <1>5

(* One message.                                                             *)
LEMMA LeavesOne ==
  ASSUME NEW m, NEW M, NEW G, NEW before
  PROVE  Leaves(<<m>>, M, G, before)
           <=> IF m \in M THEN m \in G ELSE before
  BY HitsOne DEF Leaves

(* A channel in which nothing is listened to changes nothing. *)
LEMMA LeavesNone ==
  ASSUME NEW q, NEW M, NEW G, NEW before, Hits(q, M) = {}
  PROVE  Leaves(q, M, G, before) <=> before
  BY DEF Leaves

(* One more message in the channel. *)
LEMMA Appended ==
  ASSUME NEW S, NEW q \in Seq(S), NEW m \in S, NEW M
  PROVE  /\ Pending(Append(q, m), M)
              = IF m \in M THEN Pending(q, M) + 1 ELSE Pending(q, M)
         /\ \A G, before : Leaves(Append(q, m), M, G, before)
              <=> IF m \in M THEN m \in G ELSE Leaves(q, M, G, before)
<1>1. Append(q, m) = q \o <<m>> /\ <<m>> \in Seq(S)
  OBVIOUS
<1>2. Pending(<<m>>, M) = IF m \in M THEN 1 ELSE 0
  BY HitsOne, FS_Singleton, FS_EmptySet DEF Pending
<1>3. Pending(q \o <<m>>, M) = Pending(q, M) + Pending(<<m>>, M)
      /\ Pending(q, M) \in Nat
  BY <1>1, PendingConcat, PendingType
<1>4. ASSUME NEW G, NEW before
      PROVE  Leaves(Append(q, m), M, G, before)
               <=> IF m \in M THEN m \in G ELSE Leaves(q, M, G, before)
  <2>1. Leaves(q \o <<m>>, M, G, before)
          <=> Leaves(<<m>>, M, G, Leaves(q, M, G, before))
    BY <1>1, LeavesConcat
  <2>2. Leaves(<<m>>, M, G, Leaves(q, M, G, before))
          <=> IF m \in M THEN m \in G ELSE Leaves(q, M, G, before)
    BY LeavesOne
  <2>3. QED
    BY <1>1, <2>1, <2>2
<1>5. QED
  BY <1>1, <1>2, <1>3, <1>4

(* The first message is taken from the channel. *)
LEMMA Taken ==
  ASSUME NEW S, NEW q \in Seq(S), q # <<>>, NEW M
  PROVE  /\ Pending(q, M) = IF Head(q) \in M THEN Pending(Tail(q), M) + 1
                                             ELSE Pending(Tail(q), M)
         /\ \A G, before : Leaves(q, M, G, before)
              <=> Leaves(Tail(q), M, G, IF Head(q) \in M THEN Head(q) \in G
                                                         ELSE before)
<1> DEFINE m == Head(q)
           r == Tail(q)
<1>1. q = <<m>> \o r /\ r \in Seq(S) /\ <<m>> \in Seq(S)
  OBVIOUS
<1> HIDE DEF m, r
<1>2. Pending(<<m>>, M) = IF m \in M THEN 1 ELSE 0
  BY HitsOne, FS_Singleton, FS_EmptySet DEF Pending
<1>3. /\ Pending(q, M) = Pending(<<m>>, M) + Pending(r, M)
      /\ Pending(r, M) \in Nat
  BY <1>1, PendingConcat, PendingType
<1>4. Pending(q, M) = IF m \in M THEN Pending(r, M) + 1 ELSE Pending(r, M)
  BY <1>2, <1>3
<1>5. ASSUME NEW G, NEW before
      PROVE  Leaves(q, M, G, before)
               <=> Leaves(r, M, G, IF m \in M THEN m \in G ELSE before)
  <2>1. Leaves(q, M, G, before)
          <=> Leaves(r, M, G, Leaves(<<m>>, M, G, before))
    BY <1>1, LeavesConcat
  <2>2. Leaves(<<m>>, M, G, before) <=> (IF m \in M THEN m \in G ELSE before)
    BY LeavesOne
  <2>3. QED
    BY <2>1, <2>2 DEF Leaves
<1>6. QED
  BY <1>4, <1>5 DEF m, r

(* Several messages that are not listened to. *)
LEMMA Passed ==
  ASSUME NEW S, NEW q \in Seq(S), NEW r \in Seq(S), NEW M,
         \A k \in DOMAIN r : r[k] \notin M
  PROVE  /\ Pending(q \o r, M) = Pending(q, M)
         /\ \A G, before :
              Leaves(q \o r, M, G, before) <=> Leaves(q, M, G, before)
<1>1. Hits(r, M) = {}
  BY DEF Hits
<1>2. Pending(r, M) = 0 /\ Pending(q, M) \in Nat
  BY <1>1, PendingNone, PendingType
<1>3. Pending(q \o r, M) = Pending(q, M)
  BY <1>2, PendingConcat
<1>4. ASSUME NEW G, NEW before
      PROVE  Leaves(q \o r, M, G, before) <=> Leaves(q, M, G, before)
  BY <1>1, LeavesConcat, LeavesNone
<1>5. QED
  BY <1>3, <1>4

(* The same message n times over. *)
LEMMA Repeated ==
  ASSUME NEW S, NEW q \in Seq(S), NEW m \in S, NEW n \in Nat \ {0}, NEW M
  PROVE  LET r == [k \in 1..n |-> m]
         IN  /\ Pending(q \o r, M)
                  = IF m \in M THEN Pending(q, M) + n ELSE Pending(q, M)
             /\ \A G, before : Leaves(q \o r, M, G, before)
                  <=> IF m \in M THEN m \in G ELSE Leaves(q, M, G, before)
<1> DEFINE r == [k \in 1..n |-> m]
<1>1. /\ r \in Seq(S) /\ Len(r) = n /\ DOMAIN r = 1..n
      /\ \A k \in 1..n : r[k] = m
  OBVIOUS
<1> HIDE DEF r
<1>2. CASE m \in M
  <2>1. Hits(r, M) = 1..n
    BY <1>1, <1>2 DEF Hits
  <2>2. Cardinality(1..n) = IF 1 > n THEN 0 ELSE n - 1 + 1
    BY FS_Interval
  <2>3. Pending(r, M) = n
    BY <2>1, <2>2 DEF Pending
  <2>4. Pending(q \o r, M) = Pending(q, M) + n
    BY <1>1, <2>3, PendingConcat
  <2>5. ASSUME NEW G, NEW before
        PROVE  Leaves(q \o r, M, G, before) <=> m \in G
    <3>1. Leaves(q \o r, M, G, before)
            <=> Leaves(r, M, G, Leaves(q, M, G, before))
      BY <1>1, LeavesConcat
    <3>2. n \in Hits(r, M) /\ r[n] = m /\ \A j \in Hits(r, M) : j <= n
      BY <1>1, <2>1
    <3>3. m \in G => Leaves(r, M, G, Leaves(q, M, G, before))
      BY <3>2 DEF Leaves
    <3>4. Leaves(r, M, G, Leaves(q, M, G, before)) => m \in G
      BY <1>1, <2>1, <3>2 DEF Leaves
    <3>5. QED
      BY <3>1, <3>3, <3>4
  <2>6. QED
    BY <1>2, <2>4, <2>5 DEF r
<1>3. CASE m \notin M
  BY <1>1, <1>3, Passed DEF r
<1>4. QED
  BY <1>2, <1>3

(* Once everything is handled, nothing else is left to happen. *)
LEMMA LeavesEmpty ==
  ASSUME NEW M, NEW G, NEW before
  PROVE  /\ Pending(<<>>, M) = 0
         /\ Leaves(<<>>, M, G, before) <=> before
  BY HitsEmpty, PendingNone, LeavesNone

(* Nothing is pending exactly where nothing is.                             *)
LEMMA PendingZero ==
  ASSUME NEW S, NEW q \in Seq(S), NEW M
  PROVE  Pending(q, M) = 0 <=> \A k \in DOMAIN q : q[k] \notin M
<1>1. Pending(q, M) = 0 <=> Hits(q, M) = {}
  BY PendingType, FS_EmptySet DEF Pending
<1>2. QED
  BY <1>1 DEF Hits

(* Two messages of which one is listened to.                                *)
LEMMA PendingTwo ==
  ASSUME NEW a, NEW b, NEW M, a \in M <=> b \notin M
  PROVE  Pending(<<a, b>>, M) = 1
<1>1. Hits(<<a, b>>, M) = {1} \/ Hits(<<a, b>>, M) = {2}
  BY DEF Hits
<1>2. QED
  BY <1>1, FS_Singleton DEF Pending

(* One message.                                                             *)
LEMMA PendingOne ==
  ASSUME NEW m, NEW M
  PROVE  Pending(<<m>>, M) = IF m \in M THEN 1 ELSE 0
  BY HitsOne, FS_Singleton, FS_EmptySet DEF Pending

(* Two messages sent one after the other.                                  *)
LEMMA AppendTwo ==
  ASSUME NEW S, NEW q \in Seq(S), NEW a \in S, NEW b \in S
  PROVE  Append(Append(q, a), b) = q \o <<a, b>>
<1>1. /\ Append(q, a) = q \o <<a>> /\ <<a>> \in Seq(S)
  BY AppendIsConcat
<1>2. <<a>> \in Seq(S) /\ <<b>> \in Seq(S) /\ <<a, b>> = <<a>> \o <<b>>
  <2>1. <<a>> \in Seq(S) /\ <<b>> \in Seq(S)
    OBVIOUS
  <2>2. Append(<<a>>, b) = <<a, b>>
    <3>1. <<a, b>> \in Seq(S) /\ Append(<<a>>, b) \in Seq(S)
      OBVIOUS
    <3>2. Len(<<a, b>>) = 2 /\ Len(Append(<<a>>, b)) = 2
      OBVIOUS
    <3>3. Append(<<a>>, b)[1] = a /\ Append(<<a>>, b)[2] = b
      OBVIOUS
    <3>4. \A k \in 1..2 : <<a, b>>[k] = Append(<<a>>, b)[k]
      BY <3>3
    <3>5. QED
      BY <3>1, <3>2, <3>4, SeqEqual
  <2>3. Append(<<a>>, b) = <<a>> \o <<b>>
    BY <2>1, AppendIsConcat
  <2>4. QED
    BY <2>1, <2>2, <2>3
<1>3. q \o <<a>> \in Seq(S)
  BY <1>2
<1>4. Append(q \o <<a>>, b) = (q \o <<a>>) \o <<b>>
  BY <1>3, AppendIsConcat
<1>5. (q \o <<a>>) \o <<b>> = q \o (<<a>> \o <<b>>)
  <2> DEFINE x == <<a>>
             y == <<b>>
  <2>1. x \in Seq(S) /\ y \in Seq(S)
    BY <1>2
  <2> HIDE DEF x, y
  <2>2. (q \o x) \o y = q \o (x \o y)
    BY <2>1, ConcatAssociative
  <2>3. QED
    BY <2>2 DEF x, y
<1>6. QED
  BY <1>1, <1>2, <1>4, <1>5

(* The first messages of a channel, and those of a channel and some more.  *)
LEMMA Prefix ==
  ASSUME NEW S, NEW q \in Seq(S), NEW r \in Seq(S)
  PROVE  /\ \A k \in 1..Len(q) : SubSeq(q \o r, 1, k - 1) = SubSeq(q, 1, k - 1)
         /\ \A k \in 1..Len(r) : SubSeq(q \o r, 1, Len(q) + k - 1)
                                   = q \o SubSeq(r, 1, k - 1)
<1>1. /\ Len(q) \in Nat /\ Len(r) \in Nat /\ q \o r \in Seq(S)
      /\ Len(q \o r) = Len(q) + Len(r)
      /\ DOMAIN q = 1..Len(q) /\ DOMAIN r = 1..Len(r)
      /\ \A i \in 1..Len(q) : (q \o r)[i] = q[i] /\ q[i] \in S
      /\ \A i \in 1..Len(r) : (q \o r)[Len(q) + i] = r[i] /\ r[i] \in S
      /\ \A i \in 1..(Len(q) + Len(r)) : (q \o r)[i] \in S
  BY LenProperties, ConcatProperties, ElementOfSeq
<1>2. ASSUME NEW k \in 1..Len(q)
      PROVE  SubSeq(q \o r, 1, k - 1) = SubSeq(q, 1, k - 1)
  <2> DEFINE x == SubSeq(q \o r, 1, k - 1)
             y == SubSeq(q, 1, k - 1)
  <2>1. k - 1 \in Int /\ 1 \in Int /\ k - 1 <= Len(q)
    BY <1>1
  <2>2. /\ \A i \in 1..(k - 1) : q[i] \in S
        /\ \A i \in 1..(k - 1) : (q \o r)[i] \in S
    BY <1>1, <2>1
  <2>3. /\ x \in Seq(S) /\ Len(x) = IF 1 <= k - 1 THEN k - 1 - 1 + 1 ELSE 0
        /\ \A i \in 1..(k - 1 - 1 + 1) : x[i] = (q \o r)[1 + i - 1]
    BY <2>1, <2>2, SubSeqProperties
  <2>4. /\ y \in Seq(S) /\ Len(y) = IF 1 <= k - 1 THEN k - 1 - 1 + 1 ELSE 0
        /\ \A i \in 1..(k - 1 - 1 + 1) : y[i] = q[1 + i - 1]
    BY <2>1, <2>2, SubSeqProperties
  <2> HIDE DEF x, y
  <2>5. \A i \in 1..Len(x) : x[i] = y[i]
    BY <1>1, <2>1, <2>3, <2>4
  <2>6. QED
    BY <2>3, <2>4, <2>5, SeqEqual DEF x, y
<1>3. ASSUME NEW k \in 1..Len(r)
      PROVE  SubSeq(q \o r, 1, Len(q) + k - 1) = q \o SubSeq(r, 1, k - 1)
  <2> DEFINE n == Len(q) + k - 1
             x == SubSeq(q \o r, 1, n)
             p == SubSeq(r, 1, k - 1)
             y == q \o p
  <2>1. k - 1 \in Nat /\ n \in Nat /\ k - 1 <= Len(r) /\ n = Len(q) + (k - 1)
    BY <1>1
  <2>2. /\ \A i \in 1..(k - 1) : r[i] \in S
        /\ \A i \in 1..n : (q \o r)[i] \in S
    BY <1>1, <2>1
  <2>3. /\ x \in Seq(S) /\ Len(x) = IF 1 <= n THEN n - 1 + 1 ELSE 0
        /\ \A i \in 1..(n - 1 + 1) : x[i] = (q \o r)[1 + i - 1]
    <3> HIDE DEF n
    <3>1. QED
      BY <2>1, <2>2, SubSeqProperties
  <2>4. /\ p \in Seq(S) /\ Len(p) = IF 1 <= k - 1 THEN k - 1 - 1 + 1 ELSE 0
        /\ \A i \in 1..(k - 1 - 1 + 1) : p[i] = r[1 + i - 1]
    BY <2>1, <2>2, SubSeqProperties
  <2> HIDE DEF x, p, n
  <2>5. Len(p) = k - 1 /\ Len(x) = n
    BY <2>1, <2>3, <2>4
  <2>6. /\ y \in Seq(S) /\ Len(y) = Len(q) + (k - 1)
        /\ \A i \in 1..(Len(q) + (k - 1)) :
             y[i] = IF i <= Len(q) THEN q[i] ELSE p[i - Len(q)]
    <3>1. /\ y \in Seq(S) /\ Len(y) = Len(q) + Len(p)
          /\ \A i \in 1..(Len(q) + Len(p)) :
               y[i] = IF i <= Len(q) THEN q[i] ELSE p[i - Len(q)]
      BY <2>4, ConcatProperties
    <3> HIDE DEF y
    <3>2. QED
      BY <2>5, <3>1
  <2> HIDE DEF y
  <2>7. \A i \in 1..n : x[i] = y[i]
    <3> SUFFICES ASSUME NEW i \in 1..n PROVE x[i] = y[i]
      OBVIOUS
    <3>1. x[i] = (q \o r)[i]
      BY <2>1, <2>3
    <3>2. CASE i <= Len(q)
      <4>1. i \in 1..Len(q)
        BY <1>1, <2>1, <3>2
      <4>2. y[i] = q[i]
        BY <1>1, <2>1, <2>6, <3>2
      <4>3. QED
        BY <1>1, <3>1, <4>1, <4>2
    <3>3. CASE i > Len(q)
      <4>1. i - Len(q) \in 1..(k - 1) /\ Len(q) + (i - Len(q)) = i
        BY <1>1, <2>1, <3>3
      <4>2. y[i] = p[i - Len(q)] /\ p[i - Len(q)] = r[i - Len(q)]
        <5>1. y[i] = p[i - Len(q)]
          BY <1>1, <2>1, <2>6, <3>3
        <5>2. p[i - Len(q)] = r[i - Len(q)]
          BY <2>1, <2>4, <4>1
        <5>3. QED
          BY <5>1, <5>2
      <4>3. i - Len(q) \in 1..Len(r)
        BY <1>1, <2>1, <4>1
      <4>4. (q \o r)[Len(q) + (i - Len(q))] = r[i - Len(q)]
        BY <1>1, <4>3
      <4>5. QED
        BY <3>1, <4>1, <4>2, <4>4
    <3>4. QED
      BY <1>1, <2>1, <3>2, <3>3
  <2>8. QED
    BY <2>1, <2>3, <2>5, <2>6, <2>7, SeqEqual DEF x, y, p, n
<1>4. QED
  BY <1>2, <1>3

(* Those of more messages do, where those before leave their reader.       *)
LEMMA InTurnConcat ==
  ASSUME NEW S, NEW q \in Seq(S), NEW r \in Seq(S), NEW M, NEW N, NEW G,
         NEW before
  PROVE  InTurn(q \o r, M, N, G, before)
           <=> InTurn(q, M, N, G, before)
                 /\ InTurn(r, M, N, G, Leaves(q, M, G, before))
<1> DEFINE P(k) == Leaves(SubSeq(q \o r, 1, k - 1), M, G, before)
<1>1. /\ Len(q) \in Nat /\ Len(r) \in Nat
      /\ DOMAIN (q \o r) = 1..(Len(q) + Len(r))
      /\ DOMAIN q = 1..Len(q) /\ DOMAIN r = 1..Len(r)
      /\ \A i \in 1..Len(q) : (q \o r)[i] = q[i]
      /\ \A i \in 1..Len(r) : (q \o r)[Len(q) + i] = r[i]
  OBVIOUS
<1>2. \A k \in 1..Len(q) : P(k) <=> Leaves(SubSeq(q, 1, k - 1), M, G, before)
  BY Prefix
<1>3. ASSUME NEW k \in 1..Len(r)
      PROVE  P(Len(q) + k) <=> Leaves(SubSeq(r, 1, k - 1), M, G,
                                      Leaves(q, M, G, before))
  <2> DEFINE p == SubSeq(r, 1, k - 1)
  <2>1. SubSeq(q \o r, 1, Len(q) + k - 1) = q \o p
    BY SMTT(30), Prefix
  <2>2. p \in Seq(S)
    <3>1. \A i \in 1..(k - 1) : r[i] \in S
      BY <1>1
    <3>2. 1 \in Int /\ k - 1 \in Int
      BY <1>1
    <3>3. QED
      BY <3>1, <3>2, SubSeqProperties
  <2> HIDE DEF p
  <2>3. Leaves(q \o p, M, G, before)
          <=> Leaves(p, M, G, Leaves(q, M, G, before))
    BY <2>2, LeavesConcat
  <2>4. P(Len(q) + k) <=> Leaves(q \o p, M, G, before)
    <3>1. Len(q) + k - 1 = (Len(q) + k) - 1
      BY <1>1
    <3>2. SubSeq(q \o r, 1, (Len(q) + k) - 1) = q \o p
      BY <2>1, <3>1
    <3>3. QED
      BY <3>2
  <2>5. QED
    BY <2>3, <2>4 DEF p
<1>4. InTurn(q \o r, M, N, G, before)
        <=> \A k \in 1..(Len(q) + Len(r)) : (q \o r)[k] \in N => P(k)
  BY <1>1 DEF InTurn
<1>5. InTurn(q, M, N, G, before) <=> \A k \in 1..Len(q) : q[k] \in N => P(k)
  BY <1>1, <1>2 DEF InTurn
<1>6. InTurn(r, M, N, G, Leaves(q, M, G, before))
        <=> \A k \in 1..Len(r) : r[k] \in N => P(Len(q) + k)
  BY <1>1, <1>3 DEF InTurn
<1> HIDE DEF P
<1>7. (\A k \in 1..(Len(q) + Len(r)) : (q \o r)[k] \in N => P(k))
        <=> /\ \A k \in 1..Len(q) : q[k] \in N => P(k)
            /\ \A k \in 1..Len(r) : r[k] \in N => P(Len(q) + k)
  <2>1. ASSUME \A k \in 1..(Len(q) + Len(r)) : (q \o r)[k] \in N => P(k)
        PROVE  /\ \A k \in 1..Len(q) : q[k] \in N => P(k)
               /\ \A k \in 1..Len(r) : r[k] \in N => P(Len(q) + k)
    BY <1>1, <2>1
  <2>2. ASSUME \A k \in 1..Len(q) : q[k] \in N => P(k),
               \A k \in 1..Len(r) : r[k] \in N => P(Len(q) + k),
               NEW k \in 1..(Len(q) + Len(r)), (q \o r)[k] \in N
        PROVE  P(k)
    <3>1. CASE k <= Len(q)
      BY <1>1, <2>2, <3>1
    <3>2. CASE k > Len(q)
      <4>1. k - Len(q) \in 1..Len(r) /\ Len(q) + (k - Len(q)) = k
        BY <1>1, <3>2
      <4>2. QED
        BY <1>1, <2>2, <4>1
    <3>3. QED
      BY <1>1, <3>1, <3>2
  <2>3. QED
    BY <2>1, <2>2
<1>8. QED
  BY <1>4, <1>5, <1>6, <1>7

(* One message.                                                            *)
LEMMA InTurnOne ==
  ASSUME NEW m, NEW M, NEW N, NEW G, NEW before
  PROVE  InTurn(<<m>>, M, N, G, before) <=> (m \in N => before)
<1>1. SubSeq(<<m>>, 1, 0) = <<>>
  BY SubSeqEmpty
<1>2. DOMAIN <<m>> = 1..1 /\ <<m>>[1] = m /\ 1 - 1 = 0
  OBVIOUS
<1>3. Leaves(<<>>, M, G, before) <=> before
  BY LeavesEmpty
<1>4. QED
  <2>1. InTurn(<<m>>, M, N, G, before)
          <=> (<<m>>[1] \in N => Leaves(SubSeq(<<m>>, 1, 1 - 1), M, G, before))
    BY <1>2 DEF InTurn
  <2>2. Leaves(SubSeq(<<m>>, 1, 1 - 1), M, G, before) <=> before
    BY <1>1, <1>2, <1>3
  <2>3. QED
    BY <1>2, <2>1, <2>2

(* One more message in the channel.                                        *)
LEMMA InTurnAppended ==
  ASSUME NEW S, NEW q \in Seq(S), NEW m \in S, NEW M, NEW N, NEW G
  PROVE  \A before : InTurn(Append(q, m), M, N, G, before)
           <=> InTurn(q, M, N, G, before)
                 /\ (m \in N => Leaves(q, M, G, before))
<1> SUFFICES ASSUME NEW before
             PROVE  InTurn(Append(q, m), M, N, G, before)
                      <=> InTurn(q, M, N, G, before)
                            /\ (m \in N => Leaves(q, M, G, before))
  OBVIOUS
<1>1. Append(q, m) = q \o <<m>> /\ <<m>> \in Seq(S)
  BY AppendIsConcat
<1>2. InTurn(q \o <<m>>, M, N, G, before)
        <=> InTurn(q, M, N, G, before)
              /\ InTurn(<<m>>, M, N, G, Leaves(q, M, G, before))
  BY <1>1, InTurnConcat
<1>3. InTurn(<<m>>, M, N, G, Leaves(q, M, G, before))
        <=> (m \in N => Leaves(q, M, G, before))
  BY InTurnOne
<1>4. QED
  BY <1>1, <1>2, <1>3

(* The first message is taken from the channel.                            *)
LEMMA InTurnTaken ==
  ASSUME NEW S, NEW q \in Seq(S), q # <<>>, NEW M, NEW N, NEW G
  PROVE  \A before : InTurn(q, M, N, G, before)
           <=> /\ Head(q) \in N => before
               /\ InTurn(Tail(q), M, N, G,
                         IF Head(q) \in M THEN Head(q) \in G ELSE before)
<1> SUFFICES ASSUME NEW before
             PROVE  InTurn(q, M, N, G, before)
           <=> /\ Head(q) \in N => before
               /\ InTurn(Tail(q), M, N, G,
                         IF Head(q) \in M THEN Head(q) \in G ELSE before)
  OBVIOUS
<1> DEFINE m == Head(q)
           r == Tail(q)
<1>1. q = <<m>> \o r /\ r \in Seq(S) /\ <<m>> \in Seq(S)
  OBVIOUS
<1> HIDE DEF m, r
<1>2. InTurn(<<m>> \o r, M, N, G, before)
        <=> InTurn(<<m>>, M, N, G, before)
              /\ InTurn(r, M, N, G, Leaves(<<m>>, M, G, before))
  BY <1>1, InTurnConcat
<1>3. InTurn(<<m>>, M, N, G, before) <=> (m \in N => before)
  BY InTurnOne
<1>4. Leaves(<<m>>, M, G, before) <=> (IF m \in M THEN m \in G ELSE before)
  BY LeavesOne
<1>5. InTurn(r, M, N, G, Leaves(<<m>>, M, G, before))
        <=> InTurn(r, M, N, G, IF m \in M THEN m \in G ELSE before)
  BY <1>4 DEF InTurn, Leaves
<1>6. QED
  BY <1>1, <1>2, <1>3, <1>5 DEF m, r

(* Several messages, none of which needs a turn.                           *)
LEMMA InTurnPassed ==
  ASSUME NEW S, NEW q \in Seq(S), NEW r \in Seq(S), NEW M, NEW N, NEW G,
         \A k \in DOMAIN r : r[k] \notin N
  PROVE  \A before : InTurn(q \o r, M, N, G, before)
                       <=> InTurn(q, M, N, G, before)
<1> SUFFICES ASSUME NEW before
             PROVE  InTurn(q \o r, M, N, G, before)
                      <=> InTurn(q, M, N, G, before)
  OBVIOUS
<1>1. InTurn(q \o r, M, N, G, before)
        <=> InTurn(q, M, N, G, before)
              /\ InTurn(r, M, N, G, Leaves(q, M, G, before))
  BY InTurnConcat
<1>2. InTurn(r, M, N, G, Leaves(q, M, G, before))
  BY DEF InTurn
<1>3. QED
  BY <1>1, <1>2

(* What is pending stays so as more messages come.                         *)
LEMMA PendingKept ==
  ASSUME NEW S, NEW q \in Seq(S), NEW r \in Seq(S), NEW M, Pending(q, M) # 0
  PROVE  Pending(q \o r, M) # 0
<1>1. Pending(q \o r, M) = Pending(q, M) + Pending(r, M)
  BY PendingConcat
<1>2. Pending(q, M) \in Nat /\ Pending(r, M) \in Nat
  BY PendingType
<1>3. QED
  BY <1>1, <1>2

(* Messages none of which is listened to leave a reader where it was.      *)
LEMMA NothingListened ==
  ASSUME NEW r, NEW M, \A k \in DOMAIN r : r[k] \notin M
  PROVE  \A G, before : Leaves(r, M, G, before) <=> before
  BY LeavesNone DEF Hits

(* ... and none of them waits for its turn.                                *)
LEMMA NoTurns ==
  ASSUME NEW r, NEW N, \A k \in DOMAIN r : r[k] \notin N
  PROVE  \A M, G, before : InTurn(r, M, N, G, before)
  BY DEF InTurn

(* The last message is listened to, and is a good one.                     *)
LEMMA LastListened ==
  ASSUME NEW S, NEW r \in Seq(S), r # <<>>, NEW M, NEW G,
         r[Len(r)] \in M, r[Len(r)] \in G
  PROVE  /\ \A before : Leaves(r, M, G, before)
         /\ Pending(r, M) # 0
<1>1. Len(r) \in DOMAIN r /\ \A j \in DOMAIN r : j <= Len(r)
  OBVIOUS
<1>2. Pending(r, M) # 0
  BY <1>1, PendingZero
<1>3. \A before : Leaves(r, M, G, before)
  BY <1>1 DEF Leaves, Hits
<1>4. QED
  BY <1>2, <1>3

(* A reader in a good state stays in it while it hears nothing.            *)
LEMMA InTurnUnheard ==
  ASSUME NEW S, NEW r \in Seq(S), NEW M, NEW N, NEW G,
         \A k \in DOMAIN r : r[k] \notin M
  PROVE  InTurn(r, M, N, G, TRUE)
<1> SUFFICES ASSUME NEW k \in DOMAIN r
             PROVE  Leaves(SubSeq(r, 1, k - 1), M, G, TRUE)
  BY DEF InTurn
<1> DEFINE p == SubSeq(r, 1, k - 1)
<1>1. \A j \in DOMAIN p : j \in DOMAIN r /\ p[j] = r[j]
  OBVIOUS
<1> HIDE DEF p
<1>2. \A j \in DOMAIN p : p[j] \notin M
  BY <1>1
<1>3. Leaves(p, M, G, TRUE)
  BY <1>2, NothingListened
<1>4. QED
  BY <1>3 DEF p

-----------------------------------------------------------------------------
(* The messages the input method process counts, and those that switch it. *)
Dones       == {m \in ToContext : m.type = "done"}
Switches    == {m \in Dones : m.set \in {"activate", "deactivate"}}
Activations == {m \in Dones : m.set = "activate"}

(* The messages that change the keyboard grab of the server. *)
Grabs   == [type : {"grab", "release"}]
Takings == [type : {"grab"}]
Hangups == [type : {"hangup"}]

(* The connection towards the input method process: the done events under  *)
(* way make up for what v_serial lacks, and the last one that sets the     *)
(* activation leaves v_active as wlroots has it.                           *)
MethodLink ==
  /\ running => present
  /\ ~present => toContext = <<>> /\ dones = 0
  /\ running => iserial + Pending(toContext, Dones) = dones
  /\ running => (Leaves(toContext, Switches, Activations, iactive) <=> active)

(* The connection from it: the last grab or release leaves the server with *)
(* a keyboard grab exactly when the process has one.                       *)
KeyboardLink ==
  /\ running => Hits(fromContext, Hangups) = {}
  /\ ~present => fromContext = <<>> /\ ~grab
  /\ igrab <=> iactive
  /\ running => (Leaves(fromContext, Grabs, Takings, grab) <=> igrab)

-----------------------------------------------------------------------------
(* What leaves the variables of a connection alone keeps what is known of  *)
(* it.                                                                     *)
LEMMA MethodFrame ==
  ASSUME MethodLink,
         UNCHANGED <<running, present, toContext, dones, iserial, iactive,
                     active>>
  PROVE  MethodLink'
  BY DEF MethodLink

(* ... and so is what it says of the connection from the process. *)
LEMMA KeyboardFrame ==
  ASSUME KeyboardLink,
         UNCHANGED <<running, present, fromContext, grab, igrab, iactive>>
  PROVE  KeyboardLink'
  BY DEF KeyboardLink

(* n > 0 done events are counted n times, and the last of them switches.   *)
LEMMA SendDoneLink ==
  ASSUME WireTypeOK, NEW n \in Nat \ {0},
         NEW set \in {"activate", "deactivate", "keep"}, SendDone(set, n)
  PROVE  /\ dones' = dones + n
         /\ Pending(toContext', Dones) = Pending(toContext, Dones) + n
         /\ \A before : Leaves(toContext', Switches, Activations, before)
              <=> IF set = "keep"
                  THEN Leaves(toContext, Switches, Activations, before)
                  ELSE set = "activate"
<1> DEFINE m == [type |-> "done", set |-> set]
<1>1. m \in ToContext /\ m \in Dones
  BY DEF ToContext, Dones
<1>2. /\ m \in Switches <=> set # "keep"
      /\ m \in Activations <=> set = "activate"
  BY <1>1 DEF Switches, Activations
<1>3. /\ toContext' = toContext \o [k \in 1..n |-> m] /\ dones' = dones + n
      /\ toContext \in Seq(ToContext)
  BY DEF SendDone, WireTypeOK, ChannelTypeOK
<1> HIDE DEF m
<1>4. Pending(toContext', Dones) = Pending(toContext, Dones) + n
  BY <1>1, <1>3, Repeated
<1>5. ASSUME NEW before
      PROVE  Leaves(toContext', Switches, Activations, before)
               <=> IF m \in Switches THEN m \in Activations
                   ELSE Leaves(toContext, Switches, Activations, before)
  BY <1>1, <1>3, Repeated
<1>6. QED
  BY <1>2, <1>3, <1>4, <1>5

(* Where the server sends nothing to the input method, or n done events    *)
(* that set its activation to what it now is.                              *)
LEMMA UnsentLink ==
  ASSUME MethodLink, UNCHANGED <<active, toContext, dones>>,
         UNCHANGED <<running, present, iserial, iactive>>
  PROVE  MethodLink'
  BY MethodFrame

(* A done event sent to a process that runs is counted on both sides. *)
LEMMA SentLink ==
  ASSUME WireTypeOK, MethodLink, NEW n \in Nat \ {0},
         NEW set \in {"activate", "deactivate", "keep"}, SendDone(set, n),
         active' <=> (IF set = "keep" THEN active ELSE set = "activate"),
         present, UNCHANGED <<running, present, iserial, iactive>>
  PROVE  MethodLink'
<1>1. /\ dones' = dones + n
      /\ Pending(toContext', Dones) = Pending(toContext, Dones) + n
      /\ Leaves(toContext', Switches, Activations, iactive)
           <=> IF set = "keep"
               THEN Leaves(toContext, Switches, Activations, iactive)
               ELSE set = "activate"
  BY SendDoneLink
<1>2. Pending(toContext, Dones) \in Nat /\ iserial \in Nat /\ dones \in Nat
  BY PendingType
     DEF WireTypeOK, ChannelTypeOK, ContextTypeOK, MethodTypeOK
<1>3. running => iserial' + Pending(toContext', Dones) = dones'
  BY <1>1, <1>2 DEF MethodLink
<1>4. running => (Leaves(toContext', Switches, Activations, iactive) <=> active')
  BY <1>1 DEF MethodLink
<1>5. QED
  BY <1>3, <1>4 DEF MethodLink

(* f_blur_text_input, f_send and f_focus keep the connection.              *)
LEMMA BlurLink ==
  ASSUME WireTypeOK, MethodLink, NEW n \in Nat \ {0}, Blur(n),
         UNCHANGED <<running, present, iserial, iactive>>
  PROVE  MethodLink'
<1>1. CASE present /\ on
  <2>1. active' = FALSE /\ SendDone("deactivate", n)
    BY <1>1 DEF Blur
  <2>2. active' <=> (IF "deactivate" = "keep" THEN active
                     ELSE "deactivate" = "activate")
    BY <2>1
  <2>3. QED
    BY <1>1, <2>1, <2>2, SentLink
<1>2. CASE ~(present /\ on)
  BY <1>2, UnsentLink DEF Blur
<1>3. QED
  BY <1>1, <1>2

(* Sending the state of a text input sends one such event. *)
LEMMA SendLink ==
  ASSUME WireTypeOK, MethodLink, NEW i, NEW set \in {"activate", "keep"},
         Send(i, set), present, UNCHANGED <<running, present, iserial, iactive>>
  PROVE  MethodLink'
<1>1. active' <=> (IF set = "keep" THEN active ELSE set = "activate")
  BY DEF Send, WireTypeOK, MethodTypeOK
<1>2. SendDone(set, 1)
  BY DEF Send
<1>3. QED
  BY <1>1, <1>2, SentLink

(* Focusing a text input activates the input method, if it is on. *)
LEMMA FocusLink ==
  ASSUME WireTypeOK, MethodLink, NEW i, Focus(i),
         UNCHANGED <<running, present, iserial, iactive>>
  PROVE  MethodLink'
<1>1. CASE present /\ on
  BY <1>1, SendLink DEF Focus
<1>2. CASE ~(present /\ on)
  BY <1>2, UnsentLink DEF Focus
<1>3. QED
  BY <1>1, <1>2

-----------------------------------------------------------------------------
(* The actions of the server that switch the input method: a focus change  *)
(* blurs once for every text input that leaves.                            *)
LEMMA FocusChangeLink ==
  ASSUME WireTypeOK, MethodLink, NEW s \in NullableInput, FocusChange(s)
  PROVE  MethodLink'
<1> DEFINE left == {i \in exists : focus # None /\ surface[i] = focus}
<1>1. /\ IF left = {} THEN Unrelayed ELSE Blur(Cardinality(left))
      /\ UNCHANGED <<present, contextVars>>
  BY DEF FocusChange
<1>2. UNCHANGED <<running, present, iserial, iactive>>
  BY <1>1 DEF contextVars
<1>3. CASE left = {}
  BY <1>1, <1>2, <1>3, UnsentLink DEF Unrelayed
<1>4. CASE left # {}
  <2>1. IsFiniteSet(left)
    BY WireAssumption, FS_Subset DEF WireTypeOK, TextTypeOK
  <2>2. Cardinality(left) \in Nat \ {0}
    BY <1>4, <2>1, FS_CardinalityType, FS_EmptySet
  <2>3. QED
    BY <1>1, <1>2, <1>4, <2>2, BlurLink
<1>5. QED
  BY <1>3, <1>4

(* A commit focuses, sends, blurs or does nothing.                         *)
LEMMA ReceiveCommitLink ==
  ASSUME WireTypeOK, MethodLink, NEW c \in Clients, ReceiveCommit(c)
  PROVE  MethodLink'
<1> DEFINE i == Head(toServer[c]).input
<1>1. /\ Enable(i) \/ Disable(i) \/ Commit(i)
      /\ UNCHANGED <<present, contextVars>>
  BY DEF ReceiveCommit
<1> HIDE DEF i
<1>2. UNCHANGED <<running, present, iserial, iactive>>
  BY <1>1 DEF contextVars
<1>3. \/ Focus(i) \/ Blur(1) \/ Unrelayed
      \/ present /\ Send(i, "keep")
  BY <1>1 DEF Enable, Disable, Commit
<1>4. CASE Focus(i)
  BY <1>2, <1>4, FocusLink
<1>5. CASE Blur(1)
  BY <1>2, <1>5, BlurLink
<1>6. CASE Unrelayed
  BY <1>2, <1>6, UnsentLink DEF Unrelayed
<1>7. CASE present /\ Send(i, "keep")
  BY <1>2, <1>7, SendLink
<1>8. QED
  BY <1>3, <1>4, <1>5, <1>6, <1>7

(* A text input that goes away is blurred, or was not served.              *)
LEMMA ReceiveDestroyLink ==
  ASSUME WireTypeOK, MethodLink, NEW c \in Clients, ReceiveDestroy(c)
  PROVE  MethodLink'
<1>1. Blur(1) \/ Unrelayed
  BY DEF ReceiveDestroy
<1>2. UNCHANGED <<running, present, iserial, iactive>>
  BY DEF ReceiveDestroy, contextVars
<1>3. CASE Blur(1)
  BY <1>2, <1>3, BlurLink
<1>4. CASE Unrelayed
  BY <1>2, <1>4, UnsentLink DEF Unrelayed
<1>5. QED
  BY <1>1, <1>3, <1>4

(* The toggle key switches the input method on or off.                     *)
LEMMA ToggleKeyLink ==
  ASSUME WireTypeOK, MethodLink, ToggleKey
  PROVE  MethodLink'
<1>1. present /\ UNCHANGED <<running, present, iserial, iactive>>
  BY DEF ToggleKey, contextVars
<1>2. CASE on'
  BY <1>1, <1>2, SendLink DEF ToggleKey
<1>3. CASE ~on'
  <2>1. active' = FALSE /\ SendDone("deactivate", 1)
    BY <1>3 DEF ToggleKey
  <2>2. active' <=> (IF "deactivate" = "keep" THEN active
                     ELSE "deactivate" = "activate")
    BY <2>1
  <2>3. QED
    BY <1>1, <2>1, <2>2, SentLink
<1>4. QED
  BY <1>2, <1>3

(* A key is no done event.                                                 *)
LEMMA GrabbedKeyLink ==
  ASSUME WireTypeOK, MethodLink, GrabbedKey
  PROVE  MethodLink'
<1> DEFINE m == [type |-> "key"]
<1>1. /\ present /\ toContext' = Append(toContext, m)
      /\ UNCHANGED <<running, present, dones, iserial, iactive, active>>
  BY DEF GrabbedKey, methodVars, contextVars
<1>2. m \in ToContext /\ m \notin Dones /\ m \notin Switches
  BY DEF ToContext, Dones, Switches
<1>3. toContext \in Seq(ToContext)
  BY DEF WireTypeOK, ChannelTypeOK
<1> HIDE DEF m
<1>4. /\ Pending(toContext', Dones) = Pending(toContext, Dones)
      /\ Leaves(toContext', Switches, Activations, iactive)
           <=> Leaves(toContext, Switches, Activations, iactive)
  BY <1>1, <1>2, <1>3, Appended
<1>5. QED
  BY <1>1, <1>4 DEF MethodLink
-----------------------------------------------------------------------------
(* The done handler counts the event, and takes its activation.            *)
LEMMA ContextDoneLink ==
  ASSUME WireTypeOK, MethodLink, ContextDone
  PROVE  MethodLink'
<1> DEFINE m == Head(toContext)
<1>1. /\ running /\ m \in ToContext /\ m.type = "done" /\ toContext # <<>>
      /\ toContext' = Tail(toContext)
      /\ iserial' = iserial + 1
      /\ UNCHANGED <<running, present, dones, active>>
  BY ArrivesType
     DEF ContextDone, CountDone, Arrives, WireTypeOK, ChannelTypeOK, methodVars
<1>2. iactive' = CASE m.set = "activate" -> TRUE
                   [] m.set = "deactivate" -> FALSE
                   [] OTHER -> iactive
  BY DEF ContextDone
<1>3. toContext \in Seq(ToContext) /\ iserial \in Nat /\ iactive \in BOOLEAN
  BY DEF WireTypeOK, ChannelTypeOK, ContextTypeOK
<1> HIDE DEF m
<1>4. /\ m \in Dones
      /\ m \in Switches <=> m.set \in {"activate", "deactivate"}
      /\ m \in Activations <=> m.set = "activate"
  BY <1>1 DEF Dones, Switches, Activations
<1>5. Pending(toContext, Dones) = Pending(toContext', Dones) + 1
      /\ Pending(toContext', Dones) \in Nat
  <2>1. toContext' \in Seq(ToContext)
    BY <1>1, <1>3
  <2>2. QED
    BY <1>1, <1>3, <1>4, <2>1, Taken, PendingType DEF m
<1>6. iactive' <=> (IF m \in Switches THEN m \in Activations ELSE iactive)
  BY <1>2, <1>3, <1>4
<1>7. Leaves(toContext, Switches, Activations, iactive)
        <=> Leaves(toContext', Switches, Activations, iactive')
  <2>1. Leaves(toContext, Switches, Activations, iactive)
          <=> Leaves(toContext', Switches, Activations,
                     IF m \in Switches THEN m \in Activations ELSE iactive)
    BY <1>1, <1>3, Taken DEF m
  <2>2. QED
    BY <1>6, <2>1 DEF Leaves
<1>8. QED
  <2>1. iserial' + Pending(toContext', Dones) = dones'
    BY <1>1, <1>3, <1>5 DEF MethodLink
  <2>2. Leaves(toContext', Switches, Activations, iactive') <=> active'
    BY <1>1, <1>7 DEF MethodLink
  <2>3. QED
    BY <1>1, <2>1, <2>2 DEF MethodLink

(* A key is not counted.                                                   *)
LEMMA ContextKeyLink ==
  ASSUME WireTypeOK, MethodLink, ContextKey
  PROVE  MethodLink'
<1> DEFINE m == Head(toContext)
<1>1. /\ running /\ m \in ToContext /\ m.type = "key" /\ toContext # <<>>
      /\ toContext' = Tail(toContext) /\ toContext \in Seq(ToContext)
      /\ UNCHANGED <<running, present, dones, active, iserial, iactive>>
  BY ArrivesType
     DEF ContextKey, Arrives, WireTypeOK, ChannelTypeOK, methodVars
<1>2. m \notin Dones /\ m \notin Switches
  BY <1>1 DEF Dones, Switches
<1>3. /\ Pending(toContext, Dones) = Pending(toContext', Dones)
      /\ Leaves(toContext, Switches, Activations, iactive)
           <=> Leaves(toContext', Switches, Activations, iactive)
  BY <1>1, <1>2, Taken
<1>4. QED
  BY <1>1, <1>3 DEF MethodLink

(* A process starts with nothing on its way to it, and none is left when   *)
(* its connection closes.                                                  *)
LEMMA StartLink ==
  ASSUME WireTypeOK, ServerInv, MethodLink, KeyboardLink, Start
  PROVE  MethodLink' /\ KeyboardLink'
<1>1. /\ ~present /\ running' = TRUE /\ present' = TRUE
      /\ iactive' = FALSE /\ iserial' = 0 /\ igrab' = FALSE
      /\ fromContext' = <<Frame>>
      /\ UNCHANGED <<active, dones, grab, toContext>>
  BY DEF Start
<1>2. ~active /\ toContext = <<>> /\ dones = 0 /\ ~grab
  BY <1>1 DEF ServerInv, ActiveIffServing, MethodLink, KeyboardLink
<1>3. /\ Pending(toContext', Dones) = 0
      /\ Leaves(toContext', Switches, Activations, iactive') <=> iactive'
  BY <1>1, <1>2, LeavesEmpty
<1>4. MethodLink'
  BY <1>1, <1>2, <1>3 DEF MethodLink
<1>5. Frame \notin Grabs /\ Frame \notin Hangups
  BY DEF Frame, Grabs, Hangups
<1>6. /\ Hits(fromContext', Hangups) = {}
      /\ Leaves(fromContext', Grabs, Takings, grab') <=> grab'
  BY <1>1, <1>5, HitsOne, LeavesOne
<1>7. KeyboardLink'
  BY <1>1, <1>2, <1>6 DEF KeyboardLink
<1>8. QED
  BY <1>4, <1>7

(* A process that is gone counts nothing and holds no grab. *)
LEMMA ExitLink ==
  ASSUME MethodLink, KeyboardLink, Exit
  PROVE  MethodLink' /\ KeyboardLink'
<1>1. /\ running /\ running' = FALSE /\ igrab' = FALSE /\ iactive' = FALSE
      /\ UNCHANGED <<present, toContext, dones, grab>>
  BY DEF Exit, methodVars
<1>2. QED
  BY <1>1 DEF MethodLink, KeyboardLink

(* The server forgets a process that is gone. *)
LEMMA ReceiveHangupLink ==
  ASSUME WireTypeOK, MethodLink, KeyboardLink, ReceiveHangup
  PROVE  MethodLink' /\ KeyboardLink'
<1>1. /\ present' = FALSE /\ dones' = 0 /\ grab' = FALSE
      /\ toContext' = <<>> /\ fromContext' = <<>>
      /\ UNCHANGED <<running, iactive, igrab>>
      /\ fromContext # <<>> /\ Head(fromContext) \in FromContext
      /\ Head(fromContext).type = "hangup"
      /\ fromContext \in Seq(FromContext)
  BY ArrivesType
     DEF ReceiveHangup, Arrives, contextVars, WireTypeOK, ChannelTypeOK
<1>2. ~running
  <2>1. Head(fromContext) \in Hangups
    BY <1>1 DEF Hangups, FromContext
  <2>2. 1 \in DOMAIN fromContext /\ fromContext[1] = Head(fromContext)
    BY <1>1
  <2>3. 1 \in Hits(fromContext, Hangups)
    BY <2>1, <2>2 DEF Hits
  <2>4. QED
    BY <2>3 DEF KeyboardLink
<1>3. QED
  BY <1>1, <1>2 DEF MethodLink, KeyboardLink

-----------------------------------------------------------------------------
(* What the process sends: keys handled send nothing that grabs, switching *)
(* on grabs and switching off releases.                                    *)
LEMMA EngineSends ==
  ASSUME WireTypeOK, NEW ACTION back, EngineTakesKey(back),
         back = <<>> \/ back = HandedBack, cs' \in Texts
  PROVE  \E r \in Seq(FromContext) :
           /\ fromContext' = fromContext \o r
           /\ \A k \in DOMAIN r : r[k] \notin Grabs /\ r[k] \notin Hangups
<1>1. PICK out \in SeqOf(Texts, MaxSends), redraw \in {<<>>, <<Frame>>} :
        fromContext' = fromContext
                       \o [k \in DOMAIN out |-> Composed(iserial, out[k])]
                       \o redraw \o back
  BY DEF EngineTakesKey
<1> DEFINE Harmless == {m \in FromContext : m \notin Grabs /\ m \notin Hangups}
<1>2. iserial \in Nat /\ fromContext \in Seq(FromContext)
  BY DEF WireTypeOK, ContextTypeOK, ChannelTypeOK
<1> DEFINE handed == [Composed(iserial, cs') EXCEPT !.forward = TRUE]
<1>3. /\ \A t \in Texts : Composed(iserial, t) \in Harmless
      /\ Frame \in Harmless
      /\ handed \in Harmless
  <2>1. /\ \A t \in Texts : Composed(iserial, t) \in FromContext
        /\ Frame \in FromContext
        /\ handed \in FromContext
    BY <1>2, ContextMessages
  <2>2. /\ \A t \in Texts : Composed(iserial, t).type = "commit"
        /\ Frame.type = "frame"
        /\ handed.type = "commit"
    BY DEF Composed, Frame
  <2>3. \A m : m.type \in {"commit", "frame"} => m \notin Grabs /\ m \notin Hangups
    BY DEF Grabs, Hangups
  <2> HIDE DEF handed
  <2>4. QED
    BY <2>1, <2>2, <2>3
<1> DEFINE ms == [k \in DOMAIN out |-> Composed(iserial, out[k])]
<1> HIDE DEF Harmless
<1>4. ms \in Seq(Harmless)
  <2>1. PICK n \in 0..MaxSends : out \in [1..n -> Texts]
    BY DEF SeqOf
  <2>2. n \in Nat /\ DOMAIN out = 1..n
    BY <2>1, WireAssumption
  <2>3. QED
    BY <1>3, <2>1, <2>2
<1>5. redraw \in Seq(Harmless)
  <2>1. <<>> \in Seq(Harmless) /\ <<Frame>> \in Seq(Harmless)
    BY <1>3
  <2>2. redraw = <<>> \/ redraw = <<Frame>>
    BY <1>1
  <2>3. QED
    BY <2>1, <2>2
<1>6. back \in Seq(Harmless)
  <2>1. <<>> \in Seq(Harmless)
    OBVIOUS
  <2>2. HandedBack \in Seq(Harmless)
    BY <1>3 DEF HandedBack
  <2>3. QED
    BY <2>1, <2>2
<1> HIDE DEF ms
<1> DEFINE r == ms \o (redraw \o back)
<1>7. redraw \o back \in Seq(Harmless) /\ r \in Seq(Harmless)
  BY <1>4, <1>5, <1>6, ConcatType
<1>8. fromContext' = fromContext \o r
  <2>1. /\ ms \in Seq(FromContext) /\ redraw \in Seq(FromContext)
        /\ back \in Seq(FromContext)
    <3>1. Seq(Harmless) \subseteq Seq(FromContext)
      BY DEF Harmless
    <3>2. QED
      BY <1>4, <1>5, <1>6, <3>1
  <2>2. fromContext' = ((fromContext \o ms) \o redraw) \o back
    BY <1>1 DEF ms
  <2> HIDE DEF ms
  <2>3. fromContext \o ms \in Seq(FromContext)
        /\ redraw \o back \in Seq(FromContext)
    BY <1>2, <2>1, ConcatType
  <2>4. ((fromContext \o ms) \o redraw) \o back
          = (fromContext \o ms) \o (redraw \o back)
    BY SMTT(30), <2>1, <2>3, ConcatAssociative
  <2>5. (fromContext \o ms) \o (redraw \o back)
          = fromContext \o (ms \o (redraw \o back))
    <3> DEFINE rest == redraw \o back
    <3>1. rest \in Seq(FromContext)
      BY <2>3
    <3> HIDE DEF rest
    <3>2. fromContext \in Seq(FromContext) /\ ms \in Seq(FromContext)
      BY <1>2, <2>1
    <3>3. (fromContext \o ms) \o rest = fromContext \o (ms \o rest)
      BY <3>1, <3>2, ConcatAssociative
    <3>4. QED
      BY <3>3 DEF rest
  <2>6. QED
    BY <2>2, <2>4, <2>5 DEF r
<1> HIDE DEF r
<1>9. /\ r \in Seq(FromContext)
      /\ \A k \in DOMAIN r : r[k] \notin Grabs /\ r[k] \notin Hangups
  <2>1. \A k \in DOMAIN r : r[k] \in Harmless
    BY <1>7
  <2>2. Harmless \subseteq FromContext
    BY DEF Harmless
  <2>3. r \in Seq(FromContext)
    BY <1>7, <2>2
  <2>4. QED
    BY <2>1, <2>3 DEF Harmless
<1>10. QED
  BY <1>8, <1>9

(* Messages that neither grab nor release, sent by a process that keeps    *)
(* its grab.                                                               *)
LEMMA HarmlessLink ==
  ASSUME WireTypeOK, KeyboardLink, present, NEW r \in Seq(FromContext),
         fromContext' = fromContext \o r,
         \A k \in DOMAIN r : r[k] \notin Grabs /\ r[k] \notin Hangups,
         UNCHANGED <<running, present, grab, igrab, iactive>>
  PROVE  KeyboardLink'
<1>1. fromContext \in Seq(FromContext)
  BY DEF WireTypeOK, ChannelTypeOK
<1>2. Leaves(fromContext', Grabs, Takings, grab)
        <=> Leaves(fromContext, Grabs, Takings, grab)
  BY <1>1, Passed
<1>3. Hits(fromContext, Hangups) = {} => Hits(fromContext', Hangups) = {}
  <2>1. Hits(r, Hangups) = {}
    BY DEF Hits
  <2>2. Hits(fromContext', Hangups)
          = Hits(fromContext, Hangups)
              \cup {k + Len(fromContext) : k \in Hits(r, Hangups)}
    BY <1>1, HitsConcat
  <2>3. QED
    BY <2>1, <2>2
<1>4. QED
  BY <1>2, <1>3 DEF KeyboardLink

(* A key, or its repetition, leaves the grab as it is.                     *)
LEMMA ContextKeyKeyboard ==
  ASSUME WireTypeOK, WireTypeOK', MethodLink, KeyboardLink,
         ContextKey \/ Repeat
  PROVE  KeyboardLink'
<1>1. running /\ UNCHANGED <<running, present, grab, igrab, iactive>>
  BY DEF ContextKey, Repeat, methodVars
<1>2. \/ UNCHANGED fromContext
      \/ EngineTakesKey(<<>>)
      \/ EngineTakesKey(HandedBack)
  BY DEF ContextKey, Repeat
<1>3. cs' \in Texts
  BY DEF WireTypeOK, ContextTypeOK
<1>4. present
  BY <1>1 DEF MethodLink
<1>5. CASE UNCHANGED fromContext
  BY <1>1, <1>5, KeyboardFrame
<1>6. CASE EngineTakesKey(<<>>)
  <2>1. \E r \in Seq(FromContext) :
          /\ fromContext' = fromContext \o r
          /\ \A k \in DOMAIN r : r[k] \notin Grabs /\ r[k] \notin Hangups
    BY <1>3, <1>6, EngineSends
  <2>2. QED
    BY <1>1, <1>4, <2>1, HarmlessLink
<1>7. CASE EngineTakesKey(HandedBack)
  <2>1. \E r \in Seq(FromContext) :
          /\ fromContext' = fromContext \o r
          /\ \A k \in DOMAIN r : r[k] \notin Grabs /\ r[k] \notin Hangups
    BY <1>3, <1>7, EngineSends
  <2>2. QED
    BY <1>1, <1>4, <2>1, HarmlessLink
<1>8. QED
  BY <1>2, <1>5, <1>6, <1>7

(* No message the process sends while it runs is a hangup.                 *)
LEMMA NoHangup ==
  ASSUME NEW q \in Seq(FromContext), NEW r \in Seq(FromContext),
         Hits(q, Hangups) = {}, \A k \in DOMAIN r : r[k] \notin Hangups
  PROVE  Hits(q \o r, Hangups) = {}
<1>1. Hits(r, Hangups) = {}
  BY DEF Hits
<1>2. Hits(q \o r, Hangups)
        = Hits(q, Hangups) \cup {k + Len(q) : k \in Hits(r, Hangups)}
  BY HitsConcat
<1>3. QED
  BY <1>1, <1>2

(* Taking the keyboard sends a grab, and never a hangup. *)
LEMMA TakeKeyboardLink ==
  ASSUME WireTypeOK, iserial' \in Nat, Hits(fromContext, Hangups) = {},
         TakeKeyboard, NEW before
  PROVE  /\ Hits(fromContext', Hangups) = {}
         /\ Leaves(fromContext', Grabs, Takings, before)
<1> DEFINE resend == IF cs = Empty THEN <<>> ELSE <<Composed(iserial', cs)>>
           take   == [type |-> "grab"]
           taken  == fromContext \o <<take>>
<1>1. fromContext' = taken \o resend \o <<Frame>>
  BY DEF TakeKeyboard
<1>2. /\ fromContext \in Seq(FromContext) /\ cs \in Texts
      /\ take \in FromContext /\ Frame \in FromContext
      /\ Composed(iserial', cs) \in FromContext
  BY ContextMessages DEF WireTypeOK, ContextTypeOK, ChannelTypeOK
<1>3. /\ resend \in Seq(FromContext) /\ <<Frame>> \in Seq(FromContext)
      /\ <<take>> \in Seq(FromContext)
  BY <1>2
<1>4. /\ take \in Grabs /\ take \in Takings /\ take \notin Hangups
      /\ Frame \notin Grabs /\ Frame \notin Hangups
      /\ Composed(iserial', cs) \notin Grabs
      /\ Composed(iserial', cs) \notin Hangups
  BY DEF Grabs, Takings, Hangups, Frame, Composed
<1> HIDE DEF take
<1>5. /\ \A k \in DOMAIN resend : /\ resend[k] \notin Grabs
                                  /\ resend[k] \notin Hangups
      /\ \A k \in DOMAIN <<Frame>> : /\ <<Frame>>[k] \notin Grabs
                                     /\ <<Frame>>[k] \notin Hangups
      /\ \A k \in DOMAIN <<take>> : <<take>>[k] \notin Hangups
  BY <1>4
<1>6. taken \in Seq(FromContext) /\ taken = Append(fromContext, take)
  BY <1>2, <1>3
<1>7. Hits(taken, Hangups) = {} /\ Leaves(taken, Grabs, Takings, before)
  <2>1. Hits(taken, Hangups) = {}
    BY <1>2, <1>3, <1>5, NoHangup
  <2>2. Leaves(Append(fromContext, take), Grabs, Takings, before)
    BY <1>2, <1>4, Appended
  <2>3. QED
    BY <1>6, <2>1, <2>2
<1> HIDE DEF resend, taken
<1>8. /\ taken \o resend \in Seq(FromContext)
      /\ Hits(taken \o resend, Hangups) = {}
      /\ Leaves(taken \o resend, Grabs, Takings, before)
  BY <1>3, <1>5, <1>6, <1>7, ConcatType, NoHangup, Passed
<1>9. QED
  BY <1>1, <1>3, <1>5, <1>8, NoHangup, Passed

(* Giving the keyboard back sends a release, the last word until a grab. *)
LEMMA GiveBackKeyboardLink ==
  ASSUME WireTypeOK, Hits(fromContext, Hangups) = {}, GiveBackKeyboard,
         NEW before
  PROVE  /\ Hits(fromContext', Hangups) = {}
         /\ ~Leaves(fromContext', Grabs, Takings, before)
<1> DEFINE m == [type |-> "release"]
<1>1. /\ fromContext' = Append(fromContext, m)
      /\ fromContext \in Seq(FromContext) /\ m \in FromContext
  BY ContextMessages DEF GiveBackKeyboard, WireTypeOK, ChannelTypeOK
<1>2. m \in Grabs /\ m \notin Takings /\ m \notin Hangups
  BY DEF Grabs, Takings, Hangups
<1> HIDE DEF m
<1>3. ~Leaves(fromContext', Grabs, Takings, before)
  BY <1>1, <1>2, Appended
<1>4. Hits(fromContext', Hangups) = {}
  <2>1. fromContext' = fromContext \o <<m>> /\ <<m>> \in Seq(FromContext)
        /\ \A k \in DOMAIN <<m>> : <<m>>[k] \notin Hangups
    BY <1>1, <1>2
  <2>2. QED
    BY <1>1, <2>1, NoHangup
<1>5. QED
  BY <1>3, <1>4

(* Switching on takes the keyboard, switching off gives it back.           *)
LEMMA ContextDoneKeyboard ==
  ASSUME WireTypeOK, WireTypeOK', MethodLink, KeyboardLink, ContextDone
  PROVE  KeyboardLink'
<1>1. /\ running /\ igrab' = iactive'
      /\ CASE iactive' /\ ~igrab -> TakeKeyboard
           [] ~iactive' /\ igrab -> GiveBackKeyboard
           [] OTHER -> UNCHANGED <<fromContext, repeating>>
      /\ UNCHANGED <<running, present, grab>>
  BY DEF ContextDone, methodVars
<1>2. /\ igrab \in BOOLEAN /\ iactive' \in BOOLEAN /\ iserial' \in Nat
      /\ present /\ Hits(fromContext, Hangups) = {}
      /\ Leaves(fromContext, Grabs, Takings, grab) <=> igrab
  BY <1>1 DEF WireTypeOK, ContextTypeOK, MethodLink, KeyboardLink
<1>3. CASE iactive' /\ ~igrab
  <2>1. TakeKeyboard
    BY <1>1, <1>3
  <2>2. Hits(fromContext', Hangups) = {}
        /\ Leaves(fromContext', Grabs, Takings, grab)
    BY <1>2, <2>1, TakeKeyboardLink
  <2>3. QED
    BY <1>1, <1>2, <1>3, <2>2 DEF KeyboardLink
<1>4. CASE ~iactive' /\ igrab
  <2>1. GiveBackKeyboard
    BY <1>1, <1>4
  <2>2. Hits(fromContext', Hangups) = {}
        /\ ~Leaves(fromContext', Grabs, Takings, grab)
    BY <1>2, <2>1, GiveBackKeyboardLink
  <2>3. QED
    BY <1>1, <1>2, <1>4, <2>2 DEF KeyboardLink
<1>5. CASE iactive' <=> igrab
  <2>1. UNCHANGED fromContext
    BY <1>1, <1>5
  <2>2. QED
    BY <1>1, <1>2, <1>5, <2>1 DEF KeyboardLink
<1>6. QED
  BY <1>2, <1>3, <1>4, <1>5

(* The server takes one message of the process.                            *)
LEMMA TakenFromContext ==
  ASSUME WireTypeOK, KeyboardLink, fromContext # <<>>,
         fromContext' = Tail(fromContext),
         grab' <=> (IF Head(fromContext) \in Grabs
                    THEN Head(fromContext) \in Takings ELSE grab),
         UNCHANGED <<running, present, igrab, iactive>>
  PROVE  KeyboardLink'
<1>1. fromContext \in Seq(FromContext)
  BY DEF WireTypeOK, ChannelTypeOK
<1>2. Leaves(fromContext, Grabs, Takings, grab)
        <=> Leaves(fromContext', Grabs, Takings, grab')
  <2>1. Leaves(fromContext, Grabs, Takings, grab)
          <=> Leaves(fromContext', Grabs, Takings,
                     IF Head(fromContext) \in Grabs
                     THEN Head(fromContext) \in Takings ELSE grab)
    BY <1>1, Taken
  <2>2. QED
    BY <2>1 DEF Leaves
<1>3. Hits(fromContext, Hangups) = {} => Hits(fromContext', Hangups) = {}
  <2> SUFFICES ASSUME NEW k \in Hits(fromContext', Hangups)
               PROVE  Hits(fromContext, Hangups) # {}
    OBVIOUS
  <2>1. /\ k \in 1..Len(Tail(fromContext))
        /\ Tail(fromContext)[k] \in Hangups
    BY <1>1 DEF Hits
  <2>2. k + 1 \in DOMAIN fromContext
        /\ fromContext[k + 1] = Tail(fromContext)[k]
    BY <1>1, <2>1
  <2>3. QED
    BY <2>1, <2>2 DEF Hits
<1>4. present
  BY DEF KeyboardLink
<1>5. QED
  BY <1>2, <1>3, <1>4 DEF KeyboardLink

(* What the server takes in of a process that runs it acts upon. *)
LEMMA ServerReceivesKeyboard ==
  ASSUME WireTypeOK, KeyboardLink,
         ReceiveContextCommit \/ ReceiveGrab \/ ReceiveFrame
  PROVE  KeyboardLink'
<1>1. /\ fromContext # <<>> /\ fromContext' = Tail(fromContext)
      /\ Head(fromContext) \in FromContext
      /\ UNCHANGED <<running, present, igrab, iactive>>
  BY ArrivesType DEF ReceiveContextCommit, ReceiveGrab, ReceiveFrame, Arrives,
     WireTypeOK, ChannelTypeOK, contextVars
<1>2. CASE ReceiveGrab
  <2>1. /\ Head(fromContext).type \in {"grab", "release"}
        /\ grab' = (Head(fromContext).type = "grab")
    BY <1>2 DEF ReceiveGrab, Arrives
  <2>2. /\ Head(fromContext) \in Grabs
        /\ Head(fromContext) \in Takings <=> Head(fromContext).type = "grab"
    BY <1>1, <2>1 DEF Grabs, Takings, FromContext
  <2>3. QED
    BY <1>1, <2>1, <2>2, TakenFromContext
<1>3. CASE ReceiveContextCommit \/ ReceiveFrame
  <2>1. Head(fromContext).type \in {"commit", "frame"} /\ UNCHANGED grab
    BY <1>3 DEF ReceiveContextCommit, ReceiveFrame, Arrives
  <2>2. Head(fromContext) \notin Grabs
    BY <2>1 DEF Grabs
  <2>3. QED
    BY <1>1, <2>1, <2>2, TakenFromContext
<1>4. QED
  BY <1>2, <1>3
-----------------------------------------------------------------------------
(* What is known of the connection with the input method process: each     *)
(* half needs the other, as a process that runs has an object in the       *)
(* server, and one that has gone leaves nothing on its way.                *)
ContextLink == MethodLink /\ KeyboardLink

(* Every step keeps it.                                                    *)
LEMMA NextContextLink ==
  TypeOK /\ TypeOK' /\ ServerInv /\ ContextLink /\ [Next]_vars => ContextLink'
<1> SUFFICES ASSUME WireTypeOK, WireTypeOK', ServerInv, MethodLink,
                    KeyboardLink, [Next]_vars
             PROVE  MethodLink' /\ KeyboardLink'
  BY DEF TypeOK, ContextLink
<1>1. ASSUME ClientNext \/ UNCHANGED vars
      PROVE  MethodLink' /\ KeyboardLink'
  <2>1. UNCHANGED <<running, present, toContext, fromContext, dones, grab,
                    iserial, iactive, igrab, active>>
    BY <1>1 DEF ClientNext, ClientReceives, ReceiveEnter, ReceiveLeave,
       ReceiveDone, Idle, Output, CreateInput, DestroyInput, methodVars,
       contextVars, channels, vars
  <2>2. QED
    BY <2>1, MethodFrame, KeyboardFrame
<1>2. ASSUME \/ \E s \in NullableInput : FocusChange(s)
             \/ \E c \in Clients : ServerReceives(c)
             \/ ToggleKey \/ GrabbedKey
      PROVE  MethodLink' /\ KeyboardLink'
  <2>1. UNCHANGED <<running, present, fromContext, grab, igrab, iactive>>
    BY <1>2 DEF FocusChange, ServerReceives, ReceiveCommit, ReceiveCreate,
       ReceiveDestroy, ToggleKey, GrabbedKey, methodVars, contextVars
  <2>2. ASSUME NEW c \in Clients, ReceiveCreate(c) PROVE MethodLink'
    <3>1. UNCHANGED <<running, present, toContext, dones, iserial, iactive,
                      active>>
      BY <2>2 DEF ReceiveCreate, methodVars, contextVars
    <3>2. QED
      BY <3>1, MethodFrame
  <2>3. MethodLink'
    BY <1>2, <2>2, FocusChangeLink, ReceiveCommitLink, ReceiveDestroyLink,
       ToggleKeyLink, GrabbedKeyLink DEF ServerReceives
  <2>4. QED
    BY <2>1, <2>3, KeyboardFrame
<1>3. ASSUME ReceiveContextCommit \/ ReceiveGrab \/ ReceiveFrame
      PROVE  MethodLink' /\ KeyboardLink'
  <2>1. UNCHANGED <<running, present, toContext, dones, iserial, iactive,
                    active>>
    BY <1>3 DEF ReceiveContextCommit, ReceiveGrab, ReceiveFrame, contextVars
  <2>2. QED
    BY <1>3, <2>1, MethodFrame, ServerReceivesKeyboard
<1>4. ASSUME Repeat
      PROVE  MethodLink' /\ KeyboardLink'
  <2>1. UNCHANGED <<running, present, toContext, dones, iserial, iactive,
                    active>>
    BY <1>4 DEF Repeat, methodVars
  <2>2. QED
    BY <1>4, <2>1, MethodFrame, ContextKeyKeyboard
<1>5. CASE ServerNext
  BY <1>2, <1>3, <1>5, ReceiveHangupLink DEF ServerNext, ServerReceivesContext
<1>6. CASE ContextNext
  BY <1>4, <1>6, StartLink, ExitLink, ContextDoneLink, ContextDoneKeyboard,
     ContextKeyLink, ContextKeyKeyboard DEF ContextNext, ContextReceives
<1>7. QED
  BY <1>1, <1>5, <1>6 DEF Next

(* At the start only the first frame of the popup is on its way.           *)
LEMMA InitContextLink == Init => ContextLink
<1> SUFFICES ASSUME Init PROVE MethodLink /\ KeyboardLink
  BY DEF ContextLink
<1>1. /\ present = TRUE /\ iactive = FALSE /\ igrab = FALSE /\ iserial = 0
      /\ dones = 0 /\ active = FALSE /\ grab = FALSE
      /\ toContext = <<>> /\ fromContext = <<Frame>>
  BY DEF Init
<1>2. MethodLink
  BY <1>1, LeavesEmpty DEF MethodLink
<1>3. Frame \notin Grabs /\ Frame \notin Hangups
  BY DEF Frame, Grabs, Hangups
<1>4. KeyboardLink
  BY <1>1, <1>3, HitsOne, LeavesOne DEF KeyboardLink
<1>5. QED
  BY <1>2, <1>4

(* It holds of every state the three programs reach.                       *)
THEOREM ContextLinkCorrect == Spec => []ContextLink
<1>1. TypeOK /\ TypeOK' /\ ServerInv /\ ContextLink /\ [Next]_vars
        => ContextLink'
  BY NextContextLink
<1>2. QED
  BY <1>1, TypeCorrect, ServerCorrect, InitContextLink, PTL DEF Spec

(* Whatever toggles, focus changes, exits and restarts cross on the way,   *)
(* once the messages are handled the input method process and the server   *)
(* both have the keyboard grabbed exactly while the input method is active:*)
(* no key is swallowed by a process that composes nothing, and none passes *)
(* by one that does.                                                       *)
THEOREM GrabCorrect == Spec => []GrabFollowsActivation
<1>1. ContextLink => GrabFollowsActivation
  <2> SUFFICES ASSUME MethodLink, KeyboardLink, Quiet, running
               PROVE  (grab <=> active) /\ (igrab <=> active)
    BY DEF ContextLink, GrabFollowsActivation
  <2>1. toContext = <<>> /\ fromContext = <<>>
    BY DEF Quiet
  <2>2. /\ Leaves(toContext, Switches, Activations, iactive) <=> iactive
        /\ Leaves(fromContext, Grabs, Takings, grab) <=> grab
    BY <2>1, LeavesEmpty
  <2>3. QED
    BY <2>2 DEF MethodLink, KeyboardLink
<1>2. QED
  BY <1>1, ContextLinkCorrect, PTL
-----------------------------------------------------------------------------
(* The messages of one text input, and those on a connection they do not   *)
(* belong to.                                                              *)
AsksOf(i)       == {m \in ToServer : m.input = i}
CommitsOf(i)    == {m \in AsksOf(i) : m.type = "commit"}
Foreign(c)      == {m \in ToServer : Owner[m.input] # c}
Replies         == {m \in ToClient : m.type = "done"}
RepliesTo(i)    == {m \in Replies : m.input = i}
Telling(i, n)   == {m \in RepliesTo(i) : m.serial = n}
ForeignDones(c) == {m \in Replies : Owner[m.input] # c}

(* The connections towards the server: the commits under way make up for   *)
(* what the serial of the server lacks, from the creation of a text input  *)
(* until its destruction.                                                  *)
UpLink ==
  /\ \A c \in Clients : Pending(toServer[c], Foreign(c)) = 0
  /\ \A i \in Inputs :
       /\ life[i] = "none" => /\ i \notin exists
                              /\ Pending(toServer[Owner[i]], AsksOf(i)) = 0
       /\ life[i] # "gone" =>
            cserial[i] = serial[i] + Pending(toServer[Owner[i]], CommitsOf(i))

(* The connections from it: the last done event on its way leaves a text   *)
(* input with the serial of the server.                                    *)
DownLink ==
  /\ \A c \in Clients : Pending(toClient[c], ForeignDones(c)) = 0
  /\ \A i \in Inputs :
       /\ life[i] = "none" => Pending(toClient[Owner[i]], RepliesTo(i)) = 0
       /\ life[i] # "gone" =>
            Leaves(toClient[Owner[i]], RepliesTo(i), Telling(i, serial[i]),
                   cdone[i] = serial[i])

(* What leaves the variables of the connections alone keeps this.          *)
LEMMA UpFrame ==
  ASSUME UpLink, UNCHANGED <<toServer, life, exists, cserial, serial>>
  PROVE  UpLink'
  BY DEF UpLink

(* ... and so does the invariant of the connections to the applications. *)
LEMMA DownFrame ==
  ASSUME DownLink, UNCHANGED <<toClient, life, serial, cdone>>
  PROVE  DownLink'
  BY DEF DownLink

(* A text input sends messages of its own on its own connection.           *)
LEMMA SentUp ==
  ASSUME WireTypeOK, NEW i \in Inputs, NEW r \in Seq(ToServer),
         \A k \in DOMAIN r : r[k].input = i,
         toServer' = [toServer EXCEPT ![Owner[i]] = @ \o r]
  PROVE  /\ \A c \in Clients : Pending(toServer'[c], Foreign(c))
                               = Pending(toServer[c], Foreign(c))
         /\ \A j \in Inputs \ {i} :
              /\ Pending(toServer'[Owner[j]], AsksOf(j))
                   = Pending(toServer[Owner[j]], AsksOf(j))
              /\ Pending(toServer'[Owner[j]], CommitsOf(j))
                   = Pending(toServer[Owner[j]], CommitsOf(j))
         /\ Pending(toServer'[Owner[i]], CommitsOf(i))
              = Pending(toServer[Owner[i]], CommitsOf(i))
                  + Pending(r, CommitsOf(i))
<1> DEFINE o == Owner[i]
<1>1. /\ o \in Clients /\ \A c \in Clients : toServer[c] \in Seq(ToServer)
      /\ toServer'[o] = toServer[o] \o r
      /\ \A c \in Clients \ {o} : toServer'[c] = toServer[c]
  BY WireAssumption DEF WireTypeOK, ChannelTypeOK
<1>2. ASSUME NEW M, \A m \in M : m.input # i, NEW c \in Clients
      PROVE  Pending(toServer'[c], M) = Pending(toServer[c], M)
  <2>1. CASE c = o
    <3>1. \A k \in DOMAIN r : r[k] \notin M
      BY <1>2
    <3>2. QED
      BY <1>1, <2>1, <3>1, Passed
  <2>2. CASE c # o
    BY <1>1, <2>2
  <2>3. QED
    BY <2>1, <2>2
<1>3. ASSUME NEW c \in Clients
      PROVE  Pending(toServer'[c], Foreign(c)) = Pending(toServer[c], Foreign(c))
  <2>1. CASE c = o
    <3>1. \A m \in Foreign(c) : m.input # i
      BY <2>1 DEF Foreign
    <3>2. QED
      BY <1>2, <3>1
  <2>2. CASE c # o
    BY <1>1, <2>2
  <2>3. QED
    BY <2>1, <2>2
<1>4. ASSUME NEW j \in Inputs \ {i}
      PROVE  /\ Pending(toServer'[Owner[j]], AsksOf(j))
                  = Pending(toServer[Owner[j]], AsksOf(j))
             /\ Pending(toServer'[Owner[j]], CommitsOf(j))
                  = Pending(toServer[Owner[j]], CommitsOf(j))
  <2>1. /\ \A m \in AsksOf(j) : m.input # i
        /\ \A m \in CommitsOf(j) : m.input # i
    BY DEF AsksOf, CommitsOf
  <2>2. Owner[j] \in Clients
    BY WireAssumption
  <2>3. QED
    BY <1>2, <2>1, <2>2
<1>5. Pending(toServer'[o], CommitsOf(i))
        = Pending(toServer[o], CommitsOf(i)) + Pending(r, CommitsOf(i))
  <2> DEFINE q == toServer[o]
             M == CommitsOf(i)
  <2>1. q \in Seq(ToServer) /\ toServer'[o] = q \o r
    BY <1>1
  <2> HIDE DEF q, M
  <2>2. Pending(q \o r, M) = Pending(q, M) + Pending(r, M)
    BY <2>1, PendingConcat
  <2>3. QED
    BY <2>1, <2>2 DEF q, M
<1>6. QED
  BY <1>3, <1>4, <1>5

(* The server takes a message of an application.                           *)
LEMMA TakenUp ==
  ASSUME WireTypeOK, UpLink, NEW c \in Clients, toServer[c] # <<>>,
         toServer' = [toServer EXCEPT ![c] = Tail(@)]
  PROVE  LET m == Head(toServer[c])
             i == m.input
         IN  /\ m \in ToServer /\ i \in Inputs /\ Owner[i] = c
             /\ life[i] # "none"
             /\ \A d \in Clients : Pending(toServer'[d], Foreign(d)) = 0
             /\ \A j \in Inputs : life[j] = "none" =>
                  Pending(toServer'[Owner[j]], AsksOf(j)) = 0
             /\ \A j \in Inputs :
                  Pending(toServer[Owner[j]], CommitsOf(j))
                    = IF j = i /\ m.type = "commit"
                      THEN Pending(toServer'[Owner[j]], CommitsOf(j)) + 1
                      ELSE Pending(toServer'[Owner[j]], CommitsOf(j))
<1> DEFINE m == Head(toServer[c])
           i == m.input
<1>1. /\ \A d \in Clients : toServer[d] \in Seq(ToServer)
      /\ toServer'[c] = Tail(toServer[c])
      /\ \A d \in Clients \ {c} : toServer'[d] = toServer[d]
  BY DEF WireTypeOK, ChannelTypeOK
<1>2. m \in ToServer /\ toServer'[c] \in Seq(ToServer)
  BY <1>1
<1>3. i \in Inputs
  BY <1>2 DEF ToServer
<1>4. 1 \in DOMAIN toServer[c] /\ toServer[c][1] = m
  BY <1>1
<1>5. ASSUME NEW M, NEW d \in Clients, Pending(toServer[d], M) = 0
      PROVE  Pending(toServer'[d], M) = 0 /\ (d = c => m \notin M)
  <2>1. CASE d = c
    <3>1. Pending(toServer[c], M)
            = IF m \in M THEN Pending(toServer'[c], M) + 1
                         ELSE Pending(toServer'[c], M)
      BY <1>1, Taken
    <3>2. Pending(toServer'[c], M) \in Nat
      BY <1>2, PendingType
    <3>3. QED
      BY <1>5, <2>1, <3>1, <3>2
  <2>2. CASE d # c
    BY <1>1, <1>5, <2>2
  <2>3. QED
    BY <2>1, <2>2
<1>6. \A d \in Clients : Pending(toServer'[d], Foreign(d)) = 0
  BY <1>5 DEF UpLink
<1>7. Owner[i] = c
  <2>1. m \notin Foreign(c)
    BY <1>5 DEF UpLink
  <2>2. QED
    BY <1>2, <2>1 DEF Foreign
<1>8. life[i] # "none"
  <2>1. m \in AsksOf(i)
    BY <1>2 DEF AsksOf
  <2>2. QED
    BY <1>3, <1>5, <1>7, <2>1 DEF UpLink
<1>9. \A j \in Inputs : life[j] = "none" =>
        Pending(toServer'[Owner[j]], AsksOf(j)) = 0
  BY <1>5, WireAssumption DEF UpLink
<1>10. ASSUME NEW j \in Inputs
       PROVE  Pending(toServer[Owner[j]], CommitsOf(j))
                = IF j = i /\ m.type = "commit"
                  THEN Pending(toServer'[Owner[j]], CommitsOf(j)) + 1
                  ELSE Pending(toServer'[Owner[j]], CommitsOf(j))
  <2>1. Owner[j] \in Clients
    BY WireAssumption
  <2>2. CASE Owner[j] = c
    <3>1. m \in CommitsOf(j) <=> j = i /\ m.type = "commit"
      BY <1>2 DEF CommitsOf, AsksOf
    <3>2. Pending(toServer[c], CommitsOf(j))
            = IF m \in CommitsOf(j)
              THEN Pending(toServer'[c], CommitsOf(j)) + 1
              ELSE Pending(toServer'[c], CommitsOf(j))
      BY <1>1, Taken
    <3>3. QED
      BY <2>2, <3>1, <3>2
  <2>3. CASE Owner[j] # c
    BY <1>1, <1>7, <2>1, <2>3
  <2>4. QED
    BY <2>2, <2>3
<1>11. QED
  BY <1>2, <1>3, <1>6, <1>7, <1>8, <1>9, <1>10

(* Committing keeps the count, and so does the commit received.            *)
LEMMA ClientCommitUp ==
  ASSUME WireTypeOK, UpLink, NEW i \in Inputs,
         NEW request \in {"enable", "disable", "keep"},
         caret' \in [Inputs -> Rects], ClientCommit(i, request),
         life[i] # "none", UNCHANGED <<life, exists, serial>>
  PROVE  UpLink'
<1> DEFINE m == [type |-> "commit", input |-> i, request |-> request,
                 rect |-> caret'[i]]
<1>1. /\ m \in ToServer /\ m \in CommitsOf(i) /\ m.input = i
      /\ \A d \in Clients : toServer[d] \in Seq(ToServer)
      /\ Owner[i] \in Clients /\ cserial \in [Inputs -> Nat]
      /\ serial \in [Inputs -> Nat]
  BY WireAssumption DEF ToServer, CommitsOf, AsksOf, WireTypeOK, ChannelTypeOK,
     TextTypeOK, ClientTypeOK
<1>2. /\ cserial' = [cserial EXCEPT ![i] = @ + 1]
      /\ toServer' = [toServer EXCEPT ![Owner[i]] = Append(@, m)]
  BY DEF ClientCommit
<1> HIDE DEF m
<1>3. /\ <<m>> \in Seq(ToServer) /\ \A k \in DOMAIN <<m>> : <<m>>[k].input = i
      /\ Append(toServer[Owner[i]], m) = toServer[Owner[i]] \o <<m>>
  <2> DEFINE q == toServer[Owner[i]]
  <2>1. q \in Seq(ToServer) /\ m \in ToServer
    BY <1>1
  <2> HIDE DEF q
  <2>2. Append(q, m) = q \o <<m>> /\ <<m>> \in Seq(ToServer)
    BY <2>1, AppendIsConcat
  <2>3. \A k \in DOMAIN <<m>> : <<m>>[k] = m
    OBVIOUS
  <2>4. QED
    BY <1>1, <2>2, <2>3 DEF q
<1>4. toServer' = [toServer EXCEPT ![Owner[i]] = @ \o <<m>>]
  BY <1>2, <1>3
<1>5. Pending(<<m>>, CommitsOf(i)) = 1
  BY <1>1, PendingOne
<1>6. /\ \A c \in Clients : Pending(toServer'[c], Foreign(c))
                            = Pending(toServer[c], Foreign(c))
      /\ \A j \in Inputs \ {i} :
           /\ Pending(toServer'[Owner[j]], AsksOf(j))
                = Pending(toServer[Owner[j]], AsksOf(j))
           /\ Pending(toServer'[Owner[j]], CommitsOf(j))
                = Pending(toServer[Owner[j]], CommitsOf(j))
      /\ Pending(toServer'[Owner[i]], CommitsOf(i))
           = Pending(toServer[Owner[i]], CommitsOf(i)) + 1
  BY <1>3, <1>4, <1>5, SentUp
<1>7. Pending(toServer[Owner[i]], CommitsOf(i)) \in Nat
  BY <1>1, PendingType
<1>8. ASSUME NEW j \in Inputs, life[j] # "gone"
      PROVE  cserial'[j] = serial[j] + Pending(toServer'[Owner[j]], CommitsOf(j))
  <2>1. cserial[j] = serial[j] + Pending(toServer[Owner[j]], CommitsOf(j))
    BY <1>8 DEF UpLink
  <2>2. CASE j = i
    <3>1. cserial'[i] = cserial[i] + 1 /\ serial[i] \in Nat
      BY <1>1, <1>2
    <3>2. QED
      BY <1>6, <1>7, <2>1, <2>2, <3>1
  <2>3. CASE j # i
    BY <1>1, <1>2, <1>6, <2>1, <2>3
  <2>4. QED
    BY <2>2, <2>3
<1>9. QED
  BY <1>6, <1>8 DEF UpLink

(* A commit received moves from the channel to the count of the server. *)
LEMMA ReceiveCommitUp ==
  ASSUME WireTypeOK, WireTypeOK', UpLink, NEW c \in Clients, ReceiveCommit(c)
  PROVE  UpLink'
<1> DEFINE m == Head(toServer[c])
           i == m.input
<1>1. /\ toServer[c] # <<>> /\ m.type = "commit"
      /\ toServer' = [toServer EXCEPT ![c] = Tail(@)]
      /\ serial' = [serial EXCEPT ![i] = @ + 1]
      /\ UNCHANGED <<life, exists, cserial>>
  BY DEF ReceiveCommit, Arrives, clientVars
<1>2. /\ i \in Inputs
      /\ \A d \in Clients : Pending(toServer'[d], Foreign(d)) = 0
      /\ \A j \in Inputs : life[j] = "none" =>
           Pending(toServer'[Owner[j]], AsksOf(j)) = 0
      /\ \A j \in Inputs : Pending(toServer[Owner[j]], CommitsOf(j))
           = IF j = i /\ m.type = "commit"
             THEN Pending(toServer'[Owner[j]], CommitsOf(j)) + 1
             ELSE Pending(toServer'[Owner[j]], CommitsOf(j))
  BY <1>1, TakenUp
<1> HIDE DEF m, i
<1>3. ASSUME NEW j \in Inputs, life[j] # "gone"
      PROVE  cserial[j] = serial'[j] + Pending(toServer'[Owner[j]], CommitsOf(j))
  <2>1. /\ cserial[j] = serial[j] + Pending(toServer[Owner[j]], CommitsOf(j))
        /\ Pending(toServer[Owner[j]], CommitsOf(j))
             = IF j = i THEN Pending(toServer'[Owner[j]], CommitsOf(j)) + 1
               ELSE Pending(toServer'[Owner[j]], CommitsOf(j))
    BY <1>1, <1>2, <1>3 DEF UpLink
  <2>2. serial \in [Inputs -> Nat] /\ toServer'[Owner[j]] \in Seq(ToServer)
    BY WireAssumption DEF WireTypeOK, TextTypeOK, ChannelTypeOK
  <2>3. serial'[j] = IF j = i THEN serial[j] + 1 ELSE serial[j]
    BY <1>1, <2>2
  <2>4. serial[j] \in Nat /\ Pending(toServer'[Owner[j]], CommitsOf(j)) \in Nat
    BY <2>2, PendingType
  <2>5. QED
    BY <2>1, <2>3, <2>4
<1>4. QED
  BY <1>1, <1>2, <1>3 DEF UpLink

(* A creation or a destruction received is no commit of another text input. *)
LEMMA ReceiveLifeUp ==
  ASSUME WireTypeOK, UpLink, NEW c \in Clients,
         ReceiveCreate(c) \/ ReceiveDestroy(c)
  PROVE  UpLink'
<1> DEFINE m == Head(toServer[c])
           i == m.input
<1>1. /\ toServer[c] # <<>> /\ m.type # "commit"
      /\ toServer' = [toServer EXCEPT ![c] = Tail(@)]
      /\ exists' \subseteq exists \cup {i}
      /\ UNCHANGED <<life, serial, cserial>>
  BY DEF ReceiveCreate, ReceiveDestroy, Arrives, clientVars
<1>2. /\ i \in Inputs /\ life[i] # "none"
      /\ \A d \in Clients : Pending(toServer'[d], Foreign(d)) = 0
      /\ \A j \in Inputs : life[j] = "none" =>
           Pending(toServer'[Owner[j]], AsksOf(j)) = 0
      /\ \A j \in Inputs : Pending(toServer[Owner[j]], CommitsOf(j))
           = IF j = i /\ m.type = "commit"
             THEN Pending(toServer'[Owner[j]], CommitsOf(j)) + 1
             ELSE Pending(toServer'[Owner[j]], CommitsOf(j))
  BY <1>1, TakenUp
<1> HIDE DEF m, i
<1>3. \A j \in Inputs : life[j] = "none" => j \notin exists'
  BY <1>1, <1>2 DEF UpLink
<1>4. QED
  BY <1>1, <1>2, <1>3 DEF UpLink

(* An application entered commits once, or not at all. *)
LEMMA ReceiveEnterUp ==
  ASSUME WireTypeOK, WireTypeOK', UpLink, NEW c \in Clients, ReceiveEnter(c)
  PROVE  UpLink'
<1> DEFINE i == Head(toClient[c]).surface
<1>1. /\ NoCommit \/ (i \in Live /\ ClientCommit(i, "enable"))
      /\ UNCHANGED <<life, exists, serial>>
  BY DEF ReceiveEnter, textVars
<1> HIDE DEF i
<1>2. CASE NoCommit
  BY <1>1, <1>2, UpFrame DEF NoCommit
<1>3. CASE i \in Live /\ ClientCommit(i, "enable")
  <2>1. i \in Inputs /\ life[i] # "none" /\ caret' \in [Inputs -> Rects]
    BY <1>3 DEF Live, WireTypeOK, ClientTypeOK
  <2>2. QED
    BY <1>1, <1>3, <2>1, ClientCommitUp
<1>4. QED
  BY <1>1, <1>2, <1>3

(* The idle callback of a window commits once, or not at all. *)
LEMMA IdleUp ==
  ASSUME WireTypeOK, WireTypeOK', UpLink, NEW i \in Inputs, Idle(i)
  PROVE  UpLink'
<1>1. /\ NoCommit \/ ClientCommit(i, "keep")
      /\ i \in Live /\ UNCHANGED <<life, exists, serial>>
  BY DEF Idle, textVars
<1>2. CASE NoCommit
  BY <1>1, <1>2, UpFrame DEF NoCommit
<1>3. CASE ClientCommit(i, "keep")
  <2>1. life[i] # "none" /\ caret' \in [Inputs -> Rects]
    BY <1>1 DEF Live, WireTypeOK, ClientTypeOK
  <2>2. QED
    BY <1>1, <1>3, <2>1, ClientCommitUp
<1>4. QED
  BY <1>1, <1>2, <1>3

(* A text input made while its surface has the text input focus commits at *)
(* once; one that goes away is not asked about any more.                   *)
LEMMA CreateInputUp ==
  ASSUME WireTypeOK, UpLink, NEW i \in Inputs, CreateInput(i)
  PROVE  UpLink'
<1> DEFINE a == [type |-> "create", input |-> i]
           b == [type |-> "commit", input |-> i, request |-> "enable",
                 rect |-> caret[i]]
           o == Owner[i]
           q == toServer[o]
           entered == cfocus[o] = i
           r == IF entered THEN <<a, b>> ELSE <<a>>
<1>1. /\ life[i] = "none" /\ life' = [life EXCEPT ![i] = "live"]
      /\ cserial' = [cserial EXCEPT ![i] = IF entered THEN @ + 1 ELSE @]
      /\ toServer' = [toServer EXCEPT ![o] = IF ~entered THEN Append(q, a)
                                             ELSE Append(Append(q, a), b)]
      /\ UNCHANGED <<exists, serial>>
  BY DEF CreateInput, textVars
<1>2. /\ q \in Seq(ToServer) /\ o \in Clients
      /\ \A d \in Clients : toServer[d] \in Seq(ToServer)
      /\ cserial \in [Inputs -> Nat] /\ serial \in [Inputs -> Nat]
      /\ life \in [Inputs -> {"none", "live", "gone"}]
      /\ caret[i] \in Rects
  BY WireAssumption DEF WireTypeOK, ChannelTypeOK, TextTypeOK, ClientTypeOK
<1>3. /\ a \in ToServer /\ b \in ToServer /\ a.input = i /\ b.input = i
      /\ a \notin CommitsOf(i) /\ b \in CommitsOf(i)
  BY <1>2 DEF ToServer, CommitsOf, AsksOf
<1> HIDE DEF a, b
<1>4. /\ r \in Seq(ToServer) /\ \A k \in DOMAIN r : r[k].input = i
      /\ Pending(r, CommitsOf(i)) = IF entered THEN 1 ELSE 0
  <2>1. CASE entered
    <3>1. r = <<a, b>> /\ DOMAIN <<a, b>> = 1..2
      BY <2>1
    <3>2. r \in Seq(ToServer) /\ \A k \in DOMAIN r : r[k].input = i
      BY <1>3, <3>1
    <3>3. Pending(<<a, b>>, CommitsOf(i)) = 1
      BY <1>3, PendingTwo
    <3>4. QED
      BY <2>1, <3>1, <3>2, <3>3
  <2>2. CASE ~entered
    <3>1. r = <<a>>
      BY <2>2
    <3>2. r \in Seq(ToServer) /\ \A k \in DOMAIN r : r[k].input = i
      BY <1>3, <3>1
    <3>3. Pending(<<a>>, CommitsOf(i)) = 0
      BY <1>3, PendingOne
    <3>4. QED
      BY <2>2, <3>1, <3>2, <3>3
  <2>3. QED
    BY <2>1, <2>2
<1>5. toServer' = [toServer EXCEPT ![o] = @ \o r]
  <2>1. (IF ~entered THEN Append(q, a) ELSE Append(Append(q, a), b)) = q \o r
    <3> HIDE DEF q, entered
    <3>1. q \in Seq(ToServer) /\ a \in ToServer /\ b \in ToServer
      BY <1>2, <1>3
    <3>2. Append(Append(q, a), b) = q \o <<a, b>>
      BY <3>1, AppendTwo
    <3>3. Append(q, a) = q \o <<a>>
      BY <3>1, AppendIsConcat
    <3>4. QED
      BY <3>2, <3>3
  <2>2. QED
    BY <1>1, <2>1, Zenon
<1> HIDE DEF r, entered, q
<1>6. /\ \A c \in Clients : Pending(toServer'[c], Foreign(c))
                            = Pending(toServer[c], Foreign(c))
      /\ \A j \in Inputs \ {i} :
           /\ Pending(toServer'[Owner[j]], AsksOf(j))
                = Pending(toServer[Owner[j]], AsksOf(j))
           /\ Pending(toServer'[Owner[j]], CommitsOf(j))
                = Pending(toServer[Owner[j]], CommitsOf(j))
      /\ Pending(toServer'[o], CommitsOf(i))
           = Pending(toServer[o], CommitsOf(i)) + Pending(r, CommitsOf(i))
  BY <1>4, <1>5, SentUp
<1>7. cserial'[i] = serial[i] + Pending(toServer'[o], CommitsOf(i))
  <2>1. cserial[i] = serial[i] + Pending(toServer[o], CommitsOf(i))
    BY <1>1 DEF UpLink
  <2>2. cserial'[i] = IF entered THEN cserial[i] + 1 ELSE cserial[i]
    BY <1>1, <1>2
  <2>3. Pending(toServer[o], CommitsOf(i)) \in Nat /\ serial[i] \in Nat
    BY <1>2, PendingType
  <2>4. QED
    BY <1>4, <1>6, <2>1, <2>2, <2>3
<1>8. ASSUME NEW j \in Inputs \ {i}
      PROVE  /\ life'[j] = life[j] /\ cserial'[j] = cserial[j]
             /\ life'[j] = "none" => /\ j \notin exists
                                     /\ Pending(toServer'[Owner[j]], AsksOf(j)) = 0
             /\ life'[j] # "gone" =>
                  cserial'[j] = serial[j]
                                  + Pending(toServer'[Owner[j]], CommitsOf(j))
  BY <1>1, <1>2, <1>6 DEF UpLink
<1>9. life'[i] = "live"
  BY <1>1, <1>2
<1>10. \A c \in Clients : Pending(toServer'[c], Foreign(c)) = 0
  BY <1>6 DEF UpLink
<1>11. QED
  BY <1>1, <1>7, <1>8, <1>9, <1>10 DEF UpLink

(* The last commit of a text input that goes away precedes its destruction. *)
LEMMA DestroyInputUp ==
  ASSUME WireTypeOK, UpLink, NEW i \in Inputs, DestroyInput(i)
  PROVE  UpLink'
<1> DEFINE a == [type |-> "destroy", input |-> i]
           b == [type |-> "commit", input |-> i, request |-> "disable",
                 rect |-> caret[i]]
           o == Owner[i]
<1>1. /\ life' = [life EXCEPT ![i] = "gone"]
      /\ \/ /\ cserial' = [cserial EXCEPT ![i] = @ + 1]
            /\ toServer' = [toServer EXCEPT ![o] = @ \o <<b, a>>]
         \/ /\ cserial' = cserial
            /\ toServer' = [toServer EXCEPT ![o] = Append(@, a)]
      /\ UNCHANGED <<exists, serial>>
  BY DEF DestroyInput, textVars
<1>2. /\ o \in Clients /\ \A d \in Clients : toServer[d] \in Seq(ToServer)
      /\ cserial \in [Inputs -> Nat]
      /\ life \in [Inputs -> {"none", "live", "gone"}]
      /\ caret[i] \in Rects
  BY WireAssumption DEF WireTypeOK, ChannelTypeOK, ClientTypeOK
<1>3. a \in ToServer /\ b \in ToServer /\ a.input = i /\ b.input = i
  BY <1>2 DEF ToServer
<1> HIDE DEF a, b
<1>4. PICK r \in Seq(ToServer) :
        /\ \A k \in DOMAIN r : r[k].input = i
        /\ toServer' = [toServer EXCEPT ![o] = @ \o r]
  <2>1. CASE toServer' = [toServer EXCEPT ![o] = @ \o <<b, a>>]
    <3>1. /\ <<b, a>> \in Seq(ToServer)
          /\ \A k \in DOMAIN <<b, a>> : <<b, a>>[k].input = i
      BY <1>3
    <3>2. QED
      BY <2>1, <3>1
  <2>2. CASE toServer' = [toServer EXCEPT ![o] = Append(@, a)]
    <3>1. /\ <<a>> \in Seq(ToServer)
          /\ \A k \in DOMAIN <<a>> : <<a>>[k].input = i
      BY <1>3
    <3>2. Append(toServer[o], a) = toServer[o] \o <<a>>
      <4> DEFINE q == toServer[o]
      <4>1. q \in Seq(ToServer)
        BY <1>2
      <4> HIDE DEF q
      <4>2. Append(q, a) = q \o <<a>>
        BY <1>3, <4>1, AppendIsConcat
      <4>3. QED
        BY <4>2 DEF q
    <3>3. toServer' = [toServer EXCEPT ![o] = @ \o <<a>>]
      BY <2>2, <3>2
    <3>4. QED
      BY <3>1, <3>3
  <2>3. QED
    BY <1>1, <2>1, <2>2
<1>5. /\ \A c \in Clients : Pending(toServer'[c], Foreign(c))
                            = Pending(toServer[c], Foreign(c))
      /\ \A j \in Inputs \ {i} :
           /\ Pending(toServer'[Owner[j]], AsksOf(j))
                = Pending(toServer[Owner[j]], AsksOf(j))
           /\ Pending(toServer'[Owner[j]], CommitsOf(j))
                = Pending(toServer[Owner[j]], CommitsOf(j))
  BY <1>4, SentUp
<1>6. life'[i] = "gone"
  BY <1>1, <1>2
<1>7. \A j \in Inputs \ {i} : life'[j] = life[j] /\ cserial'[j] = cserial[j]
  BY <1>1, <1>2
<1>8. \A c \in Clients : Pending(toServer'[c], Foreign(c)) = 0
  BY <1>5 DEF UpLink
<1>9. ASSUME NEW j \in Inputs
      PROVE  /\ life'[j] = "none" => /\ j \notin exists
                                     /\ Pending(toServer'[Owner[j]], AsksOf(j)) = 0
             /\ life'[j] # "gone" =>
                  cserial'[j] = serial[j]
                                  + Pending(toServer'[Owner[j]], CommitsOf(j))
  <2>1. CASE j = i
    BY <1>6, <2>1
  <2>2. CASE j # i
    BY <1>5, <1>7, <2>2 DEF UpLink
  <2>3. QED
    BY <2>1, <2>2
<1>10. QED
  BY <1>1, <1>8, <1>9 DEF UpLink

(* Every step keeps the connections towards the server.                    *)
LEMMA NextUp == TypeOK /\ TypeOK' /\ UpLink /\ [Next]_vars => UpLink'
<1> SUFFICES ASSUME WireTypeOK, WireTypeOK', UpLink, [Next]_vars
             PROVE  UpLink'
  BY DEF TypeOK
<1>1. ASSUME \/ \E s \in NullableInput : FocusChange(s)
             \/ ToggleKey \/ GrabbedKey \/ ServerReceivesContext
      PROVE  UpLink'
  <2>1. UNCHANGED <<toServer, life, exists, cserial, serial>>
    BY <1>1 DEF FocusChange, ToggleKey, GrabbedKey, ServerReceivesContext,
       ReceiveContextCommit, ReceiveGrab, ReceiveFrame, ReceiveHangup,
       clientVars, textVars
  <2>2. QED
    BY <2>1, UpFrame
<1>2. ASSUME ContextNext \/ UNCHANGED vars
      PROVE  UpLink'
  <2>1. UNCHANGED <<toServer, life, exists, cserial, serial>>
    BY <1>2 DEF ContextNext, ContextReceives, Start, Exit, ContextDone,
       ContextKey, Repeat, clientVars, textVars, vars, channels
  <2>2. QED
    BY <2>1, UpFrame
<1>3. ASSUME \/ \E c \in Clients : ReceiveLeave(c) \/ ReceiveDone(c)
             \/ \E i \in Inputs : Output(i)
      PROVE  UpLink'
  <2>1. UNCHANGED <<toServer, life, exists, cserial, serial>>
    BY <1>3 DEF ReceiveLeave, ReceiveDone, Output, textVars, channels
  <2>2. QED
    BY <2>1, UpFrame
<1>4. CASE ServerNext
  BY <1>1, <1>4, ReceiveCommitUp, ReceiveLifeUp DEF ServerNext, ServerReceives
<1>5. CASE ClientNext
  BY <1>3, <1>5, ReceiveEnterUp, IdleUp, CreateInputUp, DestroyInputUp
     DEF ClientNext, ClientReceives
<1>6. QED
  BY <1>2, <1>4, <1>5 DEF Next
-----------------------------------------------------------------------------
(* A done event told to one text input is nobody else's.                   *)
LEMMA Replied ==
  ASSUME WireTypeOK, NEW j \in Inputs, NEW n \in Nat, NEW text \in Texts,
         Reply(j, n, text)
  PROVE  /\ \A c \in Clients : Pending(toClient'[c], ForeignDones(c))
                               = Pending(toClient[c], ForeignDones(c))
         /\ \A i \in Inputs \ {j} :
              /\ Pending(toClient'[Owner[i]], RepliesTo(i))
                   = Pending(toClient[Owner[i]], RepliesTo(i))
              /\ \A G, before :
                   Leaves(toClient'[Owner[i]], RepliesTo(i), G, before)
                     <=> Leaves(toClient[Owner[i]], RepliesTo(i), G, before)
         /\ \A before : Leaves(toClient'[Owner[j]], RepliesTo(j),
                               Telling(j, n), before)
<1> DEFINE m == [type |-> "done", input |-> j, serial |-> n, preedit |-> text]
           o == Owner[j]
<1>1. /\ o \in Clients /\ \A c \in Clients : toClient[c] \in Seq(ToClient)
      /\ toClient'[o] = Append(toClient[o], m)
      /\ \A c \in Clients \ {o} : toClient'[c] = toClient[c]
  BY WireAssumption DEF WireTypeOK, ChannelTypeOK, Reply
<1>2. /\ m \in ToClient /\ m.input = j /\ m \in RepliesTo(j)
      /\ m \in Telling(j, n)
  BY DEF ToClient, Replies, RepliesTo, Telling
<1> HIDE DEF m
<1>3. ASSUME NEW M, m \notin M, NEW c \in Clients
      PROVE  /\ Pending(toClient'[c], M) = Pending(toClient[c], M)
             /\ \A G, before : Leaves(toClient'[c], M, G, before)
                                 <=> Leaves(toClient[c], M, G, before)
  <2>1. CASE c = o
    <3> DEFINE q == toClient[o]
    <3>1. q \in Seq(ToClient)
      BY <1>1
    <3> HIDE DEF q
    <3>2. /\ Pending(Append(q, m), M) = Pending(q, M)
          /\ \A G, before : Leaves(Append(q, m), M, G, before)
                              <=> Leaves(q, M, G, before)
      BY <1>2, <1>3, <3>1, Appended
    <3>3. QED
      BY <1>1, <2>1, <3>2 DEF q
  <2>2. CASE c # o
    BY <1>1, <2>2
  <2>3. QED
    BY <2>1, <2>2
<1>4. ASSUME NEW c \in Clients
      PROVE  Pending(toClient'[c], ForeignDones(c))
               = Pending(toClient[c], ForeignDones(c))
  <2>1. CASE c = o
    <3>1. m \notin ForeignDones(c)
      BY <1>2, <2>1 DEF ForeignDones
    <3>2. QED
      BY <1>3, <3>1
  <2>2. CASE c # o
    BY <1>1, <2>2
  <2>3. QED
    BY <2>1, <2>2
<1>5. ASSUME NEW i \in Inputs \ {j}
      PROVE  /\ Pending(toClient'[Owner[i]], RepliesTo(i))
                  = Pending(toClient[Owner[i]], RepliesTo(i))
             /\ \A G, before :
                  Leaves(toClient'[Owner[i]], RepliesTo(i), G, before)
                    <=> Leaves(toClient[Owner[i]], RepliesTo(i), G, before)
  <2>1. m \notin RepliesTo(i) /\ Owner[i] \in Clients
    BY <1>2, WireAssumption DEF RepliesTo
  <2>2. QED
    BY <1>3, <2>1
<1>6. ASSUME NEW before
      PROVE  Leaves(toClient'[o], RepliesTo(j), Telling(j, n), before)
  <2>1. toClient[o] \in Seq(ToClient)
    BY <1>1
  <2>2. Leaves(Append(toClient[o], m), RepliesTo(j), Telling(j, n), before)
          <=> IF m \in RepliesTo(j) THEN m \in Telling(j, n)
              ELSE Leaves(toClient[o], RepliesTo(j), Telling(j, n), before)
    BY <1>2, <2>1, Appended
  <2>3. QED
    BY <1>1, <1>2, <2>2
<1>7. QED
  BY <1>4, <1>5, <1>6

(* A text input is answered with what has become its serial.               *)
LEMMA ReplyDown ==
  ASSUME WireTypeOK, DownLink, NEW j \in Inputs, NEW text \in Texts,
         life[j] # "none", serial'[j] \in Nat, Reply(j, serial'[j], text),
         \A i \in Inputs \ {j} : serial'[i] = serial[i],
         UNCHANGED <<life, cdone>>
  PROVE  DownLink'
<1> DEFINE n == serial'[j]
<1>1. /\ \A c \in Clients : Pending(toClient'[c], ForeignDones(c))
                            = Pending(toClient[c], ForeignDones(c))
      /\ \A i \in Inputs \ {j} :
           /\ Pending(toClient'[Owner[i]], RepliesTo(i))
                = Pending(toClient[Owner[i]], RepliesTo(i))
           /\ \A G, before :
                Leaves(toClient'[Owner[i]], RepliesTo(i), G, before)
                  <=> Leaves(toClient[Owner[i]], RepliesTo(i), G, before)
      /\ \A before : Leaves(toClient'[Owner[j]], RepliesTo(j),
                            Telling(j, n), before)
  BY Replied
<1>2. \A c \in Clients : Pending(toClient'[c], ForeignDones(c)) = 0
  BY <1>1 DEF DownLink
<1>3. ASSUME NEW i \in Inputs, life[i] = "none"
      PROVE  Pending(toClient'[Owner[i]], RepliesTo(i)) = 0
  BY <1>1, <1>3 DEF DownLink
<1>4. ASSUME NEW i \in Inputs, life[i] # "gone"
      PROVE  Leaves(toClient'[Owner[i]], RepliesTo(i), Telling(i, serial'[i]),
                    cdone[i] = serial'[i])
  <2>1. CASE i = j
    BY <1>1, <2>1
  <2>2. CASE i # j
    <3>1. Leaves(toClient[Owner[i]], RepliesTo(i), Telling(i, serial[i]),
                 cdone[i] = serial[i])
      BY <1>4 DEF DownLink
    <3>2. serial'[i] = serial[i]
      BY <2>2
    <3>3. QED
      BY <1>1, <2>2, <3>1, <3>2
  <2>3. QED
    BY <2>1, <2>2
<1>5. QED
  BY <1>2, <1>3, <1>4 DEF DownLink

(* An application takes the next event of its connection.                  *)
LEMMA TakenDown ==
  ASSUME WireTypeOK, DownLink, NEW c \in Clients, toClient[c] # <<>>,
         toClient' = [toClient EXCEPT ![c] = Tail(@)]
  PROVE  LET m == Head(toClient[c])
         IN  /\ m \in ToClient
             /\ m \in Replies => /\ m.input \in Inputs /\ Owner[m.input] = c
                                 /\ life[m.input] # "none"
             /\ \A d \in Clients : Pending(toClient'[d], ForeignDones(d)) = 0
             /\ \A j \in Inputs : life[j] = "none" =>
                  Pending(toClient'[Owner[j]], RepliesTo(j)) = 0
             /\ \A j \in Inputs : \A G, before :
                  Leaves(toClient[Owner[j]], RepliesTo(j), G, before)
                    <=> Leaves(toClient'[Owner[j]], RepliesTo(j), G,
                               IF m \in RepliesTo(j) THEN m \in G ELSE before)
<1> DEFINE m == Head(toClient[c])
<1>1. /\ \A d \in Clients : toClient[d] \in Seq(ToClient)
      /\ toClient'[c] = Tail(toClient[c])
      /\ \A d \in Clients \ {c} : toClient'[d] = toClient[d]
  BY DEF WireTypeOK, ChannelTypeOK
<1>2. m \in ToClient /\ toClient'[c] \in Seq(ToClient)
  BY <1>1
<1>3. ASSUME NEW M, NEW d \in Clients, Pending(toClient[d], M) = 0
      PROVE  Pending(toClient'[d], M) = 0 /\ (d = c => m \notin M)
  <2>1. CASE d = c
    <3>1. Pending(toClient[c], M)
            = IF m \in M THEN Pending(toClient'[c], M) + 1
                         ELSE Pending(toClient'[c], M)
      BY <1>1, Taken
    <3>2. Pending(toClient'[c], M) \in Nat
      BY <1>2, PendingType
    <3>3. QED
      BY <1>3, <2>1, <3>1, <3>2
  <2>2. CASE d # c
    BY <1>1, <1>3, <2>2
  <2>3. QED
    BY <2>1, <2>2
<1>4. \A d \in Clients : Pending(toClient'[d], ForeignDones(d)) = 0
  BY <1>3 DEF DownLink
<1>5. \A j \in Inputs : life[j] = "none" =>
        Pending(toClient'[Owner[j]], RepliesTo(j)) = 0
  BY <1>3, WireAssumption DEF DownLink
<1>6. ASSUME m \in Replies
      PROVE  m.input \in Inputs /\ Owner[m.input] = c /\ life[m.input] # "none"
  <2>1. m.input \in Inputs
    BY <1>2, <1>6 DEF Replies, ToClient
  <2>2. Owner[m.input] = c
    <3>1. m \notin ForeignDones(c)
      BY <1>3 DEF DownLink
    <3>2. QED
      BY <1>6, <3>1 DEF ForeignDones
  <2>3. life[m.input] # "none"
    <3>1. m \in RepliesTo(m.input)
      BY <1>6 DEF RepliesTo
    <3>2. QED
      BY <1>3, <2>1, <2>2, <3>1 DEF DownLink
  <2>4. QED
    BY <2>1, <2>2, <2>3
<1>7. ASSUME NEW j \in Inputs, NEW G, NEW before
      PROVE  Leaves(toClient[Owner[j]], RepliesTo(j), G, before)
               <=> Leaves(toClient'[Owner[j]], RepliesTo(j), G,
                          IF m \in RepliesTo(j) THEN m \in G ELSE before)
  <2>1. CASE Owner[j] = c
    <3>1. Leaves(toClient[c], RepliesTo(j), G, before)
            <=> Leaves(Tail(toClient[c]), RepliesTo(j), G,
                       IF m \in RepliesTo(j) THEN m \in G ELSE before)
      BY <1>1, Taken
    <3>2. QED
      BY <1>1, <2>1, <3>1
  <2>2. CASE Owner[j] # c
    <3>1. m \notin RepliesTo(j)
      BY <1>6, <2>2 DEF RepliesTo
    <3>2. toClient'[Owner[j]] = toClient[Owner[j]]
      BY <1>1, <2>2, WireAssumption
    <3>3. QED
      BY <3>1, <3>2 DEF Leaves
  <2>3. QED
    BY <2>1, <2>2
<1>8. QED
  BY <1>2, <1>4, <1>5, <1>6, <1>7

(* A focus change tells enter and leave only.                              *)
LEMMA FocusChangeDown ==
  ASSUME WireTypeOK, DownLink, NEW s \in NullableInput, FocusChange(s)
  PROVE  DownLink'
<1> DEFINE left    == {i \in exists : focus # None /\ surface[i] = focus}
           entered == {i \in exists : s # None /\ Owner[i] = Owner[s]}
           Tell(c, type, s1, is) ==
             IF is = {} \/ \E i \in is : Owner[i] # c THEN <<>>
             ELSE <<[type |-> type, surface |-> s1, inputs |-> is]>>
           a(c) == Tell(c, "leave", focus, left)
           b(c) == Tell(c, "enter", s, entered)
<1>1. /\ UNCHANGED <<life, serial, cdone>>
      /\ toClient' = [c \in Clients |-> toClient[c] \o a(c) \o b(c)]
  BY DEF FocusChange, clientVars
<1>2. ASSUME NEW c \in Clients, NEW type \in {"enter", "leave"}, NEW s1,
             NEW is \in SUBSET Inputs, is # {} => s1 \in Inputs
      PROVE  /\ Tell(c, type, s1, is) \in Seq(ToClient)
             /\ \A k \in DOMAIN Tell(c, type, s1, is) :
                  Tell(c, type, s1, is)[k] \notin Replies
  <2> DEFINE m == [type |-> type, surface |-> s1, inputs |-> is]
  <2>1. CASE is = {} \/ \E i \in is : Owner[i] # c
    BY <2>1
  <2>2. CASE ~(is = {} \/ \E i \in is : Owner[i] # c)
    <3>1. Tell(c, type, s1, is) = <<m>>
      BY <2>2
    <3>2. m \in ToClient
      BY <1>2, <2>2 DEF ToClient
    <3>3. m \notin Replies
      BY DEF Replies
    <3> HIDE DEF m, Tell
    <3>4. <<m>> \in Seq(ToClient) /\ \A k \in DOMAIN <<m>> : <<m>>[k] \notin Replies
      BY <3>2, <3>3
    <3>5. QED
      BY <3>1, <3>4
  <2>3. QED
    BY <2>1, <2>2
<1>3. ASSUME NEW c \in Clients
      PROVE  /\ a(c) \in Seq(ToClient) /\ \A k \in DOMAIN a(c) : a(c)[k] \notin Replies
             /\ b(c) \in Seq(ToClient) /\ \A k \in DOMAIN b(c) : b(c)[k] \notin Replies
  <2>1. /\ left \in SUBSET Inputs /\ (left # {} => focus \in Inputs)
        /\ entered \in SUBSET Inputs /\ (entered # {} => s \in Inputs)
    BY DEF WireTypeOK, TextTypeOK, NullableInput
  <2> HIDE DEF left, entered, Tell
  <2>2. QED
    BY <1>2, <2>1
<1> HIDE DEF a, b
<1>4. ASSUME NEW c \in Clients, NEW M, M \subseteq Replies
      PROVE  /\ Pending(toClient'[c], M) = Pending(toClient[c], M)
             /\ \A G, before : Leaves(toClient'[c], M, G, before)
                                 <=> Leaves(toClient[c], M, G, before)
  <2> DEFINE q == toClient[c]
             x == a(c)
             y == b(c)
  <2>1. /\ q \in Seq(ToClient) /\ x \in Seq(ToClient) /\ y \in Seq(ToClient)
        /\ \A k \in DOMAIN x : x[k] \notin M
        /\ \A k \in DOMAIN y : y[k] \notin M
    BY <1>3, <1>4 DEF WireTypeOK, ChannelTypeOK
  <2>2. toClient'[c] = (q \o x) \o y
    BY <1>1
  <2> HIDE DEF q, x, y
  <2>3. q \o x \in Seq(ToClient)
    BY <2>1
  <2>4. /\ Pending(q \o x, M) = Pending(q, M)
        /\ \A G, before : Leaves(q \o x, M, G, before)
                            <=> Leaves(q, M, G, before)
    BY <2>1, Passed
  <2>5. /\ Pending((q \o x) \o y, M) = Pending(q \o x, M)
        /\ \A G, before : Leaves((q \o x) \o y, M, G, before)
                            <=> Leaves(q \o x, M, G, before)
    BY <2>1, <2>3, Passed
  <2>6. QED
    BY <2>2, <2>4, <2>5 DEF q
<1>5. \A c \in Clients : Pending(toClient'[c], ForeignDones(c)) = 0
  BY <1>4 DEF DownLink, ForeignDones
<1>6. ASSUME NEW i \in Inputs
      PROVE  /\ life[i] = "none" => Pending(toClient'[Owner[i]], RepliesTo(i)) = 0
             /\ life[i] # "gone" =>
                  Leaves(toClient'[Owner[i]], RepliesTo(i),
                         Telling(i, serial[i]), cdone[i] = serial[i])
  <2>1. Owner[i] \in Clients /\ RepliesTo(i) \subseteq Replies
    BY WireAssumption DEF RepliesTo
  <2>2. QED
    BY <1>4, <2>1 DEF DownLink
<1>7. QED
  BY <1>1, <1>5, <1>6 DEF DownLink

(* A commit is answered with the serial it has brought the server to.      *)
LEMMA ReceiveCommitDown ==
  ASSUME WireTypeOK, WireTypeOK', UpLink, DownLink, NEW c \in Clients,
         ReceiveCommit(c)
  PROVE  DownLink'
<1> DEFINE m == Head(toServer[c])
           i == m.input
<1>1. /\ toServer[c] # <<>>
      /\ toServer' = [toServer EXCEPT ![c] = Tail(@)]
      /\ serial' = [serial EXCEPT ![i] = @ + 1]
      /\ Enable(i) \/ Disable(i) \/ Commit(i)
      /\ UNCHANGED <<life, cdone>>
  BY DEF ReceiveCommit, Arrives, clientVars
<1>2. i \in Inputs /\ life[i] # "none"
  BY <1>1, TakenUp
<1> HIDE DEF m, i
<1>3. /\ serial'[i] = serial[i] + 1 /\ serial'[i] \in Nat
      /\ \A j \in Inputs \ {i} : serial'[j] = serial[j]
  BY <1>1, <1>2 DEF WireTypeOK, TextTypeOK
<1>4. PICK text \in Texts : Reply(i, serial[i] + 1, text)
  <2>1. Empty \in Texts /\ current \in Texts
    BY WireAssumption DEF WireTypeOK, MethodTypeOK
  <2>2. CASE Enable(i) \/ Disable(i)
    BY <2>1, <2>2 DEF Enable, Disable
  <2>3. CASE Commit(i)
    BY <2>1, <2>3 DEF Commit
  <2>4. QED
    BY <1>1, <2>2, <2>3
<1>5. Reply(i, serial'[i], text)
  BY <1>3, <1>4
<1>6. QED
  BY <1>1, <1>2, <1>3, <1>5, ReplyDown

(* The preedit text relayed, or cleared by the toggle key, is told with    *)
(* the serial the server has.                                              *)
LEMMA RelayDown ==
  ASSUME WireTypeOK, WireTypeOK', ServerInv, UpLink, DownLink,
         ToggleKey \/ ReceiveContextCommit
  PROVE  DownLink'
<1>1. UNCHANGED <<life, cdone, serial>>
  BY DEF ToggleKey, ReceiveContextCommit, clientVars, textVars
<1>2. \/ UNCHANGED toClient
      \/ /\ focused # None
         /\ \E text \in Texts : Reply(focused, serial[focused], text)
  <2>1. CASE ToggleKey
    BY <2>1, WireAssumption DEF ToggleKey
  <2>2. CASE ReceiveContextCommit
    <3>1. fromContext # <<>> /\ Head(fromContext).type = "commit"
      BY <2>2 DEF ReceiveContextCommit, Arrives
    <3>2. Head(fromContext) \in FromContext
      BY <3>1 DEF WireTypeOK, ChannelTypeOK
    <3>3. Head(fromContext).preedit \in Texts /\ current \in Texts
      BY <3>1, <3>2 DEF FromContext, WireTypeOK, MethodTypeOK
    <3>4. QED
      BY <2>2, <3>3 DEF ReceiveContextCommit, Take, Pass
  <2>3. QED
    BY <2>1, <2>2
<1>3. CASE UNCHANGED toClient
  BY <1>1, <1>3, DownFrame
<1>4. CASE /\ focused # None
           /\ \E text \in Texts : Reply(focused, serial[focused], text)
  <2>1. focused \in Inputs /\ focused \in exists
    <3>1. focused \in Inputs
      BY <1>4 DEF WireTypeOK, TextTypeOK, NullableInput
    <3>2. QED
      BY <1>4, <3>1 DEF ServerInv, FocusedIsEntered
  <2>2. life[focused] # "none"
    BY <2>1 DEF UpLink
  <2>3. PICK text \in Texts : Reply(focused, serial[focused], text)
    BY <1>4
  <2>4. /\ serial'[focused] \in Nat /\ Reply(focused, serial'[focused], text)
        /\ \A i \in Inputs \ {focused} : serial'[i] = serial[i]
    BY <1>1, <2>1, <2>3 DEF WireTypeOK, TextTypeOK
  <2>5. QED
    BY <1>1, <2>1, <2>2, <2>4, ReplyDown
<1>5. QED
  BY <1>2, <1>3, <1>4

(* An event that is no done event is nothing to the serials.               *)
LEMMA ReceiveFocusDown ==
  ASSUME WireTypeOK, DownLink, NEW c \in Clients,
         ReceiveEnter(c) \/ ReceiveLeave(c)
  PROVE  DownLink'
<1> DEFINE m == Head(toClient[c])
<1>1. /\ toClient[c] # <<>> /\ m.type \in {"enter", "leave"}
      /\ toClient' = [toClient EXCEPT ![c] = Tail(@)]
      /\ UNCHANGED <<life, serial, cdone>>
  BY DEF ReceiveEnter, ReceiveLeave, Arrives, textVars
<1>2. /\ \A d \in Clients : Pending(toClient'[d], ForeignDones(d)) = 0
      /\ \A j \in Inputs : life[j] = "none" =>
           Pending(toClient'[Owner[j]], RepliesTo(j)) = 0
      /\ \A j \in Inputs : \A G, before :
           Leaves(toClient[Owner[j]], RepliesTo(j), G, before)
             <=> Leaves(toClient'[Owner[j]], RepliesTo(j), G,
                        IF m \in RepliesTo(j) THEN m \in G ELSE before)
  BY <1>1, TakenDown
<1>3. \A j \in Inputs : m \notin RepliesTo(j)
  BY <1>1 DEF RepliesTo, Replies
<1> HIDE DEF m
<1>4. ASSUME NEW j \in Inputs, life[j] # "gone"
      PROVE  Leaves(toClient'[Owner[j]], RepliesTo(j), Telling(j, serial[j]),
                    cdone[j] = serial[j])
  <2>1. Leaves(toClient[Owner[j]], RepliesTo(j), Telling(j, serial[j]),
               cdone[j] = serial[j])
    BY <1>4 DEF DownLink
  <2>2. Leaves(toClient'[Owner[j]], RepliesTo(j), Telling(j, serial[j]),
               IF m \in RepliesTo(j) THEN m \in Telling(j, serial[j])
               ELSE cdone[j] = serial[j])
    BY <1>2, <2>1
  <2>3. QED
    BY <1>3, <2>2 DEF Leaves
<1>5. QED
  BY <1>1, <1>2, <1>4 DEF DownLink

(* A done event brings a text input to the serial it tells.                *)
LEMMA ReceiveDoneDown ==
  ASSUME WireTypeOK, DownLink, NEW c \in Clients, ReceiveDone(c)
  PROVE  DownLink'
<1> DEFINE m == Head(toClient[c])
<1>1. /\ toClient[c] # <<>> /\ m.type = "done"
      /\ toClient' = [toClient EXCEPT ![c] = Tail(@)]
      /\ IF m.input \notin Live THEN UNCHANGED cdone
         ELSE cdone' = [cdone EXCEPT ![m.input] = m.serial]
      /\ UNCHANGED <<life, serial>>
  BY DEF ReceiveDone, Arrives, textVars
<1>2. /\ m \in ToClient
      /\ m \in Replies => /\ m.input \in Inputs /\ Owner[m.input] = c
                          /\ life[m.input] # "none"
      /\ \A d \in Clients : Pending(toClient'[d], ForeignDones(d)) = 0
      /\ \A j \in Inputs : life[j] = "none" =>
           Pending(toClient'[Owner[j]], RepliesTo(j)) = 0
      /\ \A j \in Inputs : \A G, before :
           Leaves(toClient[Owner[j]], RepliesTo(j), G, before)
             <=> Leaves(toClient'[Owner[j]], RepliesTo(j), G,
                        IF m \in RepliesTo(j) THEN m \in G ELSE before)
  BY <1>1, TakenDown
<1> HIDE DEF m
<1>3. m \in Replies
  BY <1>1, <1>2 DEF Replies
<1>4. ASSUME NEW j \in Inputs, life[j] # "gone"
      PROVE  Leaves(toClient'[Owner[j]], RepliesTo(j), Telling(j, serial[j]),
                    cdone'[j] = serial[j])
  <2>1. Leaves(toClient[Owner[j]], RepliesTo(j), Telling(j, serial[j]),
               cdone[j] = serial[j])
    BY <1>4 DEF DownLink
  <2>2. Leaves(toClient'[Owner[j]], RepliesTo(j), Telling(j, serial[j]),
               IF m \in RepliesTo(j) THEN m \in Telling(j, serial[j])
               ELSE cdone[j] = serial[j])
    BY <1>2, <2>1
  <2>3. (IF m \in RepliesTo(j) THEN m \in Telling(j, serial[j])
         ELSE cdone[j] = serial[j]) <=> cdone'[j] = serial[j]
    <3>1. cdone \in [Inputs -> Nat] /\ life \in [Inputs -> {"none", "live", "gone"}]
      BY DEF WireTypeOK, ClientTypeOK
    <3>2. CASE j = m.input
      <4>1. m.input \in Live
        BY <1>2, <1>3, <1>4, <3>1, <3>2 DEF Live
      <4>2. cdone'[j] = m.serial
        BY <1>1, <3>1, <3>2, <4>1
      <4>3. /\ m \in RepliesTo(j)
            /\ m \in Telling(j, serial[j]) <=> m.serial = serial[j]
        BY <1>3, <3>2 DEF RepliesTo, Telling
      <4>4. QED
        BY <4>2, <4>3
    <3>3. CASE j # m.input
      <4>1. m \notin RepliesTo(j) /\ cdone'[j] = cdone[j]
        BY <1>1, <3>1, <3>3 DEF RepliesTo
      <4>2. QED
        BY <4>1
    <3>4. QED
      BY <3>2, <3>3
  <2>4. QED
    BY <2>2, <2>3 DEF Leaves
<1>5. QED
  BY <1>1, <1>2, <1>4 DEF DownLink

(* A text input starts with no done event on its way to it.                *)
LEMMA LifeDown ==
  ASSUME WireTypeOK, UpLink, DownLink, NEW i \in Inputs,
         CreateInput(i) \/ DestroyInput(i)
  PROVE  DownLink'
<1>1. /\ UNCHANGED <<toClient, serial, cdone>>
      /\ \/ life[i] = "none" /\ life' = [life EXCEPT ![i] = "live"]
         \/ life' = [life EXCEPT ![i] = "gone"]
  BY DEF CreateInput, DestroyInput, textVars
<1>2. life \in [Inputs -> {"none", "live", "gone"}]
  BY DEF WireTypeOK, ClientTypeOK
<1>3. \A j \in Inputs : /\ life'[j] = "none" => life[j] = "none"
                        /\ life'[j] # "gone" => life[j] # "gone"
  BY <1>1, <1>2
<1>4. QED
  BY <1>1, <1>3 DEF DownLink

(* Every step keeps the connections from the server.                       *)
LEMMA NextDown ==
  TypeOK /\ TypeOK' /\ ServerInv /\ UpLink /\ DownLink /\ [Next]_vars
    => DownLink'
<1> SUFFICES ASSUME WireTypeOK, WireTypeOK', ServerInv, UpLink, DownLink,
                    [Next]_vars
             PROVE  DownLink'
  BY DEF TypeOK
<1>1. ASSUME \/ GrabbedKey \/ ReceiveGrab \/ ReceiveFrame \/ ReceiveHangup
             \/ \E c \in Clients : ReceiveCreate(c) \/ ReceiveDestroy(c)
      PROVE  DownLink'
  <2>1. UNCHANGED <<toClient, life, serial, cdone>>
    BY <1>1 DEF GrabbedKey, ReceiveGrab, ReceiveFrame, ReceiveHangup,
       ReceiveCreate, ReceiveDestroy, clientVars, textVars
  <2>2. QED
    BY <2>1, DownFrame
<1>2. ASSUME ContextNext \/ UNCHANGED vars
      PROVE  DownLink'
  <2>1. UNCHANGED <<toClient, life, serial, cdone>>
    BY <1>2 DEF ContextNext, ContextReceives, Start, Exit, ContextDone,
       ContextKey, Repeat, clientVars, textVars, vars, channels
  <2>2. QED
    BY <2>1, DownFrame
<1>3. ASSUME \E i \in Inputs : Idle(i) \/ Output(i)
      PROVE  DownLink'
  <2>1. UNCHANGED <<toClient, life, serial, cdone>>
    BY <1>3 DEF Idle, Output, textVars, channels
  <2>2. QED
    BY <2>1, DownFrame
<1>4. CASE ServerNext
  BY <1>1, <1>4, FocusChangeDown, ReceiveCommitDown, RelayDown
     DEF ServerNext, ServerReceives, ServerReceivesContext
<1>5. CASE ClientNext
  BY <1>3, <1>5, ReceiveFocusDown, ReceiveDoneDown, LifeDown
     DEF ClientNext, ClientReceives
<1>6. QED
  BY <1>2, <1>4, <1>5 DEF Next

(* At the start every connection of the applications is empty.             *)
LEMMA InitClientLink == Init => UpLink /\ DownLink
<1> SUFFICES ASSUME Init PROVE UpLink /\ DownLink
  OBVIOUS
<1>1. /\ \A c \in Clients : toServer[c] = <<>> /\ toClient[c] = <<>>
      /\ \A i \in Inputs : /\ Owner[i] \in Clients
                           /\ life[i] = "none" => i \notin exists
                           /\ serial[i] = 0 /\ cserial[i] = 0 /\ cdone[i] = 0
  BY WireAssumption DEF Init
<1>2. \A M : Pending(<<>>, M) = 0
  BY HitsEmpty, PendingNone
<1>3. UpLink
  BY <1>1, <1>2 DEF UpLink
<1>4. DownLink
  BY <1>1, LeavesEmpty DEF DownLink
<1>5. QED
  BY <1>3, <1>4

(* The inductive invariant of the connections with the applications, of    *)
(* every state the programs reach.                                         *)
THEOREM ClientLinkCorrect == Spec => [](UpLink /\ DownLink)
<1>1. TypeOK /\ TypeOK' /\ ServerInv /\ UpLink /\ DownLink /\ [Next]_vars
        => UpLink' /\ DownLink'
  BY NextUp, NextDown
<1>2. QED
  BY <1>1, TypeCorrect, ServerCorrect, InitClientLink, PTL DEF Spec

(* What is on its way to the input method is what ContextSerial counts.    *)
LEMMA ContextSerialHolds ==
  ASSUME TypeOK, ContextLink
  PROVE  ContextSerial
<1>1. toContext \in Seq(ToContext)
  BY DEF TypeOK, WireTypeOK, ChannelTypeOK
<1>2. \A k \in DOMAIN toContext :
        toContext[k] \in Dones <=> toContext[k].type \in {"done"}
  BY <1>1 DEF Dones
<1>3. Hits(toContext, Dones)
        = {k \in DOMAIN toContext : toContext[k].type \in {"done"}}
  BY <1>2 DEF Hits
<1>4. Count(toContext, {"done"}) = Pending(toContext, Dones)
  BY <1>3 DEF Count, Pending
<1>5. QED
  BY <1>4 DEF ContextLink, MethodLink, ContextSerial

(* ... and what is on its way between the server and an application is     *)
(* what ClientSerial looks at.                                             *)
LEMMA ClientSerialHolds ==
  ASSUME TypeOK, UpLink, DownLink
  PROVE  ClientSerial
<1> SUFFICES ASSUME NEW i \in Live
             PROVE
    LET c     == Owner[i]
        asked == {k \in DOMAIN toServer[c] : /\ toServer[c][k].type = "commit"
                                             /\ toServer[c][k].input = i}
        told  == {k \in DOMAIN toClient[c] : /\ toClient[c][k].type = "done"
                                             /\ toClient[c][k].input = i}
        last  == IF told = {} THEN cdone[i]
                 ELSE toClient[c][CHOOSE k \in told : \A j \in told : j <= k].serial
    IN cserial[i] = serial[i] + Cardinality(asked) /\ last = serial[i]
  BY DEF ClientSerial
<1> DEFINE c     == Owner[i]
           p     == toServer[c]
           q     == toClient[c]
           asked == {k \in DOMAIN p : p[k].type = "commit" /\ p[k].input = i}
           told  == {k \in DOMAIN q : q[k].type = "done" /\ q[k].input = i}
           top   == CHOOSE k \in told : \A j \in told : j <= k
<1>1. /\ i \in Inputs /\ life[i] # "gone" /\ c \in Clients
      /\ p \in Seq(ToServer) /\ q \in Seq(ToClient)
  BY WireAssumption DEF Live, TypeOK, WireTypeOK, ChannelTypeOK
<1>2. /\ cserial[i] = serial[i] + Pending(p, CommitsOf(i))
      /\ Leaves(q, RepliesTo(i), Telling(i, serial[i]), cdone[i] = serial[i])
  BY <1>1 DEF UpLink, DownLink
<1> HIDE DEF p, q
<1>3. asked = Hits(p, CommitsOf(i))
  BY <1>1 DEF Hits, CommitsOf, AsksOf
<1>4. told = Hits(q, RepliesTo(i))
  BY <1>1 DEF Hits, RepliesTo, Replies
<1>5. cserial[i] = serial[i] + Cardinality(asked)
  BY <1>2, <1>3 DEF Pending
<1>6. (IF told = {} THEN cdone[i] ELSE q[top].serial) = serial[i]
  <2>1. CASE told = {}
    BY <1>2, <1>4, <2>1 DEF Leaves
  <2>2. CASE told # {}
    <3> HIDE DEF told
    <3>1. PICK k \in told : /\ q[k] \in Telling(i, serial[i])
                            /\ \A j \in told : j <= k
      BY <1>2, <1>4, <2>2 DEF Leaves
    <3>2. told \subseteq Nat
      BY <1>1 DEF told
    <3>3. \A l \in told : (\A j \in told : j <= l) => l = k
      BY <3>1, <3>2
    <3>4. top = k
      BY <3>1, <3>3
    <3>5. q[k].serial = serial[i]
      BY <3>1 DEF Telling
    <3>6. QED
      BY <2>2, <3>4, <3>5
  <2>3. QED
    BY <2>1, <2>2
<1>7. QED
  BY <1>5, <1>6 DEF p, q

(* No done event is missed or counted twice, by the input method process   *)
(* or by an application, whatever is on its way in either direction: what  *)
(* the process commits next carries the serial the server expects, and an  *)
(* application that has handled its events knows that every commit of its  *)
(* text inputs has been answered.                                          *)
THEOREM SerialsCorrect == Spec => []SerialsAgree
<1>1. TypeOK /\ ContextLink /\ UpLink /\ DownLink => SerialsAgree
  BY ContextSerialHolds, ClientSerialHolds DEF SerialsAgree
<1>2. QED
  BY <1>1, TypeCorrect, ContextLinkCorrect, ClientLinkCorrect, PTL

-----------------------------------------------------------------------------
(* What holds once all messages are handled.                               *)

(* The events that tell an application of the focus; an enter event is to  *)
(* find its application out of every surface, and the last of them leaves  *)
(* it in the surface they name.                                            *)
News      == {m \in ToClient : m.type \in {"enter", "leave"}}
Entries   == {m \in News : m.type = "enter"}
Departs   == {m \in News : m.type = "leave"}
Void      == {m \in News : m.inputs = {}}
Naming(f) == {m \in News : f = IF m.type = "enter" THEN m.surface ELSE None}

(* The surface of an application with the keyboard focus.                  *)
Held(c) == IF focus # None /\ Owner[focus] = c THEN focus ELSE None

(* What an application that drops no text input sends.                     *)
Unkept == {m \in ToServer : m.type # "commit" \/ m.request = "disable"}

(* The text inputs stay, and all those of an application enter and leave   *)
(* the surface of it that has the keyboard focus.                          *)
Steady ==
  /\ exists = Inputs
  /\ \A i \in Inputs : life[i] = "live"
  /\ \A c \in Clients : Pending(toServer[c], Unkept) = 0
  /\ \A i \in Inputs : surface[i] = IF focus # None /\ Owner[i] = Owner[focus]
                                    THEN focus ELSE None

(* The news on its way to the applications.                                *)
NewsLink ==
  \A c \in Clients :
    /\ Pending(toClient[c], Void) = 0
    /\ InTurn(toClient[c], News, Entries, Departs, cfocus[c] = None)
    /\ Leaves(toClient[c], News, Naming(Held(c)), cfocus[c] = Held(c))

-----------------------------------------------------------------------------
(* What leaves these variables alone keeps the two.                        *)
LEMMA SteadyFrame ==
  ASSUME Steady, UNCHANGED <<exists, life, toServer, surface, focus>>
  PROVE  Steady'
  BY DEF Steady

(* ... and so is what is on its way to the applications.                  *)
LEMMA NewsFrame ==
  ASSUME NewsLink, UNCHANGED <<toClient, cfocus, focus>>
  PROVE  NewsLink'
  BY DEF NewsLink, Held

(* The server takes a message of an application: a commit that does not    *)
(* disable, and the others are left.                                       *)
LEMMA TakenSteady ==
  ASSUME WireTypeOK, Steady, NEW c \in Clients, toServer[c] # <<>>,
         toServer' = [toServer EXCEPT ![c] = Tail(@)]
  PROVE  /\ Head(toServer[c]).type = "commit"
         /\ Head(toServer[c]).request # "disable"
         /\ \A d \in Clients : Pending(toServer'[d], Unkept) = 0
<1> DEFINE q == toServer[c]
<1>1. /\ q \in Seq(ToServer) /\ Pending(q, Unkept) = 0 /\ q # <<>>
      /\ toServer'[c] = Tail(q)
      /\ \A d \in Clients \ {c} : toServer'[d] = toServer[d]
  BY DEF WireTypeOK, ChannelTypeOK, Steady
<1> HIDE DEF q
<1>2. /\ Head(q) \in ToServer
      /\ Pending(q, Unkept) = IF Head(q) \in Unkept
                              THEN Pending(Tail(q), Unkept) + 1
                              ELSE Pending(Tail(q), Unkept)
      /\ Pending(Tail(q), Unkept) \in Nat
  <2>1. Head(q) \in ToServer /\ Tail(q) \in Seq(ToServer)
    BY <1>1
  <2>2. Pending(Tail(q), Unkept) \in Nat
    BY <2>1, PendingType
  <2>3. Pending(q, Unkept) = IF Head(q) \in Unkept
                             THEN Pending(Tail(q), Unkept) + 1
                             ELSE Pending(Tail(q), Unkept)
    BY <1>1, Taken
  <2>4. QED
    BY <2>1, <2>2, <2>3
<1>3. Head(q) \notin Unkept /\ Pending(Tail(q), Unkept) = 0
  BY <1>1, <1>2
<1>4. Head(q).type = "commit" /\ Head(q).request # "disable"
  BY <1>2, <1>3 DEF Unkept
<1>5. \A d \in Clients : Pending(toServer'[d], Unkept) = 0
  BY <1>1, <1>3 DEF Steady
<1>6. QED
  BY <1>4, <1>5 DEF q

(* An application commits.                                                 *)
LEMMA ClientCommitSteady ==
  ASSUME WireTypeOK, Steady, NEW i \in Inputs,
         NEW request \in {"enable", "keep"},
         caret' \in [Inputs -> Rects], ClientCommit(i, request),
         UNCHANGED <<exists, life, surface, focus>>
  PROVE  Steady'
<1> DEFINE m == [type |-> "commit", input |-> i, request |-> request,
                 rect |-> caret'[i]]
           o == Owner[i]
           q == toServer[o]
<1>1. /\ o \in Clients /\ q \in Seq(ToServer)
      /\ toServer'[o] = Append(q, m)
      /\ \A d \in Clients \ {o} : toServer'[d] = toServer[d]
      /\ Pending(q, Unkept) = 0
  BY WireAssumption DEF WireTypeOK, ChannelTypeOK, ClientCommit, Steady
<1>2. m \in ToServer /\ m \notin Unkept
  BY DEF ToServer, Unkept
<1> HIDE DEF m, q
<1>3. Pending(Append(q, m), Unkept) = 0
  BY <1>1, <1>2, Appended
<1>4. \A d \in Clients : Pending(toServer'[d], Unkept) = 0
  BY <1>1, <1>3 DEF Steady
<1>5. QED
  BY <1>4 DEF Steady

(* The keyboard focus moves.                                               *)
LEMMA FocusChangeSteady ==
  ASSUME WireTypeOK, Steady, NEW s \in NullableInput, FocusChange(s)
  PROVE  Steady'
<1> DEFINE left    == {i \in exists : focus # None /\ surface[i] = focus}
           entered == {i \in exists : s # None /\ Owner[i] = Owner[s]}
<1>1. /\ focus' = s
      /\ surface' = [i \in Inputs |-> IF i \in entered THEN s
                                      ELSE IF i \in left THEN None
                                      ELSE surface[i]]
      /\ UNCHANGED <<exists, life, toServer>>
  BY DEF FocusChange, clientVars
<1>2. ASSUME NEW i \in Inputs
      PROVE  surface'[i] = IF s # None /\ Owner[i] = Owner[s] THEN s ELSE None
  <2>1. /\ i \in exists
        /\ surface[i] = IF focus # None /\ Owner[i] = Owner[focus]
                        THEN focus ELSE None
    BY DEF Steady
  <2>2. i \in entered <=> s # None /\ Owner[i] = Owner[s]
    BY <2>1
  <2>3. i \notin left => surface[i] = None
    BY <2>1
  <2> HIDE DEF left, entered
  <2>4. surface'[i] = IF i \in entered THEN s
                      ELSE IF i \in left THEN None ELSE surface[i]
    BY <1>1
  <2>5. QED
    BY <2>2, <2>3, <2>4
<1>3. QED
  BY <1>1, <1>2 DEF Steady

(* Every step of applications that keep their text inputs.                 *)
LEMMA NextSteady ==
  ASSUME ~Lifecycle, WireTypeOK, WireTypeOK', Steady, [Next]_vars
  PROVE  Steady'
<1>1. ASSUME \/ ToggleKey \/ GrabbedKey \/ ServerReceivesContext
      PROVE  Steady'
  <2>1. UNCHANGED <<exists, life, toServer, surface, focus>>
    BY <1>1 DEF ToggleKey, GrabbedKey, ServerReceivesContext,
       ReceiveContextCommit, ReceiveGrab, ReceiveFrame, ReceiveHangup,
       clientVars, textVars
  <2>2. QED
    BY <2>1, SteadyFrame
<1>2. ASSUME ContextNext \/ UNCHANGED vars
      PROVE  Steady'
  <2>1. UNCHANGED <<exists, life, toServer, surface, focus>>
    BY <1>2 DEF ContextNext, ContextReceives, Start, Exit, ContextDone,
       ContextKey, Repeat, clientVars, textVars, vars, channels
  <2>2. QED
    BY <2>1, SteadyFrame
<1>3. ASSUME \/ \E c \in Clients : ReceiveLeave(c) \/ ReceiveDone(c)
             \/ \E i \in Inputs : Output(i)
      PROVE  Steady'
  <2>1. UNCHANGED <<exists, life, toServer, surface, focus>>
    BY <1>3 DEF ReceiveLeave, ReceiveDone, Output, textVars, channels
  <2>2. QED
    BY <2>1, SteadyFrame
<1>4. ASSUME NEW c \in Clients, ServerReceives(c)
      PROVE  Steady'
  <2>1. toServer[c] # <<>> /\ toServer' = [toServer EXCEPT ![c] = Tail(@)]
    BY <1>4 DEF ServerReceives, ReceiveCommit, ReceiveCreate, ReceiveDestroy,
       Arrives
  <2>2. /\ Head(toServer[c]).type = "commit"
        /\ \A d \in Clients : Pending(toServer'[d], Unkept) = 0
    BY <2>1, TakenSteady
  <2>3. UNCHANGED <<exists, life, surface, focus>>
    BY <1>4, <2>2 DEF ServerReceives, ReceiveCommit, ReceiveCreate,
       ReceiveDestroy, Arrives, clientVars
  <2>4. QED
    BY <2>2, <2>3 DEF Steady
<1>5. ASSUME NEW c \in Clients, ReceiveEnter(c)
      PROVE  Steady'
  <2> DEFINE i == Head(toClient[c]).surface
  <2>1. /\ NoCommit \/ (i \in Live /\ ClientCommit(i, "enable"))
        /\ UNCHANGED <<exists, life, surface, focus>>
    BY <1>5 DEF ReceiveEnter, textVars
  <2> HIDE DEF i
  <2>2. CASE NoCommit
    BY <2>1, <2>2, SteadyFrame DEF NoCommit
  <2>3. CASE i \in Live /\ ClientCommit(i, "enable")
    <3>1. i \in Inputs /\ caret' \in [Inputs -> Rects]
      BY <2>3 DEF Live, WireTypeOK, ClientTypeOK
    <3>2. QED
      BY <2>1, <2>3, <3>1, ClientCommitSteady
  <2>4. QED
    BY <2>1, <2>2, <2>3
<1>6. ASSUME NEW i \in Inputs, Idle(i)
      PROVE  Steady'
  <2>1. /\ NoCommit \/ ClientCommit(i, "keep")
        /\ UNCHANGED <<exists, life, surface, focus>>
    BY <1>6 DEF Idle, textVars
  <2>2. CASE NoCommit
    BY <2>1, <2>2, SteadyFrame DEF NoCommit
  <2>3. CASE ClientCommit(i, "keep")
    <3>1. caret' \in [Inputs -> Rects]
      BY DEF WireTypeOK, ClientTypeOK
    <3>2. QED
      BY <2>1, <2>3, <3>1, ClientCommitSteady
  <2>4. QED
    BY <2>1, <2>2, <2>3
<1>7. CASE ServerNext
  BY <1>1, <1>4, <1>7, FocusChangeSteady DEF ServerNext
<1>8. CASE ClientNext
  BY <1>3, <1>5, <1>6, <1>8 DEF ClientNext, ClientReceives, CreateInput,
     DestroyInput
<1>9. QED
  BY <1>2, <1>7, <1>8 DEF Next

-----------------------------------------------------------------------------
(* What the server says to an application as it handles a commit, a toggle *)
(* or a commit of the input method is one done event, or nothing.          *)
LEMMA OneReply ==
  ASSUME WireTypeOK,
         \/ \E c \in Clients : ReceiveCommit(c)
         \/ ToggleKey \/ ReceiveContextCommit
  PROVE  \/ UNCHANGED toClient
         \/ \E j \in Inputs, n \in Nat, text \in Texts : Reply(j, n, text)
<1>1. Empty \in Texts /\ current \in Texts /\ serial \in [Inputs -> Nat]
  BY WireAssumption DEF WireTypeOK, MethodTypeOK, TextTypeOK
<1>2. ASSUME NEW c \in Clients, ReceiveCommit(c)
      PROVE  \E j \in Inputs, n \in Nat, text \in Texts : Reply(j, n, text)
  <2> DEFINE i == Head(toServer[c]).input
  <2>1. Enable(i) \/ Disable(i) \/ Commit(i)
    BY <1>2 DEF ReceiveCommit
  <2>2. i \in Inputs
    <3>1. toServer[c] # <<>> /\ toServer[c] \in Seq(ToServer)
      BY <1>2 DEF ReceiveCommit, Arrives, WireTypeOK, ChannelTypeOK
    <3>2. Head(toServer[c]) \in ToServer
      BY <3>1
    <3>3. QED
      BY <3>2 DEF ToServer
  <2> HIDE DEF i
  <2>3. \E text \in Texts : Reply(i, serial[i] + 1, text)
    BY <1>1, <2>1 DEF Enable, Disable, Commit
  <2>4. serial[i] + 1 \in Nat
    BY <1>1, <2>2
  <2>5. QED
    BY <2>2, <2>3, <2>4
<1>3. focused # None => focused \in Inputs /\ serial[focused] \in Nat
  BY <1>1 DEF WireTypeOK, TextTypeOK, NullableInput
<1>4. CASE ToggleKey
  <2>1. UNCHANGED toClient \/ Reply(focused, serial[focused], Empty)
    BY <1>4 DEF ToggleKey
  <2>2. focused # None
    BY <1>4 DEF ToggleKey
  <2>3. QED
    BY <1>1, <1>3, <2>1, <2>2
<1>5. CASE ReceiveContextCommit
  <2>1. fromContext # <<>> /\ Head(fromContext).type = "commit"
    BY <1>5 DEF ReceiveContextCommit, Arrives
  <2>2. Head(fromContext) \in FromContext
    BY <2>1 DEF WireTypeOK, ChannelTypeOK
  <2>3. Head(fromContext).preedit \in Texts
    BY <2>1, <2>2 DEF FromContext
  <2>4. \/ UNCHANGED toClient
        \/ /\ focused # None
           /\ \/ Reply(focused, serial[focused], Head(fromContext).preedit)
              \/ Reply(focused, serial[focused], current)
    BY <1>5 DEF ReceiveContextCommit, Take, Pass
  <2>5. QED
    BY <1>1, <1>3, <2>3, <2>4
<1>6. QED
  BY <1>2, <1>4, <1>5

(* ... and leaves what was on its way where it is.                         *)
LEMMA RepliesKeep ==
  ASSUME WireTypeOK,
         \/ \E c \in Clients : ReceiveCommit(c)
         \/ ToggleKey \/ ReceiveContextCommit
  PROVE  \A d \in Clients : \A M :
           Pending(toClient[d], M) # 0 => Pending(toClient'[d], M) # 0
<1>1. ASSUME NEW j \in Inputs, NEW n \in Nat, NEW text \in Texts,
             Reply(j, n, text), NEW d \in Clients, NEW M,
             Pending(toClient[d], M) # 0
      PROVE  Pending(toClient'[d], M) # 0
  <2> DEFINE m == [type |-> "done", input |-> j, serial |-> n,
                   preedit |-> text]
             q == toClient[d]
  <2>1. /\ q \in Seq(ToClient) /\ m \in ToClient
        /\ toClient'[d] = Append(q, m) \/ toClient'[d] = q
    BY <1>1 DEF Reply, ToClient, WireTypeOK, ChannelTypeOK
  <2> HIDE DEF m, q
  <2>2. /\ Pending(Append(q, m), M) = IF m \in M THEN Pending(q, M) + 1
                                      ELSE Pending(q, M)
        /\ Pending(q, M) \in Nat /\ Pending(q, M) # 0
    <3>1. Pending(Append(q, m), M) = IF m \in M THEN Pending(q, M) + 1
                                     ELSE Pending(q, M)
      BY <2>1, Appended
    <3>2. Pending(q, M) \in Nat
      BY <2>1, PendingType
    <3>3. QED
      BY <1>1, <3>1, <3>2 DEF q
  <2>3. Pending(Append(q, m), M) # 0
    BY <2>2
  <2>4. QED
    BY <2>1, <2>2, <2>3
<1>2. QED
  BY <1>1, OneReply

(* A done event is no news.                                                *)
LEMMA ReplyNews ==
  ASSUME WireTypeOK, NewsLink, NEW j \in Inputs, NEW n \in Nat,
         NEW text \in Texts, Reply(j, n, text), UNCHANGED <<cfocus, focus>>
  PROVE  NewsLink'
<1> DEFINE m == [type |-> "done", input |-> j, serial |-> n, preedit |-> text]
           o == Owner[j]
<1>1. /\ \A c \in Clients : toClient[c] \in Seq(ToClient)
      /\ toClient' = [toClient EXCEPT ![o] = Append(@, m)]
      /\ toClient \in [Clients -> Seq(ToClient)]
  BY DEF WireTypeOK, ChannelTypeOK, Reply
<1>2. /\ m \in ToClient
      /\ m \notin News /\ m \notin Void /\ m \notin Entries
  BY DEF ToClient, News, Void, Entries
<1> HIDE DEF m
<1>3. ASSUME NEW c \in Clients
      PROVE  /\ Pending(toClient'[c], Void) = 0
             /\ InTurn(toClient'[c], News, Entries, Departs, cfocus[c] = None)
             /\ Leaves(toClient'[c], News, Naming(Held(c)), cfocus[c] = Held(c))
  <2> DEFINE q == toClient[c]
  <2>1. /\ q \in Seq(ToClient)
        /\ Pending(q, Void) = 0
        /\ InTurn(q, News, Entries, Departs, cfocus[c] = None)
        /\ Leaves(q, News, Naming(Held(c)), cfocus[c] = Held(c))
    BY <1>1 DEF NewsLink
  <2>2. CASE c = o
    <3>1. toClient'[c] = Append(q, m)
      BY <1>1, <2>2
    <3> HIDE DEF q
    <3>2. Pending(Append(q, m), Void) = 0
      BY <1>2, <2>1, Appended
    <3>3. InTurn(Append(q, m), News, Entries, Departs, cfocus[c] = None)
      BY <1>2, <2>1, InTurnAppended
    <3>4. Leaves(Append(q, m), News, Naming(Held(c)), cfocus[c] = Held(c))
      BY <1>2, <2>1, Appended
    <3>5. QED
      BY <3>1, <3>2, <3>3, <3>4
  <2>3. CASE c # o
    <3>1. toClient'[c] = q
      BY <1>1, <2>3
    <3>2. QED
      BY <2>1, <3>1
  <2>4. QED
    BY <2>2, <2>3
<1>4. QED
  BY <1>3 DEF NewsLink, Held

(* An application takes the next event of its connection.                  *)
LEMMA TakenNews ==
  ASSUME WireTypeOK, NewsLink, NEW c \in Clients, toClient[c] # <<>>,
         toClient' = [toClient EXCEPT ![c] = Tail(@)],
         UNCHANGED focus, \A d \in Clients \ {c} : cfocus'[d] = cfocus[d]
  PROVE  LET m == Head(toClient[c])
         IN  /\ m \in ToClient /\ m \notin Void
             /\ m \in Entries => cfocus[c] = None
             /\ /\ IF m \in News
                   THEN cfocus'[c] = IF m \in Entries THEN m.surface ELSE None
                   ELSE cfocus'[c] = cfocus[c]
                => NewsLink'
<1> DEFINE m == Head(toClient[c])
           q == toClient[c]
           r == Tail(q)
<1>1. /\ q \in Seq(ToClient) /\ q # <<>>
      /\ Pending(q, Void) = 0
      /\ InTurn(q, News, Entries, Departs, cfocus[c] = None)
      /\ Leaves(q, News, Naming(Held(c)), cfocus[c] = Held(c))
  BY DEF NewsLink, WireTypeOK, ChannelTypeOK
<1>2. /\ toClient'[c] = r
      /\ \A d \in Clients \ {c} : toClient'[d] = toClient[d]
  BY DEF WireTypeOK, ChannelTypeOK
<1>3. m = Head(q) /\ m \in ToClient /\ r \in Seq(ToClient)
  BY <1>1
<1> HIDE DEF q
<1>4. m \notin Void /\ Pending(r, Void) = 0
  <2>1. Pending(q, Void) = IF Head(q) \in Void THEN Pending(Tail(q), Void) + 1
                                               ELSE Pending(Tail(q), Void)
    BY <1>1, Taken
  <2>2. Pending(r, Void) \in Nat
    BY <1>3, PendingType
  <2>3. QED
    BY <1>1, <1>3, <2>1, <2>2
<1>5. /\ m \in Entries => cfocus[c] = None
      /\ InTurn(r, News, Entries, Departs,
                IF m \in News THEN m \in Departs ELSE cfocus[c] = None)
  BY ZenonT(30), <1>1, <1>3, InTurnTaken
<1>6. Leaves(r, News, Naming(Held(c)),
             IF m \in News THEN m \in Naming(Held(c)) ELSE cfocus[c] = Held(c))
  BY <1>1, <1>3, Taken
<1> HIDE DEF m, r
<1>7. ASSUME IF m \in News
             THEN cfocus'[c] = IF m \in Entries THEN m.surface ELSE None
             ELSE cfocus'[c] = cfocus[c]
      PROVE  NewsLink'
  <2>1. (IF m \in News THEN m \in Departs ELSE cfocus[c] = None)
          <=> cfocus'[c] = None
    <3>1. CASE m \in Entries
      <4>1. m.surface # None
        BY <3>1, WireAssumption DEF Entries, News, ToClient
      <4>2. m \in News /\ m \notin Departs
        BY <3>1 DEF Entries, Departs
      <4>3. QED
        BY <1>7, <3>1, <4>1, <4>2
    <3>2. CASE m \in News /\ m \notin Entries
      <4>1. m \in Departs
        BY <3>2 DEF News, Entries, Departs
      <4>2. QED
        BY <1>7, <3>2, <4>1
    <3>3. CASE m \notin News
      BY <1>7, <3>3
    <3>4. QED
      BY <3>1, <3>2, <3>3
  <2>2. (IF m \in News THEN m \in Naming(Held(c)) ELSE cfocus[c] = Held(c))
          <=> cfocus'[c] = Held(c)
    <3>1. CASE m \in News
      BY <1>7, <3>1 DEF Naming, Entries
    <3>2. CASE m \notin News
      BY <1>7, <3>2
    <3>3. QED
      BY <3>1, <3>2
  <2>3. InTurn(r, News, Entries, Departs, cfocus'[c] = None)
    BY <1>5, <2>1 DEF InTurn, Leaves
  <2>4. Leaves(r, News, Naming(Held(c)), cfocus'[c] = Held(c))
    BY <1>6, <2>2 DEF Leaves
  <2>5. \A d \in Clients : Held(d)' = Held(d)
    BY DEF Held
  <2>6. ASSUME NEW d \in Clients
        PROVE  /\ Pending(toClient'[d], Void) = 0
               /\ InTurn(toClient'[d], News, Entries, Departs, cfocus'[d] = None)
               /\ Leaves(toClient'[d], News, Naming(Held(d)), cfocus'[d] = Held(d))
    <3>1. CASE d = c
      BY <1>2, <1>4, <2>3, <2>4, <3>1
    <3>2. CASE d # c
      BY <1>2, <3>2 DEF NewsLink
    <3>3. QED
      BY <3>1, <3>2
  <2>7. QED
    BY <2>5, <2>6 DEF NewsLink
<1>8. QED
  BY <1>3, <1>4, <1>5, <1>7 DEF m

(* An application enters a surface, leaves one, or has something done.     *)
LEMMA ClientReceivesNews ==
  ASSUME WireTypeOK, Steady, NewsLink, NEW c \in Clients, ClientReceives(c)
  PROVE  NewsLink'
<1> DEFINE m == Head(toClient[c])
<1>1. /\ toClient[c] # <<>>
      /\ toClient' = [toClient EXCEPT ![c] = Tail(@)]
      /\ UNCHANGED focus
  BY DEF ClientReceives, ReceiveEnter, ReceiveLeave, ReceiveDone, Arrives,
     textVars
<1>2. cfocus \in [Clients -> NullableInput]
  BY DEF WireTypeOK, ClientTypeOK
<1>3. \A d \in Clients \ {c} : cfocus'[d] = cfocus[d]
  BY <1>2 DEF ClientReceives, ReceiveEnter, ReceiveLeave, ReceiveDone
<1>4. /\ m \in ToClient /\ m \notin Void
      /\ m \in Entries => cfocus[c] = None
      /\ /\ IF m \in News
            THEN cfocus'[c] = IF m \in Entries THEN m.surface ELSE None
            ELSE cfocus'[c] = cfocus[c]
         => NewsLink'
  BY <1>1, <1>3, TakenNews
<1>5. m \in News => m.inputs \cap Live # {}
  <2>1. ASSUME m \in News PROVE m.inputs \subseteq Inputs /\ m.inputs # {}
    BY <1>4, <2>1 DEF Void, News, ToClient
  <2>2. QED
    BY <2>1 DEF Live, Steady
<1>6. CASE ReceiveEnter(c)
  <2>1. m.type = "enter"
    BY <1>6 DEF ReceiveEnter, Arrives
  <2>2. m \in News /\ m \in Entries
    BY <1>4, <2>1 DEF News, Entries
  <2>3. cfocus' = [cfocus EXCEPT ![c] = m.surface]
    BY <1>4, <1>5, <1>6, <2>2 DEF ReceiveEnter
  <2>4. cfocus'[c] = m.surface
    BY <1>2, <2>3
  <2>5. QED
    BY <1>4, <2>2, <2>4
<1>7. CASE ReceiveLeave(c)
  <2>1. m.type = "leave"
    BY <1>7 DEF ReceiveLeave, Arrives
  <2>2. m \in News /\ m \notin Entries
    BY <1>4, <2>1 DEF News, Entries
  <2>3. cfocus' = [cfocus EXCEPT ![c] = None] \/ (cfocus[c] = None /\ cfocus' = cfocus)
    BY <1>5, <1>7, <2>2 DEF ReceiveLeave
  <2>4. cfocus'[c] = None
    BY <1>2, <2>3
  <2>5. QED
    BY <1>4, <2>2, <2>4
<1>8. CASE ReceiveDone(c)
  <2>1. m.type = "done" /\ cfocus' = cfocus
    BY <1>8 DEF ReceiveDone, Arrives
  <2>2. m \notin News
    BY <2>1 DEF News
  <2>3. QED
    BY <1>4, <2>1, <2>2
<1>9. QED
  BY <1>6, <1>7, <1>8 DEF ClientReceives

(* The server tells of a focus change: the application left first hears    *)
(* that it is, then the one entered, which may be the same.                *)
LEMMA FocusChangeTells ==
  ASSUME WireTypeOK, Steady, NEW s \in NullableInput, FocusChange(s),
         NEW c \in Clients
  PROVE  \E x, y \in Seq(ToClient) :
           /\ \/ Held(c) = None /\ x = <<>>
              \/ \E l \in Departs \ Void : x = <<l>>
           /\ \/ Held(c)' = None /\ y = <<>>
              \/ Held(c)' # None /\
                 \E e \in (Entries \cap Naming(Held(c)')) \ Void : y = <<e>>
           /\ toClient'[c] = (toClient[c] \o x) \o y
<1> DEFINE left    == {i \in exists : focus # None /\ surface[i] = focus}
           entered == {i \in exists : s # None /\ Owner[i] = Owner[s]}
           Tell(type, s1, is) ==
             IF is = {} \/ \E i \in is : Owner[i] # c THEN <<>>
             ELSE <<[type |-> type, surface |-> s1, inputs |-> is]>>
           l == [type |-> "leave", surface |-> focus, inputs |-> left]
           e == [type |-> "enter", surface |-> s, inputs |-> entered]
           x == Tell("leave", focus, left)
           y == Tell("enter", s, entered)
<1>1. focus' = s /\ toClient'[c] = (toClient[c] \o x) \o y
  BY DEF FocusChange
<1>2. focus \in NullableInput /\ s \in NullableInput /\ exists = Inputs
  BY DEF WireTypeOK, TextTypeOK, Steady
<1>3. /\ left \in SUBSET Inputs
      /\ left = {i \in Inputs : focus # None /\ Owner[i] = Owner[focus]}
  <2>1. \A i \in Inputs : focus # None =>
          (surface[i] = focus <=> Owner[i] = Owner[focus])
    BY DEF Steady
  <2>2. QED
    BY <1>2, <2>1
<1>4. entered \in SUBSET Inputs
  BY <1>2
<1>5. \/ Held(c) = None /\ x = <<>>
      \/ x = <<l>> /\ l \in ToClient /\ l \in Departs \ Void
  <2>1. CASE Held(c) = None
    <3>1. left = {} \/ \E i \in left : Owner[i] # c
      BY <1>2, <1>3, <2>1 DEF Held, NullableInput
    <3>2. QED
      BY <2>1, <3>1
  <2>2. CASE Held(c) # None
    <3>1. focus \in Inputs /\ Owner[focus] = c /\ focus # None
      BY <1>2, <2>2 DEF Held, NullableInput
    <3>2. focus \in left /\ \A i \in left : Owner[i] = c
      BY <1>3, <3>1
    <3> HIDE DEF left
    <3>3. x = <<l>>
      BY <3>2
    <3>4. l \in ToClient /\ l \in Departs \ Void
      BY <1>3, <3>1, <3>2 DEF ToClient, News, Departs, Void
    <3>5. QED
      BY <3>3, <3>4
  <2>3. QED
    BY <2>1, <2>2
<1>6. \/ Held(c)' = None /\ y = <<>>
      \/ /\ Held(c)' # None /\ y = <<e>> /\ e \in ToClient
         /\ e \in (Entries \cap Naming(Held(c)')) \ Void
  <2>1. CASE Held(c)' = None
    <3>1. entered = {} \/ \E i \in entered : Owner[i] # c
      BY <1>1, <1>2, <2>1 DEF Held, NullableInput
    <3>2. QED
      BY <2>1, <3>1
  <2>2. CASE Held(c)' # None
    <3>1. s \in Inputs /\ Owner[s] = c /\ s # None /\ Held(c)' = s
      BY <1>1, <1>2, <2>2 DEF Held, NullableInput
    <3>2. s \in entered /\ \A i \in entered : Owner[i] = c
      BY <1>2, <3>1
    <3> HIDE DEF entered
    <3>3. y = <<e>>
      BY <3>2
    <3>4. e \in ToClient /\ e \in (Entries \cap Naming(s)) \ Void
      BY <1>4, <3>1, <3>2 DEF ToClient, News, Entries, Naming, Void
    <3>5. QED
      BY <2>2, <3>1, <3>3, <3>4
  <2>3. QED
    BY <2>1, <2>2
<1> HIDE DEF left, entered, Tell, l, e, x, y
<1>7. x \in Seq(ToClient) /\ y \in Seq(ToClient)
  <2>1. x = <<>> \/ (x = <<l>> /\ l \in ToClient)
    BY <1>5
  <2>2. y = <<>> \/ (y = <<e>> /\ e \in ToClient)
    BY <1>6
  <2>3. x \in Seq(ToClient)
    <3>1. <<>> \in Seq(ToClient) /\ (l \in ToClient => <<l>> \in Seq(ToClient))
      OBVIOUS
    <3>2. QED
      BY <2>1, <3>1
  <2>4. y \in Seq(ToClient)
    <3>1. <<>> \in Seq(ToClient) /\ (e \in ToClient => <<e>> \in Seq(ToClient))
      OBVIOUS
    <3>2. QED
      BY <2>2, <3>1
  <2>5. QED
    BY <2>3, <2>4
<1>8. QED
  BY <1>1, <1>5, <1>6, <1>7

(* ... which keeps the news in turn.                                       *)
LEMMA FocusChangeNews ==
  ASSUME WireTypeOK, Steady, NewsLink, NEW s \in NullableInput, FocusChange(s)
  PROVE  NewsLink'
<1> SUFFICES ASSUME NEW c \in Clients
             PROVE  /\ Pending(toClient'[c], Void) = 0
                    /\ InTurn(toClient'[c], News, Entries, Departs,
                              cfocus'[c] = None)
                    /\ Leaves(toClient'[c], News, Naming(Held(c)'),
                              cfocus'[c] = Held(c)')
  BY DEF NewsLink, Naming, News
<1>1. PICK x, y \in Seq(ToClient) :
        /\ \/ Held(c) = None /\ x = <<>>
           \/ \E l \in Departs \ Void : x = <<l>>
        /\ \/ Held(c)' = None /\ y = <<>>
           \/ Held(c)' # None /\
              \E e \in (Entries \cap Naming(Held(c)')) \ Void : y = <<e>>
        /\ toClient'[c] = (toClient[c] \o x) \o y
  BY FocusChangeTells
<1> DEFINE f == Held(c)
           g == Held(c)'
           q == toClient[c]
           idle == cfocus[c] = None
<1>2. /\ q \in Seq(ToClient) /\ cfocus' = cfocus
      /\ Pending(q, Void) = 0
      /\ InTurn(q, News, Entries, Departs, idle)
      /\ Leaves(q, News, Naming(f), cfocus[c] = f)
  BY DEF NewsLink, WireTypeOK, ChannelTypeOK, FocusChange, clientVars
<1>3. /\ Departs = Naming(None)
      /\ \A l \in Departs : l \in ToClient /\ l \in News /\ l \notin Entries
      /\ \A e \in Entries : e \in ToClient /\ e \in News
  BY WireAssumption DEF Departs, Entries, Naming, News, ToClient
<1> HIDE DEF f, g, q
<1> DEFINE r == q \o x
<1>4. /\ r \in Seq(ToClient) /\ Pending(r, Void) = 0
      /\ InTurn(r, News, Entries, Departs, idle)
      /\ Leaves(r, News, Departs, idle)
  <2>1. CASE f = None /\ x = <<>>
    <3>1. r = q
      BY <1>2, <2>1, ConcatEmptySeq
    <3>2. Leaves(q, News, Departs, idle)
      BY <1>2, <1>3, <2>1
    <3>3. QED
      BY <1>2, <3>1, <3>2
  <2>2. ASSUME NEW l \in Departs \ Void, x = <<l>>
        PROVE  /\ r \in Seq(ToClient) /\ Pending(r, Void) = 0
               /\ InTurn(r, News, Entries, Departs, idle)
               /\ Leaves(r, News, Departs, idle)
    <3>1. l \in ToClient /\ l \in News /\ l \notin Entries
      BY <1>3
    <3>2. r = Append(q, l)
      BY <1>2, <2>2, <3>1, AppendIsConcat
    <3>3. /\ Append(q, l) \in Seq(ToClient)
          /\ Pending(Append(q, l), Void) = 0
      BY <1>2, <3>1, Appended
    <3>4. InTurn(Append(q, l), News, Entries, Departs, idle)
      BY <1>2, <3>1, InTurnAppended
    <3>5. Leaves(Append(q, l), News, Departs, idle)
      BY <1>2, <3>1, Appended
    <3>6. QED
      BY <3>2, <3>3, <3>4, <3>5
  <2>3. QED
    BY <1>1, <2>1, <2>2 DEF f
<1> HIDE DEF r
<1>5. /\ Pending(r \o y, Void) = 0
      /\ InTurn(r \o y, News, Entries, Departs, idle)
      /\ Leaves(r \o y, News, Naming(g), cfocus[c] = g)
  <2>1. CASE g = None /\ y = <<>>
    <3>1. r \o y = r
      BY <1>4, <2>1, ConcatEmptySeq
    <3>2. Leaves(r, News, Naming(g), cfocus[c] = g)
      BY <1>3, <1>4, <2>1
    <3>3. QED
      BY <1>4, <3>1, <3>2
  <2>2. ASSUME NEW e \in (Entries \cap Naming(g)) \ Void, y = <<e>>
        PROVE  /\ Pending(r \o y, Void) = 0
               /\ InTurn(r \o y, News, Entries, Departs, idle)
               /\ Leaves(r \o y, News, Naming(g), cfocus[c] = g)
    <3>1. e \in ToClient /\ e \in News
      BY <1>3
    <3>2. r \o y = Append(r, e)
      BY <1>4, <2>2, <3>1, AppendIsConcat
    <3>3. Pending(Append(r, e), Void) = 0
      BY <1>4, <3>1, Appended
    <3>4. InTurn(Append(r, e), News, Entries, Departs, idle)
      BY <1>4, <3>1, InTurnAppended
    <3>5. Leaves(Append(r, e), News, Naming(g), cfocus[c] = g)
      BY <1>4, <3>1, Appended
    <3>6. QED
      BY <3>2, <3>3, <3>4, <3>5
  <2>3. QED
    BY <1>1, <2>1, <2>2 DEF g
<1>6. QED
  BY <1>1, <1>2, <1>5 DEF q, r, g

(* Every step keeps what is told of the focus.                             *)
LEMMA NextNews ==
  ASSUME ~Lifecycle, WireTypeOK, WireTypeOK', Steady, NewsLink, [Next]_vars
  PROVE  NewsLink'
<1>1. ASSUME \/ GrabbedKey \/ ReceiveGrab \/ ReceiveFrame \/ ReceiveHangup
             \/ \E c \in Clients : ReceiveCreate(c) \/ ReceiveDestroy(c)
      PROVE  NewsLink'
  <2>1. UNCHANGED <<toClient, cfocus, focus>>
    BY <1>1 DEF GrabbedKey, ReceiveGrab, ReceiveFrame, ReceiveHangup,
       ReceiveCreate, ReceiveDestroy, clientVars, textVars
  <2>2. QED
    BY <2>1, NewsFrame
<1>2. ASSUME ContextNext \/ UNCHANGED vars
      PROVE  NewsLink'
  <2>1. UNCHANGED <<toClient, cfocus, focus>>
    BY <1>2 DEF ContextNext, ContextReceives, Start, Exit, ContextDone,
       ContextKey, Repeat, clientVars, textVars, vars, channels
  <2>2. QED
    BY <2>1, NewsFrame
<1>3. ASSUME \E i \in Inputs : Idle(i) \/ Output(i)
      PROVE  NewsLink'
  <2>1. UNCHANGED <<toClient, cfocus, focus>>
    BY <1>3 DEF Idle, Output, textVars, channels
  <2>2. QED
    BY <2>1, NewsFrame
<1>4. ASSUME \/ \E c \in Clients : ReceiveCommit(c)
             \/ ToggleKey \/ ReceiveContextCommit
      PROVE  NewsLink'
  <2>1. UNCHANGED <<cfocus, focus>>
    BY <1>4 DEF ReceiveCommit, ToggleKey, ReceiveContextCommit, clientVars,
       textVars
  <2>2. \/ UNCHANGED toClient
        \/ \E j \in Inputs, n \in Nat, text \in Texts : Reply(j, n, text)
    BY <1>4, OneReply DEF ToggleKey
  <2>3. QED
    BY <2>1, <2>2, NewsFrame, ReplyNews
<1>5. CASE ServerNext
  BY <1>1, <1>4, <1>5, FocusChangeNews
     DEF ServerNext, ServerReceives, ServerReceivesContext
<1>6. CASE ClientNext
  BY <1>3, <1>6, ClientReceivesNews DEF ClientNext, CreateInput, DestroyInput
<1>7. QED
  BY <1>2, <1>5, <1>6 DEF Next

(* At the start nobody has the focus and nothing is on its way.            *)
LEMMA InitFocusLink ==
  ASSUME ~Lifecycle, Init
  PROVE  Steady /\ NewsLink
<1>1. \A M : Pending(<<>>, M) = 0
  BY HitsEmpty, PendingNone
<1>2. /\ exists = Inputs /\ focus = None
      /\ \A i \in Inputs : life[i] = "live" /\ surface[i] = None
      /\ \A c \in Clients : /\ toServer[c] = <<>> /\ toClient[c] = <<>>
                            /\ cfocus[c] = None
  BY DEF Init
<1>3. Steady
  BY <1>1, <1>2 DEF Steady
<1>4. ASSUME NEW c \in Clients
      PROVE  /\ Pending(toClient[c], Void) = 0
             /\ InTurn(toClient[c], News, Entries, Departs, cfocus[c] = None)
             /\ Leaves(toClient[c], News, Naming(Held(c)), cfocus[c] = Held(c))
  <2>1. Held(c) = None
    BY <1>2 DEF Held
  <2>2. InTurn(<<>>, News, Entries, Departs, cfocus[c] = None)
    BY DEF InTurn
  <2>3. Leaves(<<>>, News, Naming(Held(c)), cfocus[c] = Held(c))
    BY <1>2, <2>1, LeavesEmpty
  <2>4. QED
    BY <1>1, <1>2, <2>2, <2>3
<1>5. QED
  BY <1>3, <1>4 DEF NewsLink

(* The inductive invariant of the focus, of every state the programs reach *)
(* while the applications keep their text inputs.                          *)
THEOREM FocusLinkCorrect ==
  ASSUME ~Lifecycle
  PROVE  Spec => [](Steady /\ NewsLink)
<1>1. TypeOK /\ TypeOK' /\ Steady /\ NewsLink /\ [Next]_vars
        => Steady' /\ NewsLink'
  BY NextSteady, NextNews DEF TypeOK
<1>2. Init => Steady /\ NewsLink
  BY InitFocusLink
<1>3. QED
  BY <1>1, <1>2, TypeCorrect, PTL DEF Spec

(* However fast the focus moves, within an application or between two, and *)
(* however late the events are handled, an application that keeps its text *)
(* inputs ends up in the surface the server has in mind, or in none.       *)
THEOREM ClientFocusCorrect ==
  ASSUME ~Lifecycle
  PROVE  Spec => []ClientFocusAgrees
<1>1. NewsLink => ClientFocusAgrees
  <2> SUFFICES ASSUME NewsLink, Quiet, NEW c \in Clients
               PROVE  cfocus[c] = IF focus # None /\ Owner[focus] = c THEN focus
                                  ELSE None
    BY DEF ClientFocusAgrees
  <2>1. toClient[c] = <<>>
    BY DEF Quiet
  <2>2. Leaves(<<>>, News, Naming(Held(c)), cfocus[c] = Held(c))
    BY <2>1 DEF NewsLink
  <2>3. cfocus[c] = Held(c)
    BY <2>2, LeavesEmpty
  <2>4. QED
    BY <2>3 DEF Held
<1>2. QED
  BY <1>1, FocusLinkCorrect, PTL

-----------------------------------------------------------------------------
(* Every application has one window with a text input, as a terminal has.  *)
OneInputEach == \A i, j \in Inputs : Owner[i] = Owner[j] => i = j

(* The commits of a text input that enable it.                             *)
Enables(i) == {m \in CommitsOf(i) : m.request = "enable"}

(* The window with the keyboard focus has the input method, or its         *)
(* application has yet to hear that it is entered, or to be heard.         *)
ServeLink ==
  focus # None =>
    \/ focused = focus
    \/ Pending(toClient[Owner[focus]], News) # 0
    \/ Pending(toServer[Owner[focus]], Enables(focus)) # 0

(* What leaves these variables alone keeps it.                             *)
LEMMA ServeFrame ==
  ASSUME ServeLink, UNCHANGED <<focus, focused, toClient, toServer>>
  PROVE  ServeLink'
  BY DEF ServeLink

(* A commit leaves the commits before it where they are.                   *)
LEMMA CommitKeeps ==
  ASSUME WireTypeOK, NEW i \in Inputs, NEW request \in {"enable", "keep"},
         caret' \in [Inputs -> Rects], ClientCommit(i, request)
  PROVE  /\ \A d \in Clients : \A M :
              Pending(toServer[d], M) # 0 => Pending(toServer'[d], M) # 0
         /\ request = "enable" => Pending(toServer'[Owner[i]], Enables(i)) # 0
<1> DEFINE m == [type |-> "commit", input |-> i, request |-> request,
                 rect |-> caret'[i]]
           o == Owner[i]
           q == toServer[o]
<1>1. /\ o \in Clients /\ q \in Seq(ToServer)
      /\ toServer'[o] = Append(q, m)
      /\ \A d \in Clients \ {o} : toServer'[d] = toServer[d]
  BY WireAssumption DEF WireTypeOK, ChannelTypeOK, ClientCommit
<1>2. m \in ToServer /\ (request = "enable" => m \in Enables(i))
  BY DEF ToServer, Enables, CommitsOf, AsksOf
<1> HIDE DEF m, q
<1>3. \A M : /\ Pending(Append(q, m), M) = IF m \in M THEN Pending(q, M) + 1
                                           ELSE Pending(q, M)
             /\ Pending(q, M) \in Nat
  BY <1>1, <1>2, Appended, PendingType
<1>4. ASSUME NEW M
      PROVE  /\ Pending(q, M) # 0 => Pending(Append(q, m), M) # 0
             /\ m \in M => Pending(Append(q, m), M) # 0
  BY <1>3
<1>5. \A d \in Clients : \A M :
        Pending(toServer[d], M) # 0 => Pending(toServer'[d], M) # 0
  BY <1>1, <1>4 DEF q
<1>6. QED
  BY <1>1, <1>2, <1>4, <1>5

(* The input method serves no window but the one with the keyboard focus.  *)
LEMMA FocusedIsFocus ==
  ASSUME OneInputEach, WireTypeOK, ServerInv, Steady
  PROVE  focused # None => focused \in Inputs /\ focused = focus
<1>1. focused # None =>
        /\ focused \in Inputs
        /\ surface[focused] # None /\ surface[focused] = focus
  BY DEF ServerInv, FocusedIsEntered, WireTypeOK, TextTypeOK, NullableInput
<1>2. QED
  BY <1>1, WireAssumption DEF Steady, OneInputEach, WireTypeOK, TextTypeOK,
     NullableInput

(* Reading a commit of a text input that is kept gives the input method to *)
(* the window with the keyboard focus, if to any.                          *)
LEMMA ReceiveCommitServe ==
  ASSUME OneInputEach, WireTypeOK, WireTypeOK', ServerInv, UpLink, Steady,
         NEW c \in Clients, ReceiveCommit(c)
  PROVE  LET m == Head(toServer[c])
             i == m.input
         IN  /\ focused' = focused \/ focused' = focus
             /\ focus # None /\ m \in Enables(focus) => focused' = focus
             /\ m \in ToServer /\ i \in Inputs
             /\ m.request \in {"enable", "keep"}
             /\ surface[i] # None <=> focus # None /\ i = focus
             /\ enabled[i] => enabled'[i]
             /\ m.request = "enable" => enabled'[i]
             /\ (enabled'[i] /\ ~enabled[i] /\ Enable(i)) \/ Commit(i)
<1> DEFINE m == Head(toServer[c])
           i == m.input
<1>1. /\ toServer[c] # <<>> /\ m.type = "commit"
      /\ toServer' = [toServer EXCEPT ![c] = Tail(@)]
      /\ enabled' = [enabled EXCEPT ![i] = \/ m.request = "enable"
                                           \/ m.request = "keep" /\ @]
      /\ UNCHANGED surface
      /\ CASE enabled'[i] /\ ~enabled[i] -> Enable(i)
           [] enabled[i] /\ ~enabled'[i] -> Disable(i)
           [] OTHER -> Commit(i)
  BY DEF ReceiveCommit, Arrives
<1>2. /\ m \in ToServer /\ i \in Inputs
      /\ m.request \in {"enable", "keep"}
  <2>1. m.request # "disable"
    BY <1>1, TakenSteady
  <2>2. m \in ToServer /\ i \in Inputs
    BY <1>1, TakenUp
  <2>3. QED
    BY <1>1, <2>1, <2>2 DEF ToServer
<1> HIDE DEF i, m
<1>3. /\ enabled'[i] = (m.request = "enable" \/ (m.request = "keep" /\ enabled[i]))
      /\ enabled \in [Inputs -> BOOLEAN]
  BY <1>1, <1>2 DEF WireTypeOK, TextTypeOK
<1>4. /\ (enabled'[i] /\ ~enabled[i] /\ Enable(i)) \/ Commit(i)
      /\ enabled[i] => enabled'[i]
      /\ m.request = "enable" => enabled'[i]
  BY <1>1, <1>2, <1>3
<1>5. /\ surface[i] # None => focus # None /\ surface[i] = focus /\ i = focus
      /\ focus # None /\ i = focus => surface[i] # None
  BY <1>2, WireAssumption DEF Steady, OneInputEach, WireTypeOK, TextTypeOK,
     NullableInput
<1>6. focused # None => focused = focus
  BY FocusedIsFocus
<1>7. /\ focused' = focused \/ focused' = focus
      /\ i = focus /\ focus # None /\ enabled'[i] => focused' = focus
  <2>1. CASE Enable(i)
    BY <1>5, <2>1 DEF Enable, Focus, Unrelayed
  <2>2. CASE Commit(i)
    BY <1>5, <1>6, <2>2 DEF Commit, Focus, Unrelayed
  <2>3. QED
    BY <1>4, <2>1, <2>2
<1>8. focus # None /\ m \in Enables(focus) => focused' = focus
  BY <1>3, <1>7 DEF Enables, CommitsOf, AsksOf, i
<1>9. QED
  BY <1>2, <1>4, <1>5, <1>7, <1>8 DEF i, m

(* Every step keeps it: the focus moves, and an enter event is sent ...    *)
LEMMA FocusChangeServe ==
  ASSUME WireTypeOK, Steady, NEW s \in NullableInput, FocusChange(s)
  PROVE  ServeLink'
<1> SUFFICES ASSUME s # None PROVE Pending(toClient'[Owner[s]], News) # 0
  BY DEF ServeLink, FocusChange
<1> DEFINE c == Owner[s]
           q == toClient[c]
<1>1. s \in Inputs /\ c \in Clients /\ Held(c)' = s
  BY WireAssumption DEF FocusChange, NullableInput, Held
<1>2. PICK x, y \in Seq(ToClient) :
        /\ \E e \in Entries : y = <<e>>
        /\ toClient'[c] = (q \o x) \o y
  <2>1. PICK x, y \in Seq(ToClient) :
          /\ \/ Held(c)' = None /\ y = <<>>
             \/ Held(c)' # None /\
                \E e \in (Entries \cap Naming(Held(c)')) \ Void : y = <<e>>
          /\ toClient'[c] = (q \o x) \o y
    BY <1>1, FocusChangeTells
  <2>2. QED
    BY <1>1, <2>1
<1>3. PICK e \in Entries : y = <<e>>
  BY <1>2
<1>4. q \in Seq(ToClient) /\ e \in News
  BY <1>1 DEF WireTypeOK, ChannelTypeOK, Entries
<1> HIDE DEF q
<1> DEFINE r == q \o x
<1>5. r \in Seq(ToClient)
  BY <1>4
<1> HIDE DEF r
<1>6. Pending(r \o y, News) = Pending(r, News) + Pending(y, News)
  BY <1>5, PendingConcat
<1>7. Pending(y, News) = 1 /\ Pending(r, News) \in Nat
  BY <1>3, <1>4, <1>5, PendingOne, PendingType
<1>8. QED
  BY <1>2, <1>6, <1>7 DEF r

(* ... the application hears of it and asks for the input method ...       *)
LEMMA ClientReceivesServe ==
  ASSUME OneInputEach, WireTypeOK, WireTypeOK', Steady, NewsLink, ServeLink,
         NEW c \in Clients, ClientReceives(c)
  PROVE  ServeLink'
<1> DEFINE m == Head(toClient[c])
           q == toClient[c]
           f == focus
<1>1. /\ UNCHANGED <<focus, focused>>
      /\ toClient[c] # <<>>
      /\ toClient' = [toClient EXCEPT ![c] = Tail(@)]
  BY DEF ClientReceives, ReceiveEnter, ReceiveLeave, ReceiveDone, Arrives,
     textVars
<1>2. SUFFICES ASSUME f # None, focused # f,
                      Pending(toClient'[Owner[f]], News) = 0
               PROVE  Pending(toServer'[Owner[f]], Enables(f)) # 0
  BY <1>1 DEF ServeLink
<1>3. f \in Inputs /\ Owner[f] \in Clients
  BY <1>2, WireAssumption DEF WireTypeOK, TextTypeOK, NullableInput
<1>4. \/ NoCommit
      \/ \E i \in Inputs : ClientCommit(i, "enable")
  BY DEF ClientReceives, ReceiveEnter, ReceiveLeave, ReceiveDone, NoCommit,
     Live
<1>5. caret' \in [Inputs -> Rects]
  BY DEF WireTypeOK, ClientTypeOK
<1>6. \A d \in Clients : \A M :
        Pending(toServer[d], M) # 0 => Pending(toServer'[d], M) # 0
  BY <1>4, <1>5, CommitKeeps DEF NoCommit
<1>7. CASE Pending(toServer[Owner[f]], Enables(f)) # 0
  BY <1>3, <1>6, <1>7
<1>8. CASE Pending(toServer[Owner[f]], Enables(f)) = 0
  <2>1. Pending(toClient[Owner[f]], News) # 0
    BY <1>2, <1>8 DEF ServeLink
  <2>2. \A d \in Clients \ {c} : toClient'[d] = toClient[d]
    BY <1>1 DEF WireTypeOK, ChannelTypeOK
  <2>3. Owner[f] = c
    BY <1>2, <1>3, <2>1, <2>2
  <2>4. /\ q \in Seq(ToClient) /\ q # <<>> /\ toClient'[c] = Tail(q)
        /\ InTurn(q, News, Entries, Departs, cfocus[c] = None)
        /\ Leaves(q, News, Naming(f), cfocus[c] = f)
        /\ Pending(q, Void) = 0
    BY <1>1, <1>2, <2>3 DEF NewsLink, Held, WireTypeOK, ChannelTypeOK
  <2> HIDE DEF q
  <2>5. m = Head(q) /\ m \in ToClient /\ Tail(q) \in Seq(ToClient)
    BY <2>4 DEF q
  <2> HIDE DEF m
  <2>6. m \in News
    <3>1. Pending(q, News) = IF m \in News THEN Pending(Tail(q), News) + 1
                                           ELSE Pending(Tail(q), News)
      BY <2>4, <2>5, Taken
    <3>2. Pending(Tail(q), News) = 0
      BY <1>2, <2>3, <2>4
    <3>3. QED
      BY <2>1, <2>3, <3>1, <3>2 DEF q
  <2>7. m \in Naming(f)
    <3>1. Leaves(Tail(q), News, Naming(f),
                 IF m \in News THEN m \in Naming(f) ELSE cfocus[c] = f)
      BY <2>4, <2>5, Taken
    <3>2. Hits(Tail(q), News) = {}
      <4>1. Pending(Tail(q), News) = 0
        BY <1>2, <2>3, <2>4
      <4>2. \A k \in DOMAIN Tail(q) : Tail(q)[k] \notin News
        BY <2>5, <4>1, PendingZero
      <4>3. QED
        BY <4>2 DEF Hits
    <3>3. QED
      BY <2>6, <3>1, <3>2 DEF Leaves
  <2>8. m.type = "enter" /\ m.surface = f /\ m \in Entries
    BY <1>2, <2>6, <2>7 DEF Naming, News, Entries
  <2>9. cfocus[c] = None
    <3>1. InTurn(q, News, Entries, Departs, cfocus[c] = None)
            <=> /\ Head(q) \in Entries => cfocus[c] = None
                /\ InTurn(Tail(q), News, Entries, Departs,
                          IF Head(q) \in News THEN Head(q) \in Departs
                          ELSE cfocus[c] = None)
      BY <2>4, InTurnTaken
    <3>2. QED
      BY <2>4, <2>5, <2>8, <3>1
  <2>10. m.inputs \cap Live # {} /\ m.surface \in Live
    <3>1. m \notin Void
      <4>1. Pending(q, Void) = IF m \in Void THEN Pending(Tail(q), Void) + 1
                                             ELSE Pending(Tail(q), Void)
        BY <2>4, <2>5, Taken
      <4>2. Pending(Tail(q), Void) \in Nat
        BY <2>5, PendingType
      <4>3. QED
        BY <2>4, <4>1, <4>2
    <3>2. m.inputs \subseteq Inputs /\ m.inputs # {}
      BY <2>5, <2>6, <3>1 DEF News, Void, ToClient
    <3>3. QED
      BY <1>3, <2>8, <3>2 DEF Live, Steady
  <2>11. ReceiveEnter(c)
    BY <2>8 DEF ClientReceives, ReceiveEnter, ReceiveLeave, ReceiveDone,
       Arrives, m
  <2>12. ClientCommit(f, "enable")
    BY <2>8, <2>9, <2>10, <2>11 DEF ReceiveEnter, m
  <2>13. QED
    BY <1>3, <1>5, <2>12, CommitKeeps
<1>9. QED
  BY <1>7, <1>8

(* ... and the server answers it.                                          *)
LEMMA ReceiveCommitServes ==
  ASSUME OneInputEach, WireTypeOK, WireTypeOK', ServerInv, UpLink, Steady,
         ServeLink, NEW c \in Clients, ReceiveCommit(c)
  PROVE  ServeLink'
<1> DEFINE m == Head(toServer[c])
           q == toServer[c]
           f == focus
<1>1. /\ toServer[c] # <<>> /\ focus' = focus
      /\ toServer' = [toServer EXCEPT ![c] = Tail(@)]
  BY DEF ReceiveCommit, Arrives
<1>2. /\ focused' = focused \/ focused' = focus
      /\ focus # None /\ m \in Enables(focus) => focused' = focus
  BY ReceiveCommitServe
<1>3. SUFFICES ASSUME f # None, focused' # f, focused # f
               PROVE  \/ Pending(toClient'[Owner[f]], News) # 0
                      \/ Pending(toServer'[Owner[f]], Enables(f)) # 0
  BY <1>1, <1>2 DEF ServeLink
<1>4. f \in Inputs /\ Owner[f] \in Clients
  BY <1>3, WireAssumption DEF WireTypeOK, TextTypeOK, NullableInput
<1>5. CASE Pending(toClient[Owner[f]], News) # 0
  BY <1>4, <1>5, RepliesKeep
<1>6. CASE Pending(toServer[Owner[f]], Enables(f)) # 0
  <2>1. CASE Owner[f] = c
    <3>1. q \in Seq(ToServer) /\ q # <<>> /\ toServer'[c] = Tail(q)
      BY <1>1 DEF WireTypeOK, ChannelTypeOK
    <3>2. m = Head(q) /\ m \notin Enables(f)
      BY <1>2, <1>3
    <3> HIDE DEF m, q
    <3>3. Pending(q, Enables(f)) = IF Head(q) \in Enables(f)
                                   THEN Pending(Tail(q), Enables(f)) + 1
                                   ELSE Pending(Tail(q), Enables(f))
      BY <3>1, Taken
    <3>4. QED
      BY <1>6, <2>1, <3>1, <3>2, <3>3 DEF q
  <2>2. CASE Owner[f] # c
    <3>1. toServer'[Owner[f]] = toServer[Owner[f]]
      BY <1>1, <1>4, <2>2 DEF WireTypeOK, ChannelTypeOK
    <3>2. QED
      BY <1>6, <3>1
  <2>3. QED
    BY <2>1, <2>2
<1>7. QED
  BY <1>3, <1>5, <1>6 DEF ServeLink

(* Every step keeps that the focused window is served.                     *)
LEMMA NextServe ==
  ASSUME ~Lifecycle, OneInputEach, WireTypeOK, WireTypeOK', ServerInv, UpLink,
         Steady, NewsLink, ServeLink, [Next]_vars
  PROVE  ServeLink'
<1>1. ASSUME GrabbedKey \/ ReceiveGrab \/ ReceiveFrame \/ ReceiveHangup
      PROVE  ServeLink'
  <2>1. UNCHANGED <<focus, focused, toClient, toServer>>
    BY <1>1 DEF GrabbedKey, ReceiveGrab, ReceiveFrame, ReceiveHangup, textVars
  <2>2. QED
    BY <2>1, ServeFrame
<1>2. ASSUME ContextNext \/ UNCHANGED vars
      PROVE  ServeLink'
  <2>1. UNCHANGED <<focus, focused, toClient, toServer>>
    BY <1>2 DEF ContextNext, ContextReceives, Start, Exit, ContextDone,
       ContextKey, Repeat, textVars, vars, channels
  <2>2. QED
    BY <2>1, ServeFrame
<1>3. ASSUME ToggleKey \/ ReceiveContextCommit
      PROVE  ServeLink'
  <2>1. UNCHANGED <<focus, focused, toServer>>
    BY <1>3 DEF ToggleKey, ReceiveContextCommit, textVars
  <2>2. \A d \in Clients : \A M :
          Pending(toClient[d], M) # 0 => Pending(toClient'[d], M) # 0
    BY <1>3, RepliesKeep
  <2>3. focus # None => Owner[focus] \in Clients
    BY WireAssumption DEF WireTypeOK, TextTypeOK, NullableInput
  <2>4. QED
    BY <2>1, <2>2, <2>3 DEF ServeLink
<1>4. ASSUME NEW c \in Clients, ReceiveCreate(c) \/ ReceiveDestroy(c)
      PROVE  FALSE
  <2>1. toServer[c] # <<>> /\ toServer' = [toServer EXCEPT ![c] = Tail(@)]
    BY <1>4 DEF ReceiveCreate, ReceiveDestroy, Arrives
  <2>2. Head(toServer[c]).type = "commit"
    BY <2>1, TakenSteady
  <2>3. QED
    BY <1>4, <2>2 DEF ReceiveCreate, ReceiveDestroy, Arrives
<1>5. ASSUME NEW i \in Inputs, Idle(i)
      PROVE  ServeLink'
  <2>1. /\ NoCommit \/ ClientCommit(i, "keep")
        /\ UNCHANGED <<focus, focused, toClient>>
    BY <1>5 DEF Idle, textVars
  <2>2. caret' \in [Inputs -> Rects]
    BY DEF WireTypeOK, ClientTypeOK
  <2>3. \A d \in Clients : \A M :
          Pending(toServer[d], M) # 0 => Pending(toServer'[d], M) # 0
    BY <2>1, <2>2, CommitKeeps DEF NoCommit
  <2>4. focus # None => Owner[focus] \in Clients
    BY WireAssumption DEF WireTypeOK, TextTypeOK, NullableInput
  <2>5. QED
    BY <2>1, <2>3, <2>4 DEF ServeLink
<1>6. ASSUME NEW i \in Inputs, Output(i)
      PROVE  ServeLink'
  <2>1. UNCHANGED <<focus, focused, toClient, toServer>>
    BY <1>6 DEF Output, textVars, channels
  <2>2. QED
    BY <2>1, ServeFrame
<1>7. CASE ServerNext
  BY <1>1, <1>3, <1>4, <1>7, FocusChangeServe, ReceiveCommitServes
     DEF ServerNext, ServerReceives, ServerReceivesContext
<1>8. CASE ClientNext
  BY <1>5, <1>6, <1>8, ClientReceivesServe
     DEF ClientNext, CreateInput, DestroyInput
<1>9. QED
  BY <1>2, <1>7, <1>8 DEF Next

(* However the focus changes, the commits of the applications and the      *)
(* toggles cross, once the messages are handled the input method serves    *)
(* the window with the keyboard focus, if every application has one window *)
(* with a text input and keeps it.  With two in one application it may be  *)
(* left serving the other: a commit of the one left still takes it.        *)
THEOREM ServesCorrect ==
  ASSUME ~Lifecycle, OneInputEach
  PROVE  Spec => []ServesFocus
<1>1. TypeOK /\ TypeOK' /\ ServerInv /\ UpLink /\ Steady /\ NewsLink
        /\ ServeLink /\ [Next]_vars => ServeLink'
  BY NextServe DEF TypeOK
<1>2. Init => ServeLink
  BY DEF Init, ServeLink
<1>3. TypeOK /\ ServeLink => ServesFocus
  <2> SUFFICES ASSUME TypeOK, ServeLink, Quiet, focus # None
               PROVE  focused = focus
    BY DEF ServesFocus
  <2>1. Owner[focus] \in Clients
    BY WireAssumption DEF TypeOK, WireTypeOK, TextTypeOK, NullableInput
  <2>2. \A M : Pending(<<>>, M) = 0
    BY HitsEmpty, PendingNone
  <2>3. QED
    BY <2>1, <2>2 DEF ServeLink, Quiet
<1>4. QED
  BY <1>1, <1>2, <1>3, TypeCorrect, ServerCorrect, ClientLinkCorrect,
     FocusLinkCorrect, PTL DEF Spec

-----------------------------------------------------------------------------
(* The commits of a text input that tell its caret is at r.                *)
AtCaret(i, r) == {m \in CommitsOf(i) : m.rect = r}

(* The server has the caret of the window an application is in, or the     *)
(* last commit on its way tells it.                                        *)
CaretTold ==
  \A i \in Inputs : cfocus[Owner[i]] = i =>
    Leaves(toServer[Owner[i]], CommitsOf(i), AtCaret(i, caret[i]),
           anchor[i] = caret[i])

(* The popup, once drawn, is at the caret of the text input that is served *)
(* as the server has it, ...                                               *)
PopupPlaced == active /\ buffered => popup = anchor[focused]

(* ... and the input method has drawn it or is about to.                   *)
PopupDrawn == present => buffered \/ Pending(fromContext, {Frame}) # 0

(* A commit tells the caret.                                               *)
LEMMA CommitTellsCaret ==
  ASSUME WireTypeOK, NEW i \in Inputs, NEW request \in {"enable", "keep"},
         caret' \in [Inputs -> Rects], ClientCommit(i, request)
  PROVE  /\ \A before : Leaves(toServer'[Owner[i]], CommitsOf(i),
                               AtCaret(i, caret'[i]), before)
         /\ \A j \in Inputs \ {i} : \A G, before :
              Leaves(toServer'[Owner[j]], CommitsOf(j), G, before)
                <=> Leaves(toServer[Owner[j]], CommitsOf(j), G, before)
<1> DEFINE m == [type |-> "commit", input |-> i, request |-> request,
                 rect |-> caret'[i]]
           o == Owner[i]
           q == toServer[o]
<1>1. /\ o \in Clients /\ q \in Seq(ToServer)
      /\ toServer'[o] = Append(q, m)
      /\ \A d \in Clients \ {o} : toServer'[d] = toServer[d]
  BY WireAssumption DEF WireTypeOK, ChannelTypeOK, ClientCommit
<1>2. /\ m \in ToServer /\ m \in CommitsOf(i) /\ m \in AtCaret(i, caret'[i])
      /\ m.input = i
  BY DEF ToServer, CommitsOf, AsksOf, AtCaret
<1> HIDE DEF m, q
<1>3. ASSUME NEW before
      PROVE  Leaves(Append(q, m), CommitsOf(i), AtCaret(i, caret'[i]), before)
  BY <1>1, <1>2, Appended
<1>4. ASSUME NEW j \in Inputs \ {i}, NEW G, NEW before
      PROVE  Leaves(toServer'[Owner[j]], CommitsOf(j), G, before)
               <=> Leaves(toServer[Owner[j]], CommitsOf(j), G, before)
  <2>1. m \notin CommitsOf(j) /\ Owner[j] \in Clients
    BY <1>2, WireAssumption DEF CommitsOf, AsksOf
  <2>2. Leaves(Append(q, m), CommitsOf(j), G, before)
          <=> Leaves(q, CommitsOf(j), G, before)
    BY <1>1, <1>2, <2>1, Appended
  <2>3. CASE Owner[j] = o
    BY <1>1, <2>2, <2>3 DEF q
  <2>4. CASE Owner[j] # o
    BY <1>1, <2>1, <2>4
  <2>5. QED
    BY <2>3, <2>4
<1>5. QED
  BY <1>1, <1>3, <1>4

(* The server reads a commit.                                              *)
LEMMA ReceiveCommitCaret ==
  ASSUME WireTypeOK, UpLink, Steady, CaretTold, NEW c \in Clients,
         ReceiveCommit(c)
  PROVE  CaretTold'
<1> DEFINE m == Head(toServer[c])
           q == toServer[c]
           i == m.input
<1>1. /\ toServer[c] # <<>> /\ m.type = "commit"
      /\ toServer' = [toServer EXCEPT ![c] = Tail(@)]
      /\ anchor' = IF m.request = "disable" THEN anchor
                   ELSE [anchor EXCEPT ![i] = m.rect]
      /\ UNCHANGED <<cfocus, caret>>
  BY DEF ReceiveCommit, Arrives, clientVars
<1>2. m.request # "disable"
  BY <1>1, TakenSteady
<1>3. m \in ToServer /\ i \in Inputs /\ Owner[i] = c
  BY <1>1, TakenUp
<1>4. /\ q \in Seq(ToServer) /\ q # <<>> /\ m = Head(q)
      /\ toServer'[c] = Tail(q)
      /\ \A d \in Clients \ {c} : toServer'[d] = toServer[d]
      /\ anchor \in [Inputs -> Rects]
  BY <1>1 DEF WireTypeOK, ChannelTypeOK, TextTypeOK
<1> HIDE DEF m, q, i
<1>5. /\ anchor'[i] = m.rect
      /\ \A j \in Inputs \ {i} : anchor'[j] = anchor[j]
  BY <1>1, <1>2, <1>3, <1>4
<1>6. ASSUME NEW j \in Inputs, cfocus[Owner[j]] = j
      PROVE  Leaves(toServer'[Owner[j]], CommitsOf(j), AtCaret(j, caret[j]),
                    anchor'[j] = caret[j])
  <2>1. Leaves(toServer[Owner[j]], CommitsOf(j), AtCaret(j, caret[j]),
               anchor[j] = caret[j])
    BY <1>6 DEF CaretTold
  <2>2. CASE Owner[j] = c
    <3>1. Leaves(Tail(q), CommitsOf(j), AtCaret(j, caret[j]),
                 IF m \in CommitsOf(j) THEN m \in AtCaret(j, caret[j])
                 ELSE anchor[j] = caret[j])
      <4>1. Leaves(q, CommitsOf(j), AtCaret(j, caret[j]), anchor[j] = caret[j])
        BY <2>1, <2>2 DEF q
      <4>2. QED
        BY <1>4, <4>1, Taken
    <3>2. m \in CommitsOf(j) <=> j = i
      BY <1>1, <1>3 DEF CommitsOf, AsksOf, i
    <3>3. (IF m \in CommitsOf(j) THEN m \in AtCaret(j, caret[j])
           ELSE anchor[j] = caret[j]) <=> anchor'[j] = caret[j]
      <4>1. CASE j = i
        BY <1>5, <3>2, <4>1 DEF AtCaret
      <4>2. CASE j # i
        BY <1>5, <3>2, <4>2
      <4>3. QED
        BY <4>1, <4>2
    <3>4. QED
      BY <1>4, <2>2, <3>1, <3>3 DEF Leaves
  <2>3. CASE Owner[j] # c
    <3>1. j # i /\ Owner[j] \in Clients
      BY <1>3, <2>3, WireAssumption
    <3>2. QED
      BY <1>4, <1>5, <2>1, <2>3, <3>1
  <2>4. QED
    BY <2>2, <2>3
<1>7. QED
  BY <1>1, <1>6 DEF CaretTold

(* Every step keeps the caret told.                                        *)
LEMMA NextCaretTold ==
  ASSUME ~Lifecycle, WireTypeOK, WireTypeOK', UpLink, Steady, NewsLink,
         CaretTold, [Next]_vars
  PROVE  CaretTold'
<1>1. ASSUME UNCHANGED <<cfocus, caret, anchor, toServer>>
      PROVE  CaretTold'
  BY <1>1 DEF CaretTold
<1>2. ASSUME \/ \E s \in NullableInput : FocusChange(s)
             \/ ToggleKey \/ GrabbedKey \/ ServerReceivesContext
      PROVE  UNCHANGED <<cfocus, caret, anchor, toServer>>
  BY <1>2 DEF FocusChange, ToggleKey, GrabbedKey, ServerReceivesContext,
     ReceiveContextCommit, ReceiveGrab, ReceiveFrame, ReceiveHangup,
     clientVars, textVars
<1>3. ASSUME ContextNext \/ UNCHANGED vars
      PROVE  UNCHANGED <<cfocus, caret, anchor, toServer>>
  BY <1>3 DEF ContextNext, ContextReceives, Start, Exit, ContextDone,
     ContextKey, Repeat, clientVars, textVars, vars, channels
<1>4. ASSUME NEW c \in Clients, ReceiveCreate(c) \/ ReceiveDestroy(c)
      PROVE  UNCHANGED <<cfocus, caret, anchor, toServer>>
  <2>1. toServer[c] # <<>> /\ toServer' = [toServer EXCEPT ![c] = Tail(@)]
    BY <1>4 DEF ReceiveCreate, ReceiveDestroy, Arrives
  <2>2. Head(toServer[c]).type = "commit"
    BY <2>1, TakenSteady
  <2>3. QED
    BY <1>4, <2>2 DEF ReceiveCreate, ReceiveDestroy, Arrives
<1>5. /\ caret' \in [Inputs -> Rects] /\ caret \in [Inputs -> Rects]
      /\ cfocus \in [Clients -> NullableInput]
  BY DEF WireTypeOK, ClientTypeOK
<1>6. ASSUME NEW i \in Inputs, NEW request \in {"enable", "keep"},
             ClientCommit(i, request), UNCHANGED anchor,
             \A j \in Inputs \ {i} : caret'[j] = caret[j],
             \A j \in Inputs \ {i} : cfocus'[Owner[j]] = j =>
                                     cfocus[Owner[j]] = j
      PROVE  CaretTold'
  <2>1. ASSUME NEW j \in Inputs, cfocus'[Owner[j]] = j
        PROVE  Leaves(toServer'[Owner[j]], CommitsOf(j),
                      AtCaret(j, caret'[j]), anchor[j] = caret'[j])
    <3>1. CASE j = i
      BY <1>5, <1>6, <3>1, CommitTellsCaret
    <3>2. CASE j # i
      <4>1. Leaves(toServer[Owner[j]], CommitsOf(j), AtCaret(j, caret[j]),
                   anchor[j] = caret[j]) /\ caret'[j] = caret[j]
        BY <1>6, <2>1, <3>2 DEF CaretTold
      <4>2. QED
        BY <1>5, <1>6, <3>2, <4>1, CommitTellsCaret
    <3>3. QED
      BY <3>1, <3>2
  <2>2. QED
    BY <1>6, <2>1 DEF CaretTold
<1>7. ASSUME NEW c \in Clients, ReceiveEnter(c)
      PROVE  CaretTold'
  <2> DEFINE i == Head(toClient[c]).surface
  <2>1. /\ UNCHANGED <<anchor, caret>>
        /\ \/ UNCHANGED cfocus /\ NoCommit
           \/ cfocus' = [cfocus EXCEPT ![c] = i] /\ i \notin Live
           \/ cfocus' = [cfocus EXCEPT ![c] = i] /\ i \in Live
                /\ ClientCommit(i, "enable")
    BY <1>7 DEF ReceiveEnter, textVars
  <2>2. i \in Inputs /\ i \in Live
    <3>1. toClient[c] # <<>> /\ Head(toClient[c]).type = "enter"
      BY <1>7 DEF ReceiveEnter, Arrives
    <3>2. Head(toClient[c]) \in ToClient
      BY <3>1 DEF WireTypeOK, ChannelTypeOK
    <3>3. i \in Inputs
      BY <3>1, <3>2 DEF ToClient
    <3>4. QED
      BY <3>3 DEF Live, Steady
  <2> HIDE DEF i
  <2>3. CASE UNCHANGED cfocus /\ NoCommit
    BY <1>1, <2>1, <2>3 DEF NoCommit
  <2>4. CASE cfocus' = [cfocus EXCEPT ![c] = i] /\ ClientCommit(i, "enable")
    <3>1. \A j \in Inputs \ {i} : cfocus'[Owner[j]] = j => cfocus[Owner[j]] = j
      BY <1>5, <2>4, WireAssumption
    <3>2. QED
      BY <1>6, <2>1, <2>2, <2>4, <3>1
  <2>5. QED
    BY <2>1, <2>2, <2>3, <2>4
<1>8. ASSUME NEW c \in Clients, ReceiveLeave(c) \/ ReceiveDone(c)
      PROVE  CaretTold'
  <2>1. /\ UNCHANGED <<caret, anchor, toServer>>
        /\ cfocus' = cfocus \/ cfocus' = [cfocus EXCEPT ![c] = None]
    BY <1>8 DEF ReceiveLeave, ReceiveDone, textVars
  <2>2. \A j \in Inputs : cfocus'[Owner[j]] = j => cfocus[Owner[j]] = j
    BY <1>5, <2>1, WireAssumption
  <2>3. QED
    BY <2>1, <2>2 DEF CaretTold
<1>9. ASSUME NEW i \in Inputs, Idle(i)
      PROVE  CaretTold'
  <2>1. /\ caret' = [caret EXCEPT ![i] = <<position[i], preedit[i]>>]
        /\ IF caret' # caret /\ cfocus[Owner[i]] = i THEN ClientCommit(i, "keep")
           ELSE NoCommit
        /\ UNCHANGED <<anchor, cfocus>>
    BY <1>9 DEF Idle, textVars
  <2>2. \A j \in Inputs \ {i} : caret'[j] = caret[j]
    BY <1>5, <2>1
  <2>3. CASE caret' # caret /\ cfocus[Owner[i]] = i
    BY <1>6, <2>1, <2>2, <2>3
  <2>4. CASE caret' = caret
    BY <1>1, <2>1, <2>4 DEF NoCommit
  <2>5. CASE cfocus[Owner[i]] # i
    <3>1. NoCommit
      BY <2>1, <2>5
    <3>2. QED
      BY <2>1, <2>2, <2>5, <3>1 DEF NoCommit, CaretTold
  <2>6. QED
    BY <2>3, <2>4, <2>5
<1>10. ASSUME NEW i \in Inputs, Output(i)
       PROVE  UNCHANGED <<cfocus, caret, anchor, toServer>>
  BY <1>10 DEF Output, textVars, channels
<1>11. CASE ServerNext
  BY <1>1, <1>2, <1>4, <1>11, ReceiveCommitCaret
     DEF ServerNext, ServerReceives
<1>12. CASE ClientNext
  BY <1>1, <1>7, <1>8, <1>9, <1>10, <1>12
     DEF ClientNext, ClientReceives, CreateInput, DestroyInput
<1>13. QED
  BY <1>1, <1>3, <1>11, <1>12 DEF Next

(* Placing the popup by the text input that is served.                     *)
LEMMA SendPlaces ==
  ASSUME WireTypeOK, ServerInv, NEW i \in Inputs, surface[i] # None,
         UNCHANGED <<present, on, buffered>>,
         \/ Focus(i)
         \/ Send(i, "keep") /\ focused = i /\ UNCHANGED focused
         \/ Send(i, "activate") /\ focused = i /\ UNCHANGED focused
  PROVE  PopupPlaced'
<1>1. \/ popup' = Placed(active' /\ buffered, i)
      \/ ~(present /\ on) /\ UNCHANGED active
  BY DEF Focus, Send
<1>2. focused' = i
  BY DEF Focus
<1>3. active /\ focused # None => present /\ on
  BY DEF ServerInv, ActiveIffServing
<1>4. active => focused # None
  BY DEF ServerInv, ActiveIffServing
<1>5. QED
  BY <1>1, <1>2, <1>3, <1>4 DEF PopupPlaced, Placed

(* The server reads a commit.                                              *)
LEMMA ReceiveCommitPlaced ==
  ASSUME OneInputEach, WireTypeOK, WireTypeOK', ServerInv, UpLink, Steady,
         PopupPlaced, NEW c \in Clients, ReceiveCommit(c)
  PROVE  PopupPlaced'
<1> DEFINE m == Head(toServer[c])
           i == m.input
<1>1. /\ m \in ToServer /\ i \in Inputs
      /\ m.request \in {"enable", "keep"}
      /\ surface[i] # None <=> focus # None /\ i = focus
      /\ enabled[i] => enabled'[i]
      /\ (enabled'[i] /\ ~enabled[i] /\ Enable(i)) \/ Commit(i)
  BY ReceiveCommitServe
<1>2. /\ anchor' = IF m.request = "disable" THEN anchor
                   ELSE [anchor EXCEPT ![i] = m.rect]
      /\ UNCHANGED <<present, on, buffered>>
      /\ anchor \in [Inputs -> Rects]
  BY DEF ReceiveCommit, WireTypeOK, TextTypeOK
<1> HIDE DEF i, m
<1>3. \A j \in Inputs : j # i => anchor'[j] = anchor[j]
  BY <1>1, <1>2
<1>4. focused # None =>
        /\ focused \in Inputs /\ focused = focus
        /\ surface[focused] # None /\ enabled[focused]
  BY FocusedIsFocus DEF ServerInv, FocusedIsEntered
<1>5. active => present /\ on /\ focused # None
  BY DEF ServerInv, ActiveIffServing
<1>6. ASSUME Unrelayed, focused # None => focused # i \/ ~(present /\ on)
      PROVE  PopupPlaced'
  <2>1. UNCHANGED <<focused, active, popup>>
    BY <1>6 DEF Unrelayed
  <2>2. active => anchor'[focused] = anchor[focused]
    BY <1>3, <1>4, <1>5, <1>6
  <2>3. QED
    BY <1>2, <2>1, <2>2 DEF PopupPlaced
<1>7. CASE enabled'[i] /\ ~enabled[i] /\ Enable(i)
  <2>1. CASE surface[i] # None
    BY <1>1, <1>2, <1>7, <2>1, SendPlaces DEF Enable
  <2>2. CASE surface[i] = None
    BY <1>4, <1>6, <1>7, <2>2 DEF Enable
  <2>3. QED
    BY <2>1, <2>2
<1>8. CASE Commit(i)
  <2>1. \/ surface[i] # None /\ focused = None /\ Focus(i)
        \/ /\ surface[i] # None /\ focused # None
           /\ Send(i, "keep") /\ UNCHANGED focused
        \/ Unrelayed /\ ~(surface[i] # None /\ enabled'[i])
        \/ Unrelayed /\ ~(present /\ on)
    BY <1>8 DEF Commit
  <2>2. CASE surface[i] # None /\ focused = None /\ Focus(i)
    BY <1>1, <1>2, <2>2, SendPlaces
  <2>3. CASE /\ surface[i] # None /\ focused # None
             /\ Send(i, "keep") /\ UNCHANGED focused
    BY <1>1, <1>2, <1>4, <2>3, SendPlaces
  <2>4. CASE Unrelayed /\ ~(surface[i] # None /\ enabled'[i])
    BY <1>1, <1>4, <1>6, <2>4
  <2>5. CASE Unrelayed /\ ~(present /\ on)
    BY <1>6, <2>5
  <2>6. QED
    BY <2>1, <2>2, <2>3, <2>4, <2>5
<1>9. QED
  BY <1>1, <1>7, <1>8

(* Every step keeps the popup by the caret the server knows of.            *)
LEMMA NextPlaced ==
  ASSUME ~Lifecycle, OneInputEach, WireTypeOK, WireTypeOK', ServerInv, UpLink,
         Steady, PopupPlaced, [Next]_vars
  PROVE  PopupPlaced'
<1>1. ASSUME \/ GrabbedKey \/ ReceiveContextCommit \/ ReceiveGrab
             \/ ClientNext \/ Exit \/ ContextReceives \/ Repeat
             \/ UNCHANGED vars
      PROVE  PopupPlaced'
  <2>1. UNCHANGED <<active, buffered, popup, anchor, focused>>
    BY <1>1 DEF GrabbedKey, ReceiveContextCommit, ReceiveGrab, ClientNext,
       ClientReceives, ReceiveEnter, ReceiveLeave, ReceiveDone, Idle, Output,
       CreateInput, DestroyInput, Exit, ContextReceives, ContextDone,
       ContextKey, Repeat, vars, textVars, methodVars
  <2>2. QED
    BY <2>1 DEF PopupPlaced
<1>2. active => present /\ on /\ focused # None
  BY DEF ServerInv, ActiveIffServing
<1>3. focused # None => focused \in Inputs /\ surface[focused] # None
  BY DEF ServerInv, FocusedIsEntered, WireTypeOK, TextTypeOK, NullableInput
<1>4. ASSUME Start \/ ReceiveHangup
      PROVE  PopupPlaced'
  BY <1>2, <1>4 DEF Start, ReceiveHangup, PopupPlaced
<1>5. ASSUME NEW s \in NullableInput, FocusChange(s)
      PROVE  PopupPlaced'
  <2>1. /\ UNCHANGED <<present, on, buffered, anchor>>
        /\ Unrelayed \/ \E n : Blur(n)
    BY <1>5 DEF FocusChange
  <2>2. CASE Unrelayed
    BY <2>1, <2>2 DEF Unrelayed, PopupPlaced
  <2>3. CASE \E n : Blur(n)
    BY <1>2, <2>1, <2>3 DEF Blur, PopupPlaced
  <2>4. QED
    BY <2>1, <2>2, <2>3
<1>6. ASSUME NEW c \in Clients, ReceiveCreate(c) \/ ReceiveDestroy(c)
      PROVE  FALSE
  <2>1. toServer[c] # <<>> /\ toServer' = [toServer EXCEPT ![c] = Tail(@)]
    BY <1>6 DEF ReceiveCreate, ReceiveDestroy, Arrives
  <2>2. Head(toServer[c]).type = "commit"
    BY <2>1, TakenSteady
  <2>3. QED
    BY <1>6, <2>2 DEF ReceiveCreate, ReceiveDestroy, Arrives
<1>7. ASSUME ToggleKey
      PROVE  PopupPlaced'
  <2>1. /\ focused # None /\ UNCHANGED <<present, buffered, anchor, focused>>
        /\ Send(focused, "activate") \/ active' = FALSE
    BY <1>7 DEF ToggleKey
  <2>2. CASE Send(focused, "activate")
    BY <1>3, <2>1, <2>2 DEF Send, PopupPlaced, Placed
  <2>3. CASE active' = FALSE
    BY <2>3 DEF PopupPlaced
  <2>4. QED
    BY <2>1, <2>2, <2>3
<1>8. ASSUME ReceiveFrame
      PROVE  PopupPlaced'
  <2>1. /\ UNCHANGED <<active, focused, anchor>>
        /\ popup' = Placed(active, focused)
    BY <1>8 DEF ReceiveFrame
  <2>2. QED
    BY <1>2, <1>3, <2>1 DEF PopupPlaced, Placed
<1>9. CASE ServerNext
  BY <1>1, <1>4, <1>5, <1>6, <1>7, <1>8, <1>9, ReceiveCommitPlaced
     DEF ServerNext, ServerReceives, ServerReceivesContext
<1>10. CASE ContextNext
  BY <1>1, <1>4, <1>10 DEF ContextNext
<1>11. QED
  BY <1>1, <1>9, <1>10 DEF Next

-----------------------------------------------------------------------------
(* The commits of the input method process: those the server relays, those *)
(* that say the text being composed is t, and those that hand back a key   *)
(* and repeat it.                                                          *)
Commits      == [type : {"commit"}, serial : Nat, preedit : Texts,
                 forward : BOOLEAN]
Relayed      == {m \in Commits : ~m.forward}
Saying(t)    == {m \in Commits : m.preedit = t}
Forwarded(t) == {m \in Commits : m.forward /\ m.preedit = t}

(* Messages r sent by a process that composes t afterwards: they leave a   *)
(* server that knew, if the process composed t before, knowing it, and the *)
(* keys handed back repeat what it then knows.                             *)
Says(r, t, before) ==
  /\ \A known : (t = before => known) => Leaves(r, Relayed, Saying(t), known)
  /\ \A x, known : (x = t /\ t = before => known)
       => InTurn(r, Relayed, Forwarded(x), Saying(x), known)
  /\ t # before => Pending(r, Relayed) # 0

(* What the engine sends as it takes a key.                                *)
LEMMA EngineSays ==
  ASSUME WireTypeOK, NEW ACTION back, EngineTakesKey(back),
         back = <<>> \/ back = HandedBack, cs' \in Texts
  PROVE  \E r \in Seq(FromContext) :
           fromContext' = fromContext \o r /\ Says(r, cs', cs)
<1>1. PICK out \in SeqOf(Texts, MaxSends), redraw \in {<<>>, <<Frame>>} :
        /\ cs' = IF out = <<>> THEN cs ELSE out[Len(out)]
        /\ fromContext' = fromContext
                          \o [k \in DOMAIN out |-> Composed(iserial, out[k])]
                          \o redraw \o back
  BY DEF EngineTakesKey
<1>2. /\ iserial \in Nat /\ fromContext \in Seq(FromContext)
      /\ cs \in Texts /\ cs' \in Texts
  BY DEF WireTypeOK, ContextTypeOK, ChannelTypeOK
<1> DEFINE handed == [Composed(iserial, cs') EXCEPT !.forward = TRUE]
           ms == [k \in DOMAIN out |-> Composed(iserial, out[k])]
<1>3. /\ \A t \in Texts : /\ Composed(iserial, t) \in FromContext
                          /\ Composed(iserial, t) \in Relayed
                          /\ Composed(iserial, t) \in Saying(t)
                          /\ \A x : Composed(iserial, t) \notin Forwarded(x)
      /\ Frame \in FromContext /\ Frame \notin Commits
      /\ handed \in FromContext /\ handed \notin Relayed
      /\ \A x : handed \in Forwarded(x) => x = cs'
  <2>1. /\ \A t \in Texts : Composed(iserial, t) \in FromContext
        /\ Frame \in FromContext
        /\ handed \in FromContext
    BY <1>2, ContextMessages
  <2>2. /\ \A t \in Texts : Composed(iserial, t) \in Commits
        /\ Frame \notin Commits
    BY <1>2 DEF Composed, Frame, Commits
  <2>3. handed \in Commits /\ handed.forward /\ handed.preedit = cs'
    BY <1>2 DEF Composed, Commits
  <2>4. \A t \in Texts : /\ Composed(iserial, t).preedit = t
                        /\ ~Composed(iserial, t).forward
    BY DEF Composed
  <2> HIDE DEF handed
  <2>5. QED
    BY <2>1, <2>2, <2>3, <2>4 DEF Relayed, Saying, Forwarded
<1>4. /\ ms \in Seq(FromContext)
      /\ \A k \in DOMAIN ms : \A x : ms[k] \notin Forwarded(x)
      /\ \/ ms = <<>> /\ cs' = cs
         \/ ms # <<>> /\ ms[Len(ms)] \in Relayed /\ ms[Len(ms)] \in Saying(cs')
  <2>1. PICK n \in 0..MaxSends : out \in [1..n -> Texts]
    BY DEF SeqOf
  <2>2. n \in Nat /\ DOMAIN out = 1..n /\ Len(out) = n
        /\ out \in Seq(Texts)
    BY <2>1, WireAssumption
  <2>3. /\ ms \in Seq(FromContext) /\ Len(ms) = n /\ DOMAIN ms = 1..n
        /\ \A k \in 1..n : ms[k] = Composed(iserial, out[k]) /\ out[k] \in Texts
    BY <1>3, <2>1, <2>2
  <2> HIDE DEF ms
  <2>4. \A k \in DOMAIN ms : \A x : ms[k] \notin Forwarded(x)
    BY <1>3, <2>3
  <2>5. CASE n = 0
    BY <1>1, <2>2, <2>3, <2>4, <2>5
  <2>6. CASE n # 0
    <3>1. n \in 1..n /\ out # <<>> /\ ms # <<>>
      BY <2>2, <2>3, <2>6
    <3>2. cs' = out[n] /\ ms[Len(ms)] = Composed(iserial, out[n])
      BY <1>1, <2>2, <2>3, <3>1
    <3>3. QED
      BY <1>3, <2>3, <2>4, <3>1, <3>2
  <2>7. QED
    BY <2>5, <2>6
<1>5. /\ redraw \in Seq(FromContext)
      /\ \A k \in DOMAIN redraw : redraw[k] \notin Commits
  <2>1. /\ <<>> \in Seq(FromContext) /\ <<Frame>> \in Seq(FromContext)
        /\ redraw = <<>> \/ redraw = <<Frame>>
    BY <1>1, <1>3
  <2> HIDE DEF handed
  <2>2. Frame \notin Commits
    BY <1>3
  <2>3. CASE redraw = <<>>
    BY <2>1, <2>3
  <2>4. CASE redraw = <<Frame>>
    <3>1. \A k \in DOMAIN <<Frame>> : <<Frame>>[k] \notin Commits
      BY <2>2
    <3>2. QED
      BY <2>1, <2>4, <3>1
  <2>5. QED
    BY <2>1, <2>3, <2>4
<1>6. /\ back \in Seq(FromContext)
      /\ back = <<>> \/ back = <<handed>>
      /\ \A k \in DOMAIN back : back[k] \notin Relayed
  <2>1. /\ <<>> \in Seq(FromContext) /\ <<handed>> \in Seq(FromContext)
        /\ back = <<>> \/ back = <<handed>>
    BY <1>3 DEF HandedBack
  <2> HIDE DEF handed
  <2>2. \A k \in DOMAIN back : back[k] \notin Relayed
    BY <1>3, <2>1
  <2>3. QED
    BY <2>1, <2>2
<1> HIDE DEF ms, handed
<1>7. /\ redraw \o back \in Seq(FromContext)
      /\ \A k \in DOMAIN (redraw \o back) :
           /\ (redraw \o back)[k] \notin Relayed
           /\ \A x : (redraw \o back)[k] \in Forwarded(x) => x = cs'
  <2> DEFINE Quits == {m \in FromContext : /\ m \notin Relayed
                                          /\ \A x : m \in Forwarded(x) => x = cs'}
  <2>1. handed \in Quits /\ \A m \in FromContext : m \notin Commits => m \in Quits
    BY <1>3 DEF Relayed, Forwarded
  <2> HIDE DEF Quits
  <2>2. /\ \A k \in DOMAIN redraw : redraw[k] \in Quits
        /\ \A k \in DOMAIN back : back[k] \in Quits
    BY <1>5, <1>6, <2>1
  <2>3. redraw \in Seq(Quits) /\ back \in Seq(Quits)
    BY <1>5, <1>6, <2>2
  <2>4. redraw \o back \in Seq(Quits)
    BY <2>3, ConcatProperties
  <2>5. Quits \subseteq FromContext
    BY DEF Quits
  <2>6. \A k \in DOMAIN (redraw \o back) : (redraw \o back)[k] \in Quits
    BY <2>4
  <2>7. redraw \o back \in Seq(FromContext)
    BY <2>4, <2>5
  <2>8. QED
    BY <2>6, <2>7 DEF Quits
<1>8. fromContext' = fromContext \o (ms \o (redraw \o back))
  <2>1. fromContext' = ((fromContext \o ms) \o redraw) \o back
    BY <1>1 DEF ms
  <2>2. fromContext \o ms \in Seq(FromContext)
    BY <1>2, <1>4, ConcatType
  <2>3. ((fromContext \o ms) \o redraw) \o back
          = (fromContext \o ms) \o (redraw \o back)
    <3>1. redraw \in Seq(FromContext) /\ back \in Seq(FromContext)
      BY <1>5, <1>6
    <3>2. QED
      BY <2>2, <3>1
  <2>4. (fromContext \o ms) \o (redraw \o back)
          = fromContext \o (ms \o (redraw \o back))
    <3> DEFINE rest == redraw \o back
    <3>1. rest \in Seq(FromContext)
      BY <1>7
    <3> HIDE DEF rest
    <3>2. fromContext \in Seq(FromContext) /\ ms \in Seq(FromContext)
      BY <1>2, <1>4
    <3>3. (fromContext \o ms) \o rest = fromContext \o (ms \o rest)
      BY <3>1, <3>2
    <3>4. QED
      BY <3>3 DEF rest
  <2>5. QED
    BY <2>1, <2>3, <2>4
<1> DEFINE b == redraw \o back
<1>9. /\ ms \in Seq(FromContext) /\ b \in Seq(FromContext)
      /\ \A k \in DOMAIN b : /\ b[k] \notin Relayed
                             /\ \A x : b[k] \in Forwarded(x) => x = cs'
      /\ fromContext' = fromContext \o (ms \o b)
  BY <1>4, <1>7, <1>8
<1> HIDE DEF b
<1>10. ASSUME NEW known, cs' = cs => known
       PROVE  Leaves(ms, Relayed, Saying(cs'), known)
  BY <1>4, <1>10, LastListened, LeavesEmpty
<1>11. ASSUME NEW known, cs' = cs => known
       PROVE  Leaves(ms \o b, Relayed, Saying(cs'), known)
  <2>1. Leaves(ms \o b, Relayed, Saying(cs'), known)
          <=> Leaves(ms, Relayed, Saying(cs'), known)
    BY <1>9, Passed
  <2>2. QED
    BY <1>10, <1>11, <2>1
<1>12. cs' # cs => Pending(ms \o b, Relayed) # 0
  BY <1>4, <1>9, LastListened, PendingKept
<1>13. ASSUME NEW x, NEW known, x = cs' /\ cs' = cs => known
       PROVE  InTurn(ms \o b, Relayed, Forwarded(x), Saying(x), known)
  <2>1. InTurn(ms, Relayed, Forwarded(x), Saying(x), known)
    BY <1>4, NoTurns
  <2>2. InTurn(b, Relayed, Forwarded(x), Saying(x),
               Leaves(ms, Relayed, Saying(x), known))
    <3>1. CASE x = cs'
      <4>1. Leaves(ms, Relayed, Saying(x), known)
        BY <1>10, <1>13, <3>1
      <4>2. InTurn(b, Relayed, Forwarded(x), Saying(x), TRUE)
        BY <1>9, InTurnUnheard
      <4>3. QED
        BY <4>1, <4>2 DEF InTurn, Leaves
    <3>2. CASE x # cs'
      <4>1. \A k \in DOMAIN b : b[k] \notin Forwarded(x)
        BY <1>9, <3>2
      <4>2. QED
        BY <4>1, NoTurns
    <3>3. QED
      BY <3>1, <3>2
  <2>3. QED
    BY <1>9, <2>1, <2>2, InTurnConcat
<1> DEFINE r == ms \o b
<1>14. r \in Seq(FromContext) /\ fromContext' = fromContext \o r
  BY <1>9, ConcatProperties
<1>15. Says(r, cs', cs)
  BY <1>11, <1>12, <1>13 DEF Says
<1>16. QED
  BY <1>14, <1>15

(* What it sends as it takes the keyboard: what is being composed, if      *)
(* anything is, is said again.                                             *)
LEMMA TakeKeyboardSays ==
  ASSUME WireTypeOK, iserial' \in Nat, TakeKeyboard
  PROVE  \E r \in Seq(FromContext) :
           /\ fromContext' = fromContext \o r
           /\ Says(r, cs, cs)
           /\ cs # Empty => Pending(r, Relayed) # 0
<1> DEFINE m      == Composed(iserial', cs)
           take   == [type |-> "grab"]
           resend == IF cs = Empty THEN <<>> ELSE <<m>>
           rest   == resend \o <<Frame>>
<1>1. fromContext' = ((fromContext \o <<take>>) \o resend) \o <<Frame>>
  BY DEF TakeKeyboard
<1>2. /\ fromContext \in Seq(FromContext) /\ cs \in Texts
      /\ take \in FromContext /\ Frame \in FromContext /\ m \in FromContext
  BY ContextMessages DEF WireTypeOK, ContextTypeOK, ChannelTypeOK
<1>3. /\ take \notin Commits /\ Frame \notin Commits
      /\ m \in Relayed /\ m \in Saying(cs) /\ \A x : m \notin Forwarded(x)
  <2>1. m \in Commits /\ ~m.forward /\ m.preedit = cs
    BY <1>2 DEF Composed, Commits
  <2>2. take \notin Commits /\ Frame \notin Commits
    BY DEF Frame, Commits
  <2> HIDE DEF m, take
  <2>3. QED
    BY <2>1, <2>2 DEF Relayed, Saying, Forwarded
<1> HIDE DEF m, take
<1>4. /\ resend \in Seq(FromContext) /\ <<Frame>> \in Seq(FromContext)
      /\ <<take>> \in Seq(FromContext)
      /\ resend = <<>> \/ resend = <<m>>
      /\ cs # Empty => resend = <<m>>
  BY <1>2
<1>5. /\ \A k \in DOMAIN <<Frame>> : <<Frame>>[k] \notin Commits
      /\ \A k \in DOMAIN <<take>> : <<take>>[k] \notin Commits
      /\ \A k \in DOMAIN resend : \A x : resend[k] \notin Forwarded(x)
  BY <1>3, <1>4
<1> HIDE DEF resend
<1>6. /\ rest \in Seq(FromContext)
      /\ <<take>> \o rest \in Seq(FromContext)
  BY <1>4, ConcatProperties
<1>7. fromContext' = fromContext \o (<<take>> \o rest)
  <2> DEFINE a == <<take>>
             z == <<Frame>>
  <2>1. /\ fromContext \in Seq(FromContext) /\ a \in Seq(FromContext)
        /\ fromContext \o a \in Seq(FromContext)
        /\ resend \in Seq(FromContext) /\ z \in Seq(FromContext)
    BY <1>2, <1>4, ConcatType
  <2> HIDE DEF a, z
  <2>2. ((fromContext \o a) \o resend) \o z
          = (fromContext \o a) \o (resend \o z)
    BY <2>1
  <2>3. (fromContext \o a) \o (resend \o z)
          = fromContext \o (a \o (resend \o z))
    <3> DEFINE y == resend \o z
    <3>1. y \in Seq(FromContext)
      BY <2>1, ConcatProperties
    <3> HIDE DEF y
    <3>2. (fromContext \o a) \o y = fromContext \o (a \o y)
      BY <2>1, <3>1
    <3>3. QED
      BY <3>2 DEF y
  <2>4. QED
    BY <1>1, <2>2, <2>3 DEF a, z
<1>8. /\ \A known : known => Leaves(rest, Relayed, Saying(cs), known)
      /\ \A x, known : InTurn(rest, Relayed, Forwarded(x), Saying(x), known)
      /\ cs # Empty => Pending(rest, Relayed) # 0
  <2> DEFINE z == <<Frame>>
  <2>1. /\ resend \in Seq(FromContext) /\ z \in Seq(FromContext)
        /\ \A k \in DOMAIN z : z[k] \notin Relayed
        /\ \A k \in DOMAIN z : \A x : z[k] \notin Forwarded(x)
    BY <1>4, <1>5 DEF Relayed, Forwarded
  <2> HIDE DEF z
  <2>2. ASSUME NEW known, known
        PROVE  Leaves(resend \o z, Relayed, Saying(cs), known)
    <3>1. Leaves(resend \o z, Relayed, Saying(cs), known)
            <=> Leaves(resend, Relayed, Saying(cs), known)
      BY <2>1, Passed
    <3>2. /\ Leaves(<<>>, Relayed, Saying(cs), known)
          /\ Leaves(<<m>>, Relayed, Saying(cs), known)
      BY <1>3, <2>2, LeavesEmpty, LeavesOne
    <3>3. QED
      BY <1>4, <3>1, <3>2
  <2>3. ASSUME NEW x, NEW known
        PROVE  InTurn(resend \o z, Relayed, Forwarded(x), Saying(x), known)
    <3>1. InTurn(resend, Relayed, Forwarded(x), Saying(x), known)
      BY <1>5, NoTurns
    <3>2. InTurn(z, Relayed, Forwarded(x), Saying(x),
                 Leaves(resend, Relayed, Saying(x), known))
      BY <2>1, NoTurns
    <3>3. QED
      BY <2>1, <3>1, <3>2, InTurnConcat
  <2>4. cs # Empty => Pending(resend \o z, Relayed) # 0
    <3>1. cs # Empty => Pending(resend, Relayed) # 0
      BY <1>3, <1>4, PendingOne
    <3>2. QED
      BY <2>1, <3>1, PendingKept
  <2>5. QED
    BY <2>2, <2>3, <2>4 DEF z
<1> HIDE DEF rest
<1> DEFINE a == <<take>>
<1>9. /\ a \in Seq(FromContext) /\ rest \in Seq(FromContext)
      /\ \A k \in DOMAIN a : a[k] \notin Relayed
      /\ \A k \in DOMAIN a : \A x : a[k] \notin Forwarded(x)
  BY <1>4, <1>5, <1>6 DEF Relayed, Forwarded
<1> HIDE DEF a
<1>10. ASSUME NEW known, known
       PROVE  Leaves(a \o rest, Relayed, Saying(cs), known)
  <2>1. Leaves(a, Relayed, Saying(cs), known) <=> known
    BY <1>9, NothingListened
  <2>2. Leaves(a \o rest, Relayed, Saying(cs), known)
          <=> Leaves(rest, Relayed, Saying(cs),
                     Leaves(a, Relayed, Saying(cs), known))
    BY <1>9, LeavesConcat
  <2>3. Leaves(rest, Relayed, Saying(cs),
               Leaves(a, Relayed, Saying(cs), known))
    BY <1>8, <1>10, <2>1
  <2>4. QED
    BY <2>2, <2>3
<1>11. ASSUME NEW x, NEW known
       PROVE  InTurn(a \o rest, Relayed, Forwarded(x), Saying(x), known)
  <2>1. InTurn(a, Relayed, Forwarded(x), Saying(x), known)
    BY <1>9, NoTurns
  <2>2. QED
    BY <1>8, <1>9, <2>1, InTurnConcat
<1>12. cs # Empty => Pending(a \o rest, Relayed) # 0
  <2>1. Pending(a \o rest, Relayed)
          = Pending(a, Relayed) + Pending(rest, Relayed)
    BY <1>9, PendingConcat
  <2>2. Pending(a, Relayed) \in Nat /\ Pending(rest, Relayed) \in Nat
    BY <1>9, PendingType
  <2>3. QED
    BY <1>8, <2>1, <2>2
<1>13. Says(a \o rest, cs, cs)
  BY <1>10, <1>11 DEF Says
<1>14. a \o rest \in Seq(FromContext) /\ fromContext' = fromContext \o (a \o rest)
  BY <1>6, <1>7 DEF a
<1>15. QED
  BY <1>12, <1>13, <1>14

(* Messages that are no commits say nothing.                               *)
LEMMA SilentSays ==
  ASSUME NEW r, NEW t, \A k \in DOMAIN r : r[k] \notin Commits
  PROVE  Says(r, t, t)
<1>1. /\ \A k \in DOMAIN r : r[k] \notin Relayed
      /\ \A x : \A k \in DOMAIN r : r[k] \notin Forwarded(x)
  BY DEF Relayed, Forwarded
<1>2. \A known : Leaves(r, Relayed, Saying(t), known) <=> known
  BY <1>1, NothingListened
<1>3. \A x, known : InTurn(r, Relayed, Forwarded(x), Saying(x), known)
  BY <1>1, NoTurns
<1>4. QED
  BY <1>2, <1>3 DEF Says

(* Whatever the process does, it says what it composes.                    *)
LEMMA ContextSays ==
  ASSUME WireTypeOK, WireTypeOK', ContextReceives \/ Repeat
  PROVE  \E r \in Seq(FromContext) :
           /\ fromContext' = fromContext \o r
           /\ Says(r, cs', cs)
           /\ cs # Empty /\ igrab' /\ ~igrab => Pending(r, Relayed) # 0
<1>1. /\ fromContext \in Seq(FromContext) /\ cs' \in Texts
      /\ iserial' \in Nat /\ igrab \in BOOLEAN
      /\ <<>> \in Seq(FromContext) /\ fromContext \o <<>> = fromContext
  BY ContextMessages DEF WireTypeOK, ContextTypeOK, ChannelTypeOK
<1>2. ASSUME UNCHANGED <<cs, fromContext>>, igrab' => igrab
      PROVE  \E r \in Seq(FromContext) :
               /\ fromContext' = fromContext \o r
               /\ Says(r, cs', cs)
               /\ cs # Empty /\ igrab' /\ ~igrab => Pending(r, Relayed) # 0
  <2>1. Says(<<>>, cs, cs)
    BY SilentSays
  <2>2. QED
    BY <1>1, <1>2, <2>1
<1>3. CASE ContextDone
  <2>1. /\ igrab' = iactive' /\ UNCHANGED cs
        /\ CASE iactive' /\ ~igrab -> TakeKeyboard
             [] ~iactive' /\ igrab -> GiveBackKeyboard
             [] OTHER -> UNCHANGED <<fromContext, repeating>>
        /\ iactive' \in BOOLEAN
    BY <1>3 DEF ContextDone, WireTypeOK, ContextTypeOK
  <2>2. CASE iactive' /\ ~igrab
    BY <1>1, <2>1, <2>2, TakeKeyboardSays
  <2>3. CASE ~iactive' /\ igrab
    <3> DEFINE m == [type |-> "release"]
    <3>1. fromContext' = Append(fromContext, m) /\ m \in FromContext
      BY <2>1, <2>3, ContextMessages DEF GiveBackKeyboard
    <3>2. m \notin Commits
      BY DEF Commits
    <3> HIDE DEF m
    <3>3. <<m>> \in Seq(FromContext) /\ fromContext' = fromContext \o <<m>>
      BY <1>1, <3>1
    <3>4. \A k \in DOMAIN <<m>> : <<m>>[k] \notin Commits
      BY <3>2
    <3>5. Says(<<m>>, cs, cs)
      BY <3>4, SilentSays
    <3>6. QED
      BY <2>1, <2>3, <3>3, <3>5
  <2>4. CASE iactive' <=> igrab
    BY <1>2, <2>1, <2>4
  <2>5. QED
    BY <1>1, <2>1, <2>2, <2>3, <2>4
<1>4. ASSUME NEW ACTION back, EngineTakesKey(back),
             back = <<>> \/ back = HandedBack, UNCHANGED igrab
      PROVE  \E r \in Seq(FromContext) :
               /\ fromContext' = fromContext \o r
               /\ Says(r, cs', cs)
               /\ cs # Empty /\ igrab' /\ ~igrab => Pending(r, Relayed) # 0
  <2>1. \E r \in Seq(FromContext) :
          fromContext' = fromContext \o r /\ Says(r, cs', cs)
    BY <1>1, <1>4, EngineSays
  <2>2. QED
    BY <1>4, <2>1
<1>5. CASE ContextKey \/ Repeat
  <2>1. /\ UNCHANGED igrab
        /\ \/ UNCHANGED <<cs, fromContext>>
           \/ EngineTakesKey(<<>>)
           \/ EngineTakesKey(HandedBack)
    BY <1>5 DEF ContextKey, Repeat
  <2>2. CASE UNCHANGED <<cs, fromContext>>
    BY <1>2, <2>1, <2>2
  <2>3. CASE EngineTakesKey(<<>>)
    BY <1>4, <2>1, <2>3
  <2>4. CASE EngineTakesKey(HandedBack)
    BY <1>4, <2>1, <2>4
  <2>5. QED
    BY <2>1, <2>2, <2>3, <2>4
<1>6. QED
  BY <1>3, <1>5 DEF ContextReceives

(* Every step keeps the popup drawn or about to be.                        *)
LEMMA NextDrawn ==
  ASSUME WireTypeOK, WireTypeOK', PopupDrawn, [Next]_vars
  PROVE  PopupDrawn'
<1>1. fromContext \in Seq(FromContext)
  BY DEF WireTypeOK, ChannelTypeOK
<1>2. ASSUME UNCHANGED <<present, buffered, fromContext>>
      PROVE  PopupDrawn'
  BY <1>2 DEF PopupDrawn
<1>3. ASSUME \/ \E s \in NullableInput : FocusChange(s)
             \/ \E c \in Clients : ServerReceives(c)
             \/ ToggleKey \/ GrabbedKey \/ ClientNext \/ UNCHANGED vars
      PROVE  PopupDrawn'
  <2>1. UNCHANGED <<present, buffered, fromContext>>
    BY <1>3 DEF FocusChange, ServerReceives, ReceiveCommit, ReceiveCreate,
       ReceiveDestroy, ToggleKey, GrabbedKey, ClientNext, ClientReceives,
       ReceiveEnter, ReceiveLeave, ReceiveDone, Idle, Output, CreateInput,
       DestroyInput, vars, methodVars, channels
  <2>2. QED
    BY <1>2, <2>1
<1>4. ASSUME ReceiveContextCommit \/ ReceiveGrab
      PROVE  PopupDrawn'
  <2>1. /\ fromContext # <<>> /\ Head(fromContext).type # "frame"
        /\ fromContext' = Tail(fromContext)
        /\ UNCHANGED <<present, buffered>>
    BY <1>4 DEF ReceiveContextCommit, ReceiveGrab, Arrives
  <2>2. Head(fromContext) \notin {Frame}
    BY <2>1 DEF Frame
  <2>3. Pending(fromContext, {Frame}) = Pending(fromContext', {Frame})
    BY <1>1, <2>1, <2>2, Taken
  <2>4. QED
    BY <2>1, <2>3 DEF PopupDrawn
<1>5. ASSUME ReceiveFrame \/ ReceiveHangup
      PROVE  PopupDrawn'
  BY <1>5 DEF ReceiveFrame, ReceiveHangup, PopupDrawn
<1>6. ASSUME NEW r \in Seq(FromContext), fromContext' = fromContext \o r,
             UNCHANGED <<present, buffered>>
      PROVE  PopupDrawn'
  <2>1. Pending(fromContext, {Frame}) # 0
          => Pending(fromContext \o r, {Frame}) # 0
    BY <1>1, PendingKept
  <2>2. QED
    BY <1>6, <2>1 DEF PopupDrawn
<1>7. CASE ContextReceives \/ Repeat
  <2>1. UNCHANGED <<present, buffered>>
    BY <1>7 DEF ContextReceives, ContextDone, ContextKey, Repeat, methodVars
  <2>2. \E r \in Seq(FromContext) : fromContext' = fromContext \o r
    BY <1>7, ContextSays
  <2>3. QED
    BY <1>6, <2>1, <2>2
<1>8. CASE Exit
  <2> DEFINE m == [type |-> "hangup"]
  <2>1. /\ fromContext' = Append(fromContext, m) /\ m \in FromContext
        /\ UNCHANGED <<present, buffered>>
    BY <1>8, ContextMessages DEF Exit, methodVars
  <2> HIDE DEF m
  <2>2. <<m>> \in Seq(FromContext) /\ fromContext' = fromContext \o <<m>>
    BY <1>1, <2>1
  <2>3. QED
    BY <1>6, <2>1, <2>2
<1>9. CASE Start
  <2>1. fromContext' = <<Frame>>
    BY <1>9 DEF Start
  <2>2. Pending(<<Frame>>, {Frame}) = 1
    BY PendingOne
  <2>3. QED
    BY <2>1, <2>2 DEF PopupDrawn
<1>10. CASE ServerNext
  BY <1>3, <1>4, <1>5, <1>10 DEF ServerNext, ServerReceivesContext
<1>11. CASE ContextNext
  BY <1>7, <1>8, <1>9, <1>11 DEF ContextNext
<1>12. QED
  BY <1>3, <1>10, <1>11 DEF Next

(* However the caret moves, by the shell or by the text being composed,    *)
(* and whatever messages cross, once they are handled and the windows laid *)
(* out the popup is at the caret of the window the input method serves: no *)
(* report of the caret is lost, and none is put to another window.         *)
THEOREM PopupPlaceCorrect ==
  ASSUME ~Lifecycle, OneInputEach
  PROVE  Spec => []PopupAtCaret
<1>1. TypeOK /\ TypeOK' /\ ServerInv /\ UpLink /\ Steady /\ NewsLink
        /\ CaretTold /\ PopupPlaced /\ PopupDrawn /\ [Next]_vars
        => CaretTold' /\ PopupPlaced' /\ PopupDrawn'
  BY NextCaretTold, NextPlaced, NextDrawn DEF TypeOK
<1>2. Init => CaretTold /\ PopupPlaced /\ PopupDrawn
  <2> SUFFICES ASSUME Init PROVE CaretTold /\ PopupPlaced /\ PopupDrawn
    OBVIOUS
  <2>1. \A i \in Inputs : cfocus[Owner[i]] # i
    BY WireAssumption DEF Init
  <2>2. active = FALSE /\ fromContext = <<Frame>>
    BY DEF Init
  <2>3. Pending(<<Frame>>, {Frame}) = 1
    BY PendingOne
  <2>4. QED
    BY <2>1, <2>2, <2>3 DEF CaretTold, PopupPlaced, PopupDrawn
<1>3. TypeOK /\ ServerInv /\ Steady /\ NewsLink /\ CaretTold /\ PopupPlaced
        /\ PopupDrawn => PopupAtCaret
  <2> SUFFICES ASSUME WireTypeOK, ServerInv, Steady, NewsLink, CaretTold,
                      PopupPlaced, PopupDrawn, Quiet, active
               PROVE  popup = caret[focused]
    BY DEF TypeOK, PopupAtCaret, Settled
  <2> DEFINE f == focused
             o == Owner[f]
  <2>1. present /\ f # None
    BY DEF ServerInv, ActiveIffServing
  <2>2. f \in Inputs /\ f = focus /\ o \in Clients
    BY <2>1, FocusedIsFocus, WireAssumption
  <2>3. toServer[o] = <<>> /\ toClient[o] = <<>> /\ fromContext = <<>>
    BY <2>2 DEF Quiet
  <2>4. buffered
    BY <2>1, <2>3, LeavesEmpty DEF PopupDrawn
  <2>5. cfocus[o] = f
    <3>1. Held(o) = f
      BY <2>1, <2>2 DEF Held
    <3>2. Leaves(<<>>, News, Naming(Held(o)), cfocus[o] = Held(o))
      BY <2>2, <2>3 DEF NewsLink
    <3>3. cfocus[o] = Held(o)
      BY <3>2, LeavesEmpty
    <3>4. QED
      BY <3>1, <3>3
  <2>6. anchor[f] = caret[f]
    <3>1. Leaves(<<>>, CommitsOf(f), AtCaret(f, caret[f]), anchor[f] = caret[f])
      BY <2>2, <2>3, <2>5 DEF CaretTold
    <3>2. QED
      BY <3>1, LeavesEmpty
  <2>7. QED
    BY <2>4, <2>6 DEF PopupPlaced
<1>4. QED
  BY <1>1, <1>2, <1>3, TypeCorrect, ServerCorrect, ClientLinkCorrect,
     FocusLinkCorrect, PTL DEF Spec

-----------------------------------------------------------------------------
(* What the server last took in is t, or it has lost the last one.         *)
Known(t) == lost \/ current = t

(* The input method process runs, what the server last had relayed or will *)
(* is what the process composes, and a key handed back repeats it.         *)
CompositionLink ==
  /\ running
  /\ Leaves(fromContext, Relayed, Saying(cs), Known(cs))
  /\ \A t \in Texts :
       InTurn(fromContext, Relayed, Forwarded(t), Saying(t), Known(t))

(* An input method process that is never ended is not found gone.          *)
LEMMA StaysUp ==
  ASSUME ~Restarts, WireTypeOK, KeyboardLink, running
  PROVE  ~ReceiveHangup /\ ~Start /\ ~Exit
<1>1. ASSUME ReceiveHangup PROVE FALSE
  <2>1. fromContext # <<>> /\ Head(fromContext).type = "hangup"
    BY <1>1 DEF ReceiveHangup, Arrives
  <2>2. fromContext \in Seq(FromContext)
    BY DEF WireTypeOK, ChannelTypeOK
  <2>3. Head(fromContext) \in Hangups
    BY <2>1, <2>2 DEF FromContext, Hangups
  <2>4. 1 \in DOMAIN fromContext /\ fromContext[1] = Head(fromContext)
    BY <2>1, <2>2
  <2>5. 1 \in Hits(fromContext, Hangups)
    BY <2>3, <2>4 DEF Hits
  <2>6. QED
    BY <2>5 DEF KeyboardLink
<1>2. QED
  BY <1>1 DEF Start, Exit

(* The server takes in a commit.                                           *)
LEMMA ReceiveContextCommitSaid ==
  ASSUME WireTypeOK, CompositionLink, ReceiveContextCommit
  PROVE  /\ CompositionLink'
         /\ Head(fromContext) \in Relayed /\ Pending(fromContext', Relayed) = 0
              => Head(fromContext).preedit = cs
<1> DEFINE m == Head(fromContext)
           q == fromContext
<1>1. /\ q \in Seq(FromContext) /\ q # <<>> /\ m.type = "commit"
      /\ fromContext' = Tail(q) /\ (Take(m) \/ Pass(m))
      /\ UNCHANGED <<running, cs>> /\ running
      /\ Leaves(q, Relayed, Saying(cs), Known(cs))
      /\ \A t \in Texts : InTurn(q, Relayed, Forwarded(t), Saying(t), Known(t))
  BY DEF ReceiveContextCommit, Arrives, WireTypeOK, ChannelTypeOK, contextVars,
     CompositionLink
<1>2. m \in FromContext /\ m = Head(q) /\ Tail(q) \in Seq(FromContext)
  BY <1>1
<1>3. /\ m \in Commits /\ m.preedit \in Texts
      /\ \A t : m \in Saying(t) <=> m.preedit = t
      /\ \A t : m \in Forwarded(t) <=> m.forward /\ m.preedit = t
      /\ m \in Relayed <=> ~m.forward
  <2>1. m \in Commits
    BY <1>1, <1>2 DEF FromContext, Commits
  <2>2. QED
    BY <2>1 DEF Commits, Saying, Forwarded, Relayed
<1>4. Leaves(Tail(q), Relayed, Saying(cs),
             IF m \in Relayed THEN m \in Saying(cs) ELSE Known(cs))
  <2> HIDE DEF m, q
  <2>1. QED
    BY <1>1, <1>2, Taken
<1>5. ASSUME NEW t \in Texts
      PROVE  /\ m \in Forwarded(t) => Known(t)
             /\ InTurn(Tail(q), Relayed, Forwarded(t), Saying(t),
                       IF m \in Relayed THEN m \in Saying(t) ELSE Known(t))
  <2> HIDE DEF m, q
  <2>1. InTurn(q, Relayed, Forwarded(t), Saying(t), Known(t))
    BY <1>1
  <2>2. InTurn(q, Relayed, Forwarded(t), Saying(t), Known(t))
          <=> /\ Head(q) \in Forwarded(t) => Known(t)
              /\ InTurn(Tail(q), Relayed, Forwarded(t), Saying(t),
                        IF Head(q) \in Relayed THEN Head(q) \in Saying(t)
                        ELSE Known(t))
    BY <1>1, InTurnTaken
  <2>3. QED
    BY <1>2, <2>1, <2>2
<1>6. \A t : (IF m \in Relayed THEN m \in Saying(t) ELSE Known(t)) => Known(t)'
  <2>1. m \notin Relayed => m.forward /\ Known(m.preedit)
    BY <1>3, <1>5
  <2>2. /\ Take(m) => current' = m.preedit /\ lost' = (lost /\ m.forward)
        /\ Pass(m) => current' = current /\ lost' = (lost \/ ~m.forward)
    BY DEF Take, Pass
  <2> HIDE DEF m, q
  <2>3. QED
    BY <1>1, <1>3, <2>1, <2>2 DEF Known
<1> HIDE DEF m, q
<1>7. Leaves(Tail(q), Relayed, Saying(cs), Known(cs)')
  BY <1>1, <1>4, <1>6 DEF Leaves, Known
<1>8. ASSUME NEW t \in Texts
      PROVE  InTurn(Tail(q), Relayed, Forwarded(t), Saying(t), Known(t)')
  BY <1>5, <1>6 DEF InTurn, Leaves
<1>9. CompositionLink'
  BY <1>1, <1>7, <1>8 DEF CompositionLink, Known, InTurn, Leaves
<1>10. m \in Relayed /\ Pending(Tail(q), Relayed) = 0 => m.preedit = cs
  <2> SUFFICES ASSUME m \in Relayed, Pending(Tail(q), Relayed) = 0
               PROVE  m.preedit = cs
    OBVIOUS
  <2>1. \A k \in DOMAIN Tail(q) : Tail(q)[k] \notin Relayed
    BY <1>2, PendingZero
  <2>2. Leaves(Tail(q), Relayed, Saying(cs), m \in Saying(cs)) <=> m \in Saying(cs)
    BY <2>1 DEF Leaves, Hits
  <2>3. Leaves(Tail(q), Relayed, Saying(cs), m \in Saying(cs))
    BY <1>4 DEF Leaves
  <2>4. QED
    BY <1>3, <2>2, <2>3
<1>11. QED
  BY <1>1, <1>9, <1>10 DEF m

(* The process says what it composes.                                      *)
LEMMA ContextSaid ==
  ASSUME WireTypeOK, WireTypeOK', CompositionLink, ContextReceives \/ Repeat
  PROVE  CompositionLink'
<1> DEFINE q == fromContext
<1>1. /\ UNCHANGED <<running, current, lost>> /\ running /\ q \in Seq(FromContext)
      /\ Leaves(q, Relayed, Saying(cs), Known(cs))
      /\ \A t \in Texts : InTurn(q, Relayed, Forwarded(t), Saying(t), Known(t))
      /\ cs' \in Texts
  BY DEF ContextReceives, ContextDone, ContextKey, Repeat, methodVars,
     WireTypeOK, ChannelTypeOK, ContextTypeOK, CompositionLink
<1>2. PICK r \in Seq(FromContext) : fromContext' = q \o r /\ Says(r, cs', cs)
  BY ContextSays
<1> HIDE DEF q
<1>3. Leaves(q \o r, Relayed, Saying(cs'), Known(cs'))
  <2> DEFINE known == Leaves(q, Relayed, Saying(cs'), Known(cs'))
  <2>1. cs' = cs => known
    BY <1>1
  <2> HIDE DEF known
  <2>2. Leaves(r, Relayed, Saying(cs'), known)
    BY <1>2, <2>1 DEF Says
  <2>3. QED
    BY <1>1, <1>2, <2>2, LeavesConcat DEF known
<1>4. ASSUME NEW t \in Texts
      PROVE  InTurn(q \o r, Relayed, Forwarded(t), Saying(t), Known(t))
  <2> DEFINE known == Leaves(q, Relayed, Saying(t), Known(t))
  <2>1. t = cs' /\ cs' = cs => known
    BY <1>1
  <2> HIDE DEF known
  <2>2. InTurn(r, Relayed, Forwarded(t), Saying(t), known)
    BY <1>2, <2>1 DEF Says
  <2>3. InTurn(q, Relayed, Forwarded(t), Saying(t), Known(t))
    BY <1>1
  <2>4. QED
    BY <1>1, <1>2, <2>2, <2>3, InTurnConcat DEF known
<1>5. QED
  BY <1>1, <1>2, <1>3, <1>4 DEF CompositionLink, Known, InTurn, Leaves

(* Every step keeps what is said of the composition.                       *)
LEMMA NextComposition ==
  ASSUME ~Restarts, WireTypeOK, WireTypeOK', KeyboardLink,
         CompositionLink, [Next]_vars
  PROVE  CompositionLink'
<1>1. ~ReceiveHangup /\ ~Start /\ ~Exit
  BY StaysUp DEF CompositionLink
<1>2. ASSUME \/ \E s \in NullableInput : FocusChange(s)
             \/ \E c \in Clients : ServerReceives(c)
             \/ ToggleKey \/ GrabbedKey \/ ClientNext \/ UNCHANGED vars
      PROVE  CompositionLink'
  <2>1. UNCHANGED <<running, fromContext, cs, current, lost>>
    BY <1>2 DEF FocusChange, ServerReceives, ReceiveCommit, ReceiveCreate,
       ReceiveDestroy, ToggleKey, GrabbedKey, ClientNext, ClientReceives,
       ReceiveEnter, ReceiveLeave, ReceiveDone, Idle, Output, CreateInput,
       DestroyInput, vars, methodVars, contextVars, channels
  <2>2. QED
    BY <2>1 DEF CompositionLink, Known, InTurn, Leaves
<1>3. ASSUME ReceiveGrab \/ ReceiveFrame
      PROVE  CompositionLink'
  <2> DEFINE q == fromContext
  <2>1. /\ q \in Seq(FromContext) /\ q # <<>> /\ Head(q).type # "commit"
        /\ fromContext' = Tail(q) /\ UNCHANGED <<running, cs, current, lost>>
    BY <1>3 DEF ReceiveGrab, ReceiveFrame, Arrives, WireTypeOK, ChannelTypeOK,
       contextVars
  <2>2. /\ running /\ Leaves(q, Relayed, Saying(cs), Known(cs))
        /\ \A t \in Texts :
             InTurn(q, Relayed, Forwarded(t), Saying(t), Known(t))
    BY DEF CompositionLink
  <2>3. Head(q) \notin Relayed
    BY <2>1 DEF Relayed, Commits
  <2> HIDE DEF q
  <2>4. Leaves(Tail(q), Relayed, Saying(cs), Known(cs))
    BY <2>1, <2>2, <2>3, Taken
  <2>5. ASSUME NEW t \in Texts
        PROVE  InTurn(Tail(q), Relayed, Forwarded(t), Saying(t), Known(t))
    <3>1. InTurn(q, Relayed, Forwarded(t), Saying(t), Known(t))
      BY <2>2
    <3>2. QED
      BY <2>1, <2>3, <3>1, InTurnTaken
  <2>6. QED
    BY <2>1, <2>2, <2>4, <2>5 DEF CompositionLink, Known, InTurn, Leaves
<1>4. CASE ServerNext
  BY <1>1, <1>2, <1>3, <1>4, ReceiveContextCommitSaid
     DEF ServerNext, ServerReceivesContext
<1>5. CASE ContextNext
  BY <1>1, <1>5, ContextSaid DEF ContextNext
<1>6. QED
  BY <1>2, <1>4, <1>5 DEF Next

-----------------------------------------------------------------------------
(* What would put an application into the surface of another.              *)
Strays(c) == {m \in Entries : Owner[m.surface] # c}

(* An application is in, and hears of, surfaces of its own.                *)
OwnNews ==
  \A c \in Clients : /\ Pending(toClient[c], Strays(c)) = 0
                     /\ cfocus[c] # None => Owner[cfocus[c]] = c

(* Every step keeps applications to their own surfaces.                    *)
LEMMA NextOwnNews ==
  ASSUME ~Lifecycle, WireTypeOK, WireTypeOK', Steady, OwnNews, [Next]_vars
  PROVE  OwnNews'
<1>1. ASSUME UNCHANGED <<toClient, cfocus>>
      PROVE  OwnNews'
  BY <1>1 DEF OwnNews
<1>2. ASSUME \/ GrabbedKey \/ ReceiveGrab \/ ReceiveFrame \/ ReceiveHangup
             \/ \E c \in Clients : ReceiveCreate(c) \/ ReceiveDestroy(c)
             \/ \E i \in Inputs : Idle(i) \/ Output(i)
             \/ ContextNext \/ UNCHANGED vars
      PROVE  UNCHANGED <<toClient, cfocus>>
  BY <1>2 DEF GrabbedKey, ReceiveGrab, ReceiveFrame, ReceiveHangup,
     ReceiveCreate, ReceiveDestroy, Idle, Output, ContextNext,
     ContextReceives, Start, Exit, ContextDone, ContextKey, Repeat,
     clientVars, vars, channels
<1>3. \A c \in Clients : toClient[c] \in Seq(ToClient)
  BY DEF WireTypeOK, ChannelTypeOK
<1>4. ASSUME \/ \E c \in Clients : ReceiveCommit(c)
             \/ ToggleKey \/ ReceiveContextCommit
      PROVE  OwnNews'
  <2>1. UNCHANGED cfocus
    BY <1>4 DEF ReceiveCommit, ToggleKey, ReceiveContextCommit, clientVars
  <2>2. CASE UNCHANGED toClient
    BY <1>1, <2>1, <2>2
  <2>3. ASSUME NEW j \in Inputs, NEW n \in Nat, NEW text \in Texts,
               Reply(j, n, text), NEW c \in Clients
        PROVE  Pending(toClient'[c], Strays(c)) = 0
    <3> DEFINE m == [type |-> "done", input |-> j, serial |-> n,
                     preedit |-> text]
               q == toClient[c]
    <3>1. /\ q \in Seq(ToClient) /\ m \in ToClient /\ m \notin Strays(c)
          /\ toClient'[c] = Append(q, m) \/ toClient'[c] = q
          /\ Pending(q, Strays(c)) = 0
      BY <2>3 DEF Reply, ToClient, WireTypeOK, ChannelTypeOK, Strays, Entries,
         News, OwnNews
    <3> HIDE DEF m, q
    <3>2. Pending(Append(q, m), Strays(c)) = 0
      BY <3>1, Appended
    <3>3. QED
      BY <3>1, <3>2
  <2>4. \/ UNCHANGED toClient
        \/ \E j \in Inputs, n \in Nat, text \in Texts : Reply(j, n, text)
    BY <1>4, OneReply
  <2>5. QED
    BY <2>1, <2>2, <2>3, <2>4 DEF OwnNews
<1>5. ASSUME NEW s \in NullableInput, FocusChange(s)
      PROVE  OwnNews'
  <2>1. UNCHANGED cfocus
    BY <1>5 DEF FocusChange, clientVars
  <2>2. ASSUME NEW c \in Clients
        PROVE  Pending(toClient'[c], Strays(c)) = 0
    <3>1. PICK x, y \in Seq(ToClient) :
            /\ x = <<>> \/ \E l \in Departs \ Void : x = <<l>>
            /\ \/ y = <<>>
               \/ /\ Held(c)' # None
                  /\ \E e \in (Entries \cap Naming(Held(c)')) \ Void : y = <<e>>
            /\ toClient'[c] = (toClient[c] \o x) \o y
      BY <1>5, FocusChangeTells
    <3>2. Pending(x, Strays(c)) = 0
      <4>1. \A l \in Departs : l \notin Strays(c)
        BY DEF Departs, Strays, Entries, News
      <4>2. CASE x = <<>>
        BY <4>2, HitsEmpty, PendingNone
      <4>3. CASE \E l \in Departs : x = <<l>>
        BY <4>1, <4>3, PendingOne
      <4>4. QED
        BY <3>1, <4>2, <4>3
    <3>3. Pending(y, Strays(c)) = 0
      <4>1. ASSUME Held(c)' # None, NEW e \in Entries \cap Naming(Held(c)')
            PROVE  e \notin Strays(c)
        <5>1. e.surface = Held(c)'
          BY <4>1 DEF Entries, Naming, News
        <5>2. Owner[Held(c)'] = c
          BY <4>1 DEF Held
        <5>3. QED
          BY <5>1, <5>2 DEF Strays
      <4>2. CASE y = <<>>
        BY <4>2, HitsEmpty, PendingNone
      <4>3. CASE /\ Held(c)' # None
                 /\ \E e \in Entries \cap Naming(Held(c)') : y = <<e>>
        BY <4>1, <4>3, PendingOne
      <4>4. QED
        BY <3>1, <4>2, <4>3
    <3> DEFINE q == toClient[c]
               r == q \o x
    <3>4. q \in Seq(ToClient) /\ Pending(q, Strays(c)) = 0
      BY <1>3 DEF OwnNews
    <3> HIDE DEF q
    <3>5. r \in Seq(ToClient) /\ Pending(r, Strays(c)) = 0 + 0
      BY <3>2, <3>4, PendingConcat
    <3> HIDE DEF r
    <3>6. Pending(r \o y, Strays(c)) = (0 + 0) + 0
      BY <3>3, <3>5, PendingConcat
    <3>7. QED
      BY <3>1, <3>6 DEF q, r
  <2>3. QED
    BY <2>1, <2>2 DEF OwnNews
<1>6. ASSUME NEW c \in Clients, ClientReceives(c)
      PROVE  OwnNews'
  <2> DEFINE m == Head(toClient[c])
             q == toClient[c]
  <2>1. /\ q # <<>> /\ q \in Seq(ToClient) /\ Pending(q, Strays(c)) = 0
        /\ toClient' = [toClient EXCEPT ![c] = Tail(@)]
        /\ toClient \in [Clients -> Seq(ToClient)]
    BY <1>6 DEF ClientReceives, ReceiveEnter, ReceiveLeave, ReceiveDone,
       Arrives, OwnNews, WireTypeOK, ChannelTypeOK
  <2>2. /\ toClient'[c] = Tail(q)
        /\ \A d \in Clients \ {c} : toClient'[d] = toClient[d]
    BY <2>1
  <2>3. /\ cfocus \in [Clients -> NullableInput]
        /\ \/ cfocus' = cfocus
           \/ cfocus' = [cfocus EXCEPT ![c] = None]
           \/ m.type = "enter" /\ cfocus' = [cfocus EXCEPT ![c] = m.surface]
    BY <1>6 DEF ClientReceives, ReceiveEnter, ReceiveLeave, ReceiveDone,
       Arrives, WireTypeOK, ClientTypeOK
  <2>4. m = Head(q) /\ m \in ToClient /\ Tail(q) \in Seq(ToClient)
    BY <2>1
  <2> HIDE DEF m, q
  <2>5. m \notin Strays(c) /\ Pending(Tail(q), Strays(c)) = 0
    <3>1. Pending(q, Strays(c)) = IF Head(q) \in Strays(c)
                                  THEN Pending(Tail(q), Strays(c)) + 1
                                  ELSE Pending(Tail(q), Strays(c))
      BY <2>1, Taken
    <3>2. Pending(Tail(q), Strays(c)) \in Nat
      BY <2>4, PendingType
    <3>3. QED
      BY <2>1, <2>4, <3>1, <3>2
  <2>6. m.type = "enter" => Owner[m.surface] = c
    BY <2>4, <2>5 DEF Strays, Entries, News
  <2>7. \A d \in Clients : cfocus'[d] # None => Owner[cfocus'[d]] = d
    BY <2>3, <2>6 DEF OwnNews
  <2>8. ASSUME NEW d \in Clients
        PROVE  Pending(toClient'[d], Strays(d)) = 0
    <3>1. CASE d = c
      BY <2>2, <2>5, <3>1
    <3>2. CASE d # c
      <4>1. toClient'[d] = toClient[d]
        BY <2>2, <3>2
      <4>2. QED
        BY <4>1 DEF OwnNews
    <3>3. QED
      BY <3>1, <3>2
  <2>9. QED
    BY <2>7, <2>8 DEF OwnNews
<1>7. CASE ServerNext
  BY <1>1, <1>2, <1>4, <1>5, <1>7
     DEF ServerNext, ServerReceives, ServerReceivesContext
<1>8. CASE ClientNext
  BY <1>1, <1>2, <1>6, <1>8 DEF ClientNext, CreateInput, DestroyInput
<1>9. QED
  BY <1>1, <1>2, <1>7, <1>8 DEF Next

-----------------------------------------------------------------------------
(* The done events that show text t to the window of text input i, and     *)
(* whether it will be shown t once it has handled its events.              *)
Shows(i, t) == {m \in RepliesTo(i) : m.preedit = t}
Shown(i, t) == Leaves(toClient[Owner[i]], RepliesTo(i), Shows(i, t),
                      preedit[i] = t)

(* What the text input that is served will hear last, if it will hear of   *)
(* the focus at all, is a done event.                                      *)
LastWord ==
  focused # None =>
    Leaves(toClient[Owner[focused]], News \cup RepliesTo(focused),
           RepliesTo(focused), TRUE)

(* A reply is the last thing heard, and shows its text.                    *)
LEMMA ReplyShows ==
  ASSUME WireTypeOK, NEW i \in Inputs, NEW n \in Nat, NEW t \in Texts,
         Reply(i, n, t)
  PROVE  /\ \A before : Leaves(toClient'[Owner[i]], RepliesTo(i), Shows(i, t),
                               before)
         /\ \A before : Leaves(toClient'[Owner[i]], News \cup RepliesTo(i),
                               RepliesTo(i), before)
         /\ \A j \in Inputs : Owner[j] # Owner[i] =>
              toClient'[Owner[j]] = toClient[Owner[j]]
<1> DEFINE m == [type |-> "done", input |-> i, serial |-> n, preedit |-> t]
           o == Owner[i]
           q == toClient[o]
<1>1. /\ q \in Seq(ToClient) /\ o \in Clients
      /\ toClient'[o] = Append(q, m)
      /\ \A d \in Clients \ {o} : toClient'[d] = toClient[d]
  BY WireAssumption DEF WireTypeOK, ChannelTypeOK, Reply
<1>2. m \in ToClient /\ m \in RepliesTo(i) /\ m \in Shows(i, t)
  BY DEF ToClient, Replies, RepliesTo, Shows
<1> HIDE DEF m, q
<1>3. ASSUME NEW before
      PROVE  Leaves(Append(q, m), RepliesTo(i), Shows(i, t), before)
  BY <1>1, <1>2, Appended
<1>4. ASSUME NEW before
      PROVE  Leaves(Append(q, m), News \cup RepliesTo(i), RepliesTo(i), before)
  <2> DEFINE heard == News \cup RepliesTo(i)
  <2>1. m \in heard
    BY <1>2
  <2> HIDE DEF heard
  <2>2. Leaves(Append(q, m), heard, RepliesTo(i), before)
    BY <1>1, <1>2, <2>1, Appended
  <2>3. QED
    BY <2>2 DEF heard
<1>5. \A j \in Inputs : Owner[j] # o => toClient'[Owner[j]] = toClient[Owner[j]]
  BY <1>1, WireAssumption
<1>6. QED
  BY <1>1, <1>3, <1>4, <1>5

(* The input method is taken from the window that loses the focus.         *)
LEMMA FocusChangeBlurs ==
  ASSUME WireTypeOK, ServerInv, Steady, NEW s \in NullableInput, FocusChange(s)
  PROVE  focused' = None
<1> DEFINE left == {i \in exists : focus # None /\ surface[i] = focus}
<1>1. IF left = {} THEN Unrelayed ELSE Blur(Cardinality(left))
  BY DEF FocusChange
<1>2. focused # None => focused \in left
  BY DEF ServerInv, FocusedIsEntered, Steady, WireTypeOK, TextTypeOK,
     NullableInput
<1> HIDE DEF left
<1>3. QED
  BY <1>1, <1>2 DEF Unrelayed, Blur

(* The server handles a commit: what it answers the text input, and what   *)
(* becomes of the one that is served.                                      *)
LEMMA ReceiveCommitAnswers ==
  ASSUME OneInputEach, WireTypeOK, WireTypeOK', ServerInv, UpLink, Steady,
         NEW c \in Clients, ReceiveCommit(c)
  PROVE  LET i == Head(toServer[c]).input
         IN  /\ i \in Inputs
             /\ \/ /\ i # focused /\ Unrelayed
                   /\ \E t \in Texts : Reply(i, serial[i] + 1, t)
                \/ focused = None /\ Focus(i) /\ Reply(i, serial[i] + 1, Empty)
                \/ /\ i = focused /\ active /\ Send(i, "keep")
                   /\ UNCHANGED focused /\ Reply(i, serial[i] + 1, current)
                \/ /\ i = focused /\ ~active /\ Unrelayed
                   /\ Reply(i, serial[i] + 1, Empty)
<1> DEFINE i == Head(toServer[c]).input
           answered ==
             \/ /\ i # focused /\ Unrelayed
                /\ \E t \in Texts : Reply(i, serial[i] + 1, t)
             \/ focused = None /\ Focus(i) /\ Reply(i, serial[i] + 1, Empty)
             \/ /\ i = focused /\ active /\ Send(i, "keep")
                /\ UNCHANGED focused /\ Reply(i, serial[i] + 1, current)
             \/ /\ i = focused /\ ~active /\ Unrelayed
                /\ Reply(i, serial[i] + 1, Empty)
<1>1. /\ i \in Inputs
      /\ surface[i] # None <=> focus # None /\ i = focus
      /\ enabled[i] => enabled'[i]
      /\ (enabled'[i] /\ ~enabled[i] /\ Enable(i)) \/ Commit(i)
  BY ReceiveCommitServe
<1> HIDE DEF i
<1>2. focused # None =>
        /\ focused \in Inputs /\ focused = focus
        /\ surface[focused] # None /\ enabled[focused]
  BY FocusedIsFocus DEF ServerInv, FocusedIsEntered
<1>3. active <=> present /\ on /\ focused # None
  BY DEF ServerInv, ActiveIffServing
<1>4. Empty \in Texts /\ current \in Texts
  BY WireAssumption DEF WireTypeOK, MethodTypeOK
<1>5. ASSUME enabled'[i] /\ ~enabled[i] /\ Enable(i) PROVE answered
  <2>1. i # focused
    BY <1>1, <1>2, <1>5, WireAssumption
  <2>2. surface[i] # None => focused = None
    BY <1>1, <1>2, <2>1
  <2>3. /\ IF surface[i] # None THEN Focus(i) ELSE Unrelayed
        /\ Reply(i, serial[i] + 1, Empty)
    BY <1>5 DEF Enable
  <2>4. QED
    BY <1>4, <2>1, <2>2, <2>3
<1>6. ASSUME Commit(i) PROVE answered
  <2>1. CASE i = focused
    BY <1>1, <1>2, <1>3, <1>6, <2>1, WireAssumption DEF Commit
  <2>2. CASE i # focused /\ focused # None
    BY <1>1, <1>2, <1>4, <1>6, <2>2 DEF Commit
  <2>3. CASE i # focused /\ focused = None
    BY <1>1, <1>4, <1>6, <2>3 DEF Commit
  <2>4. QED
    BY <2>1, <2>2, <2>3
<1>7. QED
  BY <1>1, <1>5, <1>6 DEF i, answered

(* An application takes the next event of its connection, which ...        *)
LEMMA ClientTakes ==
  ASSUME WireTypeOK, NEW c \in Clients, ClientReceives(c)
  PROVE  /\ toClient[c] # <<>> /\ toClient[c] \in Seq(ToClient)
         /\ toClient'[c] = Tail(toClient[c])
         /\ \A d \in Clients \ {c} : toClient'[d] = toClient[d]
         /\ UNCHANGED <<focused, cs, active, igrab, lost, toContext,
                         fromContext>>
  BY DEF ClientReceives, ReceiveEnter, ReceiveLeave, ReceiveDone, Arrives,
     WireTypeOK, ChannelTypeOK, textVars, methodVars, contextVars

(* Every step keeps the last word a done event.                            *)
LEMMA NextLastWord ==
  ASSUME ~Lifecycle, OneInputEach, WireTypeOK, WireTypeOK', ServerInv, UpLink,
         Steady, LastWord, [Next]_vars
  PROVE  LastWord'
<1>1. ASSUME UNCHANGED <<focused, toClient>>
      PROVE  LastWord'
  BY <1>1 DEF LastWord
<1>2. ASSUME \/ GrabbedKey \/ ReceiveGrab \/ ReceiveFrame \/ ReceiveHangup
             \/ \E i \in Inputs : Idle(i) \/ Output(i)
             \/ ContextNext \/ UNCHANGED vars
      PROVE  UNCHANGED <<focused, toClient>>
  BY <1>2 DEF GrabbedKey, ReceiveGrab, ReceiveFrame, ReceiveHangup, Idle,
     Output, ContextNext, ContextReceives, Start, Exit, ContextDone,
     ContextKey, Repeat, textVars, vars, channels
<1>3. focused # None => focused \in Inputs
  BY DEF WireTypeOK, TextTypeOK, NullableInput
<1>4. ASSUME NEW i \in Inputs, NEW n \in Nat, NEW t \in Texts, Reply(i, n, t),
             focused' = focused \/ focused' = i
      PROVE  LastWord'
  <2>1. CASE focused' = i
    <3>1. Leaves(toClient'[Owner[i]], News \cup RepliesTo(i), RepliesTo(i), TRUE)
      BY <1>4, ReplyShows
    <3>2. QED
      BY <2>1, <3>1 DEF LastWord
  <2>2. CASE focused' = focused /\ focused # i /\ focused # None
    <3>1. Owner[focused] # Owner[i]
      BY <1>3, <2>2 DEF OneInputEach
    <3>2. toClient'[Owner[focused]] = toClient[Owner[focused]]
      BY <1>3, <1>4, <2>2, <3>1, ReplyShows
    <3>3. QED
      BY <2>2, <3>2 DEF LastWord
  <2>3. QED
    BY <1>4, <2>1, <2>2 DEF LastWord
<1>5. ASSUME NEW c \in Clients, ReceiveCommit(c)
      PROVE  LastWord'
  <2> DEFINE i == Head(toServer[c]).input
  <2>1. /\ i \in Inputs
        /\ \E t \in Texts : Reply(i, serial[i] + 1, t)
        /\ focused' = focused \/ focused' = i
    BY <1>5, ReceiveCommitAnswers, WireAssumption
       DEF Unrelayed, Focus, WireTypeOK, MethodTypeOK
  <2> HIDE DEF i
  <2>2. serial[i] + 1 \in Nat
    BY <2>1 DEF WireTypeOK, TextTypeOK
  <2>3. QED
    BY <1>4, <2>1, <2>2
<1>6. ASSUME ToggleKey \/ ReceiveContextCommit
      PROVE  LastWord'
  <2>1. \/ UNCHANGED toClient
        \/ \E j \in Inputs, n \in Nat, text \in Texts : Reply(j, n, text)
    BY <1>6, OneReply
  <2>2. focused' = focused
    BY <1>6 DEF ToggleKey, ReceiveContextCommit, textVars
  <2>3. QED
    BY <1>1, <1>4, <2>1, <2>2
<1>7. ASSUME NEW s \in NullableInput, FocusChange(s)
      PROVE  LastWord'
  BY <1>7, FocusChangeBlurs DEF LastWord
<1>8. ASSUME NEW c \in Clients, ReceiveCreate(c) \/ ReceiveDestroy(c)
      PROVE  FALSE
  <2>1. toServer[c] # <<>> /\ toServer' = [toServer EXCEPT ![c] = Tail(@)]
    BY <1>8 DEF ReceiveCreate, ReceiveDestroy, Arrives
  <2>2. Head(toServer[c]).type = "commit"
    BY <2>1, TakenSteady
  <2>3. QED
    BY <1>8, <2>2 DEF ReceiveCreate, ReceiveDestroy, Arrives
<1>9. ASSUME NEW c \in Clients, ClientReceives(c)
      PROVE  LastWord'
  <2> SUFFICES ASSUME focused # None
               PROVE  Leaves(toClient'[Owner[focused]],
                             News \cup RepliesTo(focused), RepliesTo(focused),
                             TRUE)
    BY <1>9, ClientTakes DEF LastWord
  <2> DEFINE q == toClient[c]
             heard == News \cup RepliesTo(focused)
             G == RepliesTo(focused)
  <2>1. /\ q # <<>> /\ q \in Seq(ToClient) /\ toClient'[c] = Tail(q)
        /\ \A d \in Clients \ {c} : toClient'[d] = toClient[d]
    BY <1>9, ClientTakes
  <2>2. Leaves(toClient[Owner[focused]], heard, G, TRUE)
    BY DEF LastWord
  <2> HIDE DEF q, heard, G
  <2>3. CASE Owner[focused] = c
    <3>1. Leaves(q, heard, G, TRUE)
      BY <2>2, <2>3 DEF q
    <3>2. Leaves(Tail(q), heard, G, IF Head(q) \in heard THEN Head(q) \in G
                                    ELSE TRUE)
      BY <2>1, <3>1, Taken
    <3>3. Leaves(Tail(q), heard, G, TRUE)
      BY <3>2 DEF Leaves
    <3>4. QED
      BY <2>1, <2>3, <3>3 DEF heard, G
  <2>4. CASE Owner[focused] # c
    <3>1. toClient'[Owner[focused]] = toClient[Owner[focused]]
      BY <1>3, <2>1, <2>4, WireAssumption
    <3>2. QED
      BY <2>2, <3>1 DEF heard, G
  <2>5. QED
    BY <2>3, <2>4
<1>10. CASE ServerNext
  BY <1>1, <1>2, <1>5, <1>6, <1>7, <1>8, <1>10
     DEF ServerNext, ServerReceives, ServerReceivesContext
<1>11. CASE ClientNext
  BY <1>1, <1>2, <1>9, <1>11 DEF ClientNext, CreateInput, DestroyInput
<1>12. QED
  BY <1>1, <1>2, <1>10, <1>11 DEF Next

(* The text being composed is not shown, as no input method is active, or  *)
(* was as the process last took the keyboard: it will say so then.         *)
Unshown ==
  /\ cs # Empty
  /\ active => ~InTurn(toContext, Switches, Activations, Activations, igrab)

(* The text input that is served shows what is composed, or will, unless   *)
(* the last composition sent was lost.                                     *)
WordLink ==
  focused # None =>
    \/ Pending(fromContext, Relayed) # 0 \/ Shown(focused, cs) \/ Unshown
    \/ lost

(* An input method that is activated finds the process without a grab.     *)
LEMMA ActivateUnshown ==
  ASSUME WireTypeOK, MethodLink, KeyboardLink, running, ~active, cs # Empty,
         NEW i, Focus(i) \/ Send(i, "activate"), UNCHANGED <<cs, igrab>>
  PROVE  Unshown'
<1> DEFINE m == [type |-> "done", set |-> "activate"]
<1>1. \/ active' = active
      \/ toContext' = toContext \o [k \in 1..1 |-> m]
  BY DEF Focus, Send, SendDone
<1>2. CASE active' = active
  BY <1>2 DEF Unshown
<1>3. CASE toContext' = toContext \o [k \in 1..1 |-> m]
  <2>1. toContext \in Seq(ToContext) /\ m \in ToContext /\ m \in Activations
    BY DEF WireTypeOK, ChannelTypeOK, ToContext, Dones, Activations
  <2>2. toContext' = Append(toContext, m)
    <3> HIDE DEF m
    <3>1. [k \in 1..1 |-> m] = <<m>>
      OBVIOUS
    <3>2. QED
      BY <1>3, <2>1, <3>1
  <2>3. ~Leaves(toContext, Switches, Activations, igrab)
    <3>1. ~Leaves(toContext, Switches, Activations, iactive)
      BY DEF MethodLink
    <3>2. igrab <=> iactive
      BY DEF KeyboardLink
    <3>3. QED
      BY <3>1, <3>2 DEF Leaves
  <2> HIDE DEF m
  <2>4. ~InTurn(Append(toContext, m), Switches, Activations, Activations, igrab)
    BY <2>1, <2>3, InTurnAppended
  <2>5. QED
    BY <2>2, <2>4 DEF Unshown
<1>4. QED
  BY <1>1, <1>2, <1>3

(* The server handles a commit.                                            *)
LEMMA ReceiveCommitWord ==
  ASSUME OneInputEach, WireTypeOK, WireTypeOK', ServerInv, MethodLink,
         KeyboardLink, UpLink, Steady, CompositionLink, WordLink,
         NEW c \in Clients, ReceiveCommit(c)
  PROVE  WordLink'
<1> DEFINE i == Head(toServer[c]).input
<1>1. /\ i \in Inputs
      /\ \/ /\ i # focused /\ Unrelayed
            /\ \E t \in Texts : Reply(i, serial[i] + 1, t)
         \/ focused = None /\ Focus(i) /\ Reply(i, serial[i] + 1, Empty)
         \/ /\ i = focused /\ active /\ Send(i, "keep")
            /\ UNCHANGED focused /\ Reply(i, serial[i] + 1, current)
         \/ /\ i = focused /\ ~active /\ Unrelayed
            /\ Reply(i, serial[i] + 1, Empty)
  BY ReceiveCommitAnswers
<1> HIDE DEF i
<1>2. UNCHANGED <<fromContext, cs, igrab, preedit, current, lost>>
  BY DEF ReceiveCommit, contextVars, clientVars
<1>3. focused # None => focused \in Inputs
  BY DEF WireTypeOK, TextTypeOK, NullableInput
<1>4. Empty \in Texts /\ current \in Texts /\ serial[i] + 1 \in Nat
  BY <1>1, WireAssumption DEF WireTypeOK, MethodTypeOK, TextTypeOK
<1>5. active => focused # None
  BY DEF ServerInv, ActiveIffServing
<1>6. ASSUME NEW t \in Texts, Reply(i, serial[i] + 1, t), focused' = i,
             t = cs
      PROVE  WordLink'
  <2> DEFINE known == preedit'[i] = t
  <2> HIDE DEF known
  <2>1. Leaves(toClient'[Owner[i]], RepliesTo(i), Shows(i, t), known)
    BY <1>1, <1>4, <1>6, ReplyShows
  <2>2. Shown(focused, cs)'
    BY <1>2, <1>6, <2>1 DEF Shown, known
  <2>3. QED
    BY <2>2 DEF WordLink
<1>7. ASSUME NEW t \in Texts, i # focused, focused # None, Unrelayed,
             Reply(i, serial[i] + 1, t)
      PROVE  WordLink'
  <2>1. Owner[focused] # Owner[i]
    BY <1>1, <1>3, <1>7 DEF OneInputEach
  <2>2. toClient'[Owner[focused]] = toClient[Owner[focused]]
    BY <1>1, <1>3, <1>4, <1>7, <2>1, ReplyShows
  <2>3. UNCHANGED <<focused, active, toContext>>
    BY <1>7 DEF Unrelayed
  <2>4. QED
    BY <1>2, <2>2, <2>3 DEF WordLink, Shown, Unshown
<1>8. CASE focused = None /\ Focus(i) /\ Reply(i, serial[i] + 1, Empty)
  <2>1. focused' = i /\ ~active
    BY <1>5, <1>8 DEF Focus, WireTypeOK, MethodTypeOK
  <2>2. CASE cs = Empty
    BY <1>4, <1>6, <1>8, <2>1, <2>2
  <2>3. CASE cs # Empty
    <3>1. Unshown'
      BY <1>2, <1>8, <2>1, <2>3, ActivateUnshown DEF CompositionLink
    <3>2. QED
      BY <3>1 DEF WordLink
  <2>4. QED
    BY <2>2, <2>3
<1>9. CASE /\ i = focused /\ active /\ Send(i, "keep")
           /\ UNCHANGED focused /\ Reply(i, serial[i] + 1, current)
  <2>1. CASE Pending(fromContext, Relayed) # 0
    BY <1>2, <2>1 DEF WordLink
  <2>2. CASE Pending(fromContext, Relayed) = 0
    <3>1. fromContext \in Seq(FromContext)
      BY DEF WireTypeOK, ChannelTypeOK
    <3>2. \A k \in DOMAIN fromContext : fromContext[k] \notin Relayed
      BY <2>2, <3>1, PendingZero
    <3>3. Known(cs)
      BY <3>2 DEF CompositionLink, Leaves, Hits
    <3>4. CASE current = cs
      BY <1>4, <1>6, <1>9, <3>4
    <3>5. CASE lost
      BY <1>2, <3>5 DEF WordLink
    <3>6. QED
      BY <3>3, <3>4, <3>5 DEF Known
  <2>3. QED
    BY <2>1, <2>2
<1>10. CASE /\ i = focused /\ ~active /\ Unrelayed
            /\ Reply(i, serial[i] + 1, Empty)
  <2>1. focused' = i /\ ~active'
    BY <1>10 DEF Unrelayed
  <2>2. CASE cs = Empty
    BY <1>4, <1>6, <1>10, <2>1, <2>2
  <2>3. CASE cs # Empty
    BY <1>2, <2>1, <2>3 DEF WordLink, Unshown
  <2>4. QED
    BY <2>2, <2>3
<1>11. CASE i # focused /\ Unrelayed /\ focused = None
  BY <1>11 DEF Unrelayed, WordLink
<1>12. QED
  BY <1>1, <1>7, <1>8, <1>9, <1>10, <1>11

(* The toggle key.                                                         *)
LEMMA ToggleKeyWord ==
  ASSUME WireTypeOK, WireTypeOK', ServerInv, MethodLink, KeyboardLink,
         CompositionLink, WordLink, ToggleKey
  PROVE  WordLink'
<1>1. /\ focused # None /\ focused' = focused /\ on' = ~on
      /\ UNCHANGED <<fromContext, cs, igrab, preedit, lost>>
      /\ \/ on' /\ Send(focused, "activate") /\ UNCHANGED toClient
         \/ /\ ~on' /\ active' = FALSE
            /\ Reply(focused, serial[focused], Empty)
  BY DEF ToggleKey, contextVars, clientVars
<1>2. focused \in Inputs /\ serial[focused] \in Nat /\ Empty \in Texts
  BY <1>1, WireAssumption DEF WireTypeOK, TextTypeOK, NullableInput
<1>3. active => on
  BY DEF ServerInv, ActiveIffServing
<1>4. CASE cs # Empty
  <2>1. Unshown'
    BY <1>1, <1>3, <1>4, ActivateUnshown DEF Unshown, CompositionLink
  <2>2. QED
    BY <2>1 DEF WordLink
<1>5. CASE cs = Empty
  <2>1. CASE UNCHANGED toClient
    BY <1>1, <1>5, <2>1 DEF WordLink, Shown, Unshown
  <2>2. CASE Reply(focused, serial[focused], Empty)
    <3> DEFINE known == preedit'[focused] = Empty
    <3> HIDE DEF known
    <3>1. Leaves(toClient'[Owner[focused]], RepliesTo(focused),
                 Shows(focused, Empty), known)
      BY <1>2, <2>2, ReplyShows
    <3>2. Shown(focused, cs)'
      BY <1>1, <1>5, <3>1 DEF Shown, known
    <3>3. QED
      BY <3>2 DEF WordLink
  <2>3. QED
    BY <1>1, <2>1, <2>2
<1>6. QED
  BY <1>4, <1>5

(* The server relays a commit, or does not.                                *)
LEMMA ReceiveContextCommitWord ==
  ASSUME WireTypeOK, WireTypeOK', CompositionLink, WordLink,
         ReceiveContextCommit
  PROVE  WordLink'
<1> DEFINE m == Head(fromContext)
           q == fromContext
<1>1. /\ q \in Seq(FromContext) /\ q # <<>> /\ m.type = "commit"
      /\ fromContext' = Tail(q) /\ (Take(m) \/ Pass(m))
      /\ UNCHANGED <<focused, cs, igrab, active, toContext, preedit>>
  BY DEF ReceiveContextCommit, Arrives, WireTypeOK, ChannelTypeOK, contextVars,
     clientVars, textVars
<1>2. m \in FromContext /\ m = Head(q) /\ m \in Commits
  BY <1>1 DEF FromContext, Commits
<1>3. m \in Relayed /\ Pending(fromContext', Relayed) = 0 => m.preedit = cs
  BY ReceiveContextCommitSaid
<1>4. m \in Relayed <=> ~m.forward
  BY <1>2 DEF Relayed
<1>5. m.preedit \in Texts /\ current \in Texts /\ lost \in BOOLEAN
  BY <1>2 DEF Commits, WireTypeOK, MethodTypeOK
<1> SUFFICES ASSUME focused # None, Pending(fromContext', Relayed) = 0, ~lost'
             PROVE  WordLink'
  BY <1>1 DEF WordLink
<1>6. focused \in Inputs /\ serial[focused] \in Nat
  BY DEF WireTypeOK, TextTypeOK, NullableInput
<1>7. ASSUME Reply(focused, serial[focused], cs), cs \in Texts
      PROVE  WordLink'
  <2> DEFINE known == preedit'[focused] = cs
  <2> HIDE DEF known
  <2>1. Leaves(toClient'[Owner[focused]], RepliesTo(focused),
               Shows(focused, cs), known)
    BY <1>6, <1>7, ReplyShows
  <2>2. Shown(focused, cs)'
    BY <1>1, <2>1 DEF Shown, known
  <2>3. QED
    BY <2>2 DEF WordLink
<1> HIDE DEF m, q
<1>8. CASE m \in Relayed
  <2>1. Take(m)
    BY <1>1, <1>4, <1>8 DEF Pass
  <2>2. Reply(focused, serial[focused], m.preedit)
    BY <1>4, <1>8, <2>1 DEF Take
  <2>3. QED
    BY <1>3, <1>5, <1>7, <1>8, <2>2
<1>9. CASE m \notin Relayed
  <2>1. Pending(q, Relayed) = Pending(Tail(q), Relayed)
    BY <1>1, <1>2, <1>9, Taken
  <2>2. Pending(fromContext, Relayed) = 0
    BY <1>1, <2>1 DEF q
  <2>3. ~lost
    BY <1>1, <1>4, <1>5, <1>9 DEF Take, Pass
  <2>4. CASE UNCHANGED toClient
    BY <1>1, <2>2, <2>3, <2>4 DEF WordLink, Shown, Unshown
  <2>5. CASE Reply(focused, serial[focused], current)
    <3>1. fromContext \in Seq(FromContext)
      BY DEF WireTypeOK, ChannelTypeOK
    <3>2. \A k \in DOMAIN fromContext : fromContext[k] \notin Relayed
      BY <2>2, <3>1, PendingZero
    <3>3. Known(cs)
      BY <3>2 DEF CompositionLink, Leaves, Hits
    <3>4. current = cs
      BY <2>3, <3>3 DEF Known
    <3>5. QED
      BY <1>5, <1>7, <2>5, <3>4
  <2>6. UNCHANGED toClient \/ Reply(focused, serial[focused], current)
    BY <1>1, <1>4, <1>9 DEF Take, Pass
  <2>7. QED
    BY <2>4, <2>5, <2>6
<1>10. QED
  BY <1>8, <1>9

(* An application hears the last word on its way.                          *)
LEMMA HearsLastWord ==
  ASSUME OneInputEach, WireTypeOK, WireTypeOK', ServerInv, DownLink, Steady,
         NewsLink, LastWord, NEW c \in Clients, ClientReceives(c),
         focused # None, Owner[focused] = c,
         Pending(toClient'[c], RepliesTo(focused)) = 0
  PROVE  /\ Head(toClient[c]) \in RepliesTo(focused)
         /\ preedit'[focused] = Head(toClient[c]).preedit
<1> DEFINE m == Head(toClient[c])
           q == toClient[c]
           f == focused
           heard == News \cup RepliesTo(f)
<1>1. /\ q # <<>> /\ q \in Seq(ToClient) /\ toClient'[c] = Tail(q)
  BY ClientTakes
<1>2. f \in Inputs /\ f = focus /\ Held(c) = f /\ f # None
  BY FocusedIsFocus DEF Held
<1>3. /\ Leaves(q, heard, RepliesTo(f), TRUE)
      /\ Leaves(q, News, Naming(f), cfocus[c] = f)
      /\ Pending(q, ForeignDones(c)) = 0
      /\ Pending(Tail(q), RepliesTo(f)) = 0
  BY <1>1, <1>2 DEF LastWord, NewsLink, DownLink
<1>4. m \in ToClient /\ m = Head(q) /\ Tail(q) \in Seq(ToClient)
  BY <1>1
<1> HIDE DEF m, q, heard
<1>5. \A k \in DOMAIN Tail(q) : Tail(q)[k] \notin RepliesTo(f)
  BY <1>3, <1>4, PendingZero
<1>6. Leaves(Tail(q), heard, RepliesTo(f), IF Head(q) \in heard
                                           THEN Head(q) \in RepliesTo(f) ELSE TRUE)
  BY <1>1, <1>3, Taken
<1>7. /\ \A k \in DOMAIN Tail(q) : Tail(q)[k] \notin heard
      /\ m \in heard => m \in RepliesTo(f)
  BY <1>4, <1>5, <1>6 DEF Leaves, Hits
<1>8. m \notin News /\ \A k \in DOMAIN Tail(q) : Tail(q)[k] \notin News
  <2>1. \A x : x \in News => x \in heard /\ x \notin RepliesTo(f)
    BY DEF heard, News, RepliesTo, Replies
  <2>2. QED
    BY <1>7, <2>1
<1>9. cfocus[c] = f
  <2>1. Leaves(Tail(q), News, Naming(f), IF Head(q) \in News
                                         THEN Head(q) \in Naming(f)
                                         ELSE cfocus[c] = f)
    BY <1>1, <1>3, Taken
  <2>2. QED
    BY <1>4, <1>8, <2>1 DEF Leaves, Hits
<1>10. m.type = "done" /\ m.input = f /\ m \in RepliesTo(f)
  <2>1. m.type = "done" /\ m \in Replies
    BY <1>4, <1>8 DEF ToClient, News, Replies
  <2>2. m \notin ForeignDones(c)
    <3>1. Pending(q, ForeignDones(c)) = IF Head(q) \in ForeignDones(c)
                                        THEN Pending(Tail(q), ForeignDones(c)) + 1
                                        ELSE Pending(Tail(q), ForeignDones(c))
      BY <1>1, Taken
    <3>2. Pending(Tail(q), ForeignDones(c)) \in Nat
      BY <1>4, PendingType
    <3>3. QED
      BY <1>3, <1>4, <3>1, <3>2
  <2>3. m.input \in Inputs /\ Owner[m.input] = c
    BY <1>4, <2>1, <2>2 DEF ForeignDones, ToClient
  <2>4. m.input = f
    BY <1>2, <2>3 DEF OneInputEach
  <2>5. QED
    BY <2>1, <2>4 DEF RepliesTo
<1>11. preedit'[f] = m.preedit
  <2>1. ReceiveDone(c)
    BY <1>10 DEF ClientReceives, ReceiveEnter, ReceiveLeave, Arrives, m
  <2>2. m.input \in Live
    BY <1>2, <1>10 DEF Live, Steady
  <2>3. Show(f, m.preedit)
    BY <1>2, <1>9, <1>10, <2>1, <2>2 DEF ReceiveDone, m
  <2>4. preedit \in [Inputs -> Texts]
    BY DEF WireTypeOK, ClientTypeOK
  <2>5. QED
    BY <1>2, <2>3, <2>4 DEF Show
<1>12. QED
  BY <1>10, <1>11 DEF m

(* An application handles an event.                                        *)
LEMMA ClientReceivesWord ==
  ASSUME OneInputEach, WireTypeOK, WireTypeOK', ServerInv, DownLink, Steady,
         NewsLink, OwnNews, LastWord, WordLink, NEW c \in Clients,
         ClientReceives(c)
  PROVE  WordLink'
<1> DEFINE f == focused
           q == toClient[c]
<1>1. /\ q # <<>> /\ q \in Seq(ToClient) /\ toClient'[c] = Tail(q)
      /\ \A d \in Clients \ {c} : toClient'[d] = toClient[d]
      /\ UNCHANGED <<focused, cs, active, igrab, lost, toContext, fromContext>>
  BY ClientTakes
<1> SUFFICES ASSUME f # None, Shown(f, cs), ~lost
             PROVE  Leaves(toClient'[Owner[f]], RepliesTo(f), Shows(f, cs),
                           preedit'[f] = cs)
  BY <1>1 DEF WordLink, Shown, Unshown
<1>2. f \in Inputs /\ Owner[f] \in Clients
  BY WireAssumption DEF WireTypeOK, TextTypeOK, NullableInput
<1>3. CASE Owner[f] # c
  <2>1. toClient'[Owner[f]] = toClient[Owner[f]]
    BY <1>1, <1>2, <1>3
  <2>2. preedit'[f] = preedit[f]
    <3>1. cfocus[c] # None => cfocus[c] # f
      BY <1>3 DEF OwnNews
    <3>2. \/ UNCHANGED preedit
          \/ /\ cfocus[c] # None
             /\ \E t : preedit' = [preedit EXCEPT ![cfocus[c]] = t]
      BY DEF ClientReceives, ReceiveEnter, ReceiveLeave, ReceiveDone, Show
    <3>3. preedit \in [Inputs -> Texts]
      BY DEF WireTypeOK, ClientTypeOK
    <3>4. QED
      BY <1>2, <3>1, <3>2, <3>3
  <2>3. QED
    BY <2>1, <2>2 DEF Shown
<1>4. CASE Owner[f] = c
  <2>1. Leaves(q, RepliesTo(f), Shows(f, cs), preedit[f] = cs)
    BY <1>4 DEF Shown
  <2>2. Tail(q) \in Seq(ToClient)
    BY <1>1
  <2>3. CASE Pending(Tail(q), RepliesTo(f)) = 0
    <3>1. /\ Head(q) \in RepliesTo(f) /\ preedit'[f] = Head(q).preedit
      BY <1>1, <1>4, <2>3, HearsLastWord
    <3>2. \A k \in DOMAIN Tail(q) : Tail(q)[k] \notin RepliesTo(f)
      BY <2>2, <2>3, PendingZero
    <3> HIDE DEF q
    <3>3. Leaves(Tail(q), RepliesTo(f), Shows(f, cs),
                 IF Head(q) \in RepliesTo(f) THEN Head(q) \in Shows(f, cs)
                 ELSE preedit[f] = cs)
      BY <1>1, <2>1, Taken
    <3>4. Head(q) \in Shows(f, cs)
      BY <3>1, <3>2, <3>3 DEF Leaves, Hits
    <3>5. preedit'[f] = cs
      BY <3>1, <3>4 DEF Shows
    <3>6. Leaves(Tail(q), RepliesTo(f), Shows(f, cs), preedit'[f] = cs)
      BY <3>2, <3>5 DEF Leaves, Hits
    <3>7. QED
      BY <1>1, <1>4, <3>6
  <2>4. CASE Pending(Tail(q), RepliesTo(f)) # 0
    <3> HIDE DEF q
    <3>1. Leaves(Tail(q), RepliesTo(f), Shows(f, cs),
                 IF Head(q) \in RepliesTo(f) THEN Head(q) \in Shows(f, cs)
                 ELSE preedit[f] = cs)
      BY <1>1, <2>1, Taken
    <3>2. Hits(Tail(q), RepliesTo(f)) # {}
      BY <2>4, PendingNone
    <3>3. Leaves(Tail(q), RepliesTo(f), Shows(f, cs), preedit'[f] = cs)
      BY <3>1, <3>2 DEF Leaves
    <3>4. QED
      BY <1>1, <1>4, <3>3
  <2>5. QED
    BY <2>3, <2>4
<1>5. QED
  BY <1>3, <1>4

(* The process handles a message, or repeats a key.                        *)
LEMMA ContextWord ==
  ASSUME WireTypeOK, WireTypeOK', KeyboardLink, WordLink,
         ContextReceives \/ Repeat
  PROVE  WordLink'
<1> DEFINE q == fromContext
           z == toContext
<1>1. /\ UNCHANGED <<focused, toClient, preedit, active, lost>>
      /\ q \in Seq(FromContext)
  BY DEF ContextReceives, ContextDone, ContextKey, Repeat, methodVars,
     clientVars, textVars, WireTypeOK, ChannelTypeOK
<1>2. PICK r \in Seq(FromContext) :
        /\ fromContext' = q \o r
        /\ Says(r, cs', cs)
        /\ cs # Empty /\ igrab' /\ ~igrab => Pending(r, Relayed) # 0
  BY ContextSays
<1> HIDE DEF q
<1>3. Pending(q \o r, Relayed) = Pending(q, Relayed) + Pending(r, Relayed)
  BY <1>1, <1>2, PendingConcat
<1>4. Pending(q, Relayed) \in Nat /\ Pending(r, Relayed) \in Nat
  BY <1>1, <1>2, PendingType
<1> SUFFICES ASSUME focused # None, Pending(q \o r, Relayed) = 0, ~lost
             PROVE  WordLink'
  BY <1>1, <1>2 DEF WordLink
<1>5. Pending(q, Relayed) = 0 /\ Pending(r, Relayed) = 0
  BY <1>3, <1>4
<1>6. cs' = cs /\ ~(cs # Empty /\ igrab' /\ ~igrab)
  BY <1>2, <1>5 DEF Says
<1>7. Shown(focused, cs) \/ Unshown
  BY <1>5 DEF WordLink, q
<1>8. CASE Shown(focused, cs)
  <2>1. Shown(focused, cs)'
    BY <1>1, <1>6, <1>8 DEF Shown
  <2>2. QED
    BY <2>1 DEF WordLink
<1>9. ASSUME cs # Empty, ~InTurn(z, Switches, Activations, Activations, igrab)
      PROVE  ~InTurn(z', Switches, Activations, Activations, igrab')
  <2>1. CASE Repeat
    BY <1>9, <2>1 DEF Repeat
  <2>2. CASE ContextReceives
    <3>1. /\ z \in Seq(ToContext) /\ z # <<>> /\ z' = Tail(z)
          /\ Head(z) \in ToContext
      <4>1. toContext # <<>> /\ toContext' = Tail(toContext)
        BY <2>2 DEF ContextReceives, ContextDone, ContextKey, Arrives
      <4>2. toContext \in Seq(ToContext)
        BY DEF WireTypeOK, ChannelTypeOK
      <4>3. QED
        BY <4>1, <4>2
    <3>2. /\ Head(z) \in Activations => igrab' /\ Head(z) \in Switches
          /\ igrab' <=> (IF Head(z) \in Switches THEN Head(z) \in Activations
                         ELSE igrab)
      <4>1. CASE ContextDone
        <5>1. /\ Head(z).type = "done" /\ Head(z) \in Dones
              /\ igrab' = iactive'
              /\ iactive' = CASE Head(z).set = "activate" -> TRUE
                              [] Head(z).set = "deactivate" -> FALSE
                              [] OTHER -> iactive
          BY <3>1, <4>1 DEF ContextDone, Arrives, Dones
        <5>2. /\ Head(z) \in Activations <=> Head(z).set = "activate"
              /\ Head(z) \in Switches <=> Head(z).set \in {"activate", "deactivate"}
          BY <5>1 DEF Activations, Switches
        <5>3. igrab <=> iactive
          BY DEF KeyboardLink
        <5>4. QED
          BY <5>1, <5>2, <5>3
      <4>2. CASE ContextKey
        BY <3>1, <4>2 DEF ContextKey, Arrives, Activations, Switches, Dones
      <4>3. QED
        BY <2>2, <4>1, <4>2 DEF ContextReceives
    <3> HIDE DEF z
    <3>3. InTurn(z, Switches, Activations, Activations, igrab)
            <=> /\ Head(z) \in Activations => igrab
                /\ InTurn(Tail(z), Switches, Activations, Activations,
                          IF Head(z) \in Switches THEN Head(z) \in Activations
                          ELSE igrab)
      BY <3>1, InTurnTaken
    <3>4. Head(z) \in Activations => igrab
      BY <1>6, <1>9, <3>2
    <3>5. ~InTurn(Tail(z), Switches, Activations, Activations, igrab')
      BY <1>9, <3>2, <3>3, <3>4 DEF InTurn, Leaves
    <3>6. QED
      BY <3>1, <3>5
  <2>3. QED
    BY <2>1, <2>2
<1>10. CASE Unshown
  <2>1. Unshown'
    BY <1>1, <1>6, <1>9, <1>10 DEF Unshown
  <2>2. QED
    BY <2>1 DEF WordLink
<1>11. QED
  BY <1>7, <1>8, <1>10

(* Every step keeps that what is composed is shown, or will be.            *)
LEMMA NextWord ==
  ASSUME ~Lifecycle, ~Restarts, OneInputEach, WireTypeOK,
         WireTypeOK', ServerInv, MethodLink, KeyboardLink, UpLink, DownLink,
         Steady, NewsLink, CompositionLink, OwnNews, LastWord, WordLink,
         [Next]_vars
  PROVE  WordLink'
<1>1. ~ReceiveHangup /\ ~Start /\ ~Exit
  BY StaysUp DEF CompositionLink
<1>2. ASSUME UNCHANGED vars \/ \E i \in Inputs : Idle(i) \/ Output(i)
      PROVE  WordLink'
  <2>1. UNCHANGED <<focused, fromContext, toContext, toClient, preedit, cs,
                    active, igrab, lost>>
    BY <1>2 DEF vars, Idle, Output, textVars, methodVars, clientVars,
       contextVars, channels
  <2>2. QED
    BY <2>1 DEF WordLink, Shown, Unshown
<1>3. ASSUME ReceiveGrab \/ ReceiveFrame
      PROVE  WordLink'
  <2> DEFINE q == fromContext
  <2>1. /\ q \in Seq(FromContext) /\ q # <<>> /\ Head(q).type # "commit"
        /\ fromContext' = Tail(q)
        /\ UNCHANGED <<focused, toContext, toClient, preedit, cs, active, igrab,
                       lost>>
    BY <1>3 DEF ReceiveGrab, ReceiveFrame, Arrives, WireTypeOK, ChannelTypeOK,
       contextVars, clientVars, textVars
  <2>2. Head(q) \notin Relayed
    BY <2>1 DEF Relayed, Commits
  <2> HIDE DEF q
  <2>3. Pending(Tail(q), Relayed) = Pending(q, Relayed)
    BY <2>1, <2>2, Taken
  <2>4. Pending(fromContext', Relayed) = Pending(fromContext, Relayed)
    BY <2>1, <2>3 DEF q
  <2>5. QED
    BY <2>1, <2>4 DEF WordLink, Shown, Unshown
<1>4. ASSUME GrabbedKey
      PROVE  WordLink'
  <2> DEFINE m == [type |-> "key"]
  <2>1. /\ toContext' = Append(toContext, m) /\ toContext \in Seq(ToContext)
        /\ UNCHANGED <<focused, fromContext, toClient, preedit, cs, active,
                       igrab, lost>>
    BY <1>4 DEF GrabbedKey, WireTypeOK, ChannelTypeOK, contextVars,
       clientVars, textVars, methodVars
  <2>2. m \in ToContext /\ m \notin Activations
    BY DEF ToContext, Activations, Dones
  <2> HIDE DEF m
  <2>3. InTurn(toContext', Switches, Activations, Activations, igrab)
          <=> InTurn(toContext, Switches, Activations, Activations, igrab)
    BY <2>1, <2>2, InTurnAppended
  <2>4. Unshown => Unshown'
    BY <2>1, <2>3 DEF Unshown, InTurn
  <2>5. QED
    BY <2>1, <2>4 DEF WordLink, Shown
<1>5. ASSUME NEW s \in NullableInput, FocusChange(s)
      PROVE  WordLink'
  BY <1>5, FocusChangeBlurs DEF WordLink
<1>6. ASSUME NEW c \in Clients, ReceiveCreate(c) \/ ReceiveDestroy(c)
      PROVE  FALSE
  <2>1. toServer[c] # <<>> /\ toServer' = [toServer EXCEPT ![c] = Tail(@)]
    BY <1>6 DEF ReceiveCreate, ReceiveDestroy, Arrives
  <2>2. Head(toServer[c]).type = "commit"
    BY <2>1, TakenSteady
  <2>3. QED
    BY <1>6, <2>2 DEF ReceiveCreate, ReceiveDestroy, Arrives
<1>7. CASE ServerNext
  BY <1>1, <1>3, <1>4, <1>5, <1>6, <1>7, ReceiveCommitWord, ToggleKeyWord,
     ReceiveContextCommitWord
     DEF ServerNext, ServerReceives, ServerReceivesContext
<1>8. CASE ClientNext
  BY <1>2, <1>8, ClientReceivesWord DEF ClientNext, CreateInput, DestroyInput
<1>9. CASE ContextNext
  BY <1>1, <1>9, ContextWord DEF ContextNext
<1>10. QED
  BY <1>2, <1>7, <1>8, <1>9 DEF Next

(* However the focus, the toggle, the keys and the commits of both sides   *)
(* cross, once the messages are handled the window that has the active     *)
(* input method shows what is being composed: no text is left in another   *)
(* window, and the only text missing is a composition that crossed a done  *)
(* event, whose serial is old.  The next composition puts that right, as   *)
(* lost is cleared by the first one taken.  The process is to stay up, as  *)
(* one that exits loses what it composed.                                  *)
THEOREM PreeditCorrect ==
  ASSUME ~Lifecycle, ~Restarts, OneInputEach
  PROVE  Spec => []PreeditShown
<1>1. TypeOK /\ TypeOK' /\ ServerInv /\ ContextLink /\ UpLink /\ DownLink
        /\ Steady /\ NewsLink /\ CompositionLink /\ OwnNews /\ LastWord
        /\ WordLink /\ [Next]_vars
        => CompositionLink' /\ OwnNews' /\ LastWord' /\ WordLink'
  BY NextComposition, NextOwnNews, NextLastWord, NextWord
     DEF TypeOK, ContextLink
<1>2. Init => CompositionLink /\ OwnNews /\ LastWord /\ WordLink
  <2> SUFFICES ASSUME Init
               PROVE  CompositionLink /\ OwnNews /\ LastWord /\ WordLink
    OBVIOUS
  <2>1. /\ running /\ focused = None /\ current = Empty /\ cs = Empty
        /\ fromContext = <<Frame>>
        /\ \A c \in Clients : toClient[c] = <<>> /\ cfocus[c] = None
    BY DEF Init
  <2>2. CompositionLink
    <3>1. Frame \notin Relayed /\ \A t : Frame \notin Forwarded(t)
      BY DEF Frame, Relayed, Forwarded, Commits
    <3>2. Leaves(<<Frame>>, Relayed, Saying(cs), Known(cs))
      BY <2>1, <3>1, LeavesOne DEF Known
    <3>3. \A t : InTurn(<<Frame>>, Relayed, Forwarded(t), Saying(t), Known(t))
      BY <3>1, InTurnOne
    <3>4. QED
      BY <2>1, <3>2, <3>3 DEF CompositionLink
  <2>3. OwnNews
    BY <2>1, HitsEmpty, PendingNone DEF OwnNews
  <2>4. QED
    BY <2>1, <2>2, <2>3 DEF LastWord, WordLink
<1>3. TypeOK /\ ServerInv /\ WordLink => PreeditShown
  <2> SUFFICES ASSUME WireTypeOK, ServerInv, WordLink, Quiet, active, ~lost
               PROVE  preedit[focused] = cs
    BY DEF TypeOK, PreeditShown
  <2>1. focused # None
    BY DEF ServerInv, ActiveIffServing
  <2>2. Owner[focused] \in Clients
    BY <2>1, WireAssumption DEF WireTypeOK, TextTypeOK, NullableInput
  <2>3. toClient[Owner[focused]] = <<>> /\ fromContext = <<>> /\ toContext = <<>>
    BY <2>2 DEF Quiet
  <2>4. Pending(fromContext, Relayed) = 0
    BY <2>3, HitsEmpty, PendingNone
  <2>5. ~Unshown
    BY <2>3 DEF Unshown, InTurn
  <2>6. Shown(focused, cs)
    BY <2>1, <2>4, <2>5 DEF WordLink
  <2>7. QED
    BY <2>3, <2>6 DEF Shown, Leaves, Hits
<1>4. QED
  BY <1>1, <1>2, <1>3, TypeCorrect, ServerCorrect, ContextLinkCorrect,
     ClientLinkCorrect, FocusLinkCorrect, PTL DEF Spec
=============================================================================
