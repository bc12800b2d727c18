------------------------------- MODULE Engine -------------------------------
(***************************************************************************)
(* The composition engine of the input method, t_engine of im/engine.cc,   *)
(* with what t_context of im/main.cc keeps of its callbacks: the text and  *)
(* attributes it shows (v_cs and v_as, here the sequence "view").          *)
(*                                                                         *)
(* The buffer holds a stack of states.  The top one is being composed: its *)
(* text, then the entry to convert, then, when a capital letter has        *)
(* started the inflection, the letter itself and the inflection's kana     *)
(* (okuri counts both), then the romaji typed so far.  Each state below    *)
(* waits for the one above to supply a word its dictionary search missed.  *)
(* An operator takes the engine, a record, through one function of the     *)
(* class; the action Press is one call of f_key_pressed.                   *)
(*                                                                         *)
(* All kana are one character here, so are all the other characters typed, *)
(* and what the dictionary finds is left open.  Left out: v_katakana,      *)
(* which picks one of two spellings of the kana, v_choosing, which only    *)
(* the popup reads, and f_reset, which nothing calls.                      *)
(***************************************************************************)
EXTENDS Integers, FiniteSets, SequencesExt

CONSTANTS
  Findings,  \* what a dictionary search can find: sequences of words
  MaxBuffer, \* bound: characters in the buffer
  MaxStates  \* bound: states on the stack

ASSUME EngineAssumption ==
  /\ Findings \subseteq Seq(Seq({"word"}))
  /\ MaxBuffer \in Nat /\ MaxStates \in Nat

VARIABLE engine

-----------------------------------------------------------------------------
(* The keys: those the modes tell apart, romaji and one other character.   *)
Printable == {"a", "k", "x", "y", "A", "K", "1", " ", "/", "l", "q"}
Keys == Printable \cup {"Return", "^M", "Linefeed", "BackSpace", "Tab"}

Return(key) == key \in {"Return", "^M"}
Lower(key) == CASE key = "A" -> "a" [] key = "K" -> "k" [] OTHER -> key

(* The part of the romaji table these keys can reach: the sequences with   *)
(* more to come, and the number of kana of each complete one.  A doubled   *)
(* consonant gives a kana and starts the sequence again.                   *)
Unfinished == {<<>>, <<"k">>, <<"x">>, <<"y">>,
             <<"k", "y">>, <<"x", "k">>, <<"x", "y">>}
Complete(path) ==
  \/ path \in {<<"a">>, <<"k", "a">>, <<"x", "a">>, <<"x", "/">>, <<"y", "a">>}
  \/ path \in {<<"k", "y", "a">>, <<"x", "k", "a">>, <<"x", "y", "a">>}
KanaOf(path) == IF path = <<"k", "y", "a">> THEN <<"kana", "kana">> ELSE <<"kana">>
Doubled(path) == Len(path) = 2 /\ path[1] = path[2]

(* t_map::f_find *)
Finds(map, key) ==
  LET path == Append(map, key)
  IN path \in Unfinished \/ Complete(path) \/ (Doubled(path) /\ map # <<>>)

-----------------------------------------------------------------------------
NewState(base) == [base |-> base, text |-> 0, entry |-> 0, okuri |-> 0,
                   asked |-> <<>>]
Top(e) == e.states[Len(e.states)]
Nested(e) == Len(e.states) > 1
SetTop(e, state) == [e EXCEPT !.states[Len(e.states)] = state]
Pop(e) == [e EXCEPT !.states = SubSeq(@, 1, Len(@) - 1)]

(* Characters of the buffer by index from 0, and with an attribute.        *)
Slice(e, i, n) == SubSeq(e.buffer, i + 1, i + n)
From(e, i) == SubSeq(e.buffer, i + 1, Len(e.buffer))
As(cs, attribute) == [k \in DOMAIN cs |-> [c |-> cs[k], a |-> attribute]]
Characters(view) == [k \in DOMAIN view |-> view[k].c]

(* The okuri kana, without the letter that starts them; a candidate of n   *)
(* characters with them.  Mutant: without them.                            *)
Inflection(state) == IF state.okuri > 0 THEN state.okuri - 1 ELSE 0
CandidateOnly(n, state) == n
Inflected(n, state) == n + Inflection(state)

(* What a dictionary search or registration is asked about.                *)
Asked(e, state) ==
  <<Slice(e, state.base + state.text, state.entry),
    Slice(e, state.base + state.text + state.entry, state.okuri)>>

(* t_context::f_on_compose and f_send_preedit: an access out of the range  *)
(* of v_cs, or a caret past its end, is undefined.                         *)
Compose(e, i, m, cs) ==
  LET view == SubSeq(e.view, 1, i) \o cs \o SubSeq(e.view, i + m + 1, Len(e.view))
      fits == i >= 0 /\ m >= 0 /\ i + m <= Len(e.view)
      caret == e.candidates # <<>> \/ Top(e).text <= Len(view)
  IN IF fits /\ caret
     THEN [e EXCEPT !.view = view,
                    !.sent = Append(@, [type |-> "preedit", cs |-> Characters(view)])]
     ELSE [e EXCEPT !.undefined = TRUE]

(* t_context::f_on_commit *)
Commit(e, cs) ==
  [e EXCEPT !.view = <<>>, !.sent = Append(@, [type |-> "commit", cs |-> cs])]

(* Commit the whole buffer, when nothing is nested.                        *)
CommitBuffer(e) ==
  [Commit(SetTop(e, NewState(0)), e.buffer) EXCEPT !.buffer = <<>>]

(* t_context::f_on_forward *)
Forward(e) == [e EXCEPT !.sent = Append(@, [type |-> "forward", cs |-> <<>>])]

(* The dictionary learns a word for what it was asked.  Mutant: by then    *)
(* the letter of the inflection is dropped.                                *)
RegisterWithoutLetter(e, state, cs) ==
  [e EXCEPT !.learned =
     Append(@, <<Asked(e, [state EXCEPT !.okuri = Inflection(state)]), cs>>)]

Register(e, state, cs) ==
  [e EXCEPT !.learned = Append(@, <<Asked(e, state), cs>>)]

-----------------------------------------------------------------------------
(* Drop the romaji, and the okuri before it.                               *)
RomanReset(e) ==
  LET s == Top(e)
      i == s.text + s.entry
      n == Len(e.buffer) - s.base - i - IF s.okuri > 0 THEN 1 ELSE 0
      e1 == [SetTop(e, [s EXCEPT !.okuri = 0]) EXCEPT
               !.buffer = SubSeq(@, 1, s.base + i), !.map = <<>>]
  IN Compose(e1, i, n, <<>>)

(* if (v_map != &t_roman_table::v_default) f_roman_reset(); *)
ResetPending(e) == IF e.map = <<>> THEN e ELSE RomanReset(e)

RomanPush(e, c, map) ==
  LET s == Top(e)
      i == Len(e.buffer) - s.base - IF s.okuri > 0 THEN 1 ELSE 0
      e1 == [e EXCEPT !.buffer = Append(@, c), !.map = map]
  IN Compose(e1, i, 0, As(<<c>>, "roman"))

(* The romaji becomes kana: okuri, entry, text, or at once committed.      *)
OkuriAt(state) == state.text + state.entry + state.okuri - 1

RomanReduce(e, cs) ==
  LET s == Top(e)
      i == s.text + s.entry + s.okuri
      n == Len(e.buffer) - s.base - i
      e1 == [e EXCEPT !.buffer = SubSeq(@, 1, Len(@) - n) \o cs]
  IN CASE e.mode = "kanji" /\ s.okuri > 0 ->
            Compose(SetTop(e1, [s EXCEPT !.okuri = @ + Len(cs)]),
                    OkuriAt(s), n, As(cs, "okuri"))
       [] e.mode = "kanji" /\ s.okuri = 0 ->
            Compose(SetTop(e1, [s EXCEPT !.entry = @ + Len(cs)]),
                    i, n, As(cs, "entry"))
       [] e.mode # "kanji" /\ Nested(e) ->
            Compose(SetTop(e1, [s EXCEPT !.text = @ + Len(cs)]),
                    i, n, As(cs, "text"))
       [] OTHER -> CommitBuffer(e1)

(* The user is asked for a word, above the state that waits for it.        *)
(* Mutant: the candidates stay.                                            *)
AskUserStill(e) ==
  [e EXCEPT !.mode = "roman", !.states = Append(@, NewState(Len(e.buffer)))]
AskUser(e) ==
  [e EXCEPT !.mode = "roman", !.candidates = <<>>,
            !.states = Append(@, NewState(Len(e.buffer)))]

(* The top state goes back to its entry, without okuri.                    *)
Reopen(e) ==
  LET s == Top(e)
  IN SetTop([e EXCEPT !.mode = "kanji", !.candidates = <<>>,
                      !.buffer = SubSeq(@, 1, s.base + s.text + s.entry)],
            [s EXCEPT !.okuri = 0, !.asked = <<>>])

(* Ask the dictionary, which finds the candidates given.                   *)
Choose(e, found) ==
  LET s  == Top(e)
      e1 == SetTop(e, [s EXCEPT !.asked = Asked(e, s)])
  IN IF found = <<>>
     THEN Compose(AskUser(e1), 0, Inflected(s.text + s.entry, s), <<>>)
     ELSE Compose([e1 EXCEPT !.mode = "choose", !.candidates = found,
                             !.chosen = 0],
                  s.text, s.entry, As(found[1], "candidate"))

RomanCommit(e, found) ==
  [(IF Top(e).okuri > 0 THEN Choose(e, found) ELSE e) EXCEPT !.map = <<>>]

(* t_action_push::f_key_pressed and t_action_reduce::f_key_pressed *)
ActionPressed(e, key, found) ==
  LET path == Append(e.map, key)
  IN CASE path \in Unfinished -> RomanPush(e, key, path)
       [] Complete(path) -> RomanCommit(RomanReduce(e, KanaOf(path)), found)
       [] OTHER -> RomanPush(RomanReduce(e, <<"kana">>), key, <<key>>)

-----------------------------------------------------------------------------
TextPush(e, c) ==
  LET s == Top(e)
  IN IF Nested(e)
     THEN Compose(SetTop([e EXCEPT !.buffer = Append(@, c)],
                         [s EXCEPT !.text = @ + 1]),
                  s.text, 0, As(<<c>>, "text"))
     ELSE Commit(e, <<c>>)

TextPop(e) ==
  LET s  == Top(e)
      e1 == Pop(e)
      s1 == Top(e1)
  IN CASE s.text > 0 ->
            Compose(SetTop([e EXCEPT !.buffer = SubSeq(@, 1, Len(@) - 1)],
                           [s EXCEPT !.text = @ - 1]),
                    s.text - 1, 1, <<>>)
       [] s.text = 0 /\ Nested(e) ->
            Compose(Reopen(e1), 0, 0,
                    As(Slice(e, s1.base, s1.text), "text")
                    \o As(Slice(e, s1.base + s1.text, s1.entry), "entry"))
       [] OTHER -> Forward(e)

(* The buffer once the word typed, above state s, has taken the place of   *)
(* the entry of s and the letter of its inflection, before the okuri kana. *)
Supplied(buffer, s) ==
  LET i     == s.base + s.text
      okuri == Inflection(s)
      rest  == SubSeq(buffer, i + s.entry + s.okuri - okuri + 1, Len(buffer))
  IN SubSeq(buffer, 1, i)
     \o SubSeq(rest, okuri + 1, Len(rest)) \o SubSeq(rest, 1, okuri)

TextCommit(e) ==
  LET s  == Top(e)
      e1 == Pop(e)
      s1 == Top(e1)
      e2 == IF s.text > 0 THEN Register(e1, s1, Slice(e, s.base, s.text)) ELSE e1
      e3 == [e2 EXCEPT !.buffer = Supplied(@, s1), !.mode = "roman"]
  IN CASE ~Nested(e) -> Forward(e)
       [] Nested(e) /\ Nested(e1) ->
            Compose(SetTop(e3, [NewState(s1.base) EXCEPT
                                  !.text = Len(e3.buffer) - s1.base]),
                    0, s.text, As(From(e3, s1.base), "text"))
       [] OTHER -> CommitBuffer(e3)

EntryPush(e, c) ==
  LET s == Top(e)
  IN Compose(SetTop([e EXCEPT !.buffer = Append(@, c)],
                    [s EXCEPT !.entry = @ + 1]),
             s.text + s.entry, 0, As(<<c>>, "entry"))

(* Past its first character the entry is left.                             *)
EntryPop(e) ==
  LET s  == Top(e)
      e1 == Compose(SetTop([e EXCEPT !.buffer = SubSeq(@, 1, Len(@) - 1)],
                           [s EXCEPT !.entry = @ - 1]),
                    s.text + s.entry - 1, 1, <<>>)
  IN IF s.entry > 1 THEN e1
     ELSE [(IF s.entry > 0 THEN e1 ELSE e) EXCEPT !.mode = "roman"]

EntryCommit(e) ==
  LET s  == Top(e)
      e1 == [e EXCEPT !.mode = "roman"]
  IN IF Nested(e)
     THEN Compose(SetTop(e1, [NewState(s.base) EXCEPT !.text = s.text + s.entry]),
                  s.text, s.entry,
                  As(Slice(e, s.base + s.text, s.entry), "text"))
     ELSE CommitBuffer(e1)

-----------------------------------------------------------------------------
ModeLatin(e, key) ==
  CASE Return(key) -> TextCommit(e)
    [] key = "Linefeed" -> [e EXCEPT !.mode = "roman"]
    [] key = "BackSpace" -> TextPop(e)
    [] key \in Printable -> TextPush(e, "1")
    [] OTHER -> IF e.buffer = <<>> THEN Forward(e) ELSE e

ModeWord(e, key, found) ==
  CASE Return(key) -> EntryCommit(e)
    [] key = "Linefeed" ->
         [e EXCEPT !.mode = IF Top(e).entry > 0 THEN "kanji" ELSE "roman"]
    [] key = "BackSpace" -> EntryPop(e)
    [] key = " " -> IF Top(e).entry > 0 THEN Choose(e, found) ELSE e
    [] key \in Printable \ {" "} -> EntryPush(e, "1")
    [] OTHER -> e

(* A key the romaji typed so far cannot go on with starts again.           *)
ModeRoman(e, key, found) ==
  LET lower == Lower(key)
      e1 == IF Finds(e.map, lower) THEN e ELSE ResetPending(e)
      e2 == IF e1.map = <<>> /\ lower # key
            THEN [e1 EXCEPT !.mode = "kanji"] ELSE e1
  IN CASE Return(key) -> TextCommit(ResetPending(e))
       [] key = "BackSpace" -> IF e.map # <<>> THEN RomanReset(e) ELSE TextPop(e)
       [] key = "Linefeed" -> ResetPending(e)
       [] key \in Printable /\ Finds(e1.map, lower) ->
            ActionPressed(e2, lower, found)
       [] key \in Printable /\ ~Finds(e1.map, lower) ->
            CASE key = "/" -> [e1 EXCEPT !.mode = "word"]
              [] key = "l" -> [e1 EXCEPT !.mode = "latin"]
              [] key = "q" -> e1
              [] OTHER -> TextPush(e1, "1")
       [] OTHER -> IF ResetPending(e).buffer = <<>>
                   THEN Forward(ResetPending(e)) ELSE ResetPending(e)

(* The same; but starting again looks a capital letter up as it is, and    *)
(* does not find it.                                                       *)
ModeKanji(e, key, found) ==
  LET lower == Lower(key)
      e1 == IF Finds(e.map, lower) THEN e ELSE ResetPending(e)
      found1 == IF Finds(e.map, lower) \/ e.map = <<>> THEN Finds(e1.map, lower)
                ELSE Finds(e1.map, key)
      e2 == IF e1.map = <<>> /\ lower # key /\ Top(e1).entry > 0
            THEN SetTop([e1 EXCEPT !.buffer = Append(@, lower)],
                        [Top(e1) EXCEPT !.okuri = 1])
            ELSE e1
  IN CASE Return(key) -> EntryCommit(ResetPending(e))
       [] key = "BackSpace" /\ e.map # <<>> ->
            [RomanReset(e) EXCEPT
               !.mode = IF RomanReset(e).buffer = <<>> THEN "roman" ELSE @]
       [] key = "BackSpace" /\ e.map = <<>> -> EntryPop(e)
       [] key \in Printable /\ found1 -> ActionPressed(e2, lower, found)
       [] key \in Printable /\ ~found1 ->
            CASE key = " " -> Choose(e1, found)
              [] key \in {"/", "l"} -> [e1 EXCEPT !.mode = "word"]
              [] key = "q" -> e1
              [] OTHER -> EntryPush(e1, "1")
       [] OTHER -> ResetPending(e)

(* Back to composing the entry.                                            *)
ChooseBack(e, n) ==
  LET s == Top(e)
  IN Compose(Reopen(e), s.text, Inflected(n, s),
             As(Slice(e, s.base + s.text, s.entry), "entry"))

(* Past the last candidate: the user is asked for the word.                *)
ChooseNone(e, n) ==
  LET s == Top(e)
  IN Compose(AskUser([e EXCEPT !.chosen = @ + 1]),
             0, Inflected(s.text + n, s), <<>>)

ChooseNth(e, n, chosen) ==
  Compose([e EXCEPT !.chosen = chosen], Top(e).text, n,
          As(e.candidates[chosen + 1], "candidate"))

(* The candidate takes the place of the entry and the okuri letter.        *)
(* Mutant: of the entry.                                                   *)
ConvertedWithLetter(e, s, word) ==
  LET i == s.base + s.text
  IN SubSeq(e.buffer, 1, i) \o word \o From(e, i + s.entry)
Converted(e, s, word) ==
  LET i == s.base + s.text
  IN SubSeq(e.buffer, 1, i) \o word
     \o From(e, i + s.entry + s.okuri - Inflection(s))

ChooseCommit(e, n) ==
  LET s == Top(e)
      word == e.candidates[e.chosen + 1]
      e1 == [Register(e, s, word) EXCEPT
               !.buffer = Converted(e, s, word), !.mode = "roman", !.candidates = <<>>]
  IN IF Nested(e)
     THEN Compose(SetTop(e1, [NewState(s.base) EXCEPT
                                !.text = Len(e1.buffer) - s.base]),
                  s.text, Inflected(n, s), As(From(e1, s.base + s.text), "text"))
     ELSE CommitBuffer(e1)

ModeChoose(e, key, found) ==
  LET n == Len(e.candidates[e.chosen + 1])
  IN CASE key = "BackSpace" \/ (key = "x" /\ e.chosen = 0) -> ChooseBack(e, n)
       [] key = " " /\ e.chosen + 1 < Len(e.candidates) ->
            ChooseNth(e, n, e.chosen + 1)
       [] key = " " /\ e.chosen + 1 >= Len(e.candidates) -> ChooseNone(e, n)
       [] key = "x" /\ e.chosen > 0 -> ChooseNth(e, n, e.chosen - 1)
       [] key = "Return" -> ChooseCommit(e, n)
       [] key \in Printable \ {"x", " "} ->
            ModeRoman(ChooseCommit(e, n), key, found)
       [] OTHER -> e

-----------------------------------------------------------------------------
KeyPressed(e, key, found) ==
  CASE e.mode = "latin" -> ModeLatin(e, key)
    [] e.mode = "word" -> ModeWord(e, key, found)
    [] e.mode = "roman" -> ModeRoman(e, key, found)
    [] e.mode = "kanji" -> ModeKanji(e, key, found)
    [] e.mode = "choose" -> ModeChoose(e, key, found)

Init ==
  engine = [mode |-> "roman", buffer |-> <<>>, map |-> <<>>,
            states |-> <<NewState(0)>>, candidates |-> <<>>, chosen |-> 0,
            view |-> <<>>, sent |-> <<>>, learned |-> <<>>,
            undefined |-> FALSE]

(* One key; what the engine sends and registers is this key's.             *)
Press(key) ==
  /\ \E found \in Findings :
       engine' = KeyPressed([engine EXCEPT !.sent = <<>>, !.learned = <<>>],
                            key, found)
  /\ Len(engine'.buffer) <= MaxBuffer
  /\ Len(engine'.states) <= MaxStates

Next == \E key \in Keys : Press(key)

Spec == Init /\ [][Next]_engine

-----------------------------------------------------------------------------
TypeOK ==
  /\ engine.mode \in {"latin", "word", "roman", "kanji", "choose"}
  /\ engine.buffer \in Seq(Printable \cup {"kana", "word"})
  /\ engine.map \in Unfinished
  /\ engine.states # <<>>
  /\ \A k \in DOMAIN engine.states :
       LET s == engine.states[k]
       IN {s.base, s.text, s.entry, s.okuri} \subseteq Nat
  /\ engine.candidates \in Findings \cup {<<>>}
  /\ engine.chosen \in Nat

(* However deep registrations nest, the states divide the buffer between   *)
(* them: each begins where the one below ends, and the top one ends with   *)
(* the romaji that the table has been followed along.                      *)
LayoutOK ==
  LET End(s) == s.base + s.text + s.entry + s.okuri
      top    == Top(engine)
  IN /\ engine.states[1].base = 0
     /\ \A k \in 2..Len(engine.states) :
          engine.states[k].base = End(engine.states[k - 1])
     /\ From(engine, End(top)) = engine.map
     /\ End(top) <= Len(engine.buffer)

(* Each mode finds the engine as it relies on it: candidates to choose     *)
(* from, no entry begun, no romaji pending, and nothing in the buffer that *)
(* a commit would send with the next character.                            *)
ModeOK ==
  LET s == Top(engine)
  IN /\ engine.mode = "choose" <=> engine.candidates # <<>>
     /\ engine.mode = "choose" => engine.chosen < Len(engine.candidates)
     /\ engine.mode \in {"latin", "word", "choose"} => engine.map = <<>>
     /\ engine.mode \in {"latin", "roman"} => s.entry = 0 /\ s.okuri = 0
     /\ engine.map = <<>> /\ engine.mode # "choose" => s.okuri = 0
     /\ ~Nested(engine) => s.text = 0
     /\ s.okuri > 0 => s.entry > 0

(* A state that waits for a word still holds the entry and the okuri the   *)
(* dictionary was asked about, whatever is composed above it.              *)
KeepsWhatWasAsked ==
  \A k \in DOMAIN engine.states :
    k < Len(engine.states) \/ engine.mode = "choose" =>
      Asked(engine, engine.states[k]) = engine.states[k].asked

(* A key composes twice at most, which ImContext assumes (its MaxSends).   *)
SendsFew == Len(engine.sent) <= 2

(* The members agree with each other after any keys, at any depth.         *)
StateOK == TypeOK /\ LayoutOK /\ ModeOK /\ KeepsWhatWasAsked /\ SendsFew

(* What the application shows as preedit is what the engine holds: the     *)
(* edits f_on_compose is given, a position, a length and a replacement     *)
(* each, add up to the top state with the candidate over its entry.        *)
Shown(e) ==
  LET s == Top(e)
      i == s.base + s.text
  IN As(Slice(e, s.base, s.text), "text")
     \o (IF e.candidates = <<>> THEN As(Slice(e, i, s.entry), "entry")
         ELSE As(e.candidates[e.chosen + 1], "candidate"))
     \o As(Slice(e, i + s.entry + s.okuri - Inflection(s), Inflection(s)), "okuri")
     \o As(From(e, i + s.entry + s.okuri), "roman")

(* ... and no callback edits beyond what is shown, nor is the caret beyond *)
(* it, which would be undefined.                                           *)
ViewOK == ~engine.undefined /\ engine.view = Shown(engine)

(* What is registered is an entry and okuri the dictionary was asked about *)
(* for a state that waits for a word, so that it is found the next time.   *)
LearnsWhatWasAsked ==
  [][\A k \in DOMAIN engine'.learned :
       \E j \in DOMAIN engine.states :
         engine'.learned[k][1] = engine.states[j].asked]_engine

(* When an entry or a candidate is committed with nothing nested, the      *)
(* application gets the very text it showed last: its preedit, or the one  *)
(* the same key has just sent because it dropped the romaji pending.       *)
CommitsWhatIsShown ==
  [][LET sent   == engine'.sent
         commit == SelectInSeq(sent, LAMBDA x : x.type = "commit")
         shown  == IF commit > 1 THEN sent[commit - 1].cs
                   ELSE Characters(engine.view)
     IN ~Nested(engine) /\ engine.mode \in {"word", "kanji", "choose"}
        /\ commit > 0 => sent[commit].cs = shown]_engine
=============================================================================
