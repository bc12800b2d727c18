-------------------------- MODULE BasicDictionary --------------------------
(***************************************************************************)
(* t_basic_dictionary of im/basic_dictionary.cc: a private dictionary that *)
(* is kept in memory, loaded when the input method starts and saved when   *)
(* it exits, and a public one that is searched in its file.                *)
(*                                                                         *)
(* A map of maps is a function of pairs.  The two comment lines that       *)
(* divide a file are told apart by their first letter alone.  Annotations  *)
(* are read over, and a public dictionary is one file.                     *)
(***************************************************************************)
EXTENDS Seek, Converter, FiniteSets, TLC

CONSTANTS
  PublicContents, \* the public dictionaries there may be, or Missing
  Registrations,  \* what may be registered
  Questions,      \* what may be searched for
  MaxRegistered   \* a bound

VARIABLES
  contents, \* of the public dictionary
  aris,     \* v_aris
  nashis,   \* v_nashis
  disk,     \* the file v_private
  running,
  asked,    \* the search under way, if any
  answer,   \* a_candidates of the last one, and what it was for
  history,  \* what has been registered, the last first
  saved     \* what of it is on disk

dictionaryVars == <<contents, aris, nashis, disk, running, asked, answer, history, saved>>
vars == <<seekVars, dictionaryVars>>

Space     == 32
Slash     == 47
Semicolon == 59
Open      == 91
Backslash == 92
Close     == 93
EOF       == -1

Header    == <<Semicolon, Semicolon, Space, 97>>  \* ;; okuri-ari entries.
Separator == <<Semicolon, Semicolon, Space, 110>> \* ;; okuri-nasi entries.

Nothing == [k \in {} |-> <<>>]
NoAnswer == [to |-> {}, texts |-> <<>>]
Missing == [aris |-> Nothing, nasis |-> Nothing]

(* operator< of strings. *)
Before(a, b) ==
  \E n \in 0..Min({Len(a), Len(b)}) :
    /\ SubSeq(a, 1, n) = SubSeq(b, 1, n)
    /\ n < Len(b) /\ (n < Len(a) => a[n + 1] < b[n + 1])

Ascending(S)  == SetToSortSeq(S, Before)
Descending(S) == Reverse(Ascending(S))

Joined(S, Written(_)) == FlattenSeq([k \in DOMAIN S |-> Written(S[k])])

Char(cs, i) == IF i <= Len(cs) THEN cs[i] ELSE EOF

-----------------------------------------------------------------------------
(* f_build and f_save. *)
Special == {Slash, Semicolon, Open, Backslash, Close}
(* A mutant: brackets as they are. *)
EscapedButBrackets(text) ==
  Joined(text, LAMBDA c : IF c \in Special \ {Open, Close} THEN <<Backslash, c>> ELSE <<c>>)

Escaped(text) ==
  Joined(text, LAMBDA c : IF c \in Special THEN <<Backslash, c>> ELSE <<c>>)
Built(texts) == Joined(texts, LAMBDA x : <<Slash>> \o Escaped(x))

AriLine(map, entry) ==
  LET okuris == Ascending({k[2] : k \in {j \in DOMAIN map : j[1] = entry}})
      Block(okuri) == <<Slash, Open>> \o okuri \o Built(map[<<entry, okuri>>])
                      \o <<Slash, Close>>
  IN entry \o <<Space>> \o Built(map[<<entry, okuris[1]>>])
     \o Joined(Tail(okuris), Block) \o <<Slash, NewLine>>

NashiLine(map, entry) ==
  entry \o <<Space>> \o Built(map[entry]) \o <<Slash, NewLine>>

Saved ==
  EncoderOutput(
    Header \o <<NewLine>>
    \o Joined(Descending({k[1] : k \in DOMAIN aris}), LAMBDA e : AriLine(aris, e))
    \o Separator \o <<NewLine>>
    \o Joined(Ascending(DOMAIN nashis), LAMBDA e : NashiLine(nashis, e)))

-----------------------------------------------------------------------------
(* t_lexer::f_next, with v_c at i.  What is read of a line that ends before *)
(* a text does is still a text.                                            *)
Text(cs, i, stops) ==
  LET read[k \in Nat] ==
        LET j == IF Char(cs, k) = Backslash THEN k + 1 ELSE k
        IN CASE Char(cs, k) \in stops           -> [text |-> <<>>, end |-> k]
             [] Char(cs, j) \in {EOF, NewLine} -> [text |-> <<>>, end |-> j]
             [] OTHER -> LET r == read[j + 1] IN [r EXCEPT !.text = <<cs[j]>> \o @]
  IN read[i]

Token(cs, i) ==
  LET c    == Char(cs, i + 1)
      kind == CASE c = Open -> "BEGIN" [] c = Close -> "END" [] OTHER -> "TEXT"
      text == Text(cs, IF kind = "TEXT" THEN i + 1 ELSE i + 2, {Slash, Semicolon})
  IN CASE Char(cs, i) # Slash   -> [kind |-> "NONE", end |-> i]
       [] c \in {EOF, NewLine} -> [kind |-> "NONE", end |-> i + 1]
       [] OTHER -> [kind |-> kind, text |-> text.text,
                    end |-> IF Char(cs, text.end) = Semicolon
                            THEN Text(cs, text.end + 1, {Slash}).end ELSE text.end]

(* All tokens of the given kinds, and where the first other one ends. *)
Tokens(cs, i, kinds) ==
  LET read[k \in Nat] ==
        LET token == Token(cs, k) IN
        IF token.kind \notin kinds THEN [tokens |-> <<>>, end |-> token.end]
        ELSE LET r == read[token.end] IN [r EXCEPT !.tokens = <<token>> \o @]
  IN read[i]

Texts(tokens) == [k \in DOMAIN tokens |-> tokens[k].text]

-----------------------------------------------------------------------------
(* f_seek(): where the entries begin, or 0. *)
Body(file) ==
  LET line  == Header \o <<NewLine>>
      heads == {p \in 0..Len(file) - Len(line) :
                  /\ SubSeq(file, p + 1, p + Len(line)) = line
                  /\ p = 0 \/ file[p] = NewLine}
  IN IF heads = {} THEN 0 ELSE Min(heads) + Len(line)

(* Where the key of the line behind p ends. *)
KeyEnd(cs, p) ==
  LET end[k \in Nat] ==
        IF Char(cs, k) \in {Space, NewLine, EOF} THEN k ELSE end[k + 1]
  IN end[p + 1]

(* The loops of f_load: the lines with a key, and where they end. *)
Entries(cs, i, kinds, last) ==
  LET read[k \in Nat] ==
        LET e      == KeyEnd(cs, k - 1)
            tokens == Tokens(cs, e + 1, kinds)
            r      == read[tokens.end + 1]
        IN CASE Char(cs, k) \in {EOF, last} -> [lines |-> <<>>, end |-> k]
             [] Char(cs, k) \notin {EOF, last} /\ Char(cs, e) # Space -> read[e + 1]
             [] OTHER -> [r EXCEPT !.lines =
                            <<[entry |-> SubSeq(cs, k, e - 1),
                               tokens |-> tokens.tokens]>> \o @]
  IN read[i]

Emplaced(map, key) == IF key \in DOMAIN map THEN map ELSE (key :> <<>>) @@ map
Appended(map, key, texts) == [Emplaced(map, key) EXCEPT ![key] = @ \o texts]

AriMap(lines) ==
  LET Take(entry, loaded, token) ==
        LET key == CASE token.kind = "TEXT"  -> loaded.key
                     [] token.kind = "BEGIN" -> <<entry, token.text>>
                     [] token.kind = "END"   -> <<entry, <<>>>>
        IN [key |-> key,
            map |-> Appended(loaded.map, key,
                             IF token.kind = "TEXT" THEN <<token.text>> ELSE <<>>)]
      Line(map, line) ==
        FoldLeft(LAMBDA loaded, token : Take(line.entry, loaded, token),
                 [key |-> <<line.entry, <<>>>>,
                  map |-> Emplaced(map, <<line.entry, <<>>>>)],
                 line.tokens).map
  IN FoldLeft(Line, Nothing, lines)

NashiMap(lines) ==
  FoldLeft(LAMBDA map, line : Appended(map, line.entry, Texts(line.tokens)),
           Nothing, lines)

(* f_load. *)
Loaded(file) ==
  LET cs    == DecoderOutput(file, Body(file))
      first == Entries(cs, 1, {"TEXT", "BEGIN", "END"}, Semicolon)
      rest  == Entries(cs, Skip([file |-> cs], first.end) + 1, {"TEXT"}, EOF)
  IN IF Body(file) = 0 THEN [aris |-> Nothing, nashis |-> Nothing]
     ELSE [aris |-> AriMap(first.lines), nashis |-> NashiMap(rest.lines)]

-----------------------------------------------------------------------------
(* t_compare_nashi::f_compare, for the line behind p. *)
Byte(s, p, k) == Char(s.file, p + k)

Difference(s, p) ==
  LET D == {k \in 1..Len(s.key) : Byte(s, p, k) # s.key[k]}
  IN IF D = {} THEN Len(s.key) + 1 ELSE Min(D)

Compare(s, p) ==
  LET k == Difference(s, p)
      a == Byte(s, p, k)
  IN CASE k > Len(s.key) -> IF a = Space THEN 0 ELSE 1
       [] k <= Len(s.key) /\ a = EOF   -> 1
       [] k <= Len(s.key) /\ a = Space -> -1
       [] OTHER -> a - s.key[k]

(* t_compare_separator. *)
IsSeparator(cs, p) ==
  LET e == KeyEnd(cs, p) IN Char(cs, e) = Space /\ Char(cs, e + 1) # Slash

BeyondSeparator(s, p) ==
  LET cs == s.file
      q  == Skip(s, KeyEnd(cs, p))
      Key(k) == SubSeq(cs, k + 1, KeyEnd(cs, k) - 1)
      HasKey(k) == Char(cs, KeyEnd(cs, k)) = Space
  IN \/ ~HasKey(p)
     \/ /\ ~IsSeparator(cs, p)
        /\ \/ ~HasKey(q)
           \/ ~IsSeparator(cs, q) /\ Before(Key(p), Key(q))

EqualLine(s, p) ==
  IF s.kind = "separator" THEN IsSeparator(s.file, p) ELSE Compare(s, p) = 0

GreaterLine(s, p) ==
  CASE s.kind = "separator" -> BeyondSeparator(s, p)
    [] s.kind = "ari"       -> Compare(s, p) < 0
    [] s.kind = "nasi"      -> Compare(s, p) > 0

StopLine(s, p) ==
  p + IF s.kind = "separator" THEN KeyEnd(s.file, p) - p + 1 ELSE Difference(s, p)

-----------------------------------------------------------------------------
(* A public dictionary: its entries in order, with annotations. *)
PublicLine(map, entry) ==
  entry \o <<Space>>
  \o Joined(map[entry], LAMBDA x : <<Slash>> \o Escaped(x) \o <<Semicolon, 120>>)
  \o <<Slash, NewLine>>

PublicFile(c) ==
  IF c = Missing THEN <<>>
  ELSE Encoded(
    <<Semicolon, 120, NewLine>> \o Header \o <<NewLine>>
    \o Joined(Descending(DOMAIN c.aris), LAMBDA e : PublicLine(c.aris, e))
    \o Separator \o <<NewLine>>
    \o Joined(Ascending(DOMAIN c.nasis), LAMBDA e : PublicLine(c.nasis, e)))

(* The searches of f_seek(a_entry, ...), the second once the separator is  *)
(* found at p.                                                             *)
SeparatorSearch(file) ==
  [kind |-> "separator", key |-> <<>>, file |-> file, from |-> Body(file),
   to |-> IF Body(file) = 0 THEN 0 ELSE Len(file)]

EntrySearch(q, s, p) ==
  LET key == Converted(q.entry) IN
  IF q.ari
  THEN [kind |-> "ari", key |-> key, file |-> s.file,
        from |-> s.from, to |-> StopLine(s, p) - 1]
  ELSE [kind |-> "nasi", key |-> key, file |-> s.file,
        from |-> Skip(s, StopLine(s, p)), to |-> s.to]

(* f_add, and f_put. *)
Added(texts) ==
  LET New(k) == texts[k] # <<>> /\ \A j \in 1..k - 1 : texts[j] # texts[k]
  IN FlattenSeq([k \in DOMAIN texts |-> IF New(k) THEN <<texts[k]>> ELSE <<>>])

Placed(map, key, text) ==
  [Emplaced(map, key) EXCEPT ![key] = <<text>> \o SelectSeq(@, LAMBDA x : x # text)]

Get(map, key) == IF key \in DOMAIN map THEN map[key] ELSE <<>>

PrivateTexts(q) ==
  IF q.ari THEN Get(aris, <<q.entry, q.okuri>>) \o Get(aris, <<q.entry, <<>>>>)
  ELSE Get(nashis, q.entry)

PublicEntry ==
  IF at = "absent" THEN <<>> ELSE DecoderOutput(search.file, StopLine(search, low))
PublicTexts(cs) == Texts(Tokens(cs, 1, {"TEXT"}).tokens)

-----------------------------------------------------------------------------
Init ==
  /\ contents \in PublicContents
  /\ search = SeparatorSearch(PublicFile(contents))
  /\ low = search.from /\ high = search.to /\ at = "halving"
  /\ aris = Nothing /\ nashis = Nothing /\ disk = <<>>
  /\ running = TRUE
  /\ asked = {} /\ answer = NoAnswer
  /\ history = <<>> /\ saved = <<>>

Idle == running /\ asked = {}

(* f_register. *)
Register(r) ==
  /\ Idle /\ Len(history) < MaxRegistered
  /\ IF r.ari
     THEN /\ aris' = Placed(Placed(aris, <<r.entry, <<>>>>, r.text),
                            <<r.entry, r.okuri>>, r.text)
          /\ UNCHANGED nashis
     ELSE nashis' = Placed(nashis, r.entry, r.text) /\ UNCHANGED aris
  /\ history' = <<r>> \o history
  /\ answer' = NoAnswer
  /\ UNCHANGED <<seekVars, contents, disk, running, asked, saved>>

(* f_search: first what is in memory, then the search of the file. *)
Ask(q) ==
  /\ Idle
  /\ asked' = {q} /\ answer' = [to |-> {}, texts |-> PrivateTexts(q)]
  /\ UNCHANGED <<seekVars, contents, aris, nashis, disk, running, history, saved>>

Seek == asked # {} /\ SeekStep /\ UNCHANGED dictionaryVars

SeekEntry ==
  /\ search.kind = "separator" /\ at = "found"
  /\ \E q \in asked : Start(EntrySearch(q, search, low))
  /\ UNCHANGED dictionaryVars

Answer ==
  /\ asked # {}
  /\ at = "absent" \/ (at = "found" /\ search.kind # "separator")
  /\ \E texts \in {answer.texts \o PublicTexts(cs) : cs \in {PublicEntry}} :
       answer' = [to |-> asked, texts |-> Added(texts)]
  /\ asked' = {}
  /\ Start(SeparatorSearch(search.file))
  /\ UNCHANGED <<contents, aris, nashis, disk, running, history, saved>>

(* The process exits and saves, is killed, and is started. *)
Gone ==
  /\ running' = FALSE
  /\ aris' = Nothing /\ nashis' = Nothing
  /\ asked' = {} /\ answer' = NoAnswer
  /\ Start(SeparatorSearch(search.file))
  /\ UNCHANGED contents

Exit == Idle /\ disk' = Saved /\ saved' = history /\ Gone /\ UNCHANGED history

Crash == running /\ Gone /\ history' = saved /\ UNCHANGED <<disk, saved>>

StartUp ==
  /\ ~running /\ running' = TRUE
  /\ aris' = Loaded(disk).aris /\ nashis' = Loaded(disk).nashis
  /\ UNCHANGED <<seekVars, contents, disk, asked, answer, history, saved>>

Next ==
  \/ \E r \in Registrations : Register(r)
  \/ \E q \in Questions : Ask(q)
  \/ Seek \/ SeekEntry \/ Answer
  \/ Exit \/ Crash \/ StartUp

(* A search does not wait for anything. *)
Spec == Init /\ [][Next]_vars /\ WF_vars(Seek \/ SeekEntry \/ Answer)

-----------------------------------------------------------------------------
(* What was registered that answers q, the last first: with its okuri, and  *)
(* with any.                                                               *)
Registered(q) ==
  LET Of(Test(_)) ==
        LET rs == SelectSeq(history, Test) IN [k \in DOMAIN rs |-> rs[k].text]
      Same(r) == r.ari = q.ari /\ r.entry = q.entry
  IN Of(LAMBDA r : Same(r) /\ r.okuri = q.okuri) \o Of(Same)

Published(q) == Get(IF q.ari THEN contents.aris ELSE contents.nasis, q.entry)

(* A search finds what was registered and not lost, the last first, then    *)
(* what is public, each text once: however often it was registered, through *)
(* every exit and start, and wherever a buffer ends within the files.      *)
Answers ==
  \A q \in answer.to :
    LET all == Registered(q) \o Published(q) IN
    /\ IsInjective(answer.texts)
    /\ Range(answer.texts) = Range(all)
    /\ \A i, j \in DOMAIN answer.texts : i < j =>
         \E n \in DOMAIN all :
           /\ all[n] = answer.texts[i]
           /\ \A m \in 1..n : all[m] # answer.texts[j]

(* Every search ends. *)
Terminates == asked # {} ~> asked = {}
=============================================================================
