---------------------------- MODULE EngineProofs ----------------------------
(***************************************************************************)
(* Proofs about Engine, for anything the dictionary finds and any bounds.  *)
(*                                                                         *)
(* The invariant says that there are texts the engine is made of: b, the   *)
(* part of the buffer that belongs to the states below the top one; t, n,  *)
(* l and k, the top state's text, entry, okuri letter and okuri kana; and  *)
(* m, the romaji.  The buffer is these joined, the states hold their       *)
(* lengths, and what is shown is them with their attributes, the candidate *)
(* in the place of the entry (Stands, Holds); low is the stack below the   *)
(* top state, and q what the dictionary was asked for it.  A lemma about   *)
(* a function of the engine says which texts it makes of these; one about  *)
(* a mode, what a key does in it.                                          *)
(***************************************************************************)
EXTENDS Engine, SequenceTheorems, TLAPS

(* The characters of the buffer, and what is shown: characters, with an    *)
(* attribute each.                                                         *)
Chars == Printable \cup {"kana", "word"}
Texts == Seq(Chars)
Marks == {"text", "entry", "candidate", "okuri", "roman"}
Cells == [c : Chars, a : Marks]
Views == Seq(Cells)

(* The operators on sequences, which most proofs know by the lemmas of the *)
(* next section only.                                                      *)
x \bullet y == x \o y
Size(s) == Len(s)
Cut(s, i, j) == SubSeq(s, i, j)
Nothing == <<>>

-----------------------------------------------------------------------------
(* Sequences of any kind, and their parts. *)
LEMMA SequenceFacts ==
  ASSUME NEW S
  PROVE  /\ <<>> \in Seq(S)
         /\ \A a \in Seq(S) : /\ Len(a) \in Nat /\ (Len(a) = 0 <=> a = <<>>)
                              /\ a \o <<>> = a /\ <<>> \o a = a
         /\ \A a, b \in Seq(S) : a \o b \in Seq(S) /\ Len(a \o b) = Len(a) + Len(b)
<1>1. \A a \in Seq(S) : Len(a) \in Nat /\ (Len(a) = 0 <=> a = <<>>) /\ a \o <<>> = a /\ <<>> \o a = a
  OBVIOUS
<1>2. \A a, b \in Seq(S) : a \o b \in Seq(S) /\ Len(a \o b) = Len(a) + Len(b)
  OBVIOUS
<1>3. QED  BY <1>1, <1>2

(* The parts of two or three sequences joined. *)
LEMMA SequenceCuts ==
  ASSUME NEW S
  PROVE  /\ \A a, b \in Seq(S) : /\ SubSeq(a \o b, 1, Len(a)) = a
                                 /\ SubSeq(a \o b, Len(a) + 1, Len(a) + Len(b)) = b
         /\ \A a, b, c \in Seq(S) : SubSeq(a \o (b \o c), Len(a) + 1, Len(a) + Len(b)) = b
<1>1. ASSUME NEW a \in Seq(S), NEW b \in Seq(S)
      PROVE  SubSeq(a \o b, 1, Len(a)) = a
  OBVIOUS
<1>2. ASSUME NEW a \in Seq(S), NEW b \in Seq(S)
      PROVE  SubSeq(a \o b, Len(a) + 1, Len(a) + Len(b)) = b
  OBVIOUS
<1>3. ASSUME NEW a \in Seq(S), NEW b \in Seq(S), NEW c \in Seq(S)
      PROVE  SubSeq(a \o (b \o c), Len(a) + 1, Len(a) + Len(b)) = b
  OBVIOUS
<1>4. QED  BY <1>1, <1>2, <1>3

(* Texts joined are a text, whichever are joined first. *)
LEMMA TextJoin ==
  /\ \A a, b : a \in Texts /\ b \in Texts => a \bullet b \in Texts
  /\ \A a, b, c : a \in Texts /\ b \in Texts /\ c \in Texts =>
       (a \bullet b) \bullet c = a \bullet (b \bullet c)
<1>1. \A a, b, c \in Texts : (a \bullet b) \bullet c = a \bullet (b \bullet c)
  BY ConcatAssociative DEF \bullet, Texts
<1>2. \A a, b \in Texts : a \bullet b \in Texts
  BY SequenceFacts DEF \bullet, Texts
<1>3. \A a, b, c : a \in Texts /\ b \in Texts /\ c \in Texts =>
        (a \bullet b) \bullet c = a \bullet (b \bullet c)
  BY <1>1
<1>4. \A a, b : a \in Texts /\ b \in Texts => a \bullet b \in Texts
  BY <1>2
<1>5. QED  BY <1>3, <1>4

(* The empty text. *)
LEMMA TextUnit ==
  /\ Nothing \in Texts
  /\ \A a : a \in Texts => a \bullet Nothing = a
  /\ \A a : a \in Texts => Nothing \bullet a = a
BY SequenceFacts DEF \bullet, Nothing, Texts

(* The length of a text. *)
LEMMA TextSize ==
  /\ Size(Nothing) = 0
  /\ \A a : a \in Texts => Size(a) \in Nat
  /\ \A a : a \in Texts => (Size(a) = 0 <=> a = Nothing)
  /\ \A a, b : a \in Texts /\ b \in Texts => Size(a \bullet b) = Size(a) + Size(b)
<1>1. \A a \in Texts : Size(a) \in Nat /\ (Size(a) = 0 <=> a = Nothing)
  BY SequenceFacts DEF Size, Nothing, Texts
<1>2. \A a, b \in Texts : Size(a \bullet b) = Size(a) + Size(b)
  BY SequenceFacts DEF \bullet, Size, Texts
<1>3. Nothing \in Texts
  BY TextUnit
<1>4. QED  BY <1>1, <1>2, <1>3

(* The two parts of two texts joined. *)
LEMMA TextCut ==
  /\ \A a, b : a \in Texts /\ b \in Texts => Cut(a \bullet b, 1, Size(a)) = a
  /\ \A a, b : a \in Texts /\ b \in Texts =>
       Cut(a \bullet b, Size(a) + 1, Size(a \bullet b)) = b
<1>1. \A a, b \in Texts : Size(a \bullet b) = Size(a) + Size(b)
  BY TextSize
<1>2. \A a, b \in Texts : Cut(a \bullet b, 1, Size(a)) = a
  BY SequenceCuts DEF \bullet, Size, Cut, Texts
<1>3. \A a, b \in Texts : Cut(a \bullet b, Size(a) + 1, Size(a) + Size(b)) = b
  BY SequenceCuts DEF \bullet, Size, Cut, Texts
<1>4. QED  BY <1>1, <1>2, <1>3

(* The same four, of what is shown. *)
LEMMA ViewJoin ==
  /\ \A a, b : a \in Views /\ b \in Views => a \bullet b \in Views
  /\ \A a, b, c : a \in Views /\ b \in Views /\ c \in Views =>
       (a \bullet b) \bullet c = a \bullet (b \bullet c)
<1>1. \A a, b, c \in Views : (a \bullet b) \bullet c = a \bullet (b \bullet c)
  BY ConcatAssociative DEF \bullet, Views
<1>2. \A a, b \in Views : a \bullet b \in Views
  BY SequenceFacts DEF \bullet, Views
<1>3. \A a, b, c : a \in Views /\ b \in Views /\ c \in Views =>
        (a \bullet b) \bullet c = a \bullet (b \bullet c)
  BY <1>1
<1>4. \A a, b : a \in Views /\ b \in Views => a \bullet b \in Views
  BY <1>2
<1>5. QED  BY <1>3, <1>4

(* The empty view. *)
LEMMA ViewUnit ==
  /\ Nothing \in Views
  /\ \A a : a \in Views => a \bullet Nothing = a
  /\ \A a : a \in Views => Nothing \bullet a = a
BY SequenceFacts DEF \bullet, Nothing, Views

(* The length of a view. *)
LEMMA ViewSize ==
  /\ Size(Nothing) = 0
  /\ \A a : a \in Views => Size(a) \in Nat
  /\ \A a : a \in Views => (Size(a) = 0 <=> a = Nothing)
  /\ \A a, b : a \in Views /\ b \in Views => Size(a \bullet b) = Size(a) + Size(b)
<1>1. \A a \in Views : Size(a) \in Nat /\ (Size(a) = 0 <=> a = Nothing)
  BY SequenceFacts DEF Size, Nothing, Views
<1>2. \A a, b \in Views : Size(a \bullet b) = Size(a) + Size(b)
  BY SequenceFacts DEF \bullet, Size, Views
<1>3. Nothing \in Views
  BY ViewUnit
<1>4. QED  BY <1>1, <1>2, <1>3

(* The two parts of two views joined. *)
LEMMA ViewCut ==
  /\ \A a, b : a \in Views /\ b \in Views => Cut(a \bullet b, 1, Size(a)) = a
  /\ \A a, b : a \in Views /\ b \in Views =>
       Cut(a \bullet b, Size(a) + 1, Size(a \bullet b)) = b
<1>1. \A a, b \in Views : Size(a \bullet b) = Size(a) + Size(b)
  BY ViewSize
<1>2. \A a, b \in Views : Cut(a \bullet b, 1, Size(a)) = a
  BY SequenceCuts DEF \bullet, Size, Cut, Views
<1>3. \A a, b \in Views : Cut(a \bullet b, Size(a) + 1, Size(a) + Size(b)) = b
  BY SequenceCuts DEF \bullet, Size, Cut, Views
<1>4. QED  BY <1>1, <1>2, <1>3

(* The middle one of three texts joined. *)
LEMMA TextMiddle ==
  \A a, b, c : a \in Texts /\ b \in Texts /\ c \in Texts =>
    Cut(a \bullet (b \bullet c), Size(a) + 1, Size(a) + Size(b)) = b
BY SequenceCuts DEF \bullet, Size, Cut, Texts

(* A character added to a text is one joined to it; a text that is not     *)
(* empty is the one without its last character and that character.         *)
LEMMA TextEnds ==
  /\ \A c \in Chars : <<c>> \in Texts /\ Size(<<c>>) = 1
  /\ \A a \in Texts, c \in Chars : Append(a, c) = a \bullet <<c>>
  /\ \A a \in Texts : a # Nothing => \E f \in Texts, c \in Chars : a = f \bullet <<c>>
<1>1. \A c \in Chars : <<c>> \in Texts /\ Size(<<c>>) = 1
  BY DEF Texts, Size, Nothing
<1>2. \A a \in Texts, c \in Chars : Append(a, c) = a \bullet <<c>>
  BY DEF Texts, \bullet, Size, Cut, Nothing
<1>3. ASSUME NEW a \in Texts, a # Nothing
      PROVE  \E f \in Texts, c \in Chars : a = f \bullet <<c>>
  <2>1. Size(a) \in Nat \ {0} /\ a[Size(a)] \in Chars
    BY <1>3 DEF Texts, Size, Nothing
  <2>2. Cut(a, 1, Size(a) - 1) \in Texts
    BY <2>1 DEF Texts, Size, Cut
  <2>3. a = Cut(a, 1, Size(a) - 1) \bullet <<a[Size(a)]>>
    BY <2>1, <2>2 DEF Texts, \bullet, Size, Cut, Nothing
  <2>4. QED  BY <2>1, <2>2, <2>3
<1>4. QED  BY <1>1, <1>2, <1>3

(* A text with an attribute. *)
LEMMA AsFacts ==
  /\ \A a \in Texts, x \in Marks : As(a, x) \in Views /\ Size(As(a, x)) = Size(a)
  /\ \A x \in Marks : As(Nothing, x) = Nothing
<1>1. ASSUME NEW a \in Texts, NEW x \in Marks
      PROVE  As(a, x) \in Views /\ Size(As(a, x)) = Size(a)
  <2>1. DOMAIN a = 1..Size(a) /\ Size(a) \in Nat /\ \A i \in 1..Size(a) : a[i] \in Chars
    BY DEF Texts, Size, Nothing
  <2>2. As(a, x) = [i \in 1..Size(a) |-> [c |-> a[i], a |-> x]]
    BY <2>1 DEF As, Size
  <2>3. \A i \in 1..Size(a) : [c |-> a[i], a |-> x] \in Cells
    BY <2>1 DEF Cells
  <2>4. QED  BY <2>1, <2>2, <2>3 DEF Views, Size
<1>2. ASSUME NEW x \in Marks
      PROVE  As(Nothing, x) = Nothing
  <2>1. Size(Nothing) = 0 /\ Nothing \in Texts
    BY TextUnit, TextSize
  <2>2. QED  BY <1>1, <2>1, ViewSize
<1>3. QED  BY <1>1, <1>2

(* Texts joined are given an attribute one by one. *)
LEMMA AsJoin ==
  \A a, b \in Texts, x \in Marks : As(a \bullet b, x) = As(a, x) \bullet As(b, x)
<1> SUFFICES ASSUME NEW a \in Texts, NEW b \in Texts, NEW x \in Marks
             PROVE  As(a \bullet b, x) = As(a, x) \bullet As(b, x)
  OBVIOUS
<1>1. a \bullet b \in Texts /\ Size(a \bullet b) = Size(a) + Size(b) /\ Size(a) \in Nat /\ Size(b) \in Nat
  BY TextJoin, TextSize
<1>2. /\ As(a, x) \in Views /\ Size(As(a, x)) = Size(a)
      /\ As(b, x) \in Views /\ Size(As(b, x)) = Size(b)
      /\ As(a \bullet b, x) \in Views /\ Size(As(a \bullet b, x)) = Size(a) + Size(b)
  BY <1>1, AsFacts
<1>3. As(a, x) \bullet As(b, x) \in Views /\ Size(As(a, x) \bullet As(b, x)) = Size(a) + Size(b)
  BY <1>2, ViewJoin, ViewSize
<1>4. ASSUME NEW i \in 1..(Size(a) + Size(b))
      PROVE  As(a \bullet b, x)[i] = (As(a, x) \bullet As(b, x))[i]
  <2>1. As(a \bullet b, x)[i] = [c |-> (a \bullet b)[i], a |-> x]
    BY <1>1 DEF As, Texts, \bullet, Size
  <2>2. CASE i <= Size(a)
    <3>1. (a \bullet b)[i] = a[i] /\ As(a, x)[i] = [c |-> a[i], a |-> x]
      BY <1>1, <2>2 DEF As, Texts, \bullet, Size
    <3>2. (As(a, x) \bullet As(b, x))[i] = As(a, x)[i]
      BY <1>1, <1>2, <2>2 DEF Views, \bullet, Size
    <3>3. QED  BY <2>1, <3>1, <3>2
  <2>3. CASE ~(i <= Size(a))
    <3>1. i - Size(a) \in 1..Size(b) /\ i > Size(a)
      BY <1>1, <2>3
    <3>2. (a \bullet b)[i] = b[i - Size(a)] /\ As(b, x)[i - Size(a)] = [c |-> b[i - Size(a)], a |-> x]
      BY <1>1, <3>1 DEF As, Texts, \bullet, Size
    <3>3. (As(a, x) \bullet As(b, x))[i] = As(b, x)[i - Size(a)]
      BY <1>1, <1>2, <3>1 DEF Views, \bullet, Size
    <3>4. QED  BY <2>1, <3>2, <3>3
  <2>4. QED  BY <2>2, <2>3
<1>5. QED  BY <1>1, <1>2, <1>3, <1>4 DEF Views, Size

-----------------------------------------------------------------------------
(* The parts of the buffer: what is below the top state, its text, its     *)
(* entry, the letter and the kana of its okuri, and the romaji.            *)
Whole(b, t, n, l, k, m) == b \bullet (t \bullet (n \bullet (l \bullet (k \bullet m))))

AreParts(b, t, n, l, k, m) ==
  /\ b \in Texts /\ t \in Texts /\ n \in Texts
  /\ l \in Texts /\ k \in Texts /\ m \in Texts
  /\ Size(l) \in {0, 1} /\ (l = Nothing => k = Nothing)

(* ... and what the engine's cuts of the buffer are. *)
LEMMA PartsCut ==
  ASSUME NEW b, NEW t, NEW n, NEW l, NEW k, NEW m, AreParts(b, t, n, l, k, m),
         NEW w, w = Whole(b, t, n, l, k, m)
  PROVE  /\ w \in Texts
         /\ Size(b) \in Nat /\ Size(t) \in Nat /\ Size(n) \in Nat
         /\ Size(l) \in Nat /\ Size(k) \in Nat /\ Size(m) \in Nat
         /\ Size(w) = Size(b) + Size(t) + Size(n) + Size(l) + Size(k) + Size(m)
         /\ Cut(w, 1, Size(b)) = b
         /\ Cut(w, 1, Size(b) + Size(t)) = b \bullet t
         /\ Cut(w, 1, Size(b) + Size(t) + Size(n)) = b \bullet (t \bullet n)
         /\ Cut(w, 1, Size(b) + Size(t) + Size(n) + Size(l) + Size(k)) = b \bullet (t \bullet (n \bullet (l \bullet k)))
         /\ Cut(w, Size(b) + 1, Size(b) + Size(t)) = t
         /\ Cut(w, Size(b) + Size(t) + 1, Size(b) + Size(t) + Size(n)) = n
         /\ Cut(w, Size(b) + Size(t) + Size(n) + 1, Size(b) + Size(t) + Size(n) + Size(l) + Size(k)) = l \bullet k
         /\ Cut(w, Size(b) + Size(t) + Size(n) + Size(l) + 1,
                      Size(b) + Size(t) + Size(n) + Size(l) + Size(k)) = k
         /\ Cut(w, Size(b) + Size(t) + 1, Size(w)) = n \bullet (l \bullet (k \bullet m))
         /\ Cut(w, Size(b) + Size(t) + Size(n) + 1, Size(w)) = l \bullet (k \bullet m)
         /\ Cut(w, Size(b) + Size(t) + Size(n) + Size(l) + 1, Size(w)) = k \bullet m
         /\ Cut(w, Size(b) + Size(t) + Size(n) + Size(l) + Size(k) + 1, Size(w)) = m
         /\ Cut(w, Size(b) + 1, Size(w)) = t \bullet (n \bullet (l \bullet (k \bullet m)))
<1> DEFINE km == k \bullet m
           lkm == l \bullet km
           nlkm == n \bullet lkm
           tnlkm == t \bullet nlkm
           lk == l \bullet k
           bt == b \bullet t
           btn == b \bullet (t \bullet n)
           btnl == b \bullet (t \bullet (n \bullet l))
           btnlk == b \bullet (t \bullet (n \bullet lk))
<1> b \in Texts /\ t \in Texts /\ n \in Texts /\ l \in Texts /\ k \in Texts /\ m \in Texts
  BY DEF AreParts
<1>1. w = b \bullet tnlkm /\ b \in Texts /\ tnlkm \in Texts
  BY TextJoin DEF Whole
<1>2. w = bt \bullet nlkm /\ bt \in Texts /\ nlkm \in Texts
  BY TextJoin DEF Whole
<1>3. w = btn \bullet lkm /\ btn \in Texts /\ lkm \in Texts
  BY TextJoin DEF Whole
<1>4. w = btnl \bullet km /\ btnl \in Texts /\ km \in Texts
  BY TextJoin DEF Whole
<1>5. w = btnlk \bullet m /\ btnlk \in Texts
  BY TextJoin DEF Whole
<1>6. w = btn \bullet (lk \bullet m) /\ lk \in Texts
  BY TextJoin DEF Whole
<1>7. /\ Size(b) \in Nat /\ Size(t) \in Nat /\ Size(n) \in Nat
      /\ Size(l) \in Nat /\ Size(k) \in Nat /\ Size(m) \in Nat
      /\ Size(bt) = Size(b) + Size(t)
      /\ Size(btn) = Size(b) + Size(t) + Size(n)
      /\ Size(btnl) = Size(b) + Size(t) + Size(n) + Size(l)
      /\ Size(btnlk) = Size(b) + Size(t) + Size(n) + Size(l) + Size(k)
      /\ Size(lk) = Size(l) + Size(k)
      /\ Size(w) = Size(b) + Size(t) + Size(n) + Size(l) + Size(k) + Size(m)
      /\ w \in Texts
  BY TextJoin, TextSize DEF Whole
<1>8. w = bt \bullet (n \bullet lkm) /\ w = b \bullet (t \bullet nlkm) /\ w = btnl \bullet (k \bullet m)
  BY <1>1, <1>2, <1>4
<1> HIDE DEF km, lkm, nlkm, tnlkm, lk, bt, btn, btnl, btnlk
<1>9. Cut(w, 1, Size(b)) = b /\ Cut(w, Size(b) + 1, Size(w)) = tnlkm
  BY <1>1, TextCut
<1>10. Cut(w, 1, Size(bt)) = bt /\ Cut(w, Size(bt) + 1, Size(w)) = nlkm
  BY <1>2, TextCut
<1>11. Cut(w, 1, Size(btn)) = btn /\ Cut(w, Size(btn) + 1, Size(w)) = lkm
  BY <1>3, TextCut
<1>12. Cut(w, 1, Size(btnl)) = btnl /\ Cut(w, Size(btnl) + 1, Size(w)) = km
  BY <1>4, TextCut
<1>13. Cut(w, 1, Size(btnlk)) = btnlk /\ Cut(w, Size(btnlk) + 1, Size(w)) = m
  BY <1>5, TextCut
<1>14. Cut(w, Size(b) + 1, Size(b) + Size(t)) = t
  <2>1. w = b \bullet (t \bullet nlkm) /\ nlkm \in Texts
    BY <1>2, <1>8
  <2>2. QED  BY <2>1, TextMiddle
<1>15. Cut(w, Size(bt) + 1, Size(bt) + Size(n)) = n
  <2>1. w = bt \bullet (n \bullet lkm) /\ lkm \in Texts /\ bt \in Texts
    BY <1>2, <1>3, <1>8
  <2>2. QED  BY <2>1, TextMiddle
<1>16. Cut(w, Size(btn) + 1, Size(btn) + Size(lk)) = lk
  <2>1. w = btn \bullet (lk \bullet m) /\ lk \in Texts /\ btn \in Texts
    BY <1>3, <1>6
  <2>2. QED  BY <2>1, TextMiddle
<1>17. Cut(w, Size(btnl) + 1, Size(btnl) + Size(k)) = k
  <2>1. w = btnl \bullet (k \bullet m) /\ btnl \in Texts
    BY <1>4, <1>8
  <2>2. QED  BY <2>1, TextMiddle
<1>18. Size(btn) + Size(lk) = Size(b) + Size(t) + Size(n) + Size(l) + Size(k)
  BY <1>7
<1>19. QED
  BY <1>7, <1>9, <1>10, <1>11, <1>12, <1>13, <1>14, <1>15, <1>16, <1>17, <1>18
     DEF km, lkm, nlkm, tnlkm, lk, bt, btn, btnl, btnlk

-----------------------------------------------------------------------------
(* The engine and its stack. *)
Fields == {"mode", "buffer", "map", "states", "candidates", "chosen", "view",
           "sent", "learned", "undefined"}
States == [base : Nat, text : Nat, entry : Nat, okuri : Nat, asked : Seq(Texts)]
Stacks == Seq(States)
Push(low, s) == Append(low, s)

Queries == Seq(Texts)
IsEngine(e) == DOMAIN e = Fields /\ ~e.undefined
NoChoice(e) == e.candidates = <<>>

StateOf(b, t, n, o, q) ==
  [base |-> Size(b), text |-> Size(t), entry |-> Size(n), okuri |-> Size(o), asked |-> q]

(* What a push on the stack gives, and how its top is changed or popped. *)
LEMMA Pushed ==
  ASSUME NEW low \in Stacks, NEW s \in States
  PROVE  /\ Push(low, s) \in Stacks /\ Size(Push(low, s)) = Size(low) + 1
         /\ Size(low) \in Nat /\ (Size(low) = 0 <=> low = Nothing)
         /\ Push(low, s)[Size(low) + 1] = s
         /\ \A i \in 1..Size(low) : Push(low, s)[i] = low[i]
         /\ Cut(Push(low, s), 1, Size(low)) = low
         /\ \A z \in States : [Push(low, s) EXCEPT ![Size(low) + 1] = z] = Push(low, z)
<1>1. /\ Len(low) \in Nat /\ (Len(low) = 0 <=> low = <<>>)
      /\ Append(low, s) \in Seq(States) /\ Len(Append(low, s)) = Len(low) + 1
      /\ Append(low, s)[Len(low) + 1] = s
      /\ \A i \in 1..Len(low) : Append(low, s)[i] = low[i]
  BY DEF Stacks
<1>2. SubSeq(Append(low, s), 1, Len(low)) = low
  BY <1>1 DEF Stacks
<1>3. ASSUME NEW z \in States
      PROVE  [Append(low, s) EXCEPT ![Len(low) + 1] = z] = Append(low, z)
  <2> DEFINE as == Append(low, s)
             az == Append(low, z)
  <2>1. /\ az \in Seq(States) /\ Len(az) = Len(low) + 1 /\ az[Len(low) + 1] = z
        /\ \A i \in 1..Len(low) : az[i] = low[i]
    BY <1>1 DEF Stacks
  <2>2. as \in Seq(States) /\ Len(as) = Len(low) + 1 /\ \A i \in 1..Len(low) : as[i] = low[i]
    BY <1>1
  <2> HIDE DEF as, az
  <2>3. DOMAIN as = 1..(Len(low) + 1) /\ DOMAIN az = 1..(Len(low) + 1)
    BY <1>1, <2>1, <2>2
  <2>4. [as EXCEPT ![Len(low) + 1] = z] =
          [i \in 1..(Len(low) + 1) |-> IF i = Len(low) + 1 THEN z ELSE as[i]]
    BY <2>3
  <2>5. ASSUME NEW i \in 1..(Len(low) + 1)
        PROVE  (IF i = Len(low) + 1 THEN z ELSE as[i]) = az[i]
    <3>1. CASE i = Len(low) + 1
      BY <2>1, <3>1
    <3>2. CASE i # Len(low) + 1
      <4>1. i \in 1..Len(low)
        BY <1>1, <3>2
      <4>2. QED  BY <2>1, <2>2, <3>2, <4>1
    <3>3. QED  BY <3>1, <3>2
  <2>6. az = [i \in 1..(Len(low) + 1) |-> az[i]]
    BY <2>1, <2>3
  <2>7. QED  BY <2>4, <2>5, <2>6 DEF as, az
<1>4. QED  BY <1>1, <1>2, <1>3 DEF Stacks, Push, Size, Cut, Nothing

(* Setting the top state, reading it and dropping it. *)
LEMMA TopIs ==
  ASSUME NEW e, NEW low, NEW s, low \in Stacks, s \in States,
         IsEngine(e), e.states = Push(low, s)
  PROVE  /\ Top(e) = s /\ Nested(e) = (low # Nothing)
         /\ \A z \in States : SetTop(e, z) = [e EXCEPT !.states = Push(low, z)]
         /\ Pop(e) = [e EXCEPT !.states = low]
<1>1. /\ Size(Push(low, s)) = Size(low) + 1
      /\ Size(low) \in Nat /\ (Size(low) = 0 <=> low = Nothing)
      /\ Push(low, s)[Size(low) + 1] = s
      /\ Cut(Push(low, s), 1, Size(low)) = low
  BY Pushed
<1>2. Len(e.states) = Size(low) + 1
  BY <1>1 DEF Size
<1>3. Top(e) = s
  BY <1>1, <1>2 DEF Top
<1>4. Nested(e) = (low # Nothing)
  BY <1>1, <1>2 DEF Nested
<1>5. ASSUME NEW z \in States
      PROVE  SetTop(e, z) = [e EXCEPT !.states = Push(low, z)]
  <2>1. [Push(low, s) EXCEPT ![Size(low) + 1] = z] = Push(low, z)
    BY Pushed
  <2>2. SetTop(e, z) = [e EXCEPT !.states = [e.states EXCEPT ![Len(e.states)] = z]]
    BY DEF SetTop
  <2>3. QED  BY <1>2, <2>1, <2>2 DEF IsEngine
<1>6. Pop(e) = [e EXCEPT !.states = low]
  <2>1. Pop(e) = [e EXCEPT !.states = SubSeq(e.states, 1, Len(e.states) - 1)]
    BY DEF Pop
  <2>2. Len(e.states) - 1 = Size(low)
    BY <1>1, <1>2
  <2>3. SubSeq(e.states, 1, Size(low)) = low
    BY <1>1 DEF Cut
  <2>4. QED  BY <2>1, <2>2, <2>3
<1>7. QED  BY <1>3, <1>4, <1>5, <1>6

(* A state made of texts is one. *)
LEMMA StateIs ==
  \A b, t, n, o, q : b \in Texts /\ t \in Texts /\ n \in Texts /\ o \in Texts /\ q \in Queries =>
    StateOf(b, t, n, o, q) \in States
BY TextSize DEF StateOf, States, Queries

(* What is sent for the preedit. *)
Preedit(view) == [type |-> "preedit", cs |-> Characters(view)]

(* A part of what is shown is replaced. *)
Replaces(e, p, old, r, i, j, cs) ==
  /\ p \in Views /\ old \in Views /\ r \in Views /\ cs \in Views
  /\ e.view = p \bullet (old \bullet r) /\ i = Size(p) /\ j = Size(old)

(* Compose replaces that part and sends the preedit, and is defined. *)
LEMMA Composes ==
  ASSUME NEW e, NEW p, NEW r, NEW old, NEW cs, NEW i, NEW j, IsEngine(e),
         Replaces(e, p, old, r, i, j, cs),
         NoChoice(e) => Top(e).text <= Size(p \bullet (cs \bullet r))
  PROVE  LET f == Compose(e, i, j, cs) IN
         /\ IsEngine(f)
         /\ f.view = p \bullet (cs \bullet r) /\ f.sent = Append(e.sent, Preedit(f.view))
         /\ f.mode = e.mode /\ f.map = e.map /\ f.buffer = e.buffer /\ f.states = e.states
         /\ f.candidates = e.candidates /\ f.chosen = e.chosen /\ f.learned = e.learned
<1> DEFINE view == SubSeq(e.view, 1, i) \o cs \o SubSeq(e.view, i + j + 1, Len(e.view))
           fits == i >= 0 /\ j >= 0 /\ i + j <= Len(e.view)
           caret == e.candidates # <<>> \/ Top(e).text <= Len(view)
<1> /\ p \in Views /\ old \in Views /\ r \in Views /\ cs \in Views
    /\ e.view = p \bullet (old \bullet r) /\ i = Size(p) /\ j = Size(old)
  BY DEF Replaces
<1>1. /\ i \in Nat /\ j \in Nat /\ Size(r) \in Nat /\ Size(cs) \in Nat
      /\ old \bullet r \in Views /\ cs \bullet r \in Views /\ p \bullet old \in Views
      /\ Size(p \bullet old) = i + j
      /\ Size(e.view) = i + j + Size(r)
      /\ Size(p \bullet (cs \bullet r)) = i + Size(cs) + Size(r)
  BY ViewSize, ViewJoin
<1>2. e.view = (p \bullet old) \bullet r
  BY ViewJoin
<1>3. SubSeq(e.view, 1, i) = p
  BY <1>1, ViewCut DEF Cut
<1>4. SubSeq(e.view, i + j + 1, Len(e.view)) = r
  <2>1. Cut(e.view, i + j + 1, Size(e.view)) = r
    BY <1>1, <1>2, ViewCut
  <2>2. QED  BY <2>1 DEF Cut, Size
<1>5. view = p \bullet (cs \bullet r)
  <2>1. view = (p \bullet cs) \bullet r
    BY <1>3, <1>4 DEF \bullet
  <2>2. (p \bullet cs) \bullet r = p \bullet (cs \bullet r)
    BY ViewJoin
  <2>3. QED  BY <2>1, <2>2
<1>6. fits
  BY <1>1 DEF Size
<1>7. caret
  BY <1>5 DEF Size, NoChoice
<1>8. Compose(e, i, j, cs) =
        IF fits /\ caret
        THEN [e EXCEPT !.view = view,
                       !.sent = Append(@, [type |-> "preedit", cs |-> Characters(view)])]
        ELSE [e EXCEPT !.undefined = TRUE]
  BY DEF Compose
<1> HIDE DEF fits, caret
<1> DEFINE f == [e EXCEPT !.view = view, !.sent = Append(@, Preedit(view))]
<1>9. Compose(e, i, j, cs) = f
  BY <1>6, <1>7, <1>8 DEF Preedit
<1> HIDE DEF view
<1>10. /\ IsEngine(f) /\ f.view = view /\ f.sent = Append(e.sent, Preedit(view))
       /\ f.mode = e.mode /\ f.map = e.map /\ f.buffer = e.buffer /\ f.states = e.states
       /\ f.candidates = e.candidates /\ f.chosen = e.chosen /\ f.learned = e.learned
  BY DEF IsEngine, Fields
<1> HIDE DEF f
<1>11. QED  BY <1>5, <1>9, <1>10

-----------------------------------------------------------------------------
(* The states that wait below the top one divide what is below it.         *)
EndOf(s) == s.base + s.text + s.entry + s.okuri
AskedIn(b, s) ==
  <<Cut(b, s.base + s.text + 1, s.base + s.text + s.entry),
    Cut(b, s.base + s.text + s.entry + 1, EndOf(s))>>

IsStack(low, b) ==
  /\ low \in Stacks
  /\ low = Nothing => b = Nothing
  /\ low # Nothing => low[1].base = 0 /\ low[1].text = 0 /\ EndOf(low[Size(low)]) = Size(b)
  /\ \A i \in 1..Size(low) : EndOf(low[i]) <= Size(b) /\ low[i].asked = AskedIn(b, low[i])
  /\ \A i, j \in 1..Size(low) : i < j => EndOf(low[i]) <= low[j].base
  /\ \A i \in 1..Size(low) : i < Size(low) => low[i + 1].base = EndOf(low[i])

(* The entry as it is shown, and the whole of what is.                     *)
Middle(e, n) ==
  IF NoChoice(e) THEN As(n, "entry")
  ELSE As(e.candidates[e.chosen + 1], "candidate")
ViewOf(t, middle, k, m) ==
  As(t, "text") \bullet (middle \bullet (As(k, "okuri") \bullet As(m, "roman")))

ChoicesOK(e) ==
  /\ e.candidates \in Findings \cup {<<>>} /\ e.chosen \in Nat
  /\ ~NoChoice(e) => e.chosen < Len(e.candidates)

(* What every function of the engine keeps: its buffer, states and view    *)
(* are those of the same texts.                                            *)
Stands(e, low, b, t, n, l, k, m, q) ==
  /\ IsEngine(e)
  /\ AreParts(b, t, n, l, k, m) /\ q \in Queries
  /\ IsStack(low, b) /\ (low = Nothing => t = Nothing)
  /\ e.buffer = Whole(b, t, n, l, k, m)
  /\ e.states = Push(low, StateOf(b, t, n, l \bullet k, q))
  /\ ChoicesOK(e)
Holds(e, low, b, t, n, l, k, m, q) ==
  Stands(e, low, b, t, n, l, k, m, q) /\ e.view = ViewOf(t, Middle(e, n), k, m)

(* ... as the functions read them. *)
LEMMA Reads ==
  ASSUME NEW e, NEW low, NEW b, NEW t, NEW n, NEW l, NEW k, NEW m, NEW q,
         Stands(e, low, b, t, n, l, k, m, q)
  PROVE  /\ Top(e) = StateOf(b, t, n, l \bullet k, q)
         /\ Top(e).base = Size(b) /\ Top(e).text = Size(t) /\ Top(e).entry = Size(n)
         /\ Top(e).okuri = Size(l) + Size(k) /\ Top(e).asked = q
         /\ Inflection(Top(e)) = Size(k) /\ (Top(e).okuri > 0 <=> l # Nothing)
         /\ Nested(e) = (low # Nothing)
         /\ \A f, z : IsEngine(f) /\ f.states = e.states /\ z \in States =>
              SetTop(f, z) = [f EXCEPT !.states = Push(low, z)]
         /\ Size(e.buffer) = Size(b) + Size(t) + Size(n) + Size(l) + Size(k) + Size(m)
         /\ Size(b) \in Nat /\ Size(t) \in Nat /\ Size(n) \in Nat
         /\ Size(l) \in Nat /\ Size(k) \in Nat /\ Size(m) \in Nat
         /\ b \in Texts /\ t \in Texts /\ n \in Texts
         /\ l \in Texts /\ k \in Texts /\ m \in Texts
<1> DEFINE s == StateOf(b, t, n, l \bullet k, q)
<1>1. /\ b \in Texts /\ t \in Texts /\ n \in Texts
      /\ l \in Texts /\ k \in Texts /\ m \in Texts /\ l \bullet k \in Texts
      /\ Size(l) \in {0, 1} /\ (l = Nothing => k = Nothing)
  BY TextJoin DEF Stands, AreParts
<1>2. s \in States
  BY <1>1, StateIs DEF Stands
<1>3. low \in Stacks
  BY DEF Stands, IsStack
<1>4. Top(e) = s /\ Nested(e) = (low # Nothing)
  BY <1>2, <1>3, TopIs DEF Stands
<1>5. ASSUME NEW f, NEW z, IsEngine(f), f.states = e.states, z \in States
      PROVE  SetTop(f, z) = [f EXCEPT !.states = Push(low, z)]
  <2>1. f.states = Push(low, s)
    BY <1>5 DEF Stands
  <2> HIDE DEF s
  <2>2. QED  BY <1>2, <1>3, <1>5, <2>1, TopIs
<1>6. /\ Size(b) \in Nat /\ Size(t) \in Nat /\ Size(n) \in Nat
      /\ Size(l) \in Nat /\ Size(k) \in Nat /\ Size(m) \in Nat
      /\ Size(l \bullet k) = Size(l) + Size(k) /\ (Size(l) = 0 <=> l = Nothing)
      /\ Size(Nothing) = 0
  BY <1>1, TextSize
<1>7. Size(e.buffer) = Size(b) + Size(t) + Size(n) + Size(l) + Size(k) + Size(m)
  BY PartsCut DEF Stands
<1>8. /\ s.base = Size(b) /\ s.text = Size(t) /\ s.entry = Size(n)
      /\ s.okuri = Size(l) + Size(k) /\ s.asked = q
  BY <1>6 DEF StateOf
<1>9. Inflection(s) = Size(k) /\ (s.okuri > 0 <=> l # Nothing)
  BY <1>1, <1>6, <1>8 DEF Inflection
<1> HIDE DEF s
<1>10. QED  BY <1>1, <1>4, <1>5, <1>6, <1>7, <1>8, <1>9 DEF s

(* The conjuncts of Stands, for the steps that need few of them. *)
LEMMA Unfolded ==
  ASSUME NEW e, NEW low, NEW b, NEW t, NEW n, NEW l, NEW k, NEW m, NEW q,
         Stands(e, low, b, t, n, l, k, m, q)
  PROVE  /\ IsEngine(e)
         /\ AreParts(b, t, n, l, k, m) /\ q \in Queries
         /\ IsStack(low, b) /\ (low = Nothing => t = Nothing) /\ low \in Stacks
         /\ e.buffer = Whole(b, t, n, l, k, m)
         /\ e.states = Push(low, StateOf(b, t, n, l \bullet k, q))
         /\ ChoicesOK(e)
         /\ b \in Texts /\ t \in Texts /\ n \in Texts
         /\ l \in Texts /\ k \in Texts /\ m \in Texts
         /\ Size(b) \in Nat /\ Size(t) \in Nat /\ Size(n) \in Nat
         /\ Size(l) \in {0, 1} /\ Size(k) \in Nat /\ Size(m) \in Nat
         /\ Nothing \in Texts /\ Size(Nothing) = 0 /\ l \bullet k \in Texts
         /\ (l = Nothing <=> Size(l) = 0) /\ (l = Nothing => k = Nothing)
<1>1. /\ b \in Texts /\ t \in Texts /\ n \in Texts
      /\ l \in Texts /\ k \in Texts /\ m \in Texts /\ Size(l) \in {0, 1}
      /\ (l = Nothing => k = Nothing)
  BY DEF Stands, AreParts
<1>2. /\ Size(b) \in Nat /\ Size(t) \in Nat /\ Size(n) \in Nat
      /\ Size(k) \in Nat /\ Size(m) \in Nat /\ Size(Nothing) = 0
      /\ (l = Nothing <=> Size(l) = 0)
  BY <1>1, TextSize
<1>3. Nothing \in Texts /\ l \bullet k \in Texts
  BY <1>1, TextUnit, TextJoin
<1>4. QED  BY <1>1, <1>2, <1>3 DEF Stands, IsStack

(* The cuts of the buffer, as the functions write them. *)
LEMMA Slices ==
  ASSUME NEW e, NEW low, NEW b, NEW t, NEW n, NEW l, NEW k, NEW m, NEW q,
         Stands(e, low, b, t, n, l, k, m, q), NEW s, s = Top(e)
  PROVE  /\ Cut(e.buffer, 1, s.base) = b
         /\ Cut(e.buffer, 1, s.base + s.text) = b \bullet t
         /\ Cut(e.buffer, 1, s.base + s.text + s.entry) = b \bullet (t \bullet n)
         /\ Cut(e.buffer, 1, s.base + (s.text + s.entry)) = b \bullet (t \bullet n)
         /\ Cut(e.buffer, 1, Size(e.buffer) - Size(m)) = b \bullet (t \bullet (n \bullet (l \bullet k)))
         /\ Cut(e.buffer, s.base + 1, s.base + s.text) = t
         /\ Cut(e.buffer, s.base + s.text + 1, s.base + s.text + s.entry) = n
         /\ Cut(e.buffer, s.base + s.text + s.entry + 1, s.base + s.text + s.entry + s.okuri) = l \bullet k
         /\ Cut(e.buffer, s.base + s.text + s.entry + s.okuri - Inflection(s) + 1, s.base + s.text + s.entry + s.okuri - Inflection(s) + Inflection(s)) = k
         /\ Cut(e.buffer, s.base + 1, Size(e.buffer)) = t \bullet (n \bullet (l \bullet (k \bullet m)))
         /\ Cut(e.buffer, s.base + s.text + 1, Size(e.buffer)) = n \bullet (l \bullet (k \bullet m))
         /\ Cut(e.buffer, s.base + s.text + s.entry + 1, Size(e.buffer)) = l \bullet (k \bullet m)
         /\ Cut(e.buffer, s.base + s.text + s.entry + s.okuri - Inflection(s) + 1, Size(e.buffer)) = k \bullet m
         /\ Cut(e.buffer, s.base + s.text + s.entry + s.okuri + 1, Size(e.buffer)) = m
<1> DEFINE B == Size(b)
           T == Size(b) + Size(t)
           N == Size(b) + Size(t) + Size(n)
           L == Size(b) + Size(t) + Size(n) + Size(l)
           K == Size(b) + Size(t) + Size(n) + Size(l) + Size(k)
           w == e.buffer
<1>1. /\ Cut(w, 1, B) = b
      /\ Cut(w, 1, T) = b \bullet t
      /\ Cut(w, 1, N) = b \bullet (t \bullet n)
      /\ Cut(w, 1, K) = b \bullet (t \bullet (n \bullet (l \bullet k)))
      /\ Cut(w, B + 1, T) = t
      /\ Cut(w, T + 1, N) = n
      /\ Cut(w, N + 1, K) = l \bullet k
      /\ Cut(w, L + 1, K) = k
      /\ Cut(w, B + 1, Size(w)) = t \bullet (n \bullet (l \bullet (k \bullet m)))
      /\ Cut(w, T + 1, Size(w)) = n \bullet (l \bullet (k \bullet m))
      /\ Cut(w, N + 1, Size(w)) = l \bullet (k \bullet m)
      /\ Cut(w, L + 1, Size(w)) = k \bullet m
      /\ Cut(w, K + 1, Size(w)) = m
  <2>1. AreParts(b, t, n, l, k, m) /\ w = Whole(b, t, n, l, k, m)
    BY DEF Stands
  <2>2. QED  BY <2>1, PartsCut
<1>2. /\ s.base = B /\ s.base + s.text = T /\ s.base + s.text + s.entry = N
      /\ s.base + (s.text + s.entry) = N
      /\ s.base + s.text + s.entry + s.okuri - Inflection(s) = L
      /\ s.base + s.text + s.entry + s.okuri = K
      /\ Size(e.buffer) - Size(m) = K /\ L + Inflection(s) = K
      /\ B + s.text = T /\ T + s.entry = N /\ N + s.okuri = K
  <2>1. /\ s.base = Size(b) /\ s.text = Size(t) /\ s.entry = Size(n)
        /\ s.okuri = Size(l) + Size(k) /\ Inflection(s) = Size(k)
        /\ Size(e.buffer) = Size(b) + Size(t) + Size(n) + Size(l) + Size(k) + Size(m)
    BY Reads
  <2>2. /\ Size(b) \in Nat /\ Size(t) \in Nat /\ Size(n) \in Nat
        /\ Size(l) \in Nat /\ Size(k) \in Nat /\ Size(m) \in Nat
    BY Reads
  <2>3. QED  BY <2>1, <2>2
<1> HIDE DEF B, T, N, L, K
<1>3. QED  BY <1>1, <1>2 

(* A function that ends by replacing a part of what is shown.              *)
LEMMA Composed ==
  ASSUME NEW e, NEW low, NEW b, NEW t, NEW n, NEW l, NEW k, NEW m, NEW q,
         Stands(e, low, b, t, n, l, k, m, q),
         NEW p, NEW old, NEW r, NEW cs, NEW i, NEW j,
         Replaces(e, p, old, r, i, j, cs),
         p \bullet (cs \bullet r) = ViewOf(t, Middle(e, n), k, m)
  PROVE  LET f == Compose(e, i, j, cs) IN
         /\ Holds(f, low, b, t, n, l, k, m, q)
         /\ f.mode = e.mode /\ f.map = e.map /\ f.buffer = e.buffer /\ f.states = e.states
         /\ f.candidates = e.candidates /\ f.chosen = e.chosen /\ f.learned = e.learned
         /\ f.sent = Append(e.sent, Preedit(f.view))
         /\ f.view = p \bullet (cs \bullet r)
<1> DEFINE view == p \bullet (cs \bullet r)
           f == Compose(e, i, j, cs)
<1>1. IsEngine(e) /\ t \in Texts /\ n \in Texts /\ k \in Texts /\ m \in Texts
  BY Unfolded
<1>2. NoChoice(e) => Top(e).text <= Size(view)
  <2> SUFFICES ASSUME NoChoice(e)
               PROVE  Top(e).text <= Size(view)
    OBVIOUS
  <2> DEFINE rest == As(n, "entry") \bullet (As(k, "okuri") \bullet As(m, "roman"))
  <2>1. Top(e).text = Size(t)
    BY Reads
  <2>2. /\ As(t, "text") \in Views /\ As(n, "entry") \in Views
        /\ As(k, "okuri") \in Views /\ As(m, "roman") \in Views
        /\ Size(As(t, "text")) = Size(t)
    BY <1>1, AsFacts DEF Marks
  <2>3. view = As(t, "text") \bullet rest
    BY DEF ViewOf, Middle
  <2>4. rest \in Views
    BY <2>2, ViewJoin
  <2> HIDE DEF rest, view
  <2>5. Size(view) = Size(t) + Size(rest) /\ Size(rest) \in Nat /\ Size(t) \in Nat
    BY <2>2, <2>3, <2>4, ViewSize
  <2>6. QED  BY <2>1, <2>5
<1>3. /\ IsEngine(f) /\ f.view = view /\ f.sent = Append(e.sent, Preedit(f.view))
      /\ f.mode = e.mode /\ f.map = e.map /\ f.buffer = e.buffer /\ f.states = e.states
      /\ f.candidates = e.candidates /\ f.chosen = e.chosen /\ f.learned = e.learned
  BY <1>1, <1>2, Composes
<1> HIDE DEF f, view
<1>4. Stands(f, low, b, t, n, l, k, m, q)
  BY <1>3 DEF Stands, ChoicesOK, NoChoice
<1>5. f.view = ViewOf(t, Middle(f, n), k, m)
  BY <1>3 DEF Middle, view, NoChoice
<1>6. QED  BY <1>3, <1>4, <1>5 DEF Holds, view, f

-----------------------------------------------------------------------------
(* A state is put on the stack, or the state below the top one is found    *)
(* again.                                                                  *)
LEMMA CutPrefix ==
  \A a, x, i, j : a \in Texts /\ x \in Texts /\ i \in Nat \ {0} /\ j \in Nat /\ j <= Size(a) =>
    Cut(a \bullet x, i, j) = Cut(a, i, j)
<1> SUFFICES ASSUME NEW a \in Texts, NEW x \in Texts, NEW i \in Nat \ {0}, NEW j \in Nat,
                    j <= Len(a)
             PROVE  SubSeq(a \o x, i, j) = SubSeq(a, i, j)
  BY DEF Cut, Size, \bullet
<1>1. /\ a \o x \in Texts /\ Len(a \o x) = Len(a) + Len(x) /\ Len(x) \in Nat /\ Len(a) \in Nat
      /\ \A k \in 1..Len(a) : (a \o x)[k] = a[k]
  BY DEF Texts
<1>2. SubSeq(a \o x, i, j) = [k \in 1..(j - i + 1) |-> (a \o x)[k + i - 1]]
  OBVIOUS
<1>3. SubSeq(a, i, j) = [k \in 1..(j - i + 1) |-> a[k + i - 1]]
  OBVIOUS
<1>4. \A k \in 1..(j - i + 1) : (a \o x)[k + i - 1] = a[k + i - 1]
  BY <1>1
<1>5. QED  BY <1>2, <1>3, <1>4

(* A text is its first characters and the others. *)
LEMMA TextSplit ==
  ASSUME NEW a \in Texts, NEW i \in Nat, i <= Size(a)
  PROVE  /\ Cut(a, 1, i) \in Texts /\ Size(Cut(a, 1, i)) = i
         /\ Cut(a, i + 1, Size(a)) \in Texts /\ Size(Cut(a, i + 1, Size(a))) = Size(a) - i
         /\ a = Cut(a, 1, i) \bullet Cut(a, i + 1, Size(a))
<1>1. Len(a) \in Nat /\ i <= Len(a)
  BY DEF Texts, Size
<1>2. SubSeq(a, 1, i) \in Seq(Chars) /\ Len(SubSeq(a, 1, i)) = i
  BY <1>1 DEF Texts
<1>3. SubSeq(a, i + 1, Len(a)) \in Seq(Chars) /\ Len(SubSeq(a, i + 1, Len(a))) = Len(a) - i
  BY <1>1 DEF Texts
<1>4. a = SubSeq(a, 1, i) \o SubSeq(a, i + 1, Len(a))
  <2> DEFINE p == SubSeq(a, 1, i)
             r == SubSeq(a, i + 1, Len(a))
  <2>1. (\A x \in 1..i : p[x] = a[x]) /\ \A x \in 1..(Len(a) - i) : r[x] = a[x + i]
    BY <1>1 DEF Texts
  <2>2. p \in Seq(Chars) /\ Len(p) = i /\ r \in Seq(Chars) /\ Len(r) = Len(a) - i
    BY <1>2, <1>3
  <2> HIDE DEF p, r
  <2>3. p \o r \in Seq(Chars) /\ Len(p \o r) = Len(a)
    BY <1>1, <2>2
  <2>4. ASSUME NEW x \in 1..Len(a)
        PROVE  (p \o r)[x] = a[x]
    <3>1. CASE x <= i
      BY <1>1, <2>1, <2>2, <3>1
    <3>2. CASE ~(x <= i)
      <4>1. x - i \in 1..(Len(a) - i) /\ x > i /\ (x - i) + i = x
        BY <1>1, <3>2
      <4>2. (p \o r)[x] = r[x - i]
        BY <1>1, <2>2, <4>1
      <4>3. QED  BY <2>1, <4>1, <4>2
    <3>3. QED  BY <3>1, <3>2
  <2> DEFINE w == p \o r
  <2> HIDE DEF w
  <2>5. w = a
    <3>1. w \in Seq(Chars) /\ Len(w) = Len(a) /\ \A x \in 1..Len(a) : w[x] = a[x]
      BY <2>3, <2>4 DEF w
    <3>2. QED  BY <3>1 DEF Texts
  <2>6. QED  BY <2>5 DEF w, p, r
<1>5. QED  BY <1>2, <1>3, <1>4 DEF Texts, Size, Cut, \bullet

(* A stack that is not empty is a push. *)
LEMMA StackSplit ==
  ASSUME NEW low \in Stacks, low # Nothing
  PROVE  /\ Size(low) \in Nat \ {0} /\ low[Size(low)] \in States
         /\ Cut(low, 1, Size(low) - 1) \in Stacks
         /\ Size(Cut(low, 1, Size(low) - 1)) = Size(low) - 1
         /\ low = Push(Cut(low, 1, Size(low) - 1), low[Size(low)])
         /\ \A i \in 1..Size(low) : i < Size(low) => Cut(low, 1, Size(low) - 1)[i] = low[i]
<1>1. Len(low) \in Nat \ {0} /\ low[Len(low)] \in States
  BY DEF Stacks, Nothing
<1>2. /\ SubSeq(low, 1, Len(low) - 1) \in Seq(States)
      /\ Len(SubSeq(low, 1, Len(low) - 1)) = Len(low) - 1
      /\ \A i \in 1..(Len(low) - 1) : SubSeq(low, 1, Len(low) - 1)[i] = low[i]
  <2>1. Len(low) - 1 \in 0..Len(low)
    BY <1>1
  <2>2. low \in Seq(States)
    BY DEF Stacks
  <2>3. \A n \in 0..Len(low) : /\ SubSeq(low, 1, n) \in Seq(States) /\ Len(SubSeq(low, 1, n)) = n
                               /\ \A i \in 1..n : SubSeq(low, 1, n)[i] = low[i]
    BY <2>2
  <2>4. QED  BY <2>1, <2>3
<1>3. low = Append(SubSeq(low, 1, Len(low) - 1), low[Len(low)])
  <2> DEFINE front == SubSeq(low, 1, Len(low) - 1)
  <2>1. Len(Append(front, low[Len(low)])) = Len(low) /\ Append(front, low[Len(low)]) \in Seq(States)
    BY <1>1, <1>2
  <2>2. \A i \in 1..Len(low) : Append(front, low[Len(low)])[i] = low[i]
    BY <1>1, <1>2
  <2> HIDE DEF front
  <2>3. QED  BY <1>1, <2>1, <2>2 DEF Stacks, front
<1>4. QED  BY <1>1, <1>2, <1>3 DEF Stacks, Push, Size, Cut

(* Put on the stack once it waits for a word, the top state is where the   *)
(* next one begins.                                                        *)
LEMMA Stacked ==
  ASSUME NEW low, NEW b, NEW t, NEW n, NEW o, IsStack(low, b),
         b \in Texts, t \in Texts, n \in Texts, o \in Texts, low = Nothing => t = Nothing
  PROVE  /\ IsStack(Push(low, StateOf(b, t, n, o, <<n, o>>)), b \bullet (t \bullet (n \bullet o)))
         /\ b \bullet (t \bullet (n \bullet o)) \in Texts
         /\ Push(low, StateOf(b, t, n, o, <<n, o>>)) # Nothing
         /\ StateOf(b, t, n, o, <<n, o>>) \in States
<1> DEFINE s == StateOf(b, t, n, o, <<n, o>>)
           d == b \bullet (t \bullet (n \bullet o))
           x == t \bullet (n \bullet o)
           up == Push(low, s)
           L == Size(low)
<1>1. /\ Size(b) \in Nat /\ Size(t) \in Nat /\ Size(n) \in Nat /\ Size(o) \in Nat
      /\ x \in Texts /\ d \in Texts /\ Size(Nothing) = 0
      /\ Size(d) = Size(b) + Size(t) + Size(n) + Size(o) /\ Size(b) <= Size(d)
  BY TextSize, TextJoin
<1>2. s \in States
  <2>1. <<n, o>> \in Queries
    BY DEF Queries
  <2>2. QED  BY <2>1, StateIs
<1>3. /\ s.base = Size(b) /\ s.text = Size(t) /\ s.entry = Size(n) /\ s.okuri = Size(o)
      /\ s.asked = <<n, o>>
  BY DEF StateOf
<1>4. EndOf(s) = Size(d)
  BY <1>1, <1>3 DEF EndOf
<1>5. /\ low \in Stacks
      /\ low = Nothing => b = Nothing
      /\ low # Nothing => low[1].base = 0 /\ low[1].text = 0 /\ EndOf(low[L]) = Size(b)
      /\ \A i \in 1..L : EndOf(low[i]) <= Size(b) /\ low[i].asked = AskedIn(b, low[i])
      /\ \A i, j \in 1..L : i < j => EndOf(low[i]) <= low[j].base
      /\ \A i \in 1..L : i < L => low[i + 1].base = EndOf(low[i])
  BY DEF IsStack
<1>6. /\ up \in Stacks /\ Size(up) = L + 1 /\ L \in Nat /\ (L = 0 <=> low = Nothing)
      /\ up[L + 1] = s /\ \A i \in 1..L : up[i] = low[i]
  BY <1>2, <1>5, Pushed
<1>7. up # Nothing
  BY <1>1, <1>6
<1>8. AskedIn(d, s) = <<n, o>>
  <2>1. /\ d = (b \bullet t) \bullet (n \bullet o) /\ d = (b \bullet (t \bullet n)) \bullet o
        /\ n \bullet o \in Texts /\ b \bullet t \in Texts /\ b \bullet (t \bullet n) \in Texts
    BY TextJoin
  <2>2. /\ Size(b \bullet t) = Size(b) + Size(t)
        /\ Size(b \bullet (t \bullet n)) = Size(b) + Size(t) + Size(n)
    BY <1>1, TextSize, TextJoin
  <2>3. Cut(d, Size(b) + Size(t) + 1, Size(b) + Size(t) + Size(n)) = n
    <3> DEFINE bt == b \bullet t
    <3> HIDE DEF bt
    <3>1. bt \in Texts /\ d = bt \bullet (n \bullet o) /\ Size(bt) = Size(b) + Size(t)
      BY <2>1, <2>2 DEF bt
    <3> HIDE DEF d
    <3>2. Cut(bt \bullet (n \bullet o), Size(bt) + 1, Size(bt) + Size(n)) = n
      BY <3>1, TextMiddle
    <3>3. QED  BY <3>1, <3>2
  <2>4. Cut(d, Size(b) + Size(t) + Size(n) + 1, Size(d)) = o
    BY <2>1, <2>2, TextCut
  <2>5. QED  BY <1>3, <1>4, <2>3, <2>4 DEF AskedIn
<1>9. ASSUME NEW i \in 1..L
      PROVE  AskedIn(d, low[i]) = AskedIn(b, low[i])
  <2>1. low[i] \in States /\ EndOf(low[i]) <= Size(b)
    BY <1>5, <1>9 DEF Stacks, Size
  <2>2. /\ low[i].base \in Nat /\ low[i].text \in Nat /\ low[i].entry \in Nat
        /\ low[i].okuri \in Nat
    BY <2>1 DEF States
  <2> DEFINE B == low[i].base + low[i].text
             N == low[i].base + low[i].text + low[i].entry
  <2>3. /\ B + 1 \in Nat \ {0} /\ N + 1 \in Nat \ {0} /\ N \in Nat /\ EndOf(low[i]) \in Nat
        /\ N <= Size(b)
    BY <1>1, <2>1, <2>2 DEF EndOf
  <2> HIDE DEF B, N
  <2>4. Cut(d, B + 1, N) = Cut(b, B + 1, N) /\ Cut(d, N + 1, EndOf(low[i])) = Cut(b, N + 1, EndOf(low[i]))
    BY <1>1, <2>1, <2>3, CutPrefix
  <2>5. QED  BY <2>4 DEF AskedIn, B, N
<1>10. up[1].base = 0 /\ up[1].text = 0
  <2>1. CASE low = Nothing
    BY <1>1, <1>3, <1>5, <1>6, <2>1
  <2>2. CASE low # Nothing
    BY <1>5, <1>6, <2>2
  <2>3. QED  BY <2>1, <2>2
<1>11. ASSUME NEW i \in 1..(L + 1)
       PROVE  EndOf(up[i]) <= Size(d) /\ up[i].asked = AskedIn(d, up[i])
  <2>1. CASE i = L + 1
    BY <1>1, <1>3, <1>4, <1>6, <1>8, <2>1
  <2>2. CASE i \in 1..L
    <3>1. EndOf(low[i]) <= Size(b) /\ EndOf(low[i]) \in Nat
      <4>1. low[i] \in States
        BY <1>5, <2>2 DEF Stacks, Size
      <4>2. QED  BY <1>5, <2>2, <4>1 DEF EndOf, States
    <3>2. QED  BY <1>1, <1>5, <1>6, <1>9, <2>2, <3>1
  <2>3. QED  BY <1>6, <2>1, <2>2
<1>12. ASSUME NEW i \in 1..(L + 1), NEW j \in 1..(L + 1), i < j
       PROVE  EndOf(up[i]) <= up[j].base
  <2>1. i \in 1..L
    BY <1>6, <1>12
  <2>2. CASE j = L + 1
    BY <1>3, <1>5, <1>6, <2>1, <2>2
  <2>3. CASE j \in 1..L
    BY <1>5, <1>6, <1>12, <2>1, <2>3
  <2>4. QED  BY <1>6, <2>2, <2>3
<1>13. ASSUME NEW i \in 1..(L + 1), i < L + 1
       PROVE  up[i + 1].base = EndOf(up[i])
  <2>1. i \in 1..L /\ i + 1 \in 1..(L + 1)
    BY <1>6, <1>13
  <2>2. CASE i = L
    BY <1>3, <1>5, <1>6, <2>1, <2>2
  <2>3. CASE i < L
    <3>1. i + 1 \in 1..L
      BY <1>6, <2>1, <2>3
    <3>2. QED  BY <1>5, <1>6, <2>1, <2>3, <3>1
  <2>4. QED  BY <1>6, <2>1, <2>2, <2>3
<1> HIDE DEF s, d, up, L
<1>14. IsStack(up, d)
  BY <1>4, <1>6, <1>7, <1>10, <1>11, <1>12, <1>13 DEF IsStack
<1>15. QED  BY <1>1, <1>2, <1>7, <1>14 DEF s, d, up

(* The letter of the inflection and the kana after it.                     *)
LEMMA OkuriSplit ==
  ASSUME NEW o \in Texts
  PROVE  \E l, k : /\ l \in Texts /\ k \in Texts /\ o = l \bullet k /\ Size(l) \in {0, 1}
                   /\ l = Nothing => k = Nothing
<1>1. CASE o = Nothing
  <2>1. /\ Nothing \in Texts /\ o = Nothing \bullet Nothing /\ Size(Nothing) \in {0, 1}
        /\ Nothing = Nothing
    BY <1>1, TextUnit, TextSize
  <2>2. QED  BY <2>1
<1>2. CASE o # Nothing
  <2>1. Size(o) \in Nat /\ 1 <= Size(o)
    BY <1>2, TextSize
  <2>2. /\ Cut(o, 1, 1) \in Texts /\ Size(Cut(o, 1, 1)) = 1
        /\ Cut(o, 1 + 1, Size(o)) \in Texts /\ o = Cut(o, 1, 1) \bullet Cut(o, 1 + 1, Size(o))
    BY <2>1, TextSplit
  <2>3. Size(Nothing) = 0
    BY TextSize
  <2>4. Cut(o, 1, 1) # Nothing
    BY <2>2, <2>3
  <2>5. QED  BY <2>2, <2>4
<1>3. QED  BY <1>1, <1>2

(* The state on top of a stack was made of texts, which end what is below  *)
(* the one composed.                                                       *)
LEMMA Unstacked ==
  ASSUME NEW low, NEW b, IsStack(low, b), b \in Texts, low # Nothing
  PROVE  \E low1, b1, t1, n1, l1, k1 :
           /\ IsStack(low1, b1) /\ AreParts(b1, t1, n1, l1, k1, Nothing)
           /\ b = b1 \bullet (t1 \bullet (n1 \bullet (l1 \bullet k1)))
           /\ low = Push(low1, StateOf(b1, t1, n1, l1 \bullet k1, <<n1, l1 \bullet k1>>))
           /\ low1 = Nothing => t1 = Nothing
<1> DEFINE L == Size(low)
           s == low[L]
           low1 == Cut(low, 1, L - 1)
           b1 == Cut(b, 1, s.base)
           b2 == Cut(b, s.base + 1, Size(b))
           t1 == Cut(b2, 1, s.text)
           b3 == Cut(b2, s.text + 1, Size(b2))
           n1 == Cut(b3, 1, s.entry)
           o1 == Cut(b3, s.entry + 1, Size(b3))
<1>1. /\ low \in Stacks
      /\ low[1].base = 0 /\ low[1].text = 0 /\ EndOf(low[L]) = Size(b)
      /\ \A i \in 1..L : EndOf(low[i]) <= Size(b) /\ low[i].asked = AskedIn(b, low[i])
      /\ \A i, j \in 1..L : i < j => EndOf(low[i]) <= low[j].base
      /\ \A i \in 1..L : i < L => low[i + 1].base = EndOf(low[i])
  BY DEF IsStack
<1>2. /\ L \in Nat \ {0} /\ s \in States /\ low1 \in Stacks /\ Size(low1) = L - 1
      /\ low = Push(low1, s) /\ \A i \in 1..L : i < L => low1[i] = low[i]
  BY <1>1, StackSplit
<1>3. /\ s.base \in Nat /\ s.text \in Nat /\ s.entry \in Nat /\ s.okuri \in Nat
      /\ s = [base |-> s.base, text |-> s.text, entry |-> s.entry, okuri |-> s.okuri,
               asked |-> s.asked]
      /\ Size(b) = s.base + s.text + s.entry + s.okuri
  BY <1>1, <1>2 DEF States, EndOf
<1> HIDE DEF L, s, low1
<1>4. /\ b1 \in Texts /\ Size(b1) = s.base /\ b2 \in Texts
      /\ Size(b2) = s.text + s.entry + s.okuri /\ b = b1 \bullet b2
  <2>1. s.base <= Size(b)
    BY <1>3
  <2>2. /\ b1 \in Texts /\ Size(b1) = s.base /\ b2 \in Texts
        /\ Size(b2) = Size(b) - s.base /\ b = b1 \bullet b2
    BY <1>3, <2>1, TextSplit
  <2> HIDE DEF b1, b2
  <2>3. QED  BY <1>3, <2>2
<1> HIDE DEF b1, b2
<1>5. /\ t1 \in Texts /\ Size(t1) = s.text /\ b3 \in Texts
      /\ Size(b3) = s.entry + s.okuri /\ b2 = t1 \bullet b3
  <2>1. s.text <= Size(b2)
    BY <1>3, <1>4
  <2>2. /\ t1 \in Texts /\ Size(t1) = s.text /\ b3 \in Texts
        /\ Size(b3) = Size(b2) - s.text /\ b2 = t1 \bullet b3
    BY <1>3, <1>4, <2>1, TextSplit
  <2> HIDE DEF t1, b3
  <2>3. QED  BY <1>3, <1>4, <2>2
<1> HIDE DEF t1, b3
<1>6. /\ n1 \in Texts /\ Size(n1) = s.entry /\ o1 \in Texts
      /\ Size(o1) = s.okuri /\ b3 = n1 \bullet o1
  <2>1. s.entry <= Size(b3)
    BY <1>3, <1>5
  <2>2. /\ n1 \in Texts /\ Size(n1) = s.entry /\ o1 \in Texts
        /\ Size(o1) = Size(b3) - s.entry /\ b3 = n1 \bullet o1
    BY <1>3, <1>5, <2>1, TextSplit
  <2> HIDE DEF n1, o1
  <2>3. QED  BY <1>3, <1>5, <2>2
<1> HIDE DEF n1, o1
<1>7. b = b1 \bullet (t1 \bullet (n1 \bullet o1))
  BY <1>4, <1>5, <1>6
<1>8. s.asked = <<n1, o1>>
  <2>1. s.asked = AskedIn(b, s)
    BY <1>1, <1>2 DEF L, s
  <2>2. /\ b = (b1 \bullet t1) \bullet (n1 \bullet o1) /\ b = (b1 \bullet (t1 \bullet n1)) \bullet o1
        /\ b1 \bullet t1 \in Texts /\ b1 \bullet (t1 \bullet n1) \in Texts
    BY <1>4, <1>5, <1>6, <1>7, TextJoin
  <2>3. Size(b1 \bullet t1) = s.base + s.text
    BY <1>4, <1>5, TextSize
  <2>4. Size(b1 \bullet (t1 \bullet n1)) = s.base + s.text + s.entry
    <3>1. t1 \bullet n1 \in Texts /\ Size(t1 \bullet n1) = s.text + s.entry
      BY <1>5, <1>6, TextJoin, TextSize
    <3>2. QED  BY <1>3, <1>4, <3>1, TextSize
  <2> DEFINE x == b1 \bullet t1
             y == b1 \bullet (t1 \bullet n1)
  <2> HIDE DEF x, y
  <2>5. Cut(b, s.base + s.text + 1, s.base + s.text + s.entry) = n1
    <3>1. Cut(x \bullet (n1 \bullet o1), Size(x) + 1, Size(x) + Size(n1)) = n1
      BY <1>6, <2>2, TextMiddle DEF x
    <3>2. b = x \bullet (n1 \bullet o1) /\ Size(x) = s.base + s.text
      BY <2>2, <2>3 DEF x
    <3>3. QED  BY <1>6, <3>1, <3>2
  <2>6. Cut(b, s.base + s.text + s.entry + 1, EndOf(s)) = o1
    <3>1. Cut(y \bullet o1, Size(y) + 1, Size(y \bullet o1)) = o1
      BY <1>6, <2>2, TextCut DEF y
    <3>2. b = y \bullet o1 /\ Size(y) = s.base + s.text + s.entry
      BY <2>2, <2>4 DEF y
    <3>3. EndOf(s) = Size(b)
      BY <1>1 DEF s
    <3>4. QED  BY <3>1, <3>2, <3>3
  <2>7. QED  BY <2>1, <2>5, <2>6 DEF AskedIn
<1>9. low = Push(low1, StateOf(b1, t1, n1, o1, <<n1, o1>>))
  <2>1. s = StateOf(b1, t1, n1, o1, <<n1, o1>>)
    BY <1>3, <1>4, <1>5, <1>6, <1>8 DEF StateOf
  <2>2. QED  BY <1>2, <2>1
<1>10. IsStack(low1, b1) /\ (low1 = Nothing => t1 = Nothing)
  <2>1. /\ (low1 = Nothing <=> L = 1)
    <3>1. Size(low1) = 0 <=> low1 = Nothing
      BY <1>2 DEF Stacks, Size, Nothing
    <3>2. QED  BY <1>2, <3>1
  <2>2. low1 = Nothing => b1 = Nothing /\ t1 = Nothing
    <3> SUFFICES ASSUME low1 = Nothing
                 PROVE  b1 = Nothing /\ t1 = Nothing
      OBVIOUS
    <3>1. s.base = 0 /\ s.text = 0
      BY <1>1, <2>1 DEF s
    <3>2. QED  BY <1>4, <1>5, <3>1, TextSize
  <2>3. \A i \in 1..L : i < L => i \in 1..L /\ low1[i] = low[i] /\ EndOf(low[i]) <= Size(b1)
    <3>1. L \in 1..L
      BY <1>2
    <3>2. QED  BY <1>1, <1>2, <1>4, <3>1 DEF s
  <2>4. ASSUME NEW i \in 1..L, i < L
        PROVE  AskedIn(b, low[i]) = AskedIn(b1, low[i])
    <3>1. low[i] \in States /\ EndOf(low[i]) <= Size(b1)
      BY <1>1, <2>3, <2>4 DEF Stacks, Size, L
    <3>2. /\ low[i].base \in Nat /\ low[i].text \in Nat /\ low[i].entry \in Nat
          /\ low[i].okuri \in Nat
      BY <3>1 DEF States
    <3> DEFINE B == low[i].base + low[i].text
               N == low[i].base + low[i].text + low[i].entry
    <3>3. /\ B + 1 \in Nat \ {0} /\ N + 1 \in Nat \ {0} /\ N \in Nat /\ EndOf(low[i]) \in Nat
          /\ N <= Size(b1)
      BY <1>3, <1>4, <3>1, <3>2 DEF EndOf
    <3> HIDE DEF B, N
    <3>4. /\ Cut(b, B + 1, N) = Cut(b1, B + 1, N)
          /\ Cut(b, N + 1, EndOf(low[i])) = Cut(b1, N + 1, EndOf(low[i]))
      BY <1>4, <3>1, <3>3, CutPrefix
    <3>5. QED  BY <3>4 DEF AskedIn, B, N
  <2>5. \A i \in 1..(L - 1) : EndOf(low1[i]) <= Size(b1) /\ low1[i].asked = AskedIn(b1, low1[i])
    BY <1>1, <1>2, <2>3, <2>4
  <2>6. \A i, j \in 1..(L - 1) : i < j => EndOf(low1[i]) <= low1[j].base
    BY <1>1, <1>2, <2>3
  <2>7. \A i \in 1..(L - 1) : i < L - 1 => low1[i + 1].base = EndOf(low1[i])
    <3> SUFFICES ASSUME NEW i \in 1..(L - 1), i < L - 1
                 PROVE  low1[i + 1].base = EndOf(low1[i])
      OBVIOUS
    <3>1. i \in 1..L /\ i < L /\ i + 1 \in 1..L /\ i + 1 < L
      BY <1>2
    <3>2. QED  BY <1>1, <2>3, <3>1
  <2>8. low1 # Nothing =>
          low1[1].base = 0 /\ low1[1].text = 0 /\ EndOf(low1[L - 1]) = Size(b1)
    <3> SUFFICES ASSUME low1 # Nothing
                 PROVE  low1[1].base = 0 /\ low1[1].text = 0 /\ EndOf(low1[L - 1]) = Size(b1)
      OBVIOUS
    <3>1. 1 \in 1..L /\ 1 < L /\ L - 1 \in 1..L /\ L - 1 < L /\ (L - 1) + 1 = L
      BY <1>2, <2>1
    <3>2. low[L].base = EndOf(low[L - 1])
      BY <1>1, <3>1
    <3>3. QED  BY <1>1, <1>4, <2>3, <3>1, <3>2 DEF s
  <2>9. QED  BY <1>2, <2>2, <2>5, <2>6, <2>7, <2>8 DEF IsStack
<1>11. PICK l1, k1 : /\ l1 \in Texts /\ k1 \in Texts /\ o1 = l1 \bullet k1 /\ Size(l1) \in {0, 1}
                     /\ l1 = Nothing => k1 = Nothing
  BY <1>6, OkuriSplit
<1>12. AreParts(b1, t1, n1, l1, k1, Nothing)
  BY <1>4, <1>5, <1>6, <1>11, TextUnit DEF AreParts
<1>13. /\ IsStack(low1, b1) /\ AreParts(b1, t1, n1, l1, k1, Nothing)
       /\ b = b1 \bullet (t1 \bullet (n1 \bullet (l1 \bullet k1)))
       /\ low = Push(low1, StateOf(b1, t1, n1, l1 \bullet k1, <<n1, l1 \bullet k1>>))
       /\ low1 = Nothing => t1 = Nothing
  BY <1>7, <1>9, <1>10, <1>11, <1>12
<1>14. QED  BY <1>13, Zenon

-----------------------------------------------------------------------------
(* Dropping the romaji. *)
LEMMA RomanResets ==
  ASSUME NEW e, NEW low, NEW b, NEW t, NEW n, NEW l, NEW k, NEW m, NEW q,
         Holds(e, low, b, t, n, l, k, m, q), NoChoice(e)
  PROVE  LET f == RomanReset(e) IN
         /\ Holds(f, low, b, t, n, Nothing, Nothing, Nothing, q)
         /\ f.mode = e.mode /\ f.map = Nothing /\ NoChoice(f)
         /\ f.sent = Append(e.sent, Preedit(f.view)) /\ f.learned = e.learned
<1> DEFINE s == Top(e)
           z == [s EXCEPT !.okuri = 0]
           i == s.text + s.entry
           j == Size(e.buffer) - s.base - i - IF s.okuri > 0 THEN 1 ELSE 0
           e1 == [SetTop(e, z) EXCEPT !.buffer = Cut(@, 1, s.base + i), !.map = Nothing]
           shown == As(t, "text") \bullet As(n, "entry")
           gone == As(k, "okuri") \bullet As(m, "roman")
<1>1. RomanReset(e) = Compose(e1, i, j, Nothing)
  BY DEF RomanReset, Nothing, Size, Cut
<1>2. Stands(e, low, b, t, n, l, k, m, q) /\ e.view = ViewOf(t, As(n, "entry"), k, m)
  BY DEF Holds, Middle
<1>3. /\ s = StateOf(b, t, n, l \bullet k, q)
      /\ s.base = Size(b) /\ s.text = Size(t) /\ s.entry = Size(n)
      /\ (s.okuri > 0 <=> l # Nothing)
      /\ Size(e.buffer) = Size(b) + Size(t) + Size(n) + Size(l) + Size(k) + Size(m)
      /\ \A f, x : IsEngine(f) /\ f.states = e.states /\ x \in States =>
           SetTop(f, x) = [f EXCEPT !.states = Push(low, x)]
  BY <1>2, Reads
<1>4. /\ IsEngine(e) /\ q \in Queries
      /\ IsStack(low, b) /\ (low = Nothing => t = Nothing) /\ ChoicesOK(e)
      /\ b \in Texts /\ t \in Texts /\ n \in Texts
      /\ l \in Texts /\ k \in Texts /\ m \in Texts
      /\ Size(b) \in Nat /\ Size(t) \in Nat /\ Size(n) \in Nat
      /\ Size(l) \in {0, 1} /\ Size(k) \in Nat /\ Size(m) \in Nat
      /\ Nothing \in Texts /\ Size(Nothing) = 0 /\ (l = Nothing <=> Size(l) = 0)
  BY <1>2, Unfolded
<1>5. z = StateOf(b, t, n, Nothing, q) /\ z \in States
  <2>1. z = StateOf(b, t, n, Nothing, q)
    BY <1>3, <1>4 DEF StateOf
  <2>2. QED  BY <1>4, <2>1, StateIs
<1>6. Cut(e.buffer, 1, s.base + i) = Whole(b, t, n, Nothing, Nothing, Nothing)
  <2>1. Cut(e.buffer, 1, s.base + i) = b \bullet (t \bullet n)
    BY <1>2, Slices
  <2>2. QED  BY <1>4, <2>1, TextUnit, TextJoin DEF Whole
<1>7. /\ e1.buffer = Whole(b, t, n, Nothing, Nothing, Nothing)
      /\ e1.states = Push(low, z) /\ e1.map = Nothing /\ IsEngine(e1)
      /\ e1.view = e.view /\ e1.candidates = e.candidates /\ e1.chosen = e.chosen
      /\ e1.mode = e.mode /\ e1.sent = e.sent
      /\ e1.learned = e.learned
  BY <1>3, <1>4, <1>5, <1>6 DEF Fields, IsEngine
<1>8. i = Size(t) + Size(n) /\ j = Size(k) + Size(m)
  BY <1>3, <1>4
<1> HIDE DEF s, z, i, j, e1
<1>9. Stands(e1, low, b, t, n, Nothing, Nothing, Nothing, q)
  <2>1. AreParts(b, t, n, Nothing, Nothing, Nothing)
    BY <1>4 DEF AreParts
  <2>2. Nothing \bullet Nothing = Nothing
    BY TextUnit
  <2>3. QED  BY <1>4, <1>5, <1>7, <2>1, <2>2 DEF Stands, ChoicesOK, NoChoice
<1>10. /\ As(t, "text") \in Views /\ As(n, "entry") \in Views
       /\ As(k, "okuri") \in Views /\ As(m, "roman") \in Views
       /\ Size(As(t, "text")) = Size(t) /\ Size(As(n, "entry")) = Size(n)
       /\ Size(As(k, "okuri")) = Size(k) /\ Size(As(m, "roman")) = Size(m)
       /\ As(Nothing, "okuri") = Nothing /\ As(Nothing, "roman") = Nothing
  BY <1>4, AsFacts DEF Marks
<1>11. /\ shown \in Views /\ gone \in Views /\ Nothing \in Views
       /\ i = Size(shown) /\ j = Size(gone)
  BY <1>8, <1>10, ViewJoin, ViewSize, ViewUnit
<1>12. e1.view = shown \bullet (gone \bullet Nothing)
  BY <1>2, <1>7, <1>10, <1>11, ViewJoin, ViewUnit DEF ViewOf
<1>13. shown \bullet (Nothing \bullet Nothing) = ViewOf(t, Middle(e1, n), Nothing, Nothing)
  BY <1>7, <1>10, <1>11, ViewUnit DEF ViewOf, Middle, NoChoice
<1> HIDE DEF shown, gone
<1>14. Replaces(e1, shown, gone, Nothing, i, j, Nothing)
  BY <1>11, <1>12 DEF Replaces
<1>15. QED  BY <1>1, <1>7, <1>9, <1>13, <1>14, Composed DEF NoChoice

(* A character of romaji. *)
LEMMA RomanPushes ==
  ASSUME NEW e, NEW low, NEW b, NEW t, NEW n, NEW l, NEW k, NEW m, NEW q,
         Holds(e, low, b, t, n, l, k, m, q), NoChoice(e), NEW c \in Chars, NEW map
  PROVE  LET f == RomanPush(e, c, map) IN
         /\ Holds(f, low, b, t, n, l, k, m \bullet <<c>>, q)
         /\ f.mode = e.mode /\ f.map = map /\ NoChoice(f)
         /\ f.sent = Append(e.sent, Preedit(f.view)) /\ f.learned = e.learned
<1> DEFINE s == Top(e)
           i == Size(e.buffer) - s.base - IF s.okuri > 0 THEN 1 ELSE 0
           cs == As(<<c>>, "roman")
           e1 == [e EXCEPT !.buffer = Append(@, c), !.map = map]
           m1 == m \bullet <<c>>
           shown == As(t, "text") \bullet (As(n, "entry") \bullet (As(k, "okuri") \bullet As(m, "roman")))
<1>1. RomanPush(e, c, map) = Compose(e1, i, 0, cs)
  BY DEF RomanPush, Size
<1>2. Stands(e, low, b, t, n, l, k, m, q) /\ e.view = shown
  BY DEF Holds, Middle, ViewOf
<1>3. /\ s.base = Size(b) /\ (s.okuri > 0 <=> l # Nothing)
      /\ Size(e.buffer) = Size(b) + Size(t) + Size(n) + Size(l) + Size(k) + Size(m)
  BY <1>2, Reads
<1>4. /\ IsEngine(e) /\ q \in Queries /\ AreParts(b, t, n, l, k, m)
      /\ IsStack(low, b) /\ (low = Nothing => t = Nothing) /\ ChoicesOK(e)
      /\ e.buffer = Whole(b, t, n, l, k, m)
      /\ e.states = Push(low, StateOf(b, t, n, l \bullet k, q))
      /\ b \in Texts /\ t \in Texts /\ n \in Texts
      /\ l \in Texts /\ k \in Texts /\ m \in Texts
      /\ Size(b) \in Nat /\ Size(t) \in Nat /\ Size(n) \in Nat
      /\ Size(l) \in {0, 1} /\ Size(k) \in Nat /\ Size(m) \in Nat
      /\ (l = Nothing <=> Size(l) = 0) /\ l \bullet k \in Texts
  BY <1>2, Unfolded
<1>5. m1 \in Texts /\ <<c>> \in Texts
  BY <1>4, TextEnds, TextJoin
<1>6. Append(e.buffer, c) = Whole(b, t, n, l, k, m1)
  <2>1. Whole(b, t, n, l, k, m) \in Texts
    BY <1>4, TextJoin DEF Whole
  <2>2. Append(e.buffer, c) = Whole(b, t, n, l, k, m) \bullet <<c>>
    BY <1>4, <2>1, TextEnds
  <2>3. QED  BY <1>4, <1>5, <2>2, TextJoin DEF Whole
<1>7. /\ e1.buffer = Whole(b, t, n, l, k, m1)
      /\ e1.states = e.states /\ e1.map = map /\ IsEngine(e1)
      /\ e1.view = e.view /\ e1.candidates = e.candidates /\ e1.chosen = e.chosen
      /\ e1.mode = e.mode /\ e1.sent = e.sent /\ e1.learned = e.learned
  BY <1>4, <1>6 DEF Fields, IsEngine
<1>8. i = Size(t) + Size(n) + Size(k) + Size(m)
  BY <1>3, <1>4
<1> HIDE DEF s, i, e1
<1>9. Stands(e1, low, b, t, n, l, k, m1, q)
  <2>1. AreParts(b, t, n, l, k, m1)
    BY <1>4, <1>5 DEF AreParts
  <2> HIDE DEF m1
  <2>2. QED  BY <1>4, <1>7, <2>1 DEF Stands, ChoicesOK, NoChoice
<1>10. /\ As(t, "text") \in Views /\ As(n, "entry") \in Views
       /\ As(k, "okuri") \in Views /\ As(m, "roman") \in Views /\ cs \in Views
       /\ Size(As(t, "text")) = Size(t) /\ Size(As(n, "entry")) = Size(n)
       /\ Size(As(k, "okuri")) = Size(k) /\ Size(As(m, "roman")) = Size(m)
       /\ As(m1, "roman") = As(m, "roman") \bullet cs
  BY <1>4, <1>5, AsFacts, AsJoin DEF Marks
<1> HIDE DEF cs
<1>11. /\ shown \in Views /\ Nothing \in Views /\ i = Size(shown) /\ Size(Nothing) = 0
  BY <1>8, <1>10, ViewJoin, ViewSize, ViewUnit
<1>12. e1.view = shown \bullet (Nothing \bullet Nothing)
  BY <1>2, <1>7, <1>11, ViewUnit
<1>13. shown \bullet (cs \bullet Nothing) = ViewOf(t, Middle(e1, n), k, m1)
  BY <1>7, <1>10, <1>11, ViewUnit, ViewJoin DEF ViewOf, Middle, NoChoice
<1> HIDE DEF shown
<1>14. Replaces(e1, shown, Nothing, Nothing, i, 0, cs)
  BY <1>10, <1>11, <1>12 DEF Replaces
<1>15. QED  BY <1>1, <1>7, <1>9, <1>13, <1>14, Composed DEF NoChoice

(* Nothing is left after the whole buffer is committed. *)
Committed(cs) == [type |-> "commit", cs |-> cs]

(* A new state is one of empty texts. *)
LEMMA NewIs ==
  /\ Nothing \in Queries
  /\ \A b : b \in Texts => NewState(Size(b)) = StateOf(b, Nothing, Nothing, Nothing, Nothing)
  /\ NewState(0) = StateOf(Nothing, Nothing, Nothing, Nothing, Nothing)
<1>1. Size(Nothing) = 0
  BY TextSize
<1>2. Nothing \in Queries
  BY DEF Queries, Nothing
<1>3. QED  BY <1>1, <1>2 DEF NewState, StateOf, Nothing

(* CommitBuffer leaves the engine of empty texts. *)
LEMMA BufferCommits ==
  ASSUME NEW e, NEW s, s \in States, IsEngine(e), e.states = Push(Nothing, s),
         ChoicesOK(e), NoChoice(e)
  PROVE  LET f == CommitBuffer(e) IN
         /\ Holds(f, Nothing, Nothing, Nothing, Nothing, Nothing, Nothing, Nothing, Nothing)
         /\ f.mode = e.mode /\ f.map = e.map /\ NoChoice(f)
         /\ f.sent = Append(e.sent, Committed(e.buffer)) /\ f.learned = e.learned
         /\ f.buffer = Nothing
<1> DEFINE f == CommitBuffer(e)
           z == NewState(0)
<1>1. /\ Nothing \in Queries /\ z = StateOf(Nothing, Nothing, Nothing, Nothing, Nothing)
      /\ Nothing \in Texts /\ Size(Nothing) = 0 /\ Nothing \bullet Nothing = Nothing
      /\ z \in States
  BY NewIs, TextUnit, TextSize, StateIs
<1>2. Nothing \in Stacks /\ SetTop(e, z) = [e EXCEPT !.states = Push(Nothing, z)]
  <2>1. Nothing \in Stacks
    BY DEF Stacks, Nothing
  <2>2. QED  BY <1>1, <2>1, TopIs
<1>3. f = [[SetTop(e, z) EXCEPT !.view = Nothing, !.sent = Append(@, Committed(e.buffer))]
             EXCEPT !.buffer = Nothing]
  BY DEF CommitBuffer, Commit, Committed, Nothing
<1> HIDE DEF z
<1>4. /\ IsEngine(f) /\ f.states = Push(Nothing, z) /\ f.buffer = Nothing /\ f.view = Nothing
      /\ f.mode = e.mode /\ f.map = e.map /\ f.candidates = e.candidates
      /\ f.chosen = e.chosen /\ f.learned = e.learned
      /\ f.sent = Append(e.sent, Committed(e.buffer))
  BY <1>2, <1>3 DEF IsEngine, Fields
<1> HIDE DEF f
<1>5. AreParts(Nothing, Nothing, Nothing, Nothing, Nothing, Nothing)
  BY <1>1 DEF AreParts
<1>6. IsStack(Nothing, Nothing)
  <2>1. Nothing \in Stacks /\ Size(Nothing) = 0 /\ 1..0 = {}
    BY <1>1, <1>2
  <2>2. QED  BY <2>1 DEF IsStack
<1>7. Whole(Nothing, Nothing, Nothing, Nothing, Nothing, Nothing) = Nothing
  BY <1>1 DEF Whole
<1>8. ChoicesOK(f) /\ NoChoice(f)
  BY <1>4 DEF ChoicesOK, NoChoice
<1>9. Stands(f, Nothing, Nothing, Nothing, Nothing, Nothing, Nothing, Nothing, Nothing)
  BY <1>1, <1>4, <1>5, <1>6, <1>7, <1>8 DEF Stands
<1>10. ViewOf(Nothing, Middle(f, Nothing), Nothing, Nothing) = Nothing
  <2>1. /\ As(Nothing, "text") = Nothing /\ As(Nothing, "entry") = Nothing
        /\ As(Nothing, "okuri") = Nothing /\ As(Nothing, "roman") = Nothing
    BY AsFacts DEF Marks
  <2>2. QED  BY <1>1, <1>8, <2>1 DEF ViewOf, Middle
<1>11. QED  BY <1>4, <1>8, <1>9, <1>10 DEF Holds, f

-----------------------------------------------------------------------------
(* The romaji becomes kana of the okuri. *)
LEMMA OkuriReduces ==
  ASSUME NEW e, NEW low, NEW b, NEW t, NEW n, NEW l, NEW k, NEW m, NEW q,
         Holds(e, low, b, t, n, l, k, m, q), NoChoice(e), NEW cs \in Texts,
         e.mode = "kanji", l # Nothing
  PROVE  LET f == RomanReduce(e, cs) IN
         /\ Holds(f, low, b, t, n, l, k \bullet cs, Nothing, q)
         /\ f.mode = e.mode /\ f.map = e.map /\ NoChoice(f)
         /\ f.sent = Append(e.sent, Preedit(f.view)) /\ f.learned = e.learned
<1> DEFINE s == Top(e)
           j == Size(e.buffer) - s.base - (s.text + s.entry + s.okuri)
           z == [s EXCEPT !.okuri = @ + Size(cs)]
           e1 == [e EXCEPT !.buffer = Cut(@, 1, Size(@) - j) \bullet cs]
           e2 == SetTop(e1, z)
           k1 == k \bullet cs
           p == As(t, "text") \bullet (As(n, "entry") \bullet As(k, "okuri"))
<1>1. s.okuri > 0 => RomanReduce(e, cs) = Compose(e2, OkuriAt(s), j, As(cs, "okuri"))
  BY DEF RomanReduce, Size, Cut, \bullet
<1>2. Stands(e, low, b, t, n, l, k, m, q) /\ e.view = ViewOf(t, As(n, "entry"), k, m)
  BY DEF Holds, Middle
<1>3. /\ s = StateOf(b, t, n, l \bullet k, q)
      /\ s.base = Size(b) /\ s.text = Size(t) /\ s.entry = Size(n)
      /\ s.okuri = Size(l) + Size(k) /\ (s.okuri > 0 <=> l # Nothing)
      /\ Size(e.buffer) = Size(b) + Size(t) + Size(n) + Size(l) + Size(k) + Size(m)
      /\ \A f, x : IsEngine(f) /\ f.states = e.states /\ x \in States =>
           SetTop(f, x) = [f EXCEPT !.states = Push(low, x)]
  BY <1>2, Reads
<1>4. /\ IsEngine(e) /\ q \in Queries /\ AreParts(b, t, n, l, k, m)
      /\ IsStack(low, b) /\ (low = Nothing => t = Nothing) /\ ChoicesOK(e)
      /\ b \in Texts /\ t \in Texts /\ n \in Texts
      /\ l \in Texts /\ k \in Texts /\ m \in Texts
      /\ Size(b) \in Nat /\ Size(t) \in Nat /\ Size(n) \in Nat
      /\ Size(l) \in {0, 1} /\ Size(k) \in Nat /\ Size(m) \in Nat
      /\ (l = Nothing <=> Size(l) = 0) /\ l \bullet k \in Texts
      /\ Nothing \in Texts
  BY <1>2, Unfolded
<1>5. k1 \in Texts /\ l \bullet k1 \in Texts /\ Size(k1) = Size(k) + Size(cs) /\ Size(cs) \in Nat
      /\ Size(l \bullet k1) = Size(l) + Size(k) + Size(cs)
  BY <1>4, TextJoin, TextSize
<1>6. j = Size(m) /\ OkuriAt(s) = Size(t) + Size(n) + Size(k)
  BY <1>3, <1>4 DEF OkuriAt
<1>7. Cut(e.buffer, 1, Size(e.buffer) - j) \bullet cs = Whole(b, t, n, l, k1, Nothing)
  <2>1. Cut(e.buffer, 1, Size(e.buffer) - j) = b \bullet (t \bullet (n \bullet (l \bullet k)))
    BY <1>2, <1>6, Slices
  <2>2. QED  BY <1>4, <1>5, <2>1, TextJoin, TextUnit DEF Whole
<1>8. z = StateOf(b, t, n, l \bullet k1, q) /\ z \in States
  <2>1. z = StateOf(b, t, n, l \bullet k1, q)
    BY <1>3, <1>4, <1>5 DEF StateOf
  <2>2. QED  BY <1>4, <1>5, <2>1, StateIs
<1>9. /\ e2.buffer = Whole(b, t, n, l, k1, Nothing)
      /\ e2.states = Push(low, z) /\ e2.map = e.map /\ IsEngine(e2)
      /\ e2.view = e.view /\ e2.candidates = e.candidates /\ e2.chosen = e.chosen
      /\ e2.mode = e.mode /\ e2.sent = e.sent /\ e2.learned = e.learned
  <2>1. IsEngine(e1) /\ e1.states = e.states
    BY <1>4 DEF IsEngine, Fields
  <2>2. e2 = [e1 EXCEPT !.states = Push(low, z)]
    BY <1>3, <1>8, <2>1
  <2>3. QED  BY <1>4, <1>7, <2>2 DEF IsEngine, Fields
<1> HIDE DEF s, j, z, e1, e2
<1>10. Stands(e2, low, b, t, n, l, k1, Nothing, q)
  <2>1. AreParts(b, t, n, l, k1, Nothing)
    BY <1>4, <1>5 DEF AreParts
  <2> HIDE DEF k1
  <2>2. QED  BY <1>4, <1>8, <1>9, <2>1 DEF Stands, ChoicesOK, NoChoice
<1>11. /\ As(t, "text") \in Views /\ As(n, "entry") \in Views
       /\ As(k, "okuri") \in Views /\ As(m, "roman") \in Views /\ As(cs, "okuri") \in Views
       /\ Size(As(t, "text")) = Size(t) /\ Size(As(n, "entry")) = Size(n)
       /\ Size(As(k, "okuri")) = Size(k) /\ Size(As(m, "roman")) = Size(m)
       /\ As(k1, "okuri") = As(k, "okuri") \bullet As(cs, "okuri")
       /\ As(Nothing, "roman") = Nothing
  BY <1>4, AsFacts, AsJoin DEF Marks
<1>12. p \in Views /\ Nothing \in Views /\ OkuriAt(s) = Size(p)
  BY <1>6, <1>11, ViewJoin, ViewSize, ViewUnit
<1>13. e2.view = p \bullet (As(m, "roman") \bullet Nothing)
  BY <1>2, <1>9, <1>11, ViewUnit, ViewJoin DEF ViewOf
<1>14. p \bullet (As(cs, "okuri") \bullet Nothing) = ViewOf(t, Middle(e2, n), k1, Nothing)
  BY <1>9, <1>11, ViewUnit, ViewJoin DEF ViewOf, Middle, NoChoice
<1> HIDE DEF p
<1>15. Replaces(e2, p, As(m, "roman"), Nothing, OkuriAt(s), j, As(cs, "okuri"))
  BY <1>6, <1>11, <1>12, <1>13 DEF Replaces
<1>16. QED  BY <1>1, <1>3, <1>9, <1>10, <1>14, <1>15, Composed DEF NoChoice

(* The romaji becomes kana of the entry. *)
LEMMA EntryReduces ==
  ASSUME NEW e, NEW low, NEW b, NEW t, NEW n, NEW l, NEW k, NEW m, NEW q,
         Holds(e, low, b, t, n, l, k, m, q), NoChoice(e), NEW cs \in Texts,
         e.mode = "kanji", l = Nothing
  PROVE  LET f == RomanReduce(e, cs) IN
         /\ Holds(f, low, b, t, n \bullet cs, l, k, Nothing, q)
         /\ f.mode = e.mode /\ f.map = e.map /\ NoChoice(f)
         /\ f.sent = Append(e.sent, Preedit(f.view)) /\ f.learned = e.learned
<1> DEFINE s == Top(e)
           j == Size(e.buffer) - s.base - (s.text + s.entry + s.okuri)
           z == [s EXCEPT !.entry = @ + Size(cs)]
           e1 == [e EXCEPT !.buffer = Cut(@, 1, Size(@) - j) \bullet cs]
           e2 == SetTop(e1, z)
           n1 == n \bullet cs
           p == As(t, "text") \bullet As(n, "entry")
<1>1. s.okuri = 0 => RomanReduce(e, cs) = Compose(e2, s.text + s.entry + s.okuri, j, As(cs, "entry"))
  BY DEF RomanReduce, Size, Cut, \bullet
<1>2. Stands(e, low, b, t, n, l, k, m, q) /\ e.view = ViewOf(t, As(n, "entry"), k, m)
  BY DEF Holds, Middle
<1>3. /\ s = StateOf(b, t, n, l \bullet k, q)
      /\ s.base = Size(b) /\ s.text = Size(t) /\ s.entry = Size(n)
      /\ s.okuri = Size(l) + Size(k) /\ (s.okuri > 0 <=> l # Nothing)
      /\ Size(e.buffer) = Size(b) + Size(t) + Size(n) + Size(l) + Size(k) + Size(m)
      /\ \A f, x : IsEngine(f) /\ f.states = e.states /\ x \in States =>
           SetTop(f, x) = [f EXCEPT !.states = Push(low, x)]
  BY <1>2, Reads
<1>4. /\ IsEngine(e) /\ q \in Queries /\ AreParts(b, t, n, l, k, m)
      /\ IsStack(low, b) /\ (low = Nothing => t = Nothing) /\ ChoicesOK(e)
      /\ b \in Texts /\ t \in Texts /\ n \in Texts
      /\ l \in Texts /\ k \in Texts /\ m \in Texts
      /\ Size(b) \in Nat /\ Size(t) \in Nat /\ Size(n) \in Nat
      /\ Size(l) \in {0, 1} /\ Size(k) \in Nat /\ Size(m) \in Nat
      /\ (l = Nothing <=> Size(l) = 0) /\ l \bullet k \in Texts
      /\ Nothing \in Texts
  BY <1>2, Unfolded
<1>5. n1 \in Texts /\ Size(n1) = Size(n) + Size(cs) /\ Size(cs) \in Nat
  BY <1>4, TextJoin, TextSize
<1>6. /\ j = Size(m) /\ s.text + s.entry + s.okuri = Size(t) + Size(n) /\ s.okuri = 0
      /\ k = Nothing /\ l \bullet k = Nothing
  <2>1. k = Nothing /\ Size(k) = 0
    BY <1>4, TextSize DEF AreParts
  <2>2. l \bullet k = Nothing
    BY <1>4, <2>1, TextUnit
  <2> HIDE DEF e1, e2, p, n1
  <2>3. QED  BY <1>3, <1>4, <2>1, <2>2
<1>7. Cut(e.buffer, 1, Size(e.buffer) - j) \bullet cs = Whole(b, t, n1, l, k, Nothing)
  <2>1. Cut(e.buffer, 1, Size(e.buffer) - j) = b \bullet (t \bullet (n \bullet (l \bullet k)))
    BY <1>2, <1>6, Slices
  <2>2. Cut(e.buffer, 1, Size(e.buffer) - j) = b \bullet (t \bullet n)
    BY <1>4, <1>6, <2>1, TextUnit
  <2>3. QED  BY <1>4, <1>5, <1>6, <2>2, TextJoin, TextUnit DEF Whole
<1>8. z = StateOf(b, t, n1, l \bullet k, q) /\ z \in States
  <2>1. z = StateOf(b, t, n1, l \bullet k, q)
    BY <1>3, <1>4, <1>5, <1>6 DEF StateOf
  <2>2. QED  BY <1>4, <1>5, <2>1, StateIs
<1>9. /\ e2.buffer = Whole(b, t, n1, l, k, Nothing)
      /\ e2.states = Push(low, z) /\ e2.map = e.map /\ IsEngine(e2)
      /\ e2.view = e.view /\ e2.candidates = e.candidates /\ e2.chosen = e.chosen
      /\ e2.mode = e.mode /\ e2.sent = e.sent /\ e2.learned = e.learned
  <2>1. IsEngine(e1) /\ e1.states = e.states
    BY <1>4 DEF IsEngine, Fields
  <2>2. e2 = [e1 EXCEPT !.states = Push(low, z)]
    BY <1>3, <1>8, <2>1
  <2>3. QED  BY <1>4, <1>7, <2>2 DEF IsEngine, Fields
<1> HIDE DEF s, j, z, e1, e2
<1>10. Stands(e2, low, b, t, n1, l, k, Nothing, q)
  <2>1. AreParts(b, t, n1, l, k, Nothing)
    BY <1>4, <1>5 DEF AreParts
  <2> HIDE DEF n1
  <2>2. QED  BY <1>4, <1>8, <1>9, <2>1 DEF Stands, ChoicesOK, NoChoice
<1>11. /\ As(t, "text") \in Views /\ As(n, "entry") \in Views
       /\ As(k, "okuri") \in Views /\ As(m, "roman") \in Views /\ As(cs, "entry") \in Views
       /\ Size(As(t, "text")) = Size(t) /\ Size(As(n, "entry")) = Size(n)
       /\ Size(As(k, "okuri")) = Size(k) /\ Size(As(m, "roman")) = Size(m)
       /\ As(n1, "entry") = As(n, "entry") \bullet As(cs, "entry")
       /\ As(Nothing, "roman") = Nothing /\ As(k, "okuri") = Nothing
  BY <1>4, <1>6, AsFacts, AsJoin DEF Marks
<1>12. p \in Views /\ Nothing \in Views /\ s.text + s.entry + s.okuri = Size(p)
  BY <1>6, <1>11, ViewJoin, ViewSize, ViewUnit
<1>13. e2.view = p \bullet (As(m, "roman") \bullet Nothing)
  BY <1>2, <1>9, <1>11, ViewUnit, ViewJoin DEF ViewOf
<1>14. p \bullet (As(cs, "entry") \bullet Nothing) = ViewOf(t, Middle(e2, n1), k, Nothing)
  BY <1>9, <1>11, ViewUnit, ViewJoin DEF ViewOf, Middle, NoChoice
<1> HIDE DEF p
<1>15. Replaces(e2, p, As(m, "roman"), Nothing, s.text + s.entry + s.okuri, j, As(cs, "entry"))
  BY <1>6, <1>11, <1>12, <1>13 DEF Replaces
<1>16. QED  BY <1>1, <1>6, <1>9, <1>10, <1>14, <1>15, Composed DEF NoChoice

(* The romaji becomes kana of the text typed for a state below. *)
LEMMA TextReduces ==
  ASSUME NEW e, NEW low, NEW b, NEW t, NEW m, NEW q,
         Holds(e, low, b, t, Nothing, Nothing, Nothing, m, q), NoChoice(e), NEW cs \in Texts,
         e.mode # "kanji", low # Nothing
  PROVE  LET f == RomanReduce(e, cs) IN
         /\ Holds(f, low, b, t \bullet cs, Nothing, Nothing, Nothing, Nothing, q)
         /\ f.mode = e.mode /\ f.map = e.map /\ NoChoice(f)
         /\ f.sent = Append(e.sent, Preedit(f.view)) /\ f.learned = e.learned
<1> DEFINE s == Top(e)
           j == Size(e.buffer) - s.base - (s.text + s.entry + s.okuri)
           z == [s EXCEPT !.text = @ + Size(cs)]
           e1 == [e EXCEPT !.buffer = Cut(@, 1, Size(@) - j) \bullet cs]
           e2 == SetTop(e1, z)
           t1 == t \bullet cs
           p == As(t, "text")
<1>1. Nested(e) => RomanReduce(e, cs) = Compose(e2, s.text + s.entry + s.okuri, j, As(cs, "text"))
  BY DEF RomanReduce, Size, Cut, \bullet
<1>2. Stands(e, low, b, t, Nothing, Nothing, Nothing, m, q) /\ e.view = ViewOf(t, As(Nothing, "entry"), Nothing, m)
  BY DEF Holds, Middle
<1>3. /\ s = StateOf(b, t, Nothing, Nothing \bullet Nothing, q)
      /\ s.base = Size(b) /\ s.text = Size(t) /\ s.entry = Size(Nothing)
      /\ s.okuri = Size(Nothing) + Size(Nothing) /\ Nested(e)
      /\ Size(e.buffer) = Size(b) + Size(t) + Size(Nothing) + Size(Nothing) + Size(Nothing) + Size(m)
      /\ \A f, x : IsEngine(f) /\ f.states = e.states /\ x \in States =>
           SetTop(f, x) = [f EXCEPT !.states = Push(low, x)]
  BY <1>2, Reads
<1>4. /\ IsEngine(e) /\ q \in Queries
      /\ IsStack(low, b) /\ ChoicesOK(e)
      /\ b \in Texts /\ t \in Texts /\ m \in Texts
      /\ Size(b) \in Nat /\ Size(t) \in Nat /\ Size(m) \in Nat
      /\ Nothing \in Texts /\ Size(Nothing) = 0 /\ Nothing \bullet Nothing = Nothing
  BY <1>2, Unfolded, TextUnit
<1>5. t1 \in Texts /\ Size(t1) = Size(t) + Size(cs) /\ Size(cs) \in Nat
  BY <1>4, TextJoin, TextSize
<1>6. /\ j = Size(m) /\ s.text + s.entry + s.okuri = Size(t)
  BY <1>3, <1>4
<1>7. Cut(e.buffer, 1, Size(e.buffer) - j) \bullet cs = Whole(b, t1, Nothing, Nothing, Nothing, Nothing)
  <2>1. Cut(e.buffer, 1, Size(e.buffer) - j) = b \bullet (t \bullet (Nothing \bullet (Nothing \bullet Nothing)))
    BY <1>2, <1>6, Slices
  <2>2. QED  BY <1>4, <1>5, <2>1, TextJoin, TextUnit DEF Whole
<1>8. z = StateOf(b, t1, Nothing, Nothing, q) /\ z \in States
  <2>1. z = StateOf(b, t1, Nothing, Nothing, q)
    BY <1>3, <1>4, <1>5 DEF StateOf
  <2>2. QED  BY <1>4, <1>5, <2>1, StateIs
<1>9. /\ e2.buffer = Whole(b, t1, Nothing, Nothing, Nothing, Nothing)
      /\ e2.states = Push(low, z) /\ e2.map = e.map /\ IsEngine(e2)
      /\ e2.view = e.view /\ e2.candidates = e.candidates /\ e2.chosen = e.chosen
      /\ e2.mode = e.mode /\ e2.sent = e.sent /\ e2.learned = e.learned
  <2>1. IsEngine(e1) /\ e1.states = e.states
    BY <1>4 DEF IsEngine, Fields
  <2>2. e2 = [e1 EXCEPT !.states = Push(low, z)]
    BY <1>3, <1>8, <2>1
  <2>3. QED  BY <1>4, <1>7, <2>2 DEF IsEngine, Fields
<1> HIDE DEF s, j, z, e1, e2
<1>10. Stands(e2, low, b, t1, Nothing, Nothing, Nothing, Nothing, q)
  <2>1. AreParts(b, t1, Nothing, Nothing, Nothing, Nothing)
    BY <1>4, <1>5 DEF AreParts
  <2> HIDE DEF t1
  <2>2. QED  BY <1>4, <1>8, <1>9, <2>1 DEF Stands, ChoicesOK, NoChoice
<1>11. /\ As(t, "text") \in Views /\ As(m, "roman") \in Views /\ As(cs, "text") \in Views
       /\ Size(As(t, "text")) = Size(t) /\ Size(As(m, "roman")) = Size(m)
       /\ As(t1, "text") = As(t, "text") \bullet As(cs, "text")
       /\ As(Nothing, "roman") = Nothing /\ As(Nothing, "entry") = Nothing
       /\ As(Nothing, "okuri") = Nothing
  BY <1>4, AsFacts, AsJoin DEF Marks
<1>12. p \in Views /\ Nothing \in Views /\ s.text + s.entry + s.okuri = Size(p)
  BY <1>6, <1>11, ViewJoin, ViewSize, ViewUnit
<1>13. e2.view = p \bullet (As(m, "roman") \bullet Nothing)
  BY <1>2, <1>9, <1>11, ViewUnit, ViewJoin DEF ViewOf
<1>14. p \bullet (As(cs, "text") \bullet Nothing) = ViewOf(t1, Middle(e2, Nothing), Nothing, Nothing)
  BY <1>9, <1>11, ViewUnit, ViewJoin DEF ViewOf, Middle, NoChoice
<1> HIDE DEF p
<1>15. Replaces(e2, p, As(m, "roman"), Nothing, s.text + s.entry + s.okuri, j, As(cs, "text"))
  BY <1>6, <1>11, <1>12, <1>13 DEF Replaces
<1>16. QED  BY <1>1, <1>3, <1>9, <1>10, <1>14, <1>15, Composed DEF NoChoice

(* With nothing below, the kana are committed at once. *)
LEMMA CommitReduces ==
  ASSUME NEW e, NEW m, NEW q,
         Holds(e, Nothing, Nothing, Nothing, Nothing, Nothing, Nothing, m, q), NoChoice(e),
         NEW cs \in Texts, e.mode # "kanji"
  PROVE  LET f == RomanReduce(e, cs) IN
         /\ Holds(f, Nothing, Nothing, Nothing, Nothing, Nothing, Nothing, Nothing, Nothing)
         /\ f.mode = e.mode /\ f.map = e.map /\ NoChoice(f)
         /\ f.sent = Append(e.sent, Committed(cs)) /\ f.learned = e.learned
         /\ f.buffer = Nothing
<1> DEFINE s == Top(e)
           j == Size(e.buffer) - s.base - (s.text + s.entry + s.okuri)
           e1 == [e EXCEPT !.buffer = Cut(@, 1, Size(@) - j) \bullet cs]
           f == CommitBuffer(e1)
<1>1. ~Nested(e) => RomanReduce(e, cs) = f
  BY DEF RomanReduce, Size, Cut, \bullet
<1>2. Stands(e, Nothing, Nothing, Nothing, Nothing, Nothing, Nothing, m, q)
  BY DEF Holds
<1>3. /\ s = StateOf(Nothing, Nothing, Nothing, Nothing \bullet Nothing, q)
      /\ s.base = Size(Nothing) /\ s.text = Size(Nothing) /\ s.entry = Size(Nothing)
      /\ s.okuri = Size(Nothing) + Size(Nothing) /\ ~Nested(e)
      /\ Size(e.buffer) = Size(Nothing) + Size(Nothing) + Size(Nothing) + Size(Nothing)
                           + Size(Nothing) + Size(m)
  BY <1>2, Reads
<1>4. /\ IsEngine(e) /\ q \in Queries /\ ChoicesOK(e) /\ m \in Texts /\ Size(m) \in Nat
      /\ e.states = Push(Nothing, StateOf(Nothing, Nothing, Nothing, Nothing \bullet Nothing, q))
      /\ Nothing \in Texts /\ Size(Nothing) = 0 /\ Nothing \bullet Nothing = Nothing
  BY <1>2, Unfolded, TextUnit
<1>5. j = Size(m)
  BY <1>3, <1>4
<1>6. Cut(e.buffer, 1, Size(e.buffer) - j) \bullet cs = cs
  <2>1. Cut(e.buffer, 1, Size(e.buffer) - j)
          = Nothing \bullet (Nothing \bullet (Nothing \bullet (Nothing \bullet Nothing)))
    BY <1>2, <1>5, Slices
  <2>2. QED  BY <1>4, <2>1, TextUnit
<1>7. /\ IsEngine(e1) /\ e1.buffer = cs /\ e1.states = e.states /\ e1.mode = e.mode
      /\ e1.map = e.map /\ e1.sent = e.sent /\ e1.learned = e.learned
      /\ e1.candidates = e.candidates /\ e1.chosen = e.chosen
  BY <1>4, <1>6 DEF IsEngine, Fields
<1> HIDE DEF s, j, e1
<1>8. ChoicesOK(e1) /\ NoChoice(e1)
  BY <1>4, <1>7 DEF ChoicesOK, NoChoice
<1> DEFINE z == StateOf(Nothing, Nothing, Nothing, Nothing \bullet Nothing, q)
<1>9. z \in States /\ e1.states = Push(Nothing, z)
  BY <1>4, <1>7, StateIs
<1> HIDE DEF f, z
<1>10. /\ Holds(f, Nothing, Nothing, Nothing, Nothing, Nothing, Nothing, Nothing, Nothing)
       /\ f.mode = e1.mode /\ f.map = e1.map /\ NoChoice(f)
       /\ f.sent = Append(e1.sent, Committed(e1.buffer)) /\ f.learned = e1.learned
       /\ f.buffer = Nothing
  BY <1>7, <1>8, <1>9, BufferCommits DEF f
<1>11. QED  BY <1>1, <1>3, <1>7, <1>10

-----------------------------------------------------------------------------
(* What the dictionary finds, and what it is asked. *)
LEMMA FoundWords ==
  /\ \A found, i : found \in Findings /\ i \in Nat /\ i < Len(found) => found[i + 1] \in Texts
  /\ \A found : found \in Findings /\ found # Nothing => 0 < Len(found)
<1>1. \A x \in Seq({"word"}) : x \in Texts
  BY DEF Texts, Chars, Nothing
<1>2. Findings \subseteq Seq(Seq({"word"}))
  BY EngineAssumption
<1>3. ASSUME NEW found \in Findings
      PROVE  /\ \A i \in Nat : i < Len(found) => found[i + 1] \in Seq({"word"})
             /\ found # Nothing => 0 < Len(found)
  <2>1. found \in Seq(Seq({"word"}))
    BY <1>2
  <2>2. QED  BY <2>1 DEF Nothing
<1>4. QED  BY <1>1, <1>3

(* The dictionary is asked about the entry and the okuri of the top state. *)
LEMMA AskedIs ==
  ASSUME NEW e, NEW low, NEW b, NEW t, NEW n, NEW l, NEW k, NEW m, NEW q,
         Stands(e, low, b, t, n, l, k, m, q)
  PROVE  Asked(e, Top(e)) = <<n, l \bullet k>> /\ <<n, l \bullet k>> \in Queries
<1> DEFINE s == Top(e)
<1>1. Asked(e, s) = <<Cut(e.buffer, s.base + s.text + 1, s.base + s.text + s.entry),
                      Cut(e.buffer, s.base + s.text + s.entry + 1,
                                    s.base + s.text + s.entry + s.okuri)>>
  BY DEF Asked, Slice, Cut
<1>2. /\ Cut(e.buffer, s.base + s.text + 1, s.base + s.text + s.entry) = n
      /\ Cut(e.buffer, s.base + s.text + s.entry + 1, s.base + s.text + s.entry + s.okuri)
           = l \bullet k
  BY Slices
<1>3. n \in Texts /\ l \bullet k \in Texts
  BY Unfolded
<1>4. <<n, l \bullet k>> \in Queries
  BY <1>3 DEF Queries
<1>5. QED  BY <1>1, <1>2, <1>4

(* The user is asked for a word, with nothing of what was shown left. *)
LEMMA UserAsked ==
  ASSUME NEW e, NEW low, NEW b, NEW t, NEW n, NEW l, NEW k, NEW j,
         Stands(e, low, b, t, n, l, k, Nothing, <<n, l \bullet k>>),
         e.view \in Views, j = Size(e.view)
  PROVE  LET f   == Compose(AskUser(e), 0, j, Nothing)
             up  == Push(low, StateOf(b, t, n, l \bullet k, <<n, l \bullet k>>))
         IN /\ Holds(f, up, e.buffer, Nothing, Nothing, Nothing, Nothing, Nothing, Nothing)
            /\ f.mode = "roman" /\ f.map = e.map /\ NoChoice(f)
            /\ f.sent = Append(e.sent, Preedit(f.view)) /\ f.learned = e.learned
            /\ up # Nothing
<1> DEFINE o == l \bullet k
           s == StateOf(b, t, n, o, <<n, o>>)
           up == Push(low, s)
           z == NewState(Size(e.buffer))
           e1 == AskUser(e)
           w == e.buffer
<1>1. /\ IsEngine(e) /\ IsStack(low, b) /\ (low = Nothing => t = Nothing) /\ ChoicesOK(e)
      /\ b \in Texts /\ t \in Texts /\ n \in Texts /\ o \in Texts
      /\ l \in Texts /\ k \in Texts
      /\ e.buffer = Whole(b, t, n, l, k, Nothing) /\ e.states = up
      /\ Nothing \in Texts /\ Size(Nothing) = 0
  BY Unfolded
<1>2. e.buffer = b \bullet (t \bullet (n \bullet o)) /\ e.buffer \in Texts
  BY <1>1, TextUnit, TextJoin DEF Whole
<1>3. IsStack(up, w) /\ up # Nothing
  BY <1>1, <1>2, Stacked
<1>4. z = StateOf(w, Nothing, Nothing, Nothing, Nothing) /\ Nothing \in Queries
  BY <1>2, NewIs
<1>5. e1 = [e EXCEPT !.mode = "roman", !.candidates = Nothing, !.states = Push(up, z)]
  BY <1>1 DEF AskUser, Push, Size, Nothing, IsEngine
<1> HIDE DEF z, up
<1>6. /\ IsEngine(e1) /\ e1.states = Push(up, z) /\ e1.buffer = w /\ e1.mode = "roman"
      /\ e1.candidates = Nothing /\ e1.chosen = e.chosen /\ e1.view = e.view
      /\ e1.map = e.map /\ e1.sent = e.sent /\ e1.learned = e.learned
  BY <1>1, <1>5 DEF IsEngine, Fields
<1> HIDE DEF e1, w
<1>7. NoChoice(e1) /\ ChoicesOK(e1)
  BY <1>1, <1>6 DEF NoChoice, ChoicesOK, Nothing
<1>8. Stands(e1, up, w, Nothing, Nothing, Nothing, Nothing, Nothing, Nothing)
  <2>1. AreParts(w, Nothing, Nothing, Nothing, Nothing, Nothing)
    BY <1>1, <1>2 DEF AreParts, w
  <2>2. Nothing \bullet Nothing = Nothing /\ w \bullet Nothing = w
    BY <1>1, <1>2, TextUnit DEF w
  <2>3. Whole(w, Nothing, Nothing, Nothing, Nothing, Nothing) = w
    BY <2>2 DEF Whole
  <2>4. QED  BY <1>3, <1>4, <1>6, <1>7, <2>1, <2>2, <2>3 DEF Stands
<1>9. /\ As(Nothing, "text") = Nothing /\ As(Nothing, "entry") = Nothing
      /\ As(Nothing, "okuri") = Nothing /\ As(Nothing, "roman") = Nothing
      /\ Nothing \bullet Nothing = Nothing
  BY AsFacts, TextUnit DEF Marks
<1>10. Nothing \bullet (Nothing \bullet Nothing)
         = ViewOf(Nothing, Middle(e1, Nothing), Nothing, Nothing)
  BY <1>7, <1>9 DEF ViewOf, Middle
<1>11. Replaces(e1, Nothing, e.view, Nothing, 0, j, Nothing)
  BY <1>1, <1>6, ViewUnit DEF Replaces
<1>12. QED  BY <1>3, <1>6, <1>7, <1>8, <1>10, <1>11, Composed DEF NoChoice, e1, w, up, s, o

(* The state that is converted remembers what was asked. *)
LEMMA AskedSet ==
  ASSUME NEW e, NEW low, NEW b, NEW t, NEW n, NEW l, NEW k, NEW q,
         Holds(e, low, b, t, n, l, k, Nothing, q), NoChoice(e)
  PROVE  LET e1 == SetTop(e, [Top(e) EXCEPT !.asked = Asked(e, Top(e))]) IN
         /\ Holds(e1, low, b, t, n, l, k, Nothing, <<n, l \bullet k>>) /\ NoChoice(e1)
         /\ e1.mode = e.mode /\ e1.map = e.map /\ e1.sent = e.sent /\ e1.learned = e.learned
         /\ e1.buffer = e.buffer
<1> DEFINE s == Top(e)
           z == [s EXCEPT !.asked = Asked(e, s)]
           e1 == SetTop(e, z)
           q1 == <<n, l \bullet k>>
<1>1. Stands(e, low, b, t, n, l, k, Nothing, q) /\ e.view = ViewOf(t, Middle(e, n), k, Nothing)
  BY DEF Holds
<1>2. /\ s = StateOf(b, t, n, l \bullet k, q)
      /\ \A f, x : IsEngine(f) /\ f.states = e.states /\ x \in States =>
           SetTop(f, x) = [f EXCEPT !.states = Push(low, x)]
  BY <1>1, Reads
<1>3. /\ IsEngine(e) /\ AreParts(b, t, n, l, k, Nothing)
      /\ IsStack(low, b) /\ (low = Nothing => t = Nothing) /\ ChoicesOK(e)
      /\ b \in Texts /\ t \in Texts /\ n \in Texts /\ l \bullet k \in Texts
      /\ e.buffer = Whole(b, t, n, l, k, Nothing)
  BY <1>1, Unfolded
<1>4. Asked(e, s) = q1 /\ q1 \in Queries
  BY <1>1, AskedIs
<1>5. z = StateOf(b, t, n, l \bullet k, q1) /\ z \in States
  <2>1. z = StateOf(b, t, n, l \bullet k, q1)
    BY <1>2, <1>4 DEF StateOf
  <2>2. QED  BY <1>3, <1>4, <2>1, StateIs
<1>6. e1 = [e EXCEPT !.states = Push(low, z)]
  BY <1>2, <1>3, <1>5
<1> HIDE DEF s, z
<1>7. /\ IsEngine(e1) /\ e1.states = Push(low, z) /\ e1.buffer = e.buffer /\ e1.mode = e.mode
      /\ e1.candidates = e.candidates /\ e1.chosen = e.chosen /\ e1.view = e.view
      /\ e1.map = e.map /\ e1.sent = e.sent /\ e1.learned = e.learned
  BY <1>3, <1>6 DEF IsEngine, Fields
<1> HIDE DEF e1
<1>8. NoChoice(e1) /\ ChoicesOK(e1)
  BY <1>3, <1>7 DEF NoChoice, ChoicesOK
<1> HIDE DEF q1
<1>9. Stands(e1, low, b, t, n, l, k, Nothing, q1)
  BY <1>3, <1>4, <1>5, <1>7, <1>8 DEF Stands
<1>10. e1.view = ViewOf(t, Middle(e1, n), k, Nothing)
  BY <1>1, <1>7 DEF Middle, NoChoice
<1>11. QED  BY <1>7, <1>8, <1>9, <1>10 DEF Holds, e1, z, s, q1

(* How long what is shown is. *)
LEMMA Shows ==
  ASSUME NEW t, NEW mid, NEW k, NEW m, t \in Texts, k \in Texts, m \in Texts, mid \in Views
  PROVE  /\ ViewOf(t, mid, k, m) \in Views
         /\ Size(ViewOf(t, mid, k, m)) = Size(t) + Size(mid) + Size(k) + Size(m)
         /\ As(t, "text") \in Views /\ As(k, "okuri") \in Views /\ As(m, "roman") \in Views
         /\ Size(As(t, "text")) = Size(t) /\ Size(As(k, "okuri")) = Size(k)
         /\ Size(As(m, "roman")) = Size(m)
         /\ Size(t) \in Nat /\ Size(k) \in Nat /\ Size(m) \in Nat /\ Size(mid) \in Nat
<1>1. /\ As(t, "text") \in Views /\ As(k, "okuri") \in Views /\ As(m, "roman") \in Views
      /\ Size(As(t, "text")) = Size(t) /\ Size(As(k, "okuri")) = Size(k)
      /\ Size(As(m, "roman")) = Size(m)
  BY AsFacts DEF Marks
<1>2. /\ Size(t) \in Nat /\ Size(k) \in Nat /\ Size(m) \in Nat /\ Size(mid) \in Nat
  BY TextSize, ViewSize
<1>3. QED  BY <1>1, <1>2, ViewJoin, ViewSize DEF ViewOf

(* The dictionary has nothing ... *)
LEMMA ChooseMisses ==
  ASSUME NEW e, NEW low, NEW b, NEW t, NEW n, NEW l, NEW k, NEW q,
         Holds(e, low, b, t, n, l, k, Nothing, q), NoChoice(e)
  PROVE  LET f   == Choose(e, Nothing)
             up  == Push(low, StateOf(b, t, n, l \bullet k, <<n, l \bullet k>>))
         IN /\ Holds(f, up, e.buffer, Nothing, Nothing, Nothing, Nothing, Nothing, Nothing)
            /\ f.mode = "roman" /\ f.map = e.map /\ NoChoice(f)
            /\ f.sent = Append(e.sent, Preedit(f.view)) /\ f.learned = e.learned
            /\ up # Nothing
<1> DEFINE s == Top(e)
           e1 == SetTop(e, [s EXCEPT !.asked = Asked(e, s)])
           j == Inflected(s.text + s.entry, s)
           q1 == <<n, l \bullet k>>
<1>1. Choose(e, Nothing) = Compose(AskUser(e1), 0, j, Nothing)
  BY DEF Choose, Nothing
<1>2. /\ Holds(e1, low, b, t, n, l, k, Nothing, q1) /\ NoChoice(e1)
      /\ e1.mode = e.mode /\ e1.map = e.map /\ e1.sent = e.sent /\ e1.learned = e.learned
      /\ e1.buffer = e.buffer
  BY AskedSet
<1>3. Stands(e, low, b, t, n, l, k, Nothing, q)
  BY DEF Holds
<1>4. s.text = Size(t) /\ s.entry = Size(n) /\ Inflection(s) = Size(k)
  BY <1>3, Reads
<1>5. /\ t \in Texts /\ n \in Texts /\ k \in Texts /\ Nothing \in Texts /\ Size(Nothing) = 0
      /\ Size(n) \in Nat
  BY <1>3, Unfolded
<1> HIDE DEF e1
<1>6. Stands(e1, low, b, t, n, l, k, Nothing, q1) /\ e1.view = ViewOf(t, As(n, "entry"), k, Nothing)
  BY <1>2 DEF Holds, Middle
<1>7. As(n, "entry") \in Views /\ Size(As(n, "entry")) = Size(n)
  BY <1>5, AsFacts DEF Marks
<1>8. e1.view \in Views /\ j = Size(e1.view)
  <2>1. /\ e1.view \in Views /\ Size(e1.view) = Size(t) + Size(n) + Size(k) + Size(Nothing)
        /\ Size(t) \in Nat /\ Size(k) \in Nat
    BY <1>5, <1>6, <1>7, Shows
  <2>2. QED  BY <1>4, <1>5, <2>1 DEF Inflected
<1> HIDE DEF s, j
<1>9. LET f   == Compose(AskUser(e1), 0, j, Nothing)
          up  == Push(low, StateOf(b, t, n, l \bullet k, <<n, l \bullet k>>))
      IN /\ Holds(f, up, e1.buffer, Nothing, Nothing, Nothing, Nothing, Nothing, Nothing)
         /\ f.mode = "roman" /\ f.map = e1.map /\ NoChoice(f)
         /\ f.sent = Append(e1.sent, Preedit(f.view)) /\ f.learned = e1.learned
         /\ up # Nothing
  BY <1>6, <1>8, UserAsked
<1>10. QED  BY <1>1, <1>2, <1>9

(* ... or candidates, the first of which is shown. *)
LEMMA ChooseFinds ==
  ASSUME NEW e, NEW low, NEW b, NEW t, NEW n, NEW l, NEW k, NEW q,
         Holds(e, low, b, t, n, l, k, Nothing, q), NoChoice(e),
         NEW found \in Findings, found # Nothing
  PROVE  LET f == Choose(e, found) IN
         /\ Holds(f, low, b, t, n, l, k, Nothing, <<n, l \bullet k>>)
         /\ f.mode = "choose" /\ f.map = e.map /\ ~NoChoice(f)
         /\ f.sent = Append(e.sent, Preedit(f.view)) /\ f.learned = e.learned
<1> DEFINE s == Top(e)
           e1 == SetTop(e, [s EXCEPT !.asked = Asked(e, s)])
           e2 == [e1 EXCEPT !.mode = "choose", !.candidates = found, !.chosen = 0]
           cs == As(found[1], "candidate")
           q1 == <<n, l \bullet k>>
           p == As(t, "text")
           old == As(n, "entry")
           r == As(k, "okuri") \bullet As(Nothing, "roman")
<1>1. Choose(e, found) = Compose(e2, s.text, s.entry, cs)
  BY DEF Choose, Nothing
<1>2. /\ Holds(e1, low, b, t, n, l, k, Nothing, q1) /\ NoChoice(e1)
      /\ e1.mode = e.mode /\ e1.map = e.map /\ e1.sent = e.sent /\ e1.learned = e.learned
      /\ e1.buffer = e.buffer
  BY AskedSet
<1>3. Stands(e, low, b, t, n, l, k, Nothing, q)
  BY DEF Holds
<1>4. s.text = Size(t) /\ s.entry = Size(n)
  BY <1>3, Reads
<1>5. t \in Texts /\ n \in Texts /\ k \in Texts /\ Nothing \in Texts
  BY <1>3, Unfolded
<1> HIDE DEF e1
<1>6. Stands(e1, low, b, t, n, l, k, Nothing, q1) /\ e1.view = ViewOf(t, old, k, Nothing)
  BY <1>2 DEF Holds, Middle
<1>7. /\ IsEngine(e2) /\ e2.states = e1.states /\ e2.buffer = e1.buffer /\ e2.mode = "choose"
      /\ e2.candidates = found /\ e2.chosen = 0 /\ e2.view = e1.view
      /\ e2.map = e1.map /\ e2.sent = e1.sent /\ e2.learned = e1.learned
  BY <1>6, Unfolded DEF IsEngine, Fields
<1>8. found[1] \in Texts /\ 0 < Len(found)
  <2>1. 0 < Len(found)
    BY FoundWords
  <2>2. found[0 + 1] \in Texts
    BY <2>1, FoundWords
  <2>3. QED  BY <2>1, <2>2
<1> HIDE DEF e2, s
<1>9. ~NoChoice(e2) /\ ChoicesOK(e2)
  BY <1>7, <1>8 DEF NoChoice, ChoicesOK, Nothing
<1> HIDE DEF q1
<1>10. Stands(e2, low, b, t, n, l, k, Nothing, q1)
  BY <1>6, <1>7, <1>9 DEF Stands
<1>11. cs \in Views /\ old \in Views /\ Size(old) = Size(n) /\ p \in Views /\ Size(p) = Size(t)
       /\ r \in Views
  BY <1>5, <1>8, AsFacts, ViewJoin DEF Marks
<1>12. e2.view = p \bullet (old \bullet r)
  BY <1>6, <1>7 DEF ViewOf
<1>13. p \bullet (cs \bullet r) = ViewOf(t, Middle(e2, n), k, Nothing)
  BY <1>7, <1>9 DEF ViewOf, Middle
<1> HIDE DEF p, old, r, cs
<1>14. Replaces(e2, p, old, r, s.text, s.entry, cs)
  BY <1>4, <1>11, <1>12 DEF Replaces
<1>15. QED  BY <1>1, <1>2, <1>7, <1>9, <1>10, <1>13, <1>14, Composed DEF NoChoice, q1

-----------------------------------------------------------------------------
(* Characters of the text typed for a state below. *)
LEMMA TextPushes ==
  ASSUME NEW e, NEW low, NEW b, NEW t, NEW q,
         Holds(e, low, b, t, Nothing, Nothing, Nothing, Nothing, q), NoChoice(e),
         NEW c \in Chars, low # Nothing
  PROVE  LET f == TextPush(e, c) IN
         /\ Holds(f, low, b, t \bullet <<c>>, Nothing, Nothing, Nothing, Nothing, q)
         /\ f.mode = e.mode /\ f.map = e.map /\ NoChoice(f)
         /\ f.sent = Append(e.sent, Preedit(f.view)) /\ f.learned = e.learned
<1> DEFINE s == Top(e)
           z == [s EXCEPT !.text = @ + 1]
           e1 == [e EXCEPT !.buffer = Append(@, c)]
           e2 == SetTop(e1, z)
           cs == As(<<c>>, "text")
           t1 == t \bullet <<c>>
           p == As(t, "text")
<1>1. Nested(e) => TextPush(e, c) = Compose(e2, s.text, 0, cs)
  BY DEF TextPush
<1>2. /\ Stands(e, low, b, t, Nothing, Nothing, Nothing, Nothing, q)
      /\ e.view = ViewOf(t, As(Nothing, "entry"), Nothing, Nothing)
  BY DEF Holds, Middle
<1>3. /\ s = StateOf(b, t, Nothing, Nothing \bullet Nothing, q) /\ s.text = Size(t) /\ Nested(e)
      /\ \A f, x : IsEngine(f) /\ f.states = e.states /\ x \in States =>
           SetTop(f, x) = [f EXCEPT !.states = Push(low, x)]
  BY <1>2, Reads
<1>4. /\ IsEngine(e) /\ q \in Queries /\ IsStack(low, b) /\ ChoicesOK(e)
      /\ e.buffer = Whole(b, t, Nothing, Nothing, Nothing, Nothing)
      /\ b \in Texts /\ t \in Texts /\ Size(b) \in Nat /\ Size(t) \in Nat
      /\ Nothing \in Texts /\ Size(Nothing) = 0 /\ Nothing \bullet Nothing = Nothing
  BY <1>2, Unfolded, TextUnit
<1>5. <<c>> \in Texts /\ Size(<<c>>) = 1 /\ t1 \in Texts /\ Size(t1) = Size(t) + 1
  <2>1. <<c>> \in Texts /\ Size(<<c>>) = 1
    BY TextEnds
  <2>2. QED  BY <1>4, <2>1, TextJoin, TextSize
<1>6. Append(e.buffer, c) = Whole(b, t1, Nothing, Nothing, Nothing, Nothing)
  <2>1. e.buffer = b \bullet t /\ b \bullet t \in Texts
    BY <1>4, TextUnit, TextJoin DEF Whole
  <2>2. Append(e.buffer, c) = (b \bullet t) \bullet <<c>>
    BY <2>1, TextEnds
  <2>3. (b \bullet t) \bullet <<c>> = b \bullet t1
    BY <1>4, <1>5, TextJoin
  <2> HIDE DEF t1
  <2>4. QED  BY <1>4, <1>5, <2>2, <2>3, TextUnit, TextJoin DEF Whole
<1>7. z = StateOf(b, t1, Nothing, Nothing, q) /\ z \in States
  <2>1. z = StateOf(b, t1, Nothing, Nothing, q)
    BY <1>3, <1>4, <1>5 DEF StateOf
  <2>2. QED  BY <1>4, <1>5, <2>1, StateIs
<1>8. /\ e2.buffer = Whole(b, t1, Nothing, Nothing, Nothing, Nothing)
      /\ e2.states = Push(low, z) /\ e2.map = e.map /\ IsEngine(e2)
      /\ e2.view = e.view /\ e2.candidates = e.candidates /\ e2.chosen = e.chosen
      /\ e2.mode = e.mode /\ e2.sent = e.sent /\ e2.learned = e.learned
  <2>1. IsEngine(e1) /\ e1.states = e.states
    BY <1>4 DEF IsEngine, Fields
  <2>2. e2 = [e1 EXCEPT !.states = Push(low, z)]
    BY <1>3, <1>7, <2>1
  <2>3. QED  BY <1>4, <1>6, <2>2 DEF IsEngine, Fields
<1> HIDE DEF s, z, e1, e2
<1>9. Stands(e2, low, b, t1, Nothing, Nothing, Nothing, Nothing, q)
  <2>1. AreParts(b, t1, Nothing, Nothing, Nothing, Nothing)
    BY <1>4, <1>5 DEF AreParts
  <2> HIDE DEF t1
  <2>2. QED  BY <1>4, <1>7, <1>8, <2>1 DEF Stands, ChoicesOK, NoChoice
<1>10. /\ p \in Views /\ cs \in Views /\ Size(p) = Size(t)
       /\ As(t1, "text") = p \bullet cs
       /\ As(Nothing, "entry") = Nothing /\ As(Nothing, "okuri") = Nothing
       /\ As(Nothing, "roman") = Nothing /\ Nothing \in Views /\ Size(Nothing) = 0
  BY <1>4, <1>5, AsFacts, AsJoin, ViewUnit DEF Marks
<1>11. e2.view = p \bullet (Nothing \bullet Nothing)
  BY <1>2, <1>8, <1>10, ViewUnit DEF ViewOf
<1>12. p \bullet (cs \bullet Nothing) = ViewOf(t1, Middle(e2, Nothing), Nothing, Nothing)
  BY <1>8, <1>10, ViewUnit, ViewJoin DEF ViewOf, Middle, NoChoice
<1> HIDE DEF p, cs
<1>13. Replaces(e2, p, Nothing, Nothing, s.text, 0, cs)
  BY <1>3, <1>10, <1>11 DEF Replaces
<1>14. QED  BY <1>1, <1>3, <1>8, <1>9, <1>12, <1>13, Composed DEF NoChoice

(* With nothing below they are committed. *)
LEMMA TextSends ==
  ASSUME NEW e, NEW b, NEW t, NEW q,
         Holds(e, Nothing, b, t, Nothing, Nothing, Nothing, Nothing, q), NoChoice(e), NEW c
  PROVE  LET f == TextPush(e, c) IN
         /\ Holds(f, Nothing, b, t, Nothing, Nothing, Nothing, Nothing, q)
         /\ f.mode = e.mode /\ f.map = e.map /\ NoChoice(f)
         /\ f.sent = Append(e.sent, Committed(<<c>>)) /\ f.learned = e.learned
<1> DEFINE f == [e EXCEPT !.view = Nothing, !.sent = Append(@, Committed(<<c>>))]
<1>1. Stands(e, Nothing, b, t, Nothing, Nothing, Nothing, Nothing, q)
  BY DEF Holds
<1>2. ~Nested(e) => TextPush(e, c) = f
  BY DEF TextPush, Commit, Committed, Nothing
<1>3. ~Nested(e)
  BY <1>1, Reads
<1>4. IsEngine(e) /\ t = Nothing
  BY <1>1, Unfolded
<1>5. /\ f.buffer = e.buffer /\ f.states = e.states /\ f.map = e.map /\ IsEngine(f)
      /\ f.view = Nothing /\ f.candidates = e.candidates /\ f.chosen = e.chosen
      /\ f.mode = e.mode /\ f.sent = Append(e.sent, Committed(<<c>>)) /\ f.learned = e.learned
  BY <1>4 DEF IsEngine, Fields
<1> HIDE DEF f
<1>6. Stands(f, Nothing, b, t, Nothing, Nothing, Nothing, Nothing, q) /\ NoChoice(f)
  BY <1>1, <1>5 DEF Stands, ChoicesOK, NoChoice
<1>7. /\ As(Nothing, "text") = Nothing /\ As(Nothing, "entry") = Nothing
      /\ As(Nothing, "okuri") = Nothing /\ As(Nothing, "roman") = Nothing
      /\ Nothing \bullet Nothing = Nothing
  BY AsFacts, TextUnit DEF Marks
<1>8. f.view = ViewOf(t, Middle(f, Nothing), Nothing, Nothing)
  BY <1>4, <1>5, <1>6, <1>7 DEF ViewOf, Middle
<1>9. QED  BY <1>2, <1>3, <1>5, <1>6, <1>8 DEF Holds

(* The key is left to the application. *)
Forwarded == [type |-> "forward", cs |-> Nothing]

(* ... and nothing else changes. *)
LEMMA Forwards ==
  ASSUME NEW e, NEW low, NEW b, NEW t, NEW n, NEW l, NEW k, NEW m, NEW q,
         Holds(e, low, b, t, n, l, k, m, q)
  PROVE  LET f == Forward(e) IN
         /\ Holds(f, low, b, t, n, l, k, m, q)
         /\ f.mode = e.mode /\ f.map = e.map /\ f.candidates = e.candidates
         /\ f.sent = Append(e.sent, Forwarded) /\ f.learned = e.learned
<1> DEFINE f == Forward(e)
<1>1. Stands(e, low, b, t, n, l, k, m, q) /\ e.view = ViewOf(t, Middle(e, n), k, m)
  BY DEF Holds
<1>2. f = [e EXCEPT !.sent = Append(@, Forwarded)]
  BY DEF Forward, Forwarded, Nothing
<1>3. /\ f.buffer = e.buffer /\ f.states = e.states /\ f.map = e.map /\ IsEngine(f)
      /\ f.view = e.view /\ f.candidates = e.candidates /\ f.chosen = e.chosen
      /\ f.mode = e.mode /\ f.sent = Append(e.sent, Forwarded) /\ f.learned = e.learned
  BY <1>1, <1>2, Unfolded DEF IsEngine, Fields
<1> HIDE DEF f
<1>4. Stands(f, low, b, t, n, l, k, m, q)
  BY <1>1, <1>3 DEF Stands, ChoicesOK, NoChoice
<1>5. f.view = ViewOf(t, Middle(f, n), k, m)
  BY <1>1, <1>3 DEF Middle, NoChoice
<1>6. QED  BY <1>3, <1>4, <1>5 DEF Holds, f

(* BackSpace drops the last character of the text of a nested state. *)
LEMMA TextPops ==
  ASSUME NEW e, NEW low, NEW b, NEW t, NEW q, NEW c \in Chars,
         Holds(e, low, b, t \bullet <<c>>, Nothing, Nothing, Nothing, Nothing, q), NoChoice(e),
         t \in Texts, low # Nothing
  PROVE  LET f == TextPop(e) IN
         /\ Holds(f, low, b, t, Nothing, Nothing, Nothing, Nothing, q)
         /\ f.mode = e.mode /\ f.map = e.map /\ NoChoice(f)
         /\ f.sent = Append(e.sent, Preedit(f.view)) /\ f.learned = e.learned
<1> DEFINE s == Top(e)
           z == [s EXCEPT !.text = @ - 1]
           e1 == [e EXCEPT !.buffer = Cut(@, 1, Size(@) - 1)]
           e2 == SetTop(e1, z)
           t1 == t \bullet <<c>>
           p == As(t, "text")
           old == As(<<c>>, "text")
<1>1. s.text > 0 => TextPop(e) = Compose(e2, s.text - 1, 1, Nothing)
  BY DEF TextPop, Cut, Size, Nothing
<1>2. /\ Stands(e, low, b, t1, Nothing, Nothing, Nothing, Nothing, q)
      /\ e.view = ViewOf(t1, As(Nothing, "entry"), Nothing, Nothing)
  BY DEF Holds, Middle
<1> HIDE DEF t1
<1>3. /\ s = StateOf(b, t1, Nothing, Nothing \bullet Nothing, q) /\ s.text = Size(t1)
      /\ \A f, x : IsEngine(f) /\ f.states = e.states /\ x \in States =>
           SetTop(f, x) = [f EXCEPT !.states = Push(low, x)]
  BY <1>2, Reads
<1>4. /\ IsEngine(e) /\ q \in Queries /\ IsStack(low, b) /\ ChoicesOK(e)
      /\ e.buffer = Whole(b, t1, Nothing, Nothing, Nothing, Nothing)
      /\ b \in Texts /\ Size(b) \in Nat
      /\ Nothing \in Texts /\ Size(Nothing) = 0 /\ Nothing \bullet Nothing = Nothing
  BY <1>2, Unfolded, TextUnit
<1>5. /\ <<c>> \in Texts /\ Size(<<c>>) = 1 /\ t1 \in Texts /\ Size(t1) = Size(t) + 1
      /\ Size(t) \in Nat
  <2>1. <<c>> \in Texts /\ Size(<<c>>) = 1
    BY TextEnds
  <2>2. QED  BY <1>4, <2>1, TextJoin, TextSize DEF t1
<1>6. Cut(e.buffer, 1, Size(e.buffer) - 1) = Whole(b, t, Nothing, Nothing, Nothing, Nothing)
  <2>1. e.buffer = b \bullet t1
    BY <1>4, <1>5, TextUnit DEF Whole
  <2>2. e.buffer = (b \bullet t) \bullet <<c>> /\ b \bullet t \in Texts
    BY <1>4, <1>5, <2>1, TextJoin DEF t1
  <2>3. Size(e.buffer) = Size(b \bullet t) + 1 /\ Size(b \bullet t) \in Nat
    BY <1>5, <2>2, TextSize
  <2>4. Cut(e.buffer, 1, Size(b \bullet t)) = b \bullet t
    BY <1>5, <2>2, TextCut
  <2>5. Size(e.buffer) - 1 = Size(b \bullet t)
    BY <2>3
  <2>6. QED  BY <1>4, <2>4, <2>5, TextUnit DEF Whole
<1>7. z = StateOf(b, t, Nothing, Nothing, q) /\ z \in States
  <2>1. z = StateOf(b, t, Nothing, Nothing, q)
    BY <1>3, <1>4, <1>5 DEF StateOf
  <2>2. QED  BY <1>4, <1>5, <2>1, StateIs
<1>8. /\ e2.buffer = Whole(b, t, Nothing, Nothing, Nothing, Nothing)
      /\ e2.states = Push(low, z) /\ e2.map = e.map /\ IsEngine(e2)
      /\ e2.view = e.view /\ e2.candidates = e.candidates /\ e2.chosen = e.chosen
      /\ e2.mode = e.mode /\ e2.sent = e.sent /\ e2.learned = e.learned
  <2>1. IsEngine(e1) /\ e1.states = e.states
    BY <1>4 DEF IsEngine, Fields
  <2>2. e2 = [e1 EXCEPT !.states = Push(low, z)]
    BY <1>3, <1>7, <2>1
  <2>3. QED  BY <1>4, <1>6, <2>2 DEF IsEngine, Fields
<1> HIDE DEF s, z, e1, e2
<1>9. Stands(e2, low, b, t, Nothing, Nothing, Nothing, Nothing, q)
  <2>1. AreParts(b, t, Nothing, Nothing, Nothing, Nothing)
    BY <1>4, <1>5 DEF AreParts
  <2>2. QED  BY <1>4, <1>7, <1>8, <2>1 DEF Stands, ChoicesOK, NoChoice
<1>10. /\ p \in Views /\ old \in Views /\ Size(p) = Size(t) /\ Size(old) = 1
       /\ As(t1, "text") = p \bullet old
       /\ As(Nothing, "entry") = Nothing /\ As(Nothing, "okuri") = Nothing
       /\ As(Nothing, "roman") = Nothing /\ Nothing \in Views
  BY <1>4, <1>5, AsFacts, AsJoin, ViewUnit DEF Marks, t1
<1>11. e2.view = p \bullet (old \bullet Nothing)
  BY <1>2, <1>8, <1>10, ViewUnit, ViewJoin DEF ViewOf
<1>12. p \bullet (Nothing \bullet Nothing) = ViewOf(t, Middle(e2, Nothing), Nothing, Nothing)
  BY <1>8, <1>10, ViewUnit DEF ViewOf, Middle, NoChoice
<1> HIDE DEF p, old
<1>13. s.text - 1 = Size(p) /\ s.text > 0
  BY <1>3, <1>5, <1>10
<1>14. Replaces(e2, p, old, Nothing, s.text - 1, 1, Nothing)
  BY <1>10, <1>11, <1>13 DEF Replaces
<1>15. QED  BY <1>1, <1>8, <1>9, <1>12, <1>13, <1>14, Composed DEF NoChoice

-----------------------------------------------------------------------------
(* Back to the state below, over the text typed for it. *)
BelowIs(e, low, t, low1, b1, t1, n1, l1, k1) ==
  /\ Stands(Pop(e), low1, b1, t1, n1, l1, k1, t, <<n1, l1 \bullet k1>>)
  /\ low = Push(low1, StateOf(b1, t1, n1, l1 \bullet k1, <<n1, l1 \bullet k1>>))

(* There is such a state, under a state that is nested. *)
LEMMA Popped ==
  ASSUME NEW e, NEW low, NEW b, NEW t, NEW q,
         Stands(e, low, b, t, Nothing, Nothing, Nothing, Nothing, q), low # Nothing
  PROVE  \E low1, b1, t1, n1, l1, k1 : BelowIs(e, low, t, low1, b1, t1, n1, l1, k1)
<1> DEFINE s == StateOf(b, t, Nothing, Nothing \bullet Nothing, q)
<1>1. /\ IsEngine(e) /\ q \in Queries /\ IsStack(low, b) /\ ChoicesOK(e) /\ low \in Stacks
      /\ e.buffer = Whole(b, t, Nothing, Nothing, Nothing, Nothing)
      /\ e.states = Push(low, s)
      /\ b \in Texts /\ t \in Texts /\ Nothing \in Texts /\ Nothing \bullet Nothing = Nothing
  BY Unfolded, TextUnit
<1>2. s \in States
  BY <1>1, StateIs
<1> HIDE DEF s
<1>3. Pop(e) = [e EXCEPT !.states = low]
  BY <1>1, <1>2, TopIs
<1>4. PICK low1, b1, t1, n1, l1, k1 :
        /\ IsStack(low1, b1) /\ AreParts(b1, t1, n1, l1, k1, Nothing)
        /\ b = b1 \bullet (t1 \bullet (n1 \bullet (l1 \bullet k1)))
        /\ low = Push(low1, StateOf(b1, t1, n1, l1 \bullet k1, <<n1, l1 \bullet k1>>))
        /\ low1 = Nothing => t1 = Nothing
  BY <1>1, Unstacked
<1>5. /\ b1 \in Texts /\ t1 \in Texts /\ n1 \in Texts /\ l1 \in Texts /\ k1 \in Texts
      /\ AreParts(b1, t1, n1, l1, k1, t)
  BY <1>1, <1>4 DEF AreParts
<1>6. e.buffer = Whole(b1, t1, n1, l1, k1, t)
  <2>1. e.buffer = b \bullet t
    BY <1>1, TextUnit DEF Whole
  <2>2. QED  BY <1>1, <1>4, <1>5, <2>1, TextJoin DEF Whole
<1> DEFINE q1 == <<n1, l1 \bullet k1>>
           f == Pop(e)
<1>7. q1 \in Queries
  <2>1. l1 \bullet k1 \in Texts
    BY <1>5, TextJoin
  <2>2. QED  BY <1>5, <2>1 DEF Queries
<1> HIDE DEF q1
<1>8. /\ IsEngine(f) /\ f.buffer = e.buffer /\ f.states = low
      /\ f.candidates = e.candidates /\ f.chosen = e.chosen
  BY <1>1, <1>3 DEF IsEngine, Fields
<1> HIDE DEF f
<1>9. ChoicesOK(f)
  BY <1>1, <1>8 DEF ChoicesOK, NoChoice
<1>10. low = Push(low1, StateOf(b1, t1, n1, l1 \bullet k1, q1))
  BY <1>4 DEF q1
<1>11. Stands(f, low1, b1, t1, n1, l1, k1, t, q1)
  BY <1>4, <1>5, <1>6, <1>7, <1>8, <1>9, <1>10 DEF Stands
<1>12. BelowIs(e, low, t, low1, b1, t1, n1, l1, k1)
  BY <1>4, <1>11 DEF f, q1, BelowIs
<1>13. QED  BY <1>12, Zenon

(* Pop changes the states only. *)
LEMMA PopKeeps ==
  ASSUME NEW e, IsEngine(e)
  PROVE  LET f == Pop(e) IN
         /\ f.view = e.view /\ f.mode = e.mode /\ f.map = e.map /\ f.sent = e.sent
         /\ f.learned = e.learned /\ f.candidates = e.candidates /\ f.chosen = e.chosen
         /\ f.buffer = e.buffer
BY DEF Pop, IsEngine, Fields

(* The entry of the top state is composed again, its okuri dropped. *)
LEMMA Reopens ==
  ASSUME NEW e, NEW low, NEW b, NEW t, NEW n, NEW l, NEW k, NEW m, NEW q,
         Stands(e, low, b, t, n, l, k, m, q)
  PROVE  LET f == Reopen(e) IN
         /\ Stands(f, low, b, t, n, Nothing, Nothing, Nothing, Nothing)
         /\ f.mode = "kanji" /\ NoChoice(f) /\ f.map = e.map
         /\ f.view = e.view /\ f.sent = e.sent /\ f.learned = e.learned
<1> DEFINE s == Top(e)
           z == [s EXCEPT !.okuri = 0, !.asked = Nothing]
           e1 == [e EXCEPT !.mode = "kanji", !.candidates = Nothing,
                           !.buffer = Cut(@, 1, s.base + s.text + s.entry)]
           f == SetTop(e1, z)
<1>1. Reopen(e) = f
  BY DEF Reopen, Nothing, Cut
<1>2. /\ s = StateOf(b, t, n, l \bullet k, q)
      /\ \A g, x : IsEngine(g) /\ g.states = e.states /\ x \in States =>
           SetTop(g, x) = [g EXCEPT !.states = Push(low, x)]
  BY Reads
<1>3. /\ IsEngine(e) /\ IsStack(low, b) /\ (low = Nothing => t = Nothing) /\ ChoicesOK(e)
      /\ b \in Texts /\ t \in Texts /\ n \in Texts
      /\ Nothing \in Texts /\ Size(Nothing) = 0 /\ Nothing \bullet Nothing = Nothing
      /\ Nothing \in Queries
  BY Unfolded, TextUnit, NewIs
<1>4. z = StateOf(b, t, n, Nothing, Nothing) /\ z \in States
  <2>1. z = StateOf(b, t, n, Nothing, Nothing)
    <3> DEFINE z1 == [s EXCEPT !.okuri = 0]
    <3>1. z1 = StateOf(b, t, n, Nothing, q)
      BY <1>2, <1>3 DEF StateOf
    <3>2. z = [z1 EXCEPT !.asked = Nothing]
      OBVIOUS
    <3> HIDE DEF z1
    <3>3. QED  BY <3>1, <3>2 DEF StateOf
  <2>2. QED  BY <1>3, <2>1, StateIs
<1>5. Cut(e.buffer, 1, s.base + s.text + s.entry) = Whole(b, t, n, Nothing, Nothing, Nothing)
  <2>1. Cut(e.buffer, 1, s.base + s.text + s.entry) = b \bullet (t \bullet n)
    BY Slices
  <2>2. QED  BY <1>3, <2>1, TextUnit DEF Whole
<1>6. /\ IsEngine(f) /\ f.states = Push(low, z) /\ f.mode = "kanji"
      /\ f.buffer = Whole(b, t, n, Nothing, Nothing, Nothing)
      /\ f.candidates = Nothing /\ f.chosen = e.chosen /\ f.map = e.map
      /\ f.view = e.view /\ f.sent = e.sent /\ f.learned = e.learned
  <2>1. IsEngine(e1) /\ e1.states = e.states
    BY <1>3 DEF IsEngine, Fields
  <2>2. f = [e1 EXCEPT !.states = Push(low, z)]
    BY <1>2, <1>4, <2>1
  <2>3. QED  BY <1>3, <1>5, <2>2 DEF IsEngine, Fields
<1> HIDE DEF s, z, e1, f
<1>7. NoChoice(f) /\ ChoicesOK(f)
  BY <1>3, <1>6 DEF NoChoice, ChoicesOK, Nothing
<1>8. AreParts(b, t, n, Nothing, Nothing, Nothing)
  BY <1>3 DEF AreParts
<1>9. Stands(f, low, b, t, n, Nothing, Nothing, Nothing, Nothing)
  BY <1>3, <1>4, <1>6, <1>7, <1>8 DEF Stands
<1>10. QED  BY <1>1, <1>6, <1>7, <1>9

(* Nothing left of the text: the state below is composed again. *)
LEMMA TextReopens ==
  ASSUME NEW e, NEW low, NEW b, NEW q,
         Holds(e, low, b, Nothing, Nothing, Nothing, Nothing, Nothing, q), NoChoice(e),
         low # Nothing
  PROVE  LET f == TextPop(e) IN
         /\ \E low1, b1, t1, n1 :
              Holds(f, low1, b1, t1, n1, Nothing, Nothing, Nothing, Nothing)
         /\ f.mode = "kanji" /\ f.map = e.map /\ NoChoice(f)
         /\ f.sent = Append(e.sent, Preedit(f.view)) /\ f.learned = e.learned
<1> DEFINE e1 == Pop(e)
           s1 == Top(e1)
           e2 == Reopen(e1)
           f == TextPop(e)
<1>1. /\ Stands(e, low, b, Nothing, Nothing, Nothing, Nothing, Nothing, q)
      /\ e.view = ViewOf(Nothing, As(Nothing, "entry"), Nothing, Nothing)
  BY DEF Holds, Middle
<1>2. Nested(e) /\ Top(e).text = 0
  <2>1. Top(e).text = Size(Nothing) /\ Nested(e)
    BY <1>1, Reads
  <2>2. QED  BY <2>1, TextSize
<1>3. PICK low1, b1, t1, n1, l1, k1 : BelowIs(e, low, Nothing, low1, b1, t1, n1, l1, k1)
  BY <1>1, Popped
<1>4. /\ Stands(e1, low1, b1, t1, n1, l1, k1, Nothing, <<n1, l1 \bullet k1>>)
      /\ t1 \in Texts /\ n1 \in Texts
  BY <1>3, Unfolded DEF BelowIs
<1> DEFINE cs == As(t1, "text") \bullet As(n1, "entry")
<1>5. f = Compose(e2, 0, 0, cs)
  <2>1. /\ Slice(e, s1.base, s1.text) = t1
        /\ Slice(e, s1.base + s1.text, s1.entry) = n1
    <3>1. /\ Cut(e1.buffer, s1.base + 1, s1.base + s1.text) = t1
          /\ Cut(e1.buffer, s1.base + s1.text + 1, s1.base + s1.text + s1.entry) = n1
      BY <1>4, Slices
    <3>2. e1.buffer = e.buffer
      BY <1>1, Unfolded, PopKeeps
    <3>3. QED  BY <3>1, <3>2 DEF Slice, Cut
  <2>2. f = Compose(e2, 0, 0, As(Slice(e, s1.base, s1.text), "text")
                               \bullet As(Slice(e, s1.base + s1.text, s1.entry), "entry"))
    BY <1>2 DEF TextPop, \bullet
  <2>3. QED  BY <2>1, <2>2
<1>6. /\ Stands(e2, low1, b1, t1, n1, Nothing, Nothing, Nothing, Nothing)
      /\ e2.mode = "kanji" /\ NoChoice(e2) /\ e2.map = e.map
      /\ e2.view = e.view /\ e2.sent = e.sent /\ e2.learned = e.learned
  <2>1. /\ e1.view = e.view /\ e1.map = e.map /\ e1.sent = e.sent /\ e1.learned = e.learned
    BY <1>1, Unfolded, PopKeeps
  <2> HIDE DEF e1
  <2>2. QED  BY <1>4, <2>1, Reopens
<1> HIDE DEF e2, e1, s1
<1>7. /\ As(Nothing, "text") = Nothing /\ As(Nothing, "entry") = Nothing
      /\ As(Nothing, "okuri") = Nothing /\ As(Nothing, "roman") = Nothing
      /\ Nothing \bullet Nothing = Nothing /\ Nothing \in Views /\ Size(Nothing) = 0
      /\ As(t1, "text") \in Views /\ As(n1, "entry") \in Views /\ cs \in Views
  BY <1>4, AsFacts, ViewUnit, ViewSize, ViewJoin DEF Marks
<1>8. Nothing \bullet (cs \bullet Nothing) = ViewOf(t1, Middle(e2, n1), Nothing, Nothing)
  BY <1>6, <1>7, ViewUnit, ViewJoin DEF ViewOf, Middle
<1> HIDE DEF cs, f
<1>9. e2.view = Nothing
  BY <1>1, <1>6, <1>7 DEF ViewOf
<1>10. Replaces(e2, Nothing, Nothing, Nothing, 0, 0, cs)
  BY <1>7, <1>9 DEF Replaces
<1>11. /\ Holds(f, low1, b1, t1, n1, Nothing, Nothing, Nothing, Nothing)
       /\ f.mode = "kanji" /\ f.map = e.map /\ NoChoice(f)
       /\ f.sent = Append(e.sent, Preedit(f.view)) /\ f.learned = e.learned
  BY <1>5, <1>6, <1>8, <1>10, Composed DEF NoChoice
<1>12. QED  BY <1>11 DEF f

-----------------------------------------------------------------------------
(* What the dictionary is told. *)
Learns(e, f, q) ==
  f.learned = e.learned \/ \E cs : f.learned = Append(e.learned, <<q, cs>>)

(* Register tells the dictionary of the top state, and changes nothing     *)
(* else.                                                                   *)
LEMMA Registers ==
  ASSUME NEW e, NEW low, NEW b, NEW t, NEW n, NEW l, NEW k, NEW m, NEW q, NEW cs,
         Stands(e, low, b, t, n, l, k, m, q)
  PROVE  LET f == Register(e, Top(e), cs) IN
         /\ Stands(f, low, b, t, n, l, k, m, q)
         /\ f.view = e.view /\ f.mode = e.mode /\ f.map = e.map /\ f.sent = e.sent
         /\ f.candidates = e.candidates /\ f.chosen = e.chosen
         /\ f.buffer = e.buffer /\ f.states = e.states
         /\ Learns(e, f, <<n, l \bullet k>>)
<1> DEFINE f == Register(e, Top(e), cs)
           a == Asked(e, Top(e))
<1>1. f = [e EXCEPT !.learned = Append(@, <<a, cs>>)]
  BY DEF Register
<1>2. a = <<n, l \bullet k>>
  BY AskedIs
<1> HIDE DEF a
<1>3. /\ f.view = e.view /\ f.mode = e.mode /\ f.map = e.map /\ f.sent = e.sent
      /\ f.candidates = e.candidates /\ f.chosen = e.chosen
      /\ f.buffer = e.buffer /\ f.states = e.states /\ IsEngine(f)
      /\ f.learned = Append(e.learned, <<a, cs>>)
  BY <1>1, Unfolded DEF IsEngine, Fields
<1> HIDE DEF f
<1>4. Stands(f, low, b, t, n, l, k, m, q)
  BY <1>3 DEF Stands, ChoicesOK, NoChoice
<1>5. Learns(e, f, a)
  BY <1>3, Zenon DEF Learns
<1>6. QED  BY <1>2, <1>3, <1>4, <1>5 DEF f

(* The word typed takes the place of the entry below. *)
LEMMA Supplies ==
  ASSUME NEW e, NEW low, NEW b, NEW t, NEW n, NEW l, NEW k, NEW m, NEW q, NEW s,
         Stands(e, low, b, t, n, l, k, m, q), s = Top(e)
  PROVE  Supplied(e.buffer, s) = b \bullet (t \bullet (m \bullet k))
<1> DEFINE w == e.buffer
           rest == Cut(w, s.base + s.text + s.entry + s.okuri - Inflection(s) + 1, Size(w))
           j == Inflection(s)
<1>1. rest = k \bullet m /\ Cut(w, 1, s.base + s.text) = b \bullet t
  BY Slices
<1>2. j = Size(k) /\ b \in Texts /\ t \in Texts /\ k \in Texts /\ m \in Texts
  BY Reads
<1>3. Supplied(w, s) = (Cut(w, 1, s.base + s.text)
                         \bullet Cut(rest, j + 1, Size(rest))) \bullet Cut(rest, 1, j)
  BY DEF Supplied, Cut, Size, \bullet
<1> HIDE DEF w, rest, j
<1>4. Cut(rest, j + 1, Size(rest)) = m /\ Cut(rest, 1, j) = k
  BY <1>1, <1>2, TextCut
<1>5. Supplied(w, s) = ((b \bullet t) \bullet m) \bullet k
  BY <1>1, <1>3, <1>4
<1>6. QED  BY <1>2, <1>5, TextJoin DEF w

(* Shared by the two ends of TextCommit: the state below, with the word. *)
LEMMA TextSupplies ==
  ASSUME NEW e, NEW low, NEW b, NEW t, NEW q,
         Stands(e, low, b, t, Nothing, Nothing, Nothing, Nothing, q), NoChoice(e),
         NEW low1, NEW b1, NEW t1, NEW n1, NEW l1, NEW k1,
         BelowIs(e, low, t, low1, b1, t1, n1, l1, k1)
  PROVE  LET e1 == Pop(e)
             s  == Top(e)
             s1 == Top(e1)
             e2 == IF s.text > 0 THEN Register(e1, s1, Slice(e, s.base, s.text)) ELSE e1
             e3 == [e2 EXCEPT !.buffer = Supplied(@, s1), !.mode = "roman"]
         IN /\ IsEngine(e3) /\ ChoicesOK(e3) /\ NoChoice(e3)
            /\ e3.buffer = b1 \bullet (t1 \bullet (t \bullet k1)) /\ e3.states = low
            /\ s1.base = Size(b1) /\ Nested(e1) = (low1 # Nothing)
            /\ e3.view = e.view /\ e3.mode = "roman" /\ e3.map = e.map /\ e3.sent = e.sent
            /\ Learns(e, e3, <<n1, l1 \bullet k1>>)
            /\ \A z : z \in States => SetTop(e3, z) = [e3 EXCEPT !.states = Push(low1, z)]
<1> DEFINE e1 == Pop(e)
           s  == Top(e)
           s1 == Top(e1)
           r == Register(e1, s1, Slice(e, s.base, s.text))
           e2 == IF s.text > 0 THEN r ELSE e1
           e3 == [e2 EXCEPT !.buffer = Supplied(@, s1), !.mode = "roman"]
           q1 == <<n1, l1 \bullet k1>>
<1>1. /\ Stands(e1, low1, b1, t1, n1, l1, k1, t, q1)
      /\ low = Push(low1, StateOf(b1, t1, n1, l1 \bullet k1, q1))
  BY DEF BelowIs
<1>2. /\ e1.view = e.view /\ e1.mode = e.mode /\ e1.map = e.map /\ e1.sent = e.sent
      /\ e1.learned = e.learned /\ e1.candidates = e.candidates /\ e1.chosen = e.chosen
  BY Unfolded, PopKeeps
<1> HIDE DEF e1, q1, s
<1>3. /\ Stands(r, low1, b1, t1, n1, l1, k1, t, q1)
      /\ r.view = e1.view /\ r.map = e1.map /\ r.sent = e1.sent
      /\ r.candidates = e1.candidates /\ r.chosen = e1.chosen
      /\ r.buffer = e1.buffer /\ r.states = e1.states
      /\ Learns(e1, r, q1)
  BY <1>1, Registers DEF q1
<1> HIDE DEF r
<1>4. /\ Stands(e2, low1, b1, t1, n1, l1, k1, t, q1)
      /\ e2.view = e.view /\ e2.map = e.map /\ e2.sent = e.sent
      /\ e2.candidates = e.candidates /\ e2.chosen = e.chosen
      /\ e2.buffer = e1.buffer /\ e2.states = e1.states
      /\ Learns(e, e2, q1)
  <2>1. Learns(e1, e1, q1)
    BY DEF Learns
  <2>2. CASE s.text > 0
    BY <1>1, <1>2, <1>3, <2>2 DEF Learns
  <2>3. CASE ~(s.text > 0)
    BY <1>1, <1>2, <2>1, <2>3 DEF Learns
  <2>4. QED  BY <2>2, <2>3
<1>5. Supplied(e2.buffer, s1) = b1 \bullet (t1 \bullet (t \bullet k1))
  <2>1. Supplied(e1.buffer, s1) = b1 \bullet (t1 \bullet (t \bullet k1))
    BY <1>1, Supplies
  <2>2. QED  BY <1>4, <2>1
<1>6. s1.base = Size(b1) /\ Nested(e1) = (low1 # Nothing)
  BY <1>1, Reads
<1> HIDE DEF e2
<1>7. IsEngine(e2) /\ ChoicesOK(e2)
  BY <1>4, Unfolded
<1>8. e2.states = low
  <2>1. e1.states = low
    BY <1>1, Unfolded
  <2>2. QED  BY <1>4, <2>1
<1>9. /\ IsEngine(e3) /\ e3.buffer = b1 \bullet (t1 \bullet (t \bullet k1)) /\ e3.states = low
      /\ e3.view = e.view /\ e3.mode = "roman" /\ e3.map = e.map /\ e3.sent = e.sent
      /\ e3.candidates = e.candidates /\ e3.chosen = e.chosen /\ e3.learned = e2.learned
      /\ e2.candidates = e.candidates /\ e2.chosen = e.chosen
  BY <1>4, <1>5, <1>7, <1>8 DEF IsEngine, Fields
<1> HIDE DEF e3
<1>10. ChoicesOK(e3) /\ NoChoice(e3)
  BY <1>7, <1>9 DEF ChoicesOK, NoChoice
<1>11. Learns(e, e3, q1)
  BY <1>4, <1>9 DEF Learns
<1>12. \A z : z \in States => SetTop(e3, z) = [e3 EXCEPT !.states = Push(low1, z)]
  <2>1. e3.states = e1.states
    BY <1>4, <1>8, <1>9
  <2>2. \A f, x : IsEngine(f) /\ f.states = e1.states /\ x \in States =>
          SetTop(f, x) = [f EXCEPT !.states = Push(low1, x)]
    BY <1>1, Reads
  <2>3. QED  BY <1>9, <2>1, <2>2
<1>13. /\ IsEngine(e3) /\ ChoicesOK(e3) /\ NoChoice(e3)
       /\ e3.buffer = b1 \bullet (t1 \bullet (t \bullet k1)) /\ e3.states = low
       /\ s1.base = Size(b1) /\ Nested(e1) = (low1 # Nothing)
       /\ e3.view = e.view /\ e3.mode = "roman" /\ e3.map = e.map /\ e3.sent = e.sent
       /\ Learns(e, e3, q1)
       /\ \A z : z \in States => SetTop(e3, z) = [e3 EXCEPT !.states = Push(low1, z)]
  BY <1>6, <1>9, <1>10, <1>11, <1>12
<1>14. QED  BY <1>13 DEF e1, s, s1, r, e2, e3, q1

(* A state of one text. *)
LEMMA TextState ==
  ASSUME NEW b, NEW t, b \in Texts, t \in Texts, NEW j, NEW w, w = b \bullet t, j = Size(w) - Size(b)
  PROVE  /\ [NewState(Size(b)) EXCEPT !.text = j] = StateOf(b, t, Nothing, Nothing, Nothing)
         /\ StateOf(b, t, Nothing, Nothing, Nothing) \in States
         /\ Whole(b, t, Nothing, Nothing, Nothing, Nothing) = w
         /\ AreParts(b, t, Nothing, Nothing, Nothing, Nothing)
         /\ Nothing \in Queries /\ Nothing \bullet Nothing = Nothing
         /\ Cut(w, Size(b) + 1, Size(w)) = t
<1>1. Nothing \in Texts /\ Nothing \in Queries /\ Nothing \bullet Nothing = Nothing /\ Size(Nothing) = 0
  BY TextUnit, NewIs, TextSize
<1>2. j = Size(t) /\ Size(t) \in Nat
  BY TextSize
<1>3. NewState(Size(b)) = StateOf(b, Nothing, Nothing, Nothing, Nothing)
  BY NewIs
<1>4. [NewState(Size(b)) EXCEPT !.text = j] = StateOf(b, t, Nothing, Nothing, Nothing)
  BY <1>2, <1>3 DEF StateOf
<1>5. Cut(w, Size(b) + 1, Size(w)) = t
  BY TextCut
<1>6. QED  BY <1>1, <1>4, <1>5, StateIs, TextUnit DEF Whole, AreParts

(* The word typed takes its place in the state below, which is nested      *)
(* itself, ...                                                             *)
LEMMA TextCommits ==
  ASSUME NEW e, NEW low, NEW b, NEW t, NEW q,
         Holds(e, low, b, t, Nothing, Nothing, Nothing, Nothing, q), NoChoice(e),
         NEW low1, NEW b1, NEW t1, NEW n1, NEW l1, NEW k1,
         BelowIs(e, low, t, low1, b1, t1, n1, l1, k1), low # Nothing, low1 # Nothing
  PROVE  LET f == TextCommit(e) IN
         /\ Holds(f, low1, b1, t1 \bullet (t \bullet k1), Nothing, Nothing, Nothing, Nothing, Nothing)
         /\ f.mode = "roman" /\ f.map = e.map /\ NoChoice(f)
         /\ f.sent = Append(e.sent, Preedit(f.view)) /\ Learns(e, f, <<n1, l1 \bullet k1>>)
<1> DEFINE e1 == Pop(e)
           s  == Top(e)
           s1 == Top(e1)
           e2 == IF s.text > 0 THEN Register(e1, s1, Slice(e, s.base, s.text)) ELSE e1
           e3 == [e2 EXCEPT !.buffer = Supplied(@, s1), !.mode = "roman"]
           z == [NewState(s1.base) EXCEPT !.text = Size(e3.buffer) - s1.base]
           e4 == SetTop(e3, z)
           t2 == t1 \bullet (t \bullet k1)
           q1 == <<n1, l1 \bullet k1>>
           cs == As(t2, "text")
           old == As(t, "text")
<1>1. /\ Stands(e, low, b, t, Nothing, Nothing, Nothing, Nothing, q)
      /\ e.view = ViewOf(t, As(Nothing, "entry"), Nothing, Nothing)
  BY DEF Holds, Middle
<1>2. Nested(e) /\ s.text = Size(t)
  BY <1>1, Reads
<1>3. /\ IsEngine(e3) /\ ChoicesOK(e3) /\ NoChoice(e3)
      /\ e3.buffer = b1 \bullet t2 /\ e3.states = low
      /\ s1.base = Size(b1) /\ Nested(e1)
      /\ e3.view = e.view /\ e3.mode = "roman" /\ e3.map = e.map /\ e3.sent = e.sent
      /\ Learns(e, e3, q1)
      /\ \A x : x \in States => SetTop(e3, x) = [e3 EXCEPT !.states = Push(low1, x)]
  <2>1. /\ IsEngine(e3) /\ ChoicesOK(e3) /\ NoChoice(e3)
        /\ e3.buffer = b1 \bullet (t1 \bullet (t \bullet k1)) /\ e3.states = low
        /\ s1.base = Size(b1) /\ Nested(e1) = (low1 # Nothing)
        /\ e3.view = e.view /\ e3.mode = "roman" /\ e3.map = e.map /\ e3.sent = e.sent
        /\ Learns(e, e3, <<n1, l1 \bullet k1>>)
        /\ \A x : x \in States => SetTop(e3, x) = [e3 EXCEPT !.states = Push(low1, x)]
    BY <1>1, TextSupplies, Zenon
  <2> HIDE DEF e3, e1, s1
  <2>2. QED  BY <2>1
<1>4. TextCommit(e) = Compose(e4, 0, s.text, As(Cut(e3.buffer, s1.base + 1, Size(e3.buffer)), "text"))
  BY <1>2, <1>3 DEF TextCommit, From, Size, Cut
<1> HIDE DEF e3
<1>5. /\ IsStack(low1, b1) /\ b1 \in Texts /\ t1 \in Texts /\ k1 \in Texts /\ t \in Texts
      /\ Nothing \in Texts
  <2>1. Stands(e1, low1, b1, t1, n1, l1, k1, t, q1)
    BY DEF BelowIs
  <2> HIDE DEF e1, q1
  <2>2. QED  BY <2>1, Unfolded
<1>6. t2 \in Texts
  BY <1>5, TextJoin
<1> HIDE DEF t2
<1>7. /\ z = StateOf(b1, t2, Nothing, Nothing, Nothing) /\ z \in States
      /\ Whole(b1, t2, Nothing, Nothing, Nothing, Nothing) = e3.buffer
      /\ AreParts(b1, t2, Nothing, Nothing, Nothing, Nothing)
      /\ Nothing \in Queries /\ Nothing \bullet Nothing = Nothing
      /\ Cut(e3.buffer, s1.base + 1, Size(e3.buffer)) = t2
  BY <1>3, <1>5, <1>6, TextState
<1> HIDE DEF z, s, e1, s1, q1
<1>8. /\ IsEngine(e4) /\ e4.states = Push(low1, z) /\ e4.buffer = e3.buffer
      /\ e4.view = e.view /\ e4.mode = "roman" /\ e4.map = e.map /\ e4.sent = e.sent
      /\ e4.candidates = e3.candidates /\ e4.chosen = e3.chosen /\ e4.learned = e3.learned
  BY <1>3, <1>7 DEF IsEngine, Fields
<1> HIDE DEF e4
<1>9. NoChoice(e4) /\ ChoicesOK(e4)
  BY <1>3, <1>8 DEF NoChoice, ChoicesOK
<1>10. Stands(e4, low1, b1, t2, Nothing, Nothing, Nothing, Nothing, Nothing)
  BY <1>5, <1>7, <1>8, <1>9 DEF Stands
<1>11. /\ cs \in Views /\ old \in Views /\ Size(old) = Size(t)
       /\ As(Nothing, "entry") = Nothing /\ As(Nothing, "okuri") = Nothing
       /\ As(Nothing, "roman") = Nothing /\ Nothing \in Views /\ Size(Nothing) = 0
  BY <1>5, <1>6, AsFacts, ViewUnit, ViewSize DEF Marks
<1>12. Nothing \bullet (cs \bullet Nothing) = ViewOf(t2, Middle(e4, Nothing), Nothing, Nothing)
  BY <1>9, <1>11, ViewUnit DEF ViewOf, Middle
<1>13. e4.view = Nothing \bullet (old \bullet Nothing)
  BY <1>1, <1>8, <1>11, ViewUnit DEF ViewOf
<1> HIDE DEF cs, old
<1>14. Replaces(e4, Nothing, old, Nothing, 0, s.text, cs)
  BY <1>2, <1>11, <1>13 DEF Replaces
<1> DEFINE f == Compose(e4, 0, s.text, cs)
<1>15. /\ Holds(f, low1, b1, t2, Nothing, Nothing, Nothing, Nothing, Nothing)
       /\ f.mode = "roman" /\ f.map = e.map /\ NoChoice(f)
       /\ f.sent = Append(e.sent, Preedit(f.view)) /\ f.learned = e3.learned
  BY <1>8, <1>9, <1>10, <1>12, <1>14, Composed DEF NoChoice
<1>16. TextCommit(e) = f
  BY <1>4, <1>7 DEF cs
<1> HIDE DEF f
<1>17. Learns(e, f, q1)
  BY <1>3, <1>15 DEF Learns
<1>18. QED  BY <1>15, <1>16, <1>17 DEF t2, q1

(* ... or the whole buffer is committed, with nothing below that one. *)
LEMMA TextCommitsAll ==
  ASSUME NEW e, NEW low, NEW b, NEW t, NEW q,
         Holds(e, low, b, t, Nothing, Nothing, Nothing, Nothing, q), NoChoice(e),
         NEW b1, NEW t1, NEW n1, NEW l1, NEW k1,
         BelowIs(e, low, t, Nothing, b1, t1, n1, l1, k1), low # Nothing
  PROVE  LET f == TextCommit(e) IN
         /\ Holds(f, Nothing, Nothing, Nothing, Nothing, Nothing, Nothing, Nothing, Nothing)
         /\ f.mode = "roman" /\ f.map = e.map /\ NoChoice(f) /\ f.buffer = Nothing
         /\ \E cs : f.sent = Append(e.sent, Committed(cs))
         /\ Learns(e, f, <<n1, l1 \bullet k1>>)
<1> DEFINE e1 == Pop(e)
           s  == Top(e)
           s1 == Top(e1)
           e2 == IF s.text > 0 THEN Register(e1, s1, Slice(e, s.base, s.text)) ELSE e1
           e3 == [e2 EXCEPT !.buffer = Supplied(@, s1), !.mode = "roman"]
           q1 == <<n1, l1 \bullet k1>>
           z == StateOf(b1, t1, n1, l1 \bullet k1, q1)
           f == CommitBuffer(e3)
<1>1. Stands(e, low, b, t, Nothing, Nothing, Nothing, Nothing, q)
  BY DEF Holds
<1>2. Nested(e)
  BY <1>1, Reads
<1>3. /\ IsEngine(e3) /\ ChoicesOK(e3) /\ NoChoice(e3) /\ e3.states = low
      /\ ~Nested(e1)
      /\ e3.view = e.view /\ e3.mode = "roman" /\ e3.map = e.map /\ e3.sent = e.sent
      /\ Learns(e, e3, q1)
  BY <1>1, TextSupplies
<1>4. TextCommit(e) = f
  BY <1>2, <1>3 DEF TextCommit
<1> HIDE DEF e3
<1>5. z \in States /\ low = Push(Nothing, z)
  <2>1. Stands(e1, Nothing, b1, t1, n1, l1, k1, t, q1) /\ low = Push(Nothing, z)
    BY DEF BelowIs
  <2> HIDE DEF e1, q1
  <2>2. /\ q1 \in Queries /\ b1 \in Texts /\ t1 \in Texts /\ n1 \in Texts
        /\ l1 \bullet k1 \in Texts
    BY <2>1, Unfolded
  <2>3. QED  BY <2>1, <2>2, StateIs
<1> HIDE DEF z, q1, f
<1>6. /\ Holds(f, Nothing, Nothing, Nothing, Nothing, Nothing, Nothing, Nothing, Nothing)
      /\ f.mode = e3.mode /\ f.map = e3.map /\ NoChoice(f)
      /\ f.sent = Append(e3.sent, Committed(e3.buffer)) /\ f.learned = e3.learned
      /\ f.buffer = Nothing
  BY <1>3, <1>5, BufferCommits DEF f
<1>7. Learns(e, f, q1) /\ \E cs : f.sent = Append(e.sent, Committed(cs))
  BY <1>3, <1>6 DEF Learns
<1>8. QED  BY <1>3, <1>4, <1>6, <1>7 DEF q1

-----------------------------------------------------------------------------
(* Characters of the entry. *)
LEMMA EntryPushes ==
  ASSUME NEW e, NEW low, NEW b, NEW t, NEW n, NEW q,
         Holds(e, low, b, t, n, Nothing, Nothing, Nothing, q), NoChoice(e),
         NEW c \in Chars
  PROVE  LET f == EntryPush(e, c) IN
         /\ Holds(f, low, b, t, n \bullet <<c>>, Nothing, Nothing, Nothing, q)
         /\ f.mode = e.mode /\ f.map = e.map /\ NoChoice(f)
         /\ f.sent = Append(e.sent, Preedit(f.view)) /\ f.learned = e.learned
<1> DEFINE s == Top(e)
           z == [s EXCEPT !.entry = @ + 1]
           e1 == [e EXCEPT !.buffer = Append(@, c)]
           e2 == SetTop(e1, z)
           cs == As(<<c>>, "entry")
           n1 == n \bullet <<c>>
           p == As(t, "text") \bullet As(n, "entry")
<1>1. EntryPush(e, c) = Compose(e2, s.text + s.entry, 0, cs)
  BY DEF EntryPush
<1>2. /\ Stands(e, low, b, t, n, Nothing, Nothing, Nothing, q)
      /\ e.view = ViewOf(t, As(n, "entry"), Nothing, Nothing)
  BY DEF Holds, Middle
<1>3. /\ s = StateOf(b, t, n, Nothing \bullet Nothing, q) /\ s.text = Size(t) /\ s.entry = Size(n)
      /\ \A f, x : IsEngine(f) /\ f.states = e.states /\ x \in States =>
           SetTop(f, x) = [f EXCEPT !.states = Push(low, x)]
  BY <1>2, Reads
<1>4. /\ IsEngine(e) /\ q \in Queries /\ IsStack(low, b) /\ (low = Nothing => t = Nothing) /\ ChoicesOK(e)
      /\ e.buffer = Whole(b, t, n, Nothing, Nothing, Nothing)
      /\ b \in Texts /\ t \in Texts /\ n \in Texts
      /\ Size(b) \in Nat /\ Size(t) \in Nat /\ Size(n) \in Nat
      /\ Nothing \in Texts /\ Size(Nothing) = 0 /\ Nothing \bullet Nothing = Nothing
  BY <1>2, Unfolded, TextUnit
<1>5. <<c>> \in Texts /\ Size(<<c>>) = 1 /\ n1 \in Texts /\ Size(n1) = Size(n) + 1
  <2>1. <<c>> \in Texts /\ Size(<<c>>) = 1
    BY TextEnds
  <2>2. QED  BY <1>4, <2>1, TextJoin, TextSize
<1>6. Append(e.buffer, c) = Whole(b, t, n1, Nothing, Nothing, Nothing)
  <2>1. e.buffer = b \bullet (t \bullet n) /\ b \bullet (t \bullet n) \in Texts
    BY <1>4, TextUnit, TextJoin DEF Whole
  <2>2. Append(e.buffer, c) = (b \bullet (t \bullet n)) \bullet <<c>>
    BY <2>1, TextEnds
  <2>3. (b \bullet (t \bullet n)) \bullet <<c>> = b \bullet (t \bullet n1)
    BY <1>4, <1>5, TextJoin
  <2> HIDE DEF n1
  <2>4. QED  BY <1>4, <1>5, <2>2, <2>3, TextUnit, TextJoin DEF Whole
<1>7. z = StateOf(b, t, n1, Nothing, q) /\ z \in States
  <2>1. z = StateOf(b, t, n1, Nothing, q)
    BY <1>3, <1>4, <1>5 DEF StateOf
  <2>2. QED  BY <1>4, <1>5, <2>1, StateIs
<1>8. /\ e2.buffer = Whole(b, t, n1, Nothing, Nothing, Nothing)
      /\ e2.states = Push(low, z) /\ e2.map = e.map /\ IsEngine(e2)
      /\ e2.view = e.view /\ e2.candidates = e.candidates /\ e2.chosen = e.chosen
      /\ e2.mode = e.mode /\ e2.sent = e.sent /\ e2.learned = e.learned
  <2>1. IsEngine(e1) /\ e1.states = e.states
    BY <1>4 DEF IsEngine, Fields
  <2>2. e2 = [e1 EXCEPT !.states = Push(low, z)]
    BY <1>3, <1>7, <2>1
  <2>3. QED  BY <1>4, <1>6, <2>2 DEF IsEngine, Fields
<1> HIDE DEF s, z, e1, e2
<1>9. Stands(e2, low, b, t, n1, Nothing, Nothing, Nothing, q)
  <2>1. AreParts(b, t, n1, Nothing, Nothing, Nothing)
    BY <1>4, <1>5 DEF AreParts
  <2> HIDE DEF n1
  <2>2. QED  BY <1>4, <1>7, <1>8, <2>1 DEF Stands, ChoicesOK, NoChoice
<1>10. /\ As(t, "text") \in Views /\ As(n, "entry") \in Views /\ cs \in Views
       /\ Size(As(t, "text")) = Size(t) /\ Size(As(n, "entry")) = Size(n)
       /\ As(n1, "entry") = As(n, "entry") \bullet cs
       /\ As(Nothing, "okuri") = Nothing
       /\ As(Nothing, "roman") = Nothing /\ Nothing \in Views /\ Size(Nothing) = 0
  BY <1>4, <1>5, AsFacts, AsJoin, ViewUnit DEF Marks
<1> HIDE DEF cs
<1>11. p \in Views /\ Size(p) = s.text + s.entry
  BY <1>3, <1>10, ViewJoin, ViewSize
<1>12. e2.view = p \bullet (Nothing \bullet Nothing)
  BY <1>2, <1>8, <1>10, <1>11, ViewUnit, ViewJoin DEF ViewOf
<1>13. p \bullet (cs \bullet Nothing) = ViewOf(t, Middle(e2, n1), Nothing, Nothing)
  BY <1>8, <1>10, ViewUnit, ViewJoin DEF ViewOf, Middle, NoChoice
<1> HIDE DEF p
<1>14. Replaces(e2, p, Nothing, Nothing, s.text + s.entry, 0, cs)
  BY <1>10, <1>11, <1>12 DEF Replaces
<1>15. QED  BY <1>1, <1>8, <1>9, <1>13, <1>14, Composed DEF NoChoice

(* The last character of the entry is dropped. *)
EntryDropped(e) ==
  LET s == Top(e)
  IN Compose(SetTop([e EXCEPT !.buffer = SubSeq(@, 1, Len(@) - 1)],
                    [s EXCEPT !.entry = @ - 1]),
             s.text + s.entry - 1, 1, <<>>)

(* What is left of the entry is shown. *)
LEMMA EntryDrops ==
  ASSUME NEW e, NEW low, NEW b, NEW t, NEW n, NEW q, NEW c \in Chars,
         Holds(e, low, b, t, n \bullet <<c>>, Nothing, Nothing, Nothing, q), NoChoice(e),
         n \in Texts
  PROVE  LET f == EntryDropped(e) IN
         /\ Holds(f, low, b, t, n, Nothing, Nothing, Nothing, q)
         /\ f.mode = e.mode /\ f.map = e.map /\ NoChoice(f)
         /\ f.sent = Append(e.sent, Preedit(f.view)) /\ f.learned = e.learned
<1> DEFINE s == Top(e)
           z == [s EXCEPT !.entry = @ - 1]
           e1 == [e EXCEPT !.buffer = Cut(@, 1, Size(@) - 1)]
           e2 == SetTop(e1, z)
           n1 == n \bullet <<c>>
           p == As(t, "text") \bullet As(n, "entry")
           old == As(<<c>>, "entry")
<1>1. EntryDropped(e) = Compose(e2, s.text + s.entry - 1, 1, Nothing)
  BY DEF EntryDropped, Cut, Size, Nothing
<1>2. /\ Stands(e, low, b, t, n1, Nothing, Nothing, Nothing, q)
      /\ e.view = ViewOf(t, As(n1, "entry"), Nothing, Nothing)
  BY DEF Holds, Middle
<1> HIDE DEF n1
<1>3. /\ s = StateOf(b, t, n1, Nothing \bullet Nothing, q) /\ s.text = Size(t) /\ s.entry = Size(n1)
      /\ \A f, x : IsEngine(f) /\ f.states = e.states /\ x \in States =>
           SetTop(f, x) = [f EXCEPT !.states = Push(low, x)]
  BY <1>2, Reads
<1>4. /\ IsEngine(e) /\ q \in Queries /\ IsStack(low, b) /\ (low = Nothing => t = Nothing) /\ ChoicesOK(e)
      /\ e.buffer = Whole(b, t, n1, Nothing, Nothing, Nothing)
      /\ b \in Texts /\ t \in Texts /\ Size(b) \in Nat /\ Size(t) \in Nat
      /\ Nothing \in Texts /\ Size(Nothing) = 0 /\ Nothing \bullet Nothing = Nothing
  BY <1>2, Unfolded, TextUnit
<1>5. /\ <<c>> \in Texts /\ Size(<<c>>) = 1 /\ n1 \in Texts /\ Size(n1) = Size(n) + 1
      /\ Size(n) \in Nat
  <2>1. <<c>> \in Texts /\ Size(<<c>>) = 1
    BY TextEnds
  <2>2. QED  BY <1>4, <2>1, TextJoin, TextSize DEF n1
<1>6. Cut(e.buffer, 1, Size(e.buffer) - 1) = Whole(b, t, n, Nothing, Nothing, Nothing)
  <2> DEFINE w == b \bullet (t \bullet n)
  <2>1. e.buffer = b \bullet (t \bullet n1)
    BY <1>4, <1>5, TextUnit DEF Whole
  <2>2. e.buffer = w \bullet <<c>> /\ w \in Texts
    BY <1>4, <1>5, <2>1, TextJoin DEF n1
  <2> HIDE DEF w
  <2>3. Size(e.buffer) = Size(w) + 1 /\ Size(w) \in Nat
    BY <1>5, <2>2, TextSize
  <2>4. Cut(e.buffer, 1, Size(w)) = w
    BY <1>5, <2>2, TextCut
  <2>5. Size(e.buffer) - 1 = Size(w)
    BY <2>3
  <2>6. QED  BY <1>4, <2>4, <2>5, TextUnit DEF Whole, w
<1>7. z = StateOf(b, t, n, Nothing, q) /\ z \in States
  <2>1. z = StateOf(b, t, n, Nothing, q)
    BY <1>3, <1>4, <1>5 DEF StateOf
  <2>2. QED  BY <1>4, <1>5, <2>1, StateIs
<1>8. /\ e2.buffer = Whole(b, t, n, Nothing, Nothing, Nothing)
      /\ e2.states = Push(low, z) /\ e2.map = e.map /\ IsEngine(e2)
      /\ e2.view = e.view /\ e2.candidates = e.candidates /\ e2.chosen = e.chosen
      /\ e2.mode = e.mode /\ e2.sent = e.sent /\ e2.learned = e.learned
  <2>1. IsEngine(e1) /\ e1.states = e.states
    BY <1>4 DEF IsEngine, Fields
  <2>2. e2 = [e1 EXCEPT !.states = Push(low, z)]
    BY <1>3, <1>7, <2>1
  <2>3. QED  BY <1>4, <1>6, <2>2 DEF IsEngine, Fields
<1> HIDE DEF s, z, e1, e2
<1>9. Stands(e2, low, b, t, n, Nothing, Nothing, Nothing, q)
  <2>1. AreParts(b, t, n, Nothing, Nothing, Nothing)
    BY <1>4, <1>5 DEF AreParts
  <2>2. QED  BY <1>4, <1>7, <1>8, <2>1 DEF Stands, ChoicesOK, NoChoice
<1>10. /\ As(t, "text") \in Views /\ As(n, "entry") \in Views /\ old \in Views
       /\ Size(As(t, "text")) = Size(t) /\ Size(As(n, "entry")) = Size(n) /\ Size(old) = 1
       /\ As(n1, "entry") = As(n, "entry") \bullet old
       /\ As(Nothing, "okuri") = Nothing
       /\ As(Nothing, "roman") = Nothing /\ Nothing \in Views
  BY <1>4, <1>5, AsFacts, AsJoin, ViewUnit DEF Marks, n1
<1> HIDE DEF old
<1>11. p \in Views /\ s.text + s.entry - 1 = Size(p)
  <2>1. p \in Views /\ Size(p) = Size(t) + Size(n)
    BY <1>10, ViewJoin, ViewSize
  <2>2. QED  BY <1>3, <1>4, <1>5, <2>1
<1>12. e2.view = p \bullet (old \bullet Nothing)
  BY <1>2, <1>8, <1>10, ViewUnit, ViewJoin DEF ViewOf
<1>13. p \bullet (Nothing \bullet Nothing) = ViewOf(t, Middle(e2, n), Nothing, Nothing)
  BY <1>8, <1>10, <1>11, ViewUnit DEF ViewOf, Middle, NoChoice
<1> HIDE DEF p
<1>14. Replaces(e2, p, old, Nothing, s.text + s.entry - 1, 1, Nothing)
  BY <1>10, <1>11, <1>12 DEF Replaces
<1>15. QED  BY <1>1, <1>8, <1>9, <1>13, <1>14, Composed DEF NoChoice

(* Another mode, and the end of the romaji. *)
LEMMA ModeSet ==
  ASSUME NEW e, NEW low, NEW b, NEW t, NEW n, NEW l, NEW k, NEW m, NEW q, NEW x,
         Holds(e, low, b, t, n, l, k, m, q)
  PROVE  LET f == [e EXCEPT !.mode = x] IN
         /\ Holds(f, low, b, t, n, l, k, m, q)
         /\ f.mode = x /\ f.map = e.map /\ f.candidates = e.candidates
         /\ f.sent = e.sent /\ f.learned = e.learned /\ f.view = e.view
<1> DEFINE f == [e EXCEPT !.mode = x]
<1>1. Stands(e, low, b, t, n, l, k, m, q) /\ e.view = ViewOf(t, Middle(e, n), k, m)
  BY DEF Holds
<1>2. /\ f.buffer = e.buffer /\ f.states = e.states /\ f.map = e.map /\ IsEngine(f)
      /\ f.view = e.view /\ f.candidates = e.candidates /\ f.chosen = e.chosen
      /\ f.mode = x /\ f.sent = e.sent /\ f.learned = e.learned
  BY <1>1, Unfolded DEF IsEngine, Fields
<1> HIDE DEF f
<1>3. Stands(f, low, b, t, n, l, k, m, q)
  BY <1>1, <1>2 DEF Stands, ChoicesOK, NoChoice
<1>4. f.view = ViewOf(t, Middle(f, n), k, m)
  BY <1>1, <1>2 DEF Middle, NoChoice
<1>5. QED  BY <1>2, <1>3, <1>4 DEF Holds, f

(* The sequence of romaji followed is not part of what is shown. *)
LEMMA MapSet ==
  ASSUME NEW e, NEW low, NEW b, NEW t, NEW n, NEW l, NEW k, NEW m, NEW q, NEW x,
         Holds(e, low, b, t, n, l, k, m, q)
  PROVE  LET f == [e EXCEPT !.map = x] IN
         /\ Holds(f, low, b, t, n, l, k, m, q)
         /\ f.mode = e.mode /\ f.map = x /\ f.candidates = e.candidates
         /\ f.sent = e.sent /\ f.learned = e.learned /\ f.view = e.view
<1> DEFINE f == [e EXCEPT !.map = x]
<1>1. Stands(e, low, b, t, n, l, k, m, q) /\ e.view = ViewOf(t, Middle(e, n), k, m)
  BY DEF Holds
<1>2. /\ f.buffer = e.buffer /\ f.states = e.states /\ f.map = x /\ IsEngine(f)
      /\ f.view = e.view /\ f.candidates = e.candidates /\ f.chosen = e.chosen
      /\ f.mode = e.mode /\ f.sent = e.sent /\ f.learned = e.learned
  BY <1>1, Unfolded DEF IsEngine, Fields
<1> HIDE DEF f
<1>3. Stands(f, low, b, t, n, l, k, m, q)
  BY <1>1, <1>2 DEF Stands, ChoicesOK, NoChoice
<1>4. f.view = ViewOf(t, Middle(f, n), k, m)
  BY <1>1, <1>2 DEF Middle, NoChoice
<1>5. QED  BY <1>2, <1>3, <1>4 DEF Holds, f

(* The entry is left as text for a state below, ... *)
LEMMA EntryCommits ==
  ASSUME NEW e, NEW low, NEW b, NEW t, NEW n, NEW q,
         Holds(e, low, b, t, n, Nothing, Nothing, Nothing, q), NoChoice(e), low # Nothing
  PROVE  LET f == EntryCommit(e) IN
         /\ Holds(f, low, b, t \bullet n, Nothing, Nothing, Nothing, Nothing, Nothing)
         /\ f.mode = "roman" /\ f.map = e.map /\ NoChoice(f)
         /\ f.sent = Append(e.sent, Preedit(f.view)) /\ f.learned = e.learned
<1> DEFINE s == Top(e)
           e1 == [e EXCEPT !.mode = "roman"]
           z == [NewState(s.base) EXCEPT !.text = s.text + s.entry]
           e2 == SetTop(e1, z)
           t1 == t \bullet n
           cs == As(n, "text")
           old == As(n, "entry")
           p == As(t, "text")
<1>1. Nested(e) => EntryCommit(e) =
                     Compose(e2, s.text, s.entry,
                             As(Cut(e.buffer, s.base + s.text + 1, s.base + s.text + s.entry), "text"))
  BY DEF EntryCommit, Slice, Cut
<1>2. /\ Stands(e, low, b, t, n, Nothing, Nothing, Nothing, q)
      /\ e.view = ViewOf(t, As(n, "entry"), Nothing, Nothing)
  BY DEF Holds, Middle
<1>3. /\ s.base = Size(b) /\ s.text = Size(t) /\ s.entry = Size(n) /\ Nested(e)
      /\ \A f, x : IsEngine(f) /\ f.states = e.states /\ x \in States =>
           SetTop(f, x) = [f EXCEPT !.states = Push(low, x)]
  BY <1>2, Reads
<1>4. /\ IsEngine(e) /\ IsStack(low, b) /\ ChoicesOK(e)
      /\ e.buffer = Whole(b, t, n, Nothing, Nothing, Nothing)
      /\ b \in Texts /\ t \in Texts /\ n \in Texts /\ Nothing \in Texts
      /\ Size(b) \in Nat /\ Size(t) \in Nat /\ Size(n) \in Nat
  BY <1>2, Unfolded
<1>5. Cut(e.buffer, s.base + s.text + 1, s.base + s.text + s.entry) = n
  BY <1>2, Slices
<1>6. t1 \in Texts /\ Size(t1) = Size(t) + Size(n)
  BY <1>4, TextJoin, TextSize
<1>7. e.buffer = b \bullet t1
  BY <1>4, TextUnit, TextJoin DEF Whole
<1> HIDE DEF t1
<1>8. s.text + s.entry = Size(e.buffer) - Size(b)
  <2>1. Size(e.buffer) = Size(b) + Size(t1)
    BY <1>4, <1>6, <1>7, TextSize
  <2>2. QED  BY <1>3, <1>4, <1>6, <2>1
<1>9. /\ z = StateOf(b, t1, Nothing, Nothing, Nothing) /\ z \in States
      /\ Whole(b, t1, Nothing, Nothing, Nothing, Nothing) = e.buffer
      /\ AreParts(b, t1, Nothing, Nothing, Nothing, Nothing)
      /\ Nothing \in Queries /\ Nothing \bullet Nothing = Nothing
  BY <1>3, <1>4, <1>6, <1>7, <1>8, TextState
<1>10. /\ IsEngine(e2) /\ e2.states = Push(low, z) /\ e2.buffer = e.buffer
       /\ e2.view = e.view /\ e2.mode = "roman" /\ e2.map = e.map /\ e2.sent = e.sent
       /\ e2.candidates = e.candidates /\ e2.chosen = e.chosen /\ e2.learned = e.learned
  <2>1. IsEngine(e1) /\ e1.states = e.states
    BY <1>4 DEF IsEngine, Fields
  <2>2. e2 = [e1 EXCEPT !.states = Push(low, z)]
    BY <1>3, <1>9, <2>1
  <2> HIDE DEF z
  <2>3. QED  BY <1>4, <2>2 DEF IsEngine, Fields
<1> HIDE DEF z, s, e1, e2
<1>11. NoChoice(e2) /\ ChoicesOK(e2)
  BY <1>4, <1>10 DEF NoChoice, ChoicesOK
<1>12. Stands(e2, low, b, t1, Nothing, Nothing, Nothing, Nothing, Nothing)
  BY <1>4, <1>9, <1>10, <1>11 DEF Stands
<1>13. /\ cs \in Views /\ old \in Views /\ Size(old) = Size(n) /\ p \in Views /\ Size(p) = Size(t)
       /\ As(t1, "text") = p \bullet cs
       /\ As(Nothing, "entry") = Nothing /\ As(Nothing, "okuri") = Nothing
       /\ As(Nothing, "roman") = Nothing /\ Nothing \in Views
  BY <1>4, AsFacts, AsJoin, ViewUnit DEF Marks, t1
<1>14. p \bullet (cs \bullet Nothing) = ViewOf(t1, Middle(e2, Nothing), Nothing, Nothing)
  BY <1>11, <1>13, ViewUnit, ViewJoin DEF ViewOf, Middle
<1>15. e2.view = p \bullet (old \bullet Nothing)
  BY <1>2, <1>10, <1>13, ViewUnit DEF ViewOf
<1> HIDE DEF cs, old, p
<1>16. Replaces(e2, p, old, Nothing, s.text, s.entry, cs)
  BY <1>3, <1>13, <1>15 DEF Replaces
<1>17. EntryCommit(e) = Compose(e2, s.text, s.entry, cs)
  BY <1>1, <1>3, <1>5 DEF cs
<1>18. QED
  BY <1>10, <1>11, <1>12, <1>14, <1>16, <1>17, Composed DEF NoChoice, t1

(* ... or committed. *)
LEMMA EntryCommitsAll ==
  ASSUME NEW e, NEW b, NEW t, NEW n, NEW q,
         Holds(e, Nothing, b, t, n, Nothing, Nothing, Nothing, q), NoChoice(e)
  PROVE  LET f == EntryCommit(e) IN
         /\ Holds(f, Nothing, Nothing, Nothing, Nothing, Nothing, Nothing, Nothing, Nothing)
         /\ f.mode = "roman" /\ f.map = e.map /\ NoChoice(f) /\ f.buffer = Nothing
         /\ f.sent = Append(e.sent, Committed(n)) /\ f.learned = e.learned
<1> DEFINE e1 == [e EXCEPT !.mode = "roman"]
           z == StateOf(b, t, n, Nothing \bullet Nothing, q)
           f == CommitBuffer(e1)
<1>1. Stands(e, Nothing, b, t, n, Nothing, Nothing, Nothing, q)
  BY DEF Holds
<1>2. ~Nested(e)
  BY <1>1, Reads
<1>3. EntryCommit(e) = f
  BY <1>2 DEF EntryCommit
<1>4. /\ IsEngine(e) /\ t = Nothing /\ ChoicesOK(e) /\ IsStack(Nothing, b) /\ q \in Queries
      /\ e.buffer = Whole(b, t, n, Nothing, Nothing, Nothing)
      /\ e.states = Push(Nothing, z) /\ Nothing \bullet Nothing \in Texts
      /\ b \in Texts /\ t \in Texts /\ n \in Texts
  BY <1>1, Unfolded
<1>5. b = Nothing
  BY <1>4 DEF IsStack
<1>6. e.buffer = n
  BY <1>4, <1>5, TextUnit DEF Whole
<1>7. z \in States
  BY <1>4, StateIs
<1> HIDE DEF z
<1>8. /\ IsEngine(e1) /\ e1.states = Push(Nothing, z) /\ e1.buffer = n /\ e1.mode = "roman"
      /\ e1.map = e.map /\ e1.sent = e.sent /\ e1.learned = e.learned
      /\ e1.candidates = e.candidates /\ e1.chosen = e.chosen
  BY <1>4, <1>6 DEF IsEngine, Fields
<1> HIDE DEF e1, f
<1>9. ChoicesOK(e1) /\ NoChoice(e1)
  BY <1>4, <1>8 DEF ChoicesOK, NoChoice
<1>10. /\ Holds(f, Nothing, Nothing, Nothing, Nothing, Nothing, Nothing, Nothing, Nothing)
       /\ f.mode = e1.mode /\ f.map = e1.map /\ NoChoice(f)
       /\ f.sent = Append(e1.sent, Committed(e1.buffer)) /\ f.learned = e1.learned
       /\ f.buffer = Nothing
  BY <1>7, <1>8, <1>9, BufferCommits DEF f
<1>11. QED  BY <1>3, <1>8, <1>10

-----------------------------------------------------------------------------
(* The candidate that is shown. *)
Word(e) == e.candidates[e.chosen + 1]
WordSize(e, j) == j = Len(e.candidates[e.chosen + 1])
IsChoice(e, c) == c \in Nat /\ c < Len(e.candidates)

(* It is a text, shown between the text and the okuri of the top state. *)
LEMMA WordShown ==
  ASSUME NEW e, NEW low, NEW b, NEW t, NEW n, NEW l, NEW k, NEW q,
         Holds(e, low, b, t, n, l, k, Nothing, q), ~NoChoice(e)
  PROVE  /\ Stands(e, low, b, t, n, l, k, Nothing, q) /\ IsEngine(e)
         /\ b \in Texts /\ t \in Texts /\ n \in Texts /\ l \in Texts /\ k \in Texts
         /\ Nothing \in Texts
         /\ Word(e) \in Texts /\ Size(Word(e)) = Len(e.candidates[e.chosen + 1])
         /\ Size(Word(e)) \in Nat /\ Size(t) \in Nat /\ Size(k) \in Nat
         /\ As(t, "text") \in Views /\ As(k, "okuri") \in Views /\ As(Word(e), "candidate") \in Views
         /\ Size(As(t, "text")) = Size(t) /\ Size(As(k, "okuri")) = Size(k)
         /\ Size(As(Word(e), "candidate")) = Size(Word(e))
         /\ As(t, "text") \bullet (As(Word(e), "candidate") \bullet As(k, "okuri")) = e.view
         /\ As(t, "text") \bullet (As(Word(e), "candidate") \bullet As(k, "okuri")) \in Views
<1>1. /\ Stands(e, low, b, t, n, l, k, Nothing, q)
      /\ e.view = ViewOf(t, As(Word(e), "candidate"), k, Nothing)
  BY DEF Holds, Middle, Word
<1>2. /\ b \in Texts /\ t \in Texts /\ n \in Texts /\ l \in Texts /\ k \in Texts
      /\ Nothing \in Texts /\ ChoicesOK(e) /\ IsEngine(e)
  BY <1>1, Unfolded
<1>3. Word(e) \in Texts
  <2>1. e.candidates \in Findings /\ e.chosen \in Nat /\ e.chosen < Len(e.candidates)
    BY <1>2 DEF ChoicesOK, NoChoice
  <2>2. QED  BY <2>1, FoundWords DEF Word
<1>4. Size(Word(e)) = Len(e.candidates[e.chosen + 1])
  BY DEF Size, Word
<1> DEFINE w == Word(e)
<1>5. w \in Texts
  BY <1>3
<1> HIDE DEF w
<1>6. /\ As(t, "text") \in Views /\ As(k, "okuri") \in Views /\ As(w, "candidate") \in Views
      /\ Size(As(t, "text")) = Size(t) /\ Size(As(k, "okuri")) = Size(k)
      /\ Size(As(w, "candidate")) = Size(w) /\ As(Nothing, "roman") = Nothing
      /\ Size(w) \in Nat /\ Size(t) \in Nat /\ Size(k) \in Nat
  BY <1>2, <1>5, AsFacts, TextSize DEF Marks
<1>7. /\ As(t, "text") \bullet (As(w, "candidate") \bullet As(k, "okuri")) = ViewOf(t, As(w, "candidate"), k, Nothing)
      /\ As(t, "text") \bullet (As(w, "candidate") \bullet As(k, "okuri")) \in Views
  BY <1>6, ViewUnit, ViewJoin DEF ViewOf
<1>8. QED  BY <1>1, <1>2, <1>4, <1>5, <1>6, <1>7 DEF w

(* Back to composing the entry. *)
LEMMA ChooseReopens ==
  ASSUME NEW e, NEW low, NEW b, NEW t, NEW n, NEW l, NEW k, NEW q, NEW j,
         Holds(e, low, b, t, n, l, k, Nothing, q), ~NoChoice(e), WordSize(e, j)
  PROVE  LET f == ChooseBack(e, j) IN
         /\ Holds(f, low, b, t, n, Nothing, Nothing, Nothing, Nothing)
         /\ f.mode = "kanji" /\ f.map = e.map /\ NoChoice(f)
         /\ f.sent = Append(e.sent, Preedit(f.view)) /\ f.learned = e.learned
<1> DEFINE s == Top(e)
           e1 == Reopen(e)
           cs == As(n, "entry")
           old == As(Word(e), "candidate") \bullet As(k, "okuri")
           p == As(t, "text")
           i == s.text
<1>1. /\ Stands(e, low, b, t, n, l, k, Nothing, q)
      /\ t \in Texts /\ n \in Texts
      /\ Size(Word(e)) = j
      /\ Size(Word(e)) \in Nat /\ Size(k) \in Nat
      /\ As(t, "text") \in Views /\ As(k, "okuri") \in Views /\ As(Word(e), "candidate") \in Views
      /\ Size(As(t, "text")) = Size(t) /\ Size(As(k, "okuri")) = Size(k)
      /\ Size(As(Word(e), "candidate")) = Size(Word(e)) /\ p \bullet old = e.view
  BY WordShown DEF WordSize
<1>2. s.text = Size(t) /\ Inflection(s) = Size(k)
  BY <1>1, Reads
<1>3. ChooseBack(e, j) = Compose(e1, i, Inflected(j, s), cs)
  <2>1. Cut(e.buffer, s.base + s.text + 1, s.base + s.text + s.entry) = n
    BY <1>1, Slices
  <2>2. QED  BY <2>1 DEF ChooseBack, Slice, Cut
<1>4. /\ Stands(e1, low, b, t, n, Nothing, Nothing, Nothing, Nothing)
      /\ e1.mode = "kanji" /\ NoChoice(e1) /\ e1.map = e.map
      /\ e1.view = e.view /\ e1.sent = e.sent /\ e1.learned = e.learned
  BY <1>1, Reopens
<1> HIDE DEF e1
<1>5. /\ cs \in Views /\ Nothing \in Views /\ As(Nothing, "okuri") = Nothing
      /\ As(Nothing, "roman") = Nothing /\ Nothing \bullet Nothing = Nothing
  BY <1>1, AsFacts, ViewUnit DEF Marks
<1>6. old \in Views /\ Size(old) = Inflected(j, s)
  BY <1>1, <1>2, ViewJoin, ViewSize DEF Inflected
<1> HIDE DEF old, cs, i
<1>7. p \bullet (cs \bullet Nothing) = ViewOf(t, Middle(e1, n), Nothing, Nothing)
  BY <1>4, <1>5, ViewUnit DEF ViewOf, Middle, cs
<1>8. e1.view = p \bullet (old \bullet Nothing)
  BY <1>1, <1>4, <1>6, ViewUnit
<1> HIDE DEF p
<1>9. Replaces(e1, p, old, Nothing, i, Inflected(j, s), cs)
  BY <1>1, <1>2, <1>5, <1>6, <1>8 DEF Replaces, i, p
<1>10. QED  BY <1>3, <1>4, <1>7, <1>9, Composed DEF NoChoice

(* Past the last candidate. *)
LEMMA ChooseEnds ==
  ASSUME NEW e, NEW low, NEW b, NEW t, NEW n, NEW l, NEW k, NEW j,
         Holds(e, low, b, t, n, l, k, Nothing, <<n, l \bullet k>>), ~NoChoice(e),
         WordSize(e, j)
  PROVE  LET f   == ChooseNone(e, j)
             up  == Push(low, StateOf(b, t, n, l \bullet k, <<n, l \bullet k>>))
         IN /\ Holds(f, up, e.buffer, Nothing, Nothing, Nothing, Nothing, Nothing, Nothing)
            /\ f.mode = "roman" /\ f.map = e.map /\ NoChoice(f)
            /\ f.sent = Append(e.sent, Preedit(f.view)) /\ f.learned = e.learned
            /\ up # Nothing
<1> DEFINE s == Top(e)
           e1 == [e EXCEPT !.chosen = @ + 1]
           e2 == [e EXCEPT !.chosen = @ + 1, !.candidates = Nothing]
           q1 == <<n, l \bullet k>>
           i == Inflected(s.text + j, s)
<1>1. /\ Stands(e, low, b, t, n, l, k, Nothing, q1) /\ IsEngine(e)
      /\ Size(Word(e)) = j
      /\ Size(Word(e)) \in Nat /\ Size(t) \in Nat /\ Size(k) \in Nat
      /\ As(t, "text") \in Views /\ As(k, "okuri") \in Views /\ As(Word(e), "candidate") \in Views
      /\ Size(As(t, "text")) = Size(t) /\ Size(As(k, "okuri")) = Size(k)
      /\ Size(As(Word(e), "candidate")) = Size(Word(e))
      /\ As(t, "text") \bullet (As(Word(e), "candidate") \bullet As(k, "okuri")) = e.view
      /\ e.view \in Views
  BY WordShown DEF WordSize
<1>2. s.text = Size(t) /\ Inflection(s) = Size(k)
  BY <1>1, Reads
<1>3. AskUser(e1) = AskUser(e2)
  <2>1. /\ DOMAIN e1 = Fields /\ DOMAIN e2 = Fields /\ e1.buffer = e.buffer /\ e2.buffer = e.buffer
        /\ e1.states = e.states /\ e2.states = e.states
    BY <1>1 DEF IsEngine, Fields
  <2>2. AskUser(e1) = [e EXCEPT !.chosen = e.chosen + 1, !.mode = "roman", !.candidates = Nothing,
                                !.states = Append(e.states, NewState(Len(e.buffer)))]
    BY <1>1 DEF AskUser, IsEngine, Fields, Nothing
  <2>3. AskUser(e2) = [e EXCEPT !.chosen = e.chosen + 1, !.mode = "roman", !.candidates = Nothing,
                                !.states = Append(e.states, NewState(Len(e.buffer)))]
    BY <1>1 DEF AskUser, IsEngine, Fields, Nothing
  <2>4. QED  BY <2>2, <2>3
<1>4. ChooseNone(e, j) = Compose(AskUser(e2), 0, i, Nothing)
  BY <1>3 DEF ChooseNone, Nothing
<1>5. /\ IsEngine(e2) /\ e2.states = e.states /\ e2.buffer = e.buffer /\ e2.mode = e.mode
      /\ e2.candidates = Nothing /\ e2.chosen = e.chosen + 1 /\ e2.view = e.view
      /\ e2.map = e.map /\ e2.sent = e.sent /\ e2.learned = e.learned
  BY <1>1 DEF IsEngine, Fields
<1> HIDE DEF e2
<1>6. ChoicesOK(e2)
  <2>1. e.chosen \in Nat
    BY <1>1, Unfolded DEF ChoicesOK
  <2>2. QED  BY <1>5, <2>1 DEF ChoicesOK, NoChoice, Nothing
<1> HIDE DEF q1
<1>7. Stands(e2, low, b, t, n, l, k, Nothing, q1)
  BY <1>1, <1>5, <1>6 DEF Stands
<1> HIDE DEF s
<1>8. i = Size(e2.view) /\ e2.view \in Views
  <2> DEFINE word == Size(Word(e))
  <2>1. Size(e.view) = Size(t) + (word + Size(k))
    BY <1>1, ViewJoin, ViewSize
  <2>2. word \in Nat /\ Size(t) \in Nat /\ Size(k) \in Nat /\ j = word
    BY <1>1
  <2> HIDE DEF word
  <2>3. i = s.text + j + Inflection(s)
    BY DEF Inflected
  <2>4. i = Size(e.view)
    BY <1>2, <2>1, <2>2, <2>3
  <2>5. QED  BY <1>1, <1>5, <2>4
<1> HIDE DEF i
<1>9. LET f   == Compose(AskUser(e2), 0, i, Nothing)
          up  == Push(low, StateOf(b, t, n, l \bullet k, <<n, l \bullet k>>))
      IN /\ Holds(f, up, e2.buffer, Nothing, Nothing, Nothing, Nothing, Nothing, Nothing)
         /\ f.mode = "roman" /\ f.map = e2.map /\ NoChoice(f)
         /\ f.sent = Append(e2.sent, Preedit(f.view)) /\ f.learned = e2.learned
         /\ up # Nothing
  BY <1>7, <1>8, UserAsked DEF q1
<1>10. QED  BY <1>4, <1>5, <1>9

(* Another candidate. *)
LEMMA ChooseShows ==
  ASSUME NEW e, NEW low, NEW b, NEW t, NEW n, NEW l, NEW k, NEW q, NEW j, NEW c,
         Holds(e, low, b, t, n, l, k, Nothing, q), ~NoChoice(e),
         WordSize(e, j), IsChoice(e, c)
  PROVE  LET f == ChooseNth(e, j, c) IN
         /\ Holds(f, low, b, t, n, l, k, Nothing, q)
         /\ f.mode = e.mode /\ f.map = e.map /\ ~NoChoice(f)
         /\ f.sent = Append(e.sent, Preedit(f.view)) /\ f.learned = e.learned
<1> DEFINE s == Top(e)
           e1 == [e EXCEPT !.chosen = c]
           cs == As(e.candidates[c + 1], "candidate")
           old == As(Word(e), "candidate")
           p == As(t, "text")
           r == As(k, "okuri")
           i == s.text
<1>1. /\ Stands(e, low, b, t, n, l, k, Nothing, q) /\ IsEngine(e) /\ Size(Word(e)) = j
      /\ p \in Views /\ r \in Views /\ old \in Views
      /\ Size(p) = Size(t) /\ Size(old) = Size(Word(e)) /\ p \bullet (old \bullet r) = e.view
  BY WordShown DEF WordSize
<1>2. i = Size(t)
  BY <1>1, Reads
<1>3. ChooseNth(e, j, c) = Compose(e1, i, j, cs)
  BY DEF ChooseNth
<1>4. /\ IsEngine(e1) /\ e1.states = e.states /\ e1.buffer = e.buffer /\ e1.mode = e.mode
      /\ e1.candidates = e.candidates /\ e1.chosen = c /\ e1.view = e.view
      /\ e1.map = e.map /\ e1.sent = e.sent /\ e1.learned = e.learned
  BY <1>1 DEF IsEngine, Fields
<1>5. ChoicesOK(e) /\ e.candidates \in Findings
  <2>1. ChoicesOK(e)
    BY <1>1, Unfolded
  <2>2. QED  BY <2>1 DEF ChoicesOK, NoChoice
<1> HIDE DEF e1, s, i
<1>6. ~NoChoice(e1) /\ ChoicesOK(e1)
  <2>1. ~NoChoice(e1)
    BY <1>4 DEF NoChoice
  <2>2. c \in Nat /\ c < Len(e.candidates)
    BY DEF IsChoice
  <2>3. QED  BY <1>4, <1>5, <2>1, <2>2 DEF ChoicesOK
<1>7. Stands(e1, low, b, t, n, l, k, Nothing, q)
  BY <1>1, <1>4, <1>6 DEF Stands
<1>8. cs \in Views /\ As(Nothing, "roman") = Nothing
  <2>1. c \in Nat /\ c < Len(e.candidates)
    BY DEF IsChoice
  <2>2. e.candidates[c + 1] \in Texts
    BY <1>5, <2>1, FoundWords
  <2>3. QED  BY <2>2, AsFacts DEF Marks
<1>9. p \bullet (cs \bullet r) = ViewOf(t, Middle(e1, n), k, Nothing)
  BY <1>1, <1>4, <1>6, <1>8, ViewUnit DEF ViewOf, Middle
<1> HIDE DEF cs, old, p, r
<1>10. Replaces(e1, p, old, r, i, j, cs)
  BY <1>1, <1>2, <1>4, <1>8 DEF Replaces
<1>11. QED  BY <1>3, <1>4, <1>6, <1>7, <1>9, <1>10, Composed DEF NoChoice

(* The candidate takes the place of the entry, and of the letter after it. *)
LEMMA Converts ==
  ASSUME NEW e, NEW low, NEW b, NEW t, NEW n, NEW l, NEW k, NEW q, NEW s, NEW word,
         Stands(e, low, b, t, n, l, k, Nothing, q), s = Top(e), word \in Texts
  PROVE  Converted(e, s, word) = b \bullet (t \bullet (word \bullet k))
<1> DEFINE w == e.buffer
           rest == Cut(w, s.base + s.text + s.entry + s.okuri - Inflection(s) + 1, Size(w))
<1>1. rest = k \bullet Nothing /\ Cut(w, 1, s.base + s.text) = b \bullet t
  BY Slices
<1>2. b \in Texts /\ t \in Texts /\ k \in Texts
  BY Reads
<1>3. Converted(e, s, word) = ((b \bullet t) \bullet word) \bullet rest
  BY <1>1 DEF Converted, From, Cut, Size, \bullet
<1> HIDE DEF w, rest
<1>4. rest = k
  BY <1>1, <1>2, TextUnit
<1>5. QED  BY <1>2, <1>3, <1>4, TextJoin

(* Shared by the two ends of ChooseCommit. *)
Chosen(e) ==
  [Register(e, Top(e), Word(e)) EXCEPT
     !.buffer = Converted(e, Top(e), Word(e)), !.mode = "roman", !.candidates = Nothing]

(* The buffer holds the candidate; the dictionary has learned it. *)
LEMMA WordChosen ==
  ASSUME NEW e, NEW low, NEW b, NEW t, NEW n, NEW l, NEW k, NEW q,
         Holds(e, low, b, t, n, l, k, Nothing, q), ~NoChoice(e)
  PROVE  LET e1 == Chosen(e)
         IN /\ IsEngine(e1) /\ ChoicesOK(e1) /\ NoChoice(e1)
            /\ e1.buffer = b \bullet (t \bullet (Word(e) \bullet k)) /\ e1.states = e.states
            /\ e1.view = e.view /\ e1.mode = "roman" /\ e1.map = e.map /\ e1.sent = e.sent
            /\ Learns(e, e1, <<n, l \bullet k>>)
            /\ \A z : z \in States => SetTop(e1, z) = [e1 EXCEPT !.states = Push(low, z)]
<1> DEFINE s  == Top(e)
           r == Register(e, s, Word(e))
           e1 == [r EXCEPT !.buffer = Converted(e, s, Word(e)), !.mode = "roman",
                           !.candidates = Nothing]
<1>1. Stands(e, low, b, t, n, l, k, Nothing, q) /\ Word(e) \in Texts
  BY WordShown
<1>2. /\ Stands(r, low, b, t, n, l, k, Nothing, q)
      /\ r.view = e.view /\ r.mode = e.mode /\ r.map = e.map /\ r.sent = e.sent
      /\ r.candidates = e.candidates /\ r.chosen = e.chosen
      /\ r.buffer = e.buffer /\ r.states = e.states
      /\ Learns(e, r, <<n, l \bullet k>>)
  BY <1>1, Registers
<1>3. Converted(e, s, Word(e)) = b \bullet (t \bullet (Word(e) \bullet k))
  BY <1>1, Converts
<1> HIDE DEF r
<1>4. IsEngine(r) /\ ChoicesOK(r)
  BY <1>2, Unfolded
<1>5. /\ IsEngine(e1) /\ e1.buffer = b \bullet (t \bullet (Word(e) \bullet k))
      /\ e1.states = e.states
      /\ e1.view = e.view /\ e1.mode = "roman" /\ e1.map = e.map /\ e1.sent = e.sent
      /\ e1.candidates = Nothing /\ e1.chosen = r.chosen /\ e1.learned = r.learned
  BY <1>2, <1>3, <1>4 DEF IsEngine, Fields
<1> HIDE DEF e1
<1>6. ChoicesOK(e1) /\ NoChoice(e1)
  BY <1>4, <1>5 DEF ChoicesOK, NoChoice, Nothing
<1>7. Learns(e, e1, <<n, l \bullet k>>)
  BY <1>2, <1>5 DEF Learns
<1>8. \A z : z \in States => SetTop(e1, z) = [e1 EXCEPT !.states = Push(low, z)]
  <2>1. \A f, x : IsEngine(f) /\ f.states = e.states /\ x \in States =>
          SetTop(f, x) = [f EXCEPT !.states = Push(low, x)]
    BY <1>1, Reads
  <2>2. QED  BY <1>5, <2>1
<1>9. QED  BY <1>5, <1>6, <1>7, <1>8 DEF e1, r, s, Chosen

(* Nested, the text goes on with the candidate and its okuri, ... *)
LEMMA ChooseCommits ==
  ASSUME NEW e, NEW low, NEW b, NEW t, NEW n, NEW l, NEW k, NEW q, NEW j,
         Holds(e, low, b, t, n, l, k, Nothing, q), ~NoChoice(e),
         WordSize(e, j), low # Nothing
  PROVE  LET f == ChooseCommit(e, j) IN
         /\ Holds(f, low, b, t \bullet (Word(e) \bullet k), Nothing, Nothing, Nothing, Nothing, Nothing)
         /\ f.mode = "roman" /\ f.map = e.map /\ NoChoice(f)
         /\ f.sent = Append(e.sent, Preedit(f.view)) /\ Learns(e, f, <<n, l \bullet k>>)
<1> DEFINE s  == Top(e)
           e1 == Chosen(e)
           z == [NewState(s.base) EXCEPT !.text = Size(e1.buffer) - s.base]
           e2 == SetTop(e1, z)
           t1 == t \bullet (Word(e) \bullet k)
           i == s.text
           o == Inflected(j, s)
           cs == As(Word(e) \bullet k, "text")
           old == As(Word(e), "candidate") \bullet As(k, "okuri")
           p == As(t, "text")
<1>1. /\ Stands(e, low, b, t, n, l, k, Nothing, q)
      /\ b \in Texts /\ t \in Texts /\ k \in Texts /\ Word(e) \in Texts /\ Size(Word(e)) = j
      /\ Size(Word(e)) \in Nat /\ Size(k) \in Nat
      /\ p \in Views /\ As(k, "okuri") \in Views /\ As(Word(e), "candidate") \in Views
      /\ Size(p) = Size(t) /\ Size(As(k, "okuri")) = Size(k)
      /\ Size(As(Word(e), "candidate")) = Size(Word(e)) /\ p \bullet old = e.view
  BY WordShown DEF WordSize
<1>2. /\ s.base = Size(b) /\ s.text = Size(t) /\ Inflection(s) = Size(k) /\ Nested(e)
      /\ IsStack(low, b)
  <2>1. s.base = Size(b) /\ s.text = Size(t) /\ Inflection(s) = Size(k) /\ Nested(e)
    <3>1. Stands(e, low, b, t, n, l, k, Nothing, q)
      BY <1>1
    <3>2. s.base = Size(b) /\ s.text = Size(t) /\ Inflection(s) = Size(k)
      BY <3>1, Reads
    <3>3. Nested(e) = (low # Nothing)
      BY <3>1, Reads
    <3>4. QED  BY <3>2, <3>3, Zenon
  <2>2. IsStack(low, b)
    BY <1>1, Unfolded
  <2>3. QED  BY <2>1, <2>2
<1>3. /\ IsEngine(e1) /\ ChoicesOK(e1) /\ NoChoice(e1)
      /\ e1.buffer = b \bullet (t \bullet (Word(e) \bullet k)) /\ e1.states = e.states
      /\ e1.view = e.view /\ e1.mode = "roman" /\ e1.map = e.map /\ e1.sent = e.sent
      /\ Learns(e, e1, <<n, l \bullet k>>)
      /\ \A x : x \in States => SetTop(e1, x) = [e1 EXCEPT !.states = Push(low, x)]
  BY WordChosen
<1>4. ChooseCommit(e, j) =
        Compose(e2, i, o, As(Cut(e1.buffer, s.base + s.text + 1, Size(e1.buffer)), "text"))
  BY <1>2 DEF ChooseCommit, Chosen, From, Size, Cut, Word, Nothing
<1> HIDE DEF e1
<1>5. t1 \in Texts /\ e1.buffer = b \bullet t1 /\ Word(e) \bullet k \in Texts
  BY <1>1, <1>3, TextJoin
<1>6. Cut(e1.buffer, s.base + s.text + 1, Size(e1.buffer)) = Word(e) \bullet k
  <2> DEFINE x == b \bullet t
             y == Word(e) \bullet k
  <2>1. e1.buffer = x \bullet y /\ x \in Texts /\ y \in Texts
    BY <1>1, <1>3, TextJoin
  <2>2. Size(x) = s.base + s.text
    BY <1>1, <1>2, TextSize
  <2> HIDE DEF x, y
  <2>3. Cut(e1.buffer, Size(x) + 1, Size(e1.buffer)) = y
    BY <2>1, TextCut
  <2>4. QED  BY <2>2, <2>3 DEF y
<1> HIDE DEF t1
<1>7. /\ z = StateOf(b, t1, Nothing, Nothing, Nothing) /\ z \in States
      /\ Whole(b, t1, Nothing, Nothing, Nothing, Nothing) = e1.buffer
      /\ AreParts(b, t1, Nothing, Nothing, Nothing, Nothing)
      /\ Nothing \in Queries /\ Nothing \bullet Nothing = Nothing
  BY <1>1, <1>2, <1>5, TextState
<1> HIDE DEF z
<1>8. /\ IsEngine(e2) /\ e2.states = Push(low, z) /\ e2.buffer = e1.buffer
      /\ e2.view = e.view /\ e2.mode = "roman" /\ e2.map = e.map /\ e2.sent = e.sent
      /\ e2.candidates = e1.candidates /\ e2.chosen = e1.chosen /\ e2.learned = e1.learned
  BY <1>3, <1>7 DEF IsEngine, Fields
<1> HIDE DEF e2
<1>9. NoChoice(e2) /\ ChoicesOK(e2)
  BY <1>3, <1>8 DEF NoChoice, ChoicesOK
<1>10. Stands(e2, low, b, t1, Nothing, Nothing, Nothing, Nothing, Nothing)
  BY <1>2, <1>7, <1>8, <1>9 DEF Stands
<1>11. /\ cs \in Views /\ As(t1, "text") = p \bullet cs /\ Nothing \in Views
       /\ As(Nothing, "entry") = Nothing /\ As(Nothing, "okuri") = Nothing
       /\ As(Nothing, "roman") = Nothing
  BY <1>1, <1>5, AsFacts, AsJoin, ViewUnit DEF Marks, t1
<1>12. old \in Views /\ Size(old) = Size(Word(e)) + Size(k)
  BY <1>1, ViewJoin, ViewSize
<1>13. o = Size(old) /\ i = Size(p)
  <2>1. o = j + Inflection(s)
    BY DEF Inflected
  <2> HIDE DEF o, old, s, p
  <2>2. o = Size(old)
    BY <1>1, <1>2, <1>12, <2>1
  <2>3. QED  BY <1>1, <1>2, <2>2
<1>14. ChooseCommit(e, j) = Compose(e2, i, o, cs)
  BY <1>4, <1>6
<1> HIDE DEF s, i, o, old, cs
<1>15. p \bullet (cs \bullet Nothing) = ViewOf(t1, Middle(e2, Nothing), Nothing, Nothing)
  BY <1>1, <1>9, <1>11, ViewUnit, ViewJoin DEF ViewOf, Middle
<1>16. e2.view = p \bullet (old \bullet Nothing)
  BY <1>1, <1>8, <1>12, ViewUnit
<1> HIDE DEF p
<1>17. Replaces(e2, p, old, Nothing, i, o, cs)
  BY <1>1, <1>11, <1>12, <1>13, <1>16 DEF Replaces, p
<1> DEFINE f == Compose(e2, i, o, cs)
<1>18. /\ Holds(f, low, b, t1, Nothing, Nothing, Nothing, Nothing, Nothing)
       /\ f.mode = "roman" /\ f.map = e.map /\ NoChoice(f)
       /\ f.sent = Append(e.sent, Preedit(f.view)) /\ f.learned = e1.learned
  BY <1>8, <1>9, <1>10, <1>15, <1>17, Composed DEF NoChoice
<1> HIDE DEF f
<1>19. Learns(e, f, <<n, l \bullet k>>)
  BY <1>3, <1>18 DEF Learns
<1>20. QED  BY <1>14, <1>18, <1>19 DEF t1, f

(* ... and otherwise they are committed. *)
LEMMA ChooseCommitsAll ==
  ASSUME NEW e, NEW b, NEW t, NEW n, NEW l, NEW k, NEW q, NEW j,
         Holds(e, Nothing, b, t, n, l, k, Nothing, q), ~NoChoice(e),
         WordSize(e, j)
  PROVE  LET f == ChooseCommit(e, j) IN
         /\ Holds(f, Nothing, Nothing, Nothing, Nothing, Nothing, Nothing, Nothing, Nothing)
         /\ f.mode = "roman" /\ f.map = e.map /\ NoChoice(f) /\ f.buffer = Nothing
         /\ f.sent = Append(e.sent, Committed(Word(e) \bullet k))
         /\ Learns(e, f, <<n, l \bullet k>>)
<1> DEFINE s  == Top(e)
           e1 == Chosen(e)
           z == StateOf(b, t, n, l \bullet k, q)
           f == CommitBuffer(e1)
<1>1. /\ Stands(e, Nothing, b, t, n, l, k, Nothing, q)
      /\ b \in Texts /\ t \in Texts /\ n \in Texts /\ k \in Texts /\ Word(e) \in Texts
  BY WordShown
<1>2. ~Nested(e) /\ IsStack(Nothing, b) /\ t = Nothing /\ q \in Queries /\ l \bullet k \in Texts
      /\ e.states = Push(Nothing, z)
  <2>1. ~Nested(e)
    BY <1>1, Reads
  <2>2. /\ IsStack(Nothing, b) /\ t = Nothing /\ q \in Queries /\ l \bullet k \in Texts
        /\ e.states = Push(Nothing, z)
    BY <1>1, Unfolded
  <2>3. QED  BY <2>1, <2>2
<1>3. /\ IsEngine(e1) /\ ChoicesOK(e1) /\ NoChoice(e1)
      /\ e1.buffer = b \bullet (t \bullet (Word(e) \bullet k)) /\ e1.states = e.states
      /\ e1.view = e.view /\ e1.mode = "roman" /\ e1.map = e.map /\ e1.sent = e.sent
      /\ Learns(e, e1, <<n, l \bullet k>>)
      /\ \A x : x \in States => SetTop(e1, x) = [e1 EXCEPT !.states = Push(Nothing, x)]
  BY WordChosen
<1>4. ChooseCommit(e, j) = f
  BY <1>2 DEF ChooseCommit, Chosen, Word, Nothing
<1> HIDE DEF e1
<1>5. z \in States
  BY <1>1, <1>2, StateIs
<1>6. e1.buffer = Word(e) \bullet k
  <2>1. b = Nothing /\ Word(e) \bullet k \in Texts
    BY <1>1, <1>2, TextJoin DEF IsStack
  <2>2. QED  BY <1>2, <1>3, <2>1, TextUnit
<1> HIDE DEF z, f
<1>7. /\ Holds(f, Nothing, Nothing, Nothing, Nothing, Nothing, Nothing, Nothing, Nothing)
      /\ f.mode = e1.mode /\ f.map = e1.map /\ NoChoice(f)
      /\ f.sent = Append(e1.sent, Committed(e1.buffer)) /\ f.learned = e1.learned
      /\ f.buffer = Nothing
  BY <1>2, <1>3, <1>5, BufferCommits DEF f
<1>8. Learns(e, f, <<n, l \bullet k>>)
  BY <1>3, <1>7 DEF Learns
<1>9. QED  BY <1>3, <1>4, <1>6, <1>7, <1>8

-----------------------------------------------------------------------------
(* What a mode relies on.                                                  *)
Fits(e, n, l, k, m, q) ==
  /\ e.map = m /\ m \in Unfinished
  /\ e.mode \in {"latin", "word", "roman", "kanji", "choose"}
  /\ e.mode = "choose" <=> ~NoChoice(e)
  /\ e.mode \in {"latin", "word", "choose"} => m = Nothing
  /\ e.mode \in {"latin", "roman"} => n = Nothing /\ l = Nothing
  /\ m = Nothing /\ e.mode # "choose" => l = Nothing
  /\ l # Nothing => n # Nothing
  /\ e.mode = "choose" => q = <<n, l \bullet k>>

(* ... and the engine, of some texts, with it. *)
Fine(e, low, b, t, n, l, k, m, q) ==
  Holds(e, low, b, t, n, l, k, m, q) /\ Fits(e, n, l, k, m, q)
Good(e) == \E low, b, t, n, l, k, m, q : Fine(e, low, b, t, n, l, k, m, q)

(* With no romaji and no candidate. *)
Plain(e, low, b, t, n, q) ==
  Holds(e, low, b, t, n, Nothing, Nothing, Nothing, q) /\ e.map = Nothing /\ NoChoice(e)

(* Texts the engine is of witness that there are some. *)
LEMMA FineIsGood ==
  \A e, low, b, t, n, l, k, m, q : Fine(e, low, b, t, n, l, k, m, q) => Good(e)
BY Zenon DEF Good

(* The romaji table begins with nothing typed. *)
LEMMA NothingPending == Nothing \in Unfinished
BY DEF Unfinished, Nothing

(* With no romaji and no candidate, a mode that fits is all there is to    *)
(* show.                                                                   *)
LEMMA PlainIsGood ==
  ASSUME NEW e, NEW low, NEW b, NEW t, NEW n, NEW q, Plain(e, low, b, t, n, q),
         \/ e.mode \in {"word", "kanji"}
         \/ e.mode \in {"latin", "roman"} /\ n = Nothing
  PROVE  Good(e)
<1>1. Fits(e, n, Nothing, Nothing, Nothing, q)
  BY NothingPending DEF Fits, Plain
<1>2. Fine(e, low, b, t, n, Nothing, Nothing, Nothing, q)
  BY <1>1 DEF Fine, Plain
<1>3. QED  BY <1>2, FineIsGood

(* What is sent: one message more at most, or one that does not commit.    *)
Sends(e, f) == f.sent = e.sent \/ \E x : f.sent = Append(e.sent, x)
Quiet(e, f) == f.sent = e.sent \/ \E x : f.sent = Append(e.sent, x) /\ x.type # "commit"

(* The messages there are, and whether they commit. *)
LEMMA SendFacts ==
  /\ \A e, f, v : f.sent = Append(e.sent, Preedit(v)) => Sends(e, f) /\ Quiet(e, f)
  /\ \A e, f : f.sent = Append(e.sent, Forwarded) => Sends(e, f) /\ Quiet(e, f)
  /\ \A e, f, cs : f.sent = Append(e.sent, Committed(cs)) => Sends(e, f)
  /\ \A e, f : f.sent = e.sent => Sends(e, f) /\ Quiet(e, f)
<1>1. (\A v : Preedit(v).type # "commit") /\ Forwarded.type # "commit"
  BY DEF Preedit, Forwarded
<1>2. \A e, f : Quiet(e, f) => Sends(e, f)
  BY Zenon DEF Quiet, Sends
<1>3. \A e, f, x : f.sent = Append(e.sent, x) /\ x.type # "commit" => Quiet(e, f)
  BY Zenon DEF Quiet
<1>4. \A e, f, x : f.sent = Append(e.sent, x) => Sends(e, f)
  BY Zenon DEF Sends
<1>5. \A e, f : f.sent = e.sent => Quiet(e, f)
  BY Zenon DEF Quiet
<1>6. QED  BY <1>1, <1>2, <1>3, <1>4, <1>5, Zenon

(* Romaji pending is dropped, with one preedit sent; without any, nothing  *)
(* is done.                                                                *)
LEMMA ResetsPending ==
  ASSUME NEW e, NEW low, NEW b, NEW t, NEW n, NEW l, NEW k, NEW m, NEW q,
         Fine(e, low, b, t, n, l, k, m, q), NoChoice(e)
  PROVE  LET f == ResetPending(e) IN
         /\ Plain(f, low, b, t, n, q) /\ f.mode = e.mode /\ f.learned = e.learned
         /\ Sends(e, f) /\ Quiet(e, f) /\ (m = Nothing => f = e)
         /\ m # Nothing => f.sent = Append(e.sent, Preedit(f.view))
<1>1. Holds(e, low, b, t, n, l, k, m, q) /\ e.map = m
  BY DEF Fine, Fits
<1>2. CASE m = Nothing
  <2>1. l = Nothing /\ k = Nothing
    <3>1. l = Nothing
      BY <1>2 DEF Fine, Fits
    <3>2. l = Nothing => k = Nothing
      BY <1>1 DEF Holds, Stands, AreParts
    <3>3. QED  BY <3>1, <3>2
  <2>2. ResetPending(e) = e
    BY <1>1, <1>2 DEF ResetPending, Nothing
  <2>3. Plain(e, low, b, t, n, q)
    BY <1>1, <1>2, <2>1 DEF Plain
  <2>4. Sends(e, e) /\ Quiet(e, e)
    BY SendFacts
  <2>5. QED  BY <1>2, <2>2, <2>3, <2>4
<1>3. CASE m # Nothing
  <2> DEFINE f == RomanReset(e)
  <2>1. ResetPending(e) = f
    BY <1>1, <1>3 DEF ResetPending, Nothing
  <2>2. /\ Holds(f, low, b, t, n, Nothing, Nothing, Nothing, q)
        /\ f.mode = e.mode /\ f.map = Nothing /\ NoChoice(f)
        /\ f.sent = Append(e.sent, Preedit(f.view)) /\ f.learned = e.learned
    BY <1>1, RomanResets
  <2> HIDE DEF f
  <2>3. Plain(f, low, b, t, n, q)
    BY <2>2 DEF Plain
  <2>4. Sends(e, f) /\ Quiet(e, f)
    BY <2>2, SendFacts
  <2>5. QED  BY <1>3, <2>1, <2>2, <2>3, <2>4
<1>4. QED  BY <1>2, <1>3

-----------------------------------------------------------------------------
(* Typing and deleting in a text, and leaving it.                          *)
LEMMA TextTyped ==
  ASSUME NEW e, NEW low, NEW b, NEW t, NEW q, Plain(e, low, b, t, Nothing, q),
         e.mode \in {"latin", "roman"}, NEW c \in Chars
  PROVE  LET f == TextPush(e, c) IN Good(f) /\ Sends(e, f) /\ f.learned = e.learned
<1> DEFINE f == TextPush(e, c)
<1>1. /\ Holds(e, low, b, t, Nothing, Nothing, Nothing, Nothing, q)
      /\ e.map = Nothing /\ NoChoice(e)
  BY DEF Plain
<1>2. CASE low = Nothing
  <2>1. /\ Holds(f, Nothing, b, t, Nothing, Nothing, Nothing, Nothing, q)
        /\ f.mode = e.mode /\ f.map = e.map /\ NoChoice(f)
        /\ f.sent = Append(e.sent, Committed(<<c>>)) /\ f.learned = e.learned
    BY <1>1, <1>2, TextSends
  <2> HIDE DEF f
  <2>2. Plain(f, Nothing, b, t, Nothing, q)
    BY <1>1, <2>1 DEF Plain
  <2>3. Good(f)
    BY <2>1, <2>2, PlainIsGood
  <2>4. QED  BY <2>1, <2>3, SendFacts DEF f
<1>3. CASE low # Nothing
  <2>1. /\ Holds(f, low, b, t \bullet <<c>>, Nothing, Nothing, Nothing, Nothing, q)
        /\ f.mode = e.mode /\ f.map = e.map /\ NoChoice(f)
        /\ f.sent = Append(e.sent, Preedit(f.view)) /\ f.learned = e.learned
    BY <1>1, <1>3, TextPushes
  <2> HIDE DEF f
  <2>2. Plain(f, low, b, t \bullet <<c>>, Nothing, q)
    BY <1>1, <2>1 DEF Plain
  <2>3. Good(f)
    BY <2>1, <2>2, PlainIsGood
  <2>4. QED  BY <2>1, <2>3, SendFacts DEF f
<1>4. QED  BY <1>2, <1>3

(* BackSpace in the text: a character, a nested state or nothing is        *)
(* undone.                                                                 *)
LEMMA TextDeleted ==
  ASSUME NEW e, NEW low, NEW b, NEW t, NEW q, Plain(e, low, b, t, Nothing, q),
         e.mode \in {"latin", "roman"}
  PROVE  LET f == TextPop(e) IN Good(f) /\ Sends(e, f) /\ f.learned = e.learned
<1> DEFINE f == TextPop(e)
<1>1. /\ Holds(e, low, b, t, Nothing, Nothing, Nothing, Nothing, q)
      /\ e.map = Nothing /\ NoChoice(e)
  BY DEF Plain
<1>2. /\ Stands(e, low, b, t, Nothing, Nothing, Nothing, Nothing, q) /\ t \in Texts
      /\ (low = Nothing => t = Nothing) /\ Size(Nothing) = 0
  <2>1. Stands(e, low, b, t, Nothing, Nothing, Nothing, Nothing, q)
    BY <1>1 DEF Holds
  <2>2. QED  BY <2>1, Unfolded
<1>3. CASE low = Nothing
  <2>1. Top(e).text = 0 /\ ~Nested(e)
    <3>1. Top(e).text = Size(t) /\ Nested(e) = (low # Nothing)
      BY <1>2, Reads
    <3>2. QED  BY <1>2, <1>3, <3>1
  <2>2. f = Forward(e)
    BY <2>1 DEF TextPop
  <2>3. /\ Holds(f, low, b, t, Nothing, Nothing, Nothing, Nothing, q)
        /\ f.mode = e.mode /\ f.map = e.map /\ f.candidates = e.candidates
        /\ f.sent = Append(e.sent, Forwarded) /\ f.learned = e.learned
    BY <1>1, <2>2, Forwards
  <2> HIDE DEF f
  <2>4. Plain(f, low, b, t, Nothing, q)
    BY <1>1, <2>3 DEF Plain, NoChoice
  <2>5. Good(f)
    BY <2>3, <2>4, PlainIsGood
  <2>6. QED  BY <2>3, <2>5, SendFacts DEF f
<1>4. CASE low # Nothing /\ t = Nothing
  <2>1. /\ \E low1, b1, t1, n1 :
             Holds(f, low1, b1, t1, n1, Nothing, Nothing, Nothing, Nothing)
        /\ f.mode = "kanji" /\ f.map = e.map /\ NoChoice(f)
        /\ f.sent = Append(e.sent, Preedit(f.view)) /\ f.learned = e.learned
    BY <1>1, <1>4, TextReopens
  <2> HIDE DEF f
  <2>2. PICK low1, b1, t1, n1 : Holds(f, low1, b1, t1, n1, Nothing, Nothing, Nothing, Nothing)
    BY <2>1
  <2>3. Plain(f, low1, b1, t1, n1, Nothing)
    BY <1>1, <2>1, <2>2 DEF Plain
  <2>4. Good(f)
    BY <2>1, <2>3, PlainIsGood
  <2>5. QED  BY <2>1, <2>4, SendFacts DEF f
<1>5. CASE low # Nothing /\ t # Nothing
  <2>1. PICK u \in Texts, c \in Chars : t = u \bullet <<c>>
    BY <1>2, <1>5, TextEnds
  <2>2. /\ Holds(f, low, b, u, Nothing, Nothing, Nothing, Nothing, q)
        /\ f.mode = e.mode /\ f.map = e.map /\ NoChoice(f)
        /\ f.sent = Append(e.sent, Preedit(f.view)) /\ f.learned = e.learned
    BY <1>1, <1>5, <2>1, TextPops
  <2> HIDE DEF f
  <2>3. Plain(f, low, b, u, Nothing, q)
    BY <1>1, <2>2 DEF Plain
  <2>4. Good(f)
    BY <2>2, <2>3, PlainIsGood
  <2>5. QED  BY <2>2, <2>4, SendFacts DEF f
<1>6. QED  BY <1>3, <1>4, <1>5

(* What is learned with the text: the word for the state that waits for it. *)
Taught(e, f, low) ==
  \/ f.learned = e.learned
  \/ low # Nothing /\ \E cs : f.learned = Append(e.learned, <<low[Size(low)].asked, cs>>)

(* Return after the text: what waits below goes on, or the key is          *)
(* forwarded.                                                              *)
LEMMA TextDone ==
  ASSUME NEW e, NEW low, NEW b, NEW t, NEW q, Plain(e, low, b, t, Nothing, q),
         e.mode \in {"latin", "roman"}
  PROVE  LET f == TextCommit(e) IN Good(f) /\ Sends(e, f) /\ Taught(e, f, low)
<1> DEFINE f == TextCommit(e)
<1>1. /\ Holds(e, low, b, t, Nothing, Nothing, Nothing, Nothing, q)
      /\ e.map = Nothing /\ NoChoice(e)
  BY DEF Plain
<1>2. Stands(e, low, b, t, Nothing, Nothing, Nothing, Nothing, q)
  BY <1>1 DEF Holds
<1>3. CASE low = Nothing
  <2>1. ~Nested(e)
    <3>1. Nested(e) = (low # Nothing)
      BY <1>2, Reads
    <3>2. QED  BY <1>3, <3>1
  <2>2. f = Forward(e)
    BY <2>1 DEF TextCommit
  <2>3. /\ Holds(f, low, b, t, Nothing, Nothing, Nothing, Nothing, q)
        /\ f.mode = e.mode /\ f.map = e.map /\ f.candidates = e.candidates
        /\ f.sent = Append(e.sent, Forwarded) /\ f.learned = e.learned
    BY <1>1, <2>2, Forwards
  <2> HIDE DEF f
  <2>4. Plain(f, low, b, t, Nothing, q)
    BY <1>1, <2>3 DEF Plain, NoChoice
  <2>5. Good(f)
    BY <2>3, <2>4, PlainIsGood
  <2>6. QED  BY <2>3, <2>5, SendFacts DEF f, Taught
<1>4. CASE low # Nothing
  <2>1. PICK low1, b1, t1, n1, l1, k1 : BelowIs(e, low, t, low1, b1, t1, n1, l1, k1)
    BY <1>2, <1>4, Popped
  <2>2. ASSUME NEW g, Learns(e, g, <<n1, l1 \bullet k1>>)
        PROVE  Taught(e, g, low)
    <3> DEFINE s == StateOf(b1, t1, n1, l1 \bullet k1, <<n1, l1 \bullet k1>>)
    <3>1. low = Push(low1, s) /\ Stands(Pop(e), low1, b1, t1, n1, l1, k1, t, <<n1, l1 \bullet k1>>)
      BY <2>1 DEF BelowIs
    <3>2. low1 \in Stacks /\ s \in States
      <4>1. /\ low1 \in Stacks /\ b1 \in Texts /\ t1 \in Texts /\ n1 \in Texts
            /\ l1 \bullet k1 \in Texts /\ <<n1, l1 \bullet k1>> \in Queries
        BY <3>1, Unfolded
      <4>2. QED  BY <4>1, StateIs
    <3>3. s.asked = <<n1, l1 \bullet k1>>
      BY DEF StateOf
    <3> HIDE DEF s
    <3>4. low[Size(low)] = s
      BY <3>1, <3>2, Pushed
    <3>5. QED  BY <1>4, <2>2, <3>3, <3>4 DEF Learns, Taught
  <2>3. CASE low1 = Nothing
    <3>1. BelowIs(e, low, t, Nothing, b1, t1, n1, l1, k1)
      BY <2>1, <2>3
    <3>2. /\ Holds(f, Nothing, Nothing, Nothing, Nothing, Nothing, Nothing, Nothing, Nothing)
          /\ f.mode = "roman" /\ f.map = e.map /\ NoChoice(f)
          /\ \E cs : f.sent = Append(e.sent, Committed(cs))
          /\ Learns(e, f, <<n1, l1 \bullet k1>>)
      BY <1>1, <1>4, <3>1, TextCommitsAll
    <3> HIDE DEF f
    <3>3. Plain(f, Nothing, Nothing, Nothing, Nothing, Nothing)
      BY <1>1, <3>2 DEF Plain
    <3>4. Good(f)
      BY <3>2, <3>3, PlainIsGood
    <3>5. QED  BY <2>2, <3>2, <3>4, SendFacts DEF f
  <2>4. CASE low1 # Nothing
    <3>1. /\ Holds(f, low1, b1, t1 \bullet (t \bullet k1), Nothing, Nothing, Nothing, Nothing, Nothing)
          /\ f.mode = "roman" /\ f.map = e.map /\ NoChoice(f)
          /\ f.sent = Append(e.sent, Preedit(f.view)) /\ Learns(e, f, <<n1, l1 \bullet k1>>)
      BY <1>1, <1>4, <2>1, <2>4, TextCommits
    <3> HIDE DEF f
    <3>2. Plain(f, low1, b1, t1 \bullet (t \bullet k1), Nothing, Nothing)
      BY <1>1, <3>1 DEF Plain
    <3>3. Good(f)
      BY <3>1, <3>2, PlainIsGood
    <3>4. QED  BY <2>2, <3>1, <3>3, SendFacts DEF f
  <2>5. QED  BY <2>3, <2>4
<1>5. QED  BY <1>3, <1>4

-----------------------------------------------------------------------------
(* Typing and deleting in an entry, leaving it, and converting it.         *)
LEMMA EntryTyped ==
  ASSUME NEW e, NEW low, NEW b, NEW t, NEW n, NEW q, Plain(e, low, b, t, n, q),
         e.mode \in {"word", "kanji"}, NEW c \in Chars
  PROVE  LET f == EntryPush(e, c) IN Good(f) /\ Quiet(e, f) /\ f.learned = e.learned
<1> DEFINE f == EntryPush(e, c)
<1>1. /\ Holds(e, low, b, t, n, Nothing, Nothing, Nothing, q)
      /\ e.map = Nothing /\ NoChoice(e)
  BY DEF Plain
<1>2. /\ Holds(f, low, b, t, n \bullet <<c>>, Nothing, Nothing, Nothing, q)
      /\ f.mode = e.mode /\ f.map = e.map /\ NoChoice(f)
      /\ f.sent = Append(e.sent, Preedit(f.view)) /\ f.learned = e.learned
  BY <1>1, EntryPushes
<1> HIDE DEF f
<1>3. Plain(f, low, b, t, n \bullet <<c>>, q)
  BY <1>1, <1>2 DEF Plain
<1>4. Good(f)
  BY <1>2, <1>3, PlainIsGood
<1>5. QED  BY <1>2, <1>4, SendFacts DEF f

(* BackSpace in the entry. *)
LEMMA EntryDeleted ==
  ASSUME NEW e, NEW low, NEW b, NEW t, NEW n, NEW q, Plain(e, low, b, t, n, q),
         e.mode \in {"word", "kanji"}
  PROVE  LET f == EntryPop(e) IN Good(f) /\ Quiet(e, f) /\ f.learned = e.learned
<1> DEFINE f == EntryPop(e)
           d == EntryDropped(e)
<1>1. /\ Holds(e, low, b, t, n, Nothing, Nothing, Nothing, q)
      /\ e.map = Nothing /\ NoChoice(e)
  BY DEF Plain
<1>2. /\ Stands(e, low, b, t, n, Nothing, Nothing, Nothing, q) /\ n \in Texts
      /\ Size(n) \in Nat /\ Nothing \in Texts /\ Size(Nothing) = 0
  <2>1. Stands(e, low, b, t, n, Nothing, Nothing, Nothing, q)
    BY <1>1 DEF Holds
  <2>2. QED  BY <2>1, Unfolded
<1>3. Top(e).entry = Size(n)
  BY <1>2, Reads
<1>4. f = IF Top(e).entry > 1 THEN d
          ELSE [(IF Top(e).entry > 0 THEN d ELSE e) EXCEPT !.mode = "roman"]
  BY DEF EntryPop, EntryDropped
<1> HIDE DEF f, d
<1>5. CASE n = Nothing
  <2>1. f = [e EXCEPT !.mode = "roman"]
    BY <1>2, <1>3, <1>4, <1>5
  <2>2. /\ Holds(f, low, b, t, n, Nothing, Nothing, Nothing, q)
        /\ f.mode = "roman" /\ f.map = e.map /\ f.candidates = e.candidates
        /\ f.sent = e.sent /\ f.learned = e.learned
    BY <1>1, <2>1, ModeSet
  <2>3. Plain(f, low, b, t, n, q)
    BY <1>1, <2>2 DEF Plain, NoChoice
  <2>4. Good(f)
    BY <1>5, <2>2, <2>3, PlainIsGood
  <2>5. QED  BY <2>2, <2>4, SendFacts DEF f
<1>6. CASE n # Nothing
  <2>1. PICK u \in Texts, c \in Chars : n = u \bullet <<c>>
    BY <1>2, <1>6, TextEnds
  <2>2. /\ Holds(d, low, b, t, u, Nothing, Nothing, Nothing, q)
        /\ d.mode = e.mode /\ d.map = e.map /\ NoChoice(d)
        /\ d.sent = Append(e.sent, Preedit(d.view)) /\ d.learned = e.learned
    BY <1>1, <2>1, EntryDrops DEF d
  <2>3. Size(n) = Size(u) + 1 /\ Size(u) \in Nat /\ (Size(u) = 0 <=> u = Nothing)
    BY <2>1, TextEnds, TextSize
  <2>4. CASE u # Nothing
    <3>1. f = d
      BY <1>3, <1>4, <2>3, <2>4
    <3>2. Plain(f, low, b, t, u, q)
      BY <1>1, <2>2, <3>1 DEF Plain
    <3>3. Good(f)
      BY <2>2, <3>1, <3>2, PlainIsGood
    <3>4. QED  BY <2>2, <3>1, <3>3, SendFacts DEF f
  <2>5. CASE u = Nothing
    <3>1. f = [d EXCEPT !.mode = "roman"]
      BY <1>3, <1>4, <2>3, <2>5
    <3>2. /\ Holds(f, low, b, t, u, Nothing, Nothing, Nothing, q)
          /\ f.mode = "roman" /\ f.map = d.map /\ f.candidates = d.candidates
          /\ f.sent = d.sent /\ f.learned = d.learned
      <4>1. Holds(d, low, b, t, u, Nothing, Nothing, Nothing, q)
        BY <2>2
      <4> DEFINE g == [d EXCEPT !.mode = "roman"]
      <4>2. /\ Holds(g, low, b, t, u, Nothing, Nothing, Nothing, q)
            /\ g.mode = "roman" /\ g.map = d.map /\ g.candidates = d.candidates
            /\ g.sent = d.sent /\ g.learned = d.learned
        BY <4>1, ModeSet
      <4>3. f = g
        BY <3>1
      <4> HIDE DEF g
      <4>4. QED  BY <4>2, <4>3
    <3>3. Plain(f, low, b, t, u, q)
      BY <1>1, <2>2, <3>2 DEF Plain, NoChoice
    <3>4. Good(f)
      BY <2>5, <3>2, <3>3, PlainIsGood
    <3>5. f.sent = Append(e.sent, Preedit(d.view)) /\ f.learned = e.learned
      BY <2>2, <3>2
    <3>6. QED  BY <3>4, <3>5, SendFacts DEF f
  <2>6. QED  BY <2>4, <2>5
<1>7. QED  BY <1>5, <1>6 DEF f

(* Return after the entry: with nothing nested it is committed as it is. *)
LEMMA EntryDone ==
  ASSUME NEW e, NEW low, NEW b, NEW t, NEW n, NEW q, Plain(e, low, b, t, n, q)
  PROVE  LET f == EntryCommit(e) IN
         /\ Good(f) /\ Sends(e, f) /\ f.learned = e.learned
         /\ low = Nothing => f.sent = Append(e.sent, Committed(n))
<1> DEFINE f == EntryCommit(e)
<1>1. /\ Holds(e, low, b, t, n, Nothing, Nothing, Nothing, q)
      /\ e.map = Nothing /\ NoChoice(e)
  BY DEF Plain
<1>2. CASE low = Nothing
  <2>1. /\ Holds(f, Nothing, Nothing, Nothing, Nothing, Nothing, Nothing, Nothing, Nothing)
        /\ f.mode = "roman" /\ f.map = e.map /\ NoChoice(f)
        /\ f.sent = Append(e.sent, Committed(n)) /\ f.learned = e.learned
    BY <1>1, <1>2, EntryCommitsAll
  <2> HIDE DEF f
  <2>2. Plain(f, Nothing, Nothing, Nothing, Nothing, Nothing)
    BY <1>1, <2>1 DEF Plain
  <2>3. Good(f)
    BY <2>1, <2>2, PlainIsGood
  <2>4. QED  BY <2>1, <2>3, SendFacts DEF f
<1>3. CASE low # Nothing
  <2>1. /\ Holds(f, low, b, t \bullet n, Nothing, Nothing, Nothing, Nothing, Nothing)
        /\ f.mode = "roman" /\ f.map = e.map /\ NoChoice(f)
        /\ f.sent = Append(e.sent, Preedit(f.view)) /\ f.learned = e.learned
    BY <1>1, <1>3, EntryCommits
  <2> HIDE DEF f
  <2>2. Plain(f, low, b, t \bullet n, Nothing, Nothing)
    BY <1>1, <2>1 DEF Plain
  <2>3. Good(f)
    BY <2>1, <2>2, PlainIsGood
  <2>4. QED  BY <1>3, <2>1, <2>3, SendFacts DEF f
<1>4. QED  BY <1>2, <1>3

(* An engine like another, but that no romaji is followed.                 *)
Unmapped(g, f) ==
  /\ \A low, b, t, n, l, k, m, q :
       Holds(g, low, b, t, n, l, k, m, q) => Holds(f, low, b, t, n, l, k, m, q)
  /\ f.mode = g.mode /\ f.map = Nothing /\ f.candidates = g.candidates
  /\ f.sent = g.sent /\ f.learned = g.learned

(* Any engine is, of itself once its romaji is forgotten. *)
LEMMA UnmappedIs ==
  /\ \A g : g.map = Nothing => Unmapped(g, g)
  /\ \A g, low, b, t, n, l, k, m, q :
       Holds(g, low, b, t, n, l, k, m, q) => Unmapped(g, [g EXCEPT !.map = Nothing])
<1>1. \A g : g.map = Nothing => Unmapped(g, g)
  BY DEF Unmapped
<1>2. ASSUME NEW g, NEW low, NEW b, NEW t, NEW n, NEW l, NEW k, NEW m, NEW q,
             Holds(g, low, b, t, n, l, k, m, q)
      PROVE  Unmapped(g, [g EXCEPT !.map = Nothing])
  <2> DEFINE f == [g EXCEPT !.map = Nothing]
  <2>1. ASSUME NEW low1, NEW b1, NEW t1, NEW n1, NEW l1, NEW k1, NEW m1, NEW q1,
               Holds(g, low1, b1, t1, n1, l1, k1, m1, q1)
        PROVE  Holds(f, low1, b1, t1, n1, l1, k1, m1, q1)
    BY <2>1, MapSet
  <2>2. /\ f.mode = g.mode /\ f.map = Nothing /\ f.candidates = g.candidates
        /\ f.sent = g.sent /\ f.learned = g.learned
    BY <1>2, MapSet
  <2> HIDE DEF f
  <2>3. Unmapped(g, f)
    BY <2>1, <2>2 DEF Unmapped
  <2>4. QED  BY <2>3 DEF f
<1>3. QED  BY <1>1, <1>2

(* The dictionary is asked, and finds candidates or leaves it to the user. *)
LEMMA EntryAsked ==
  ASSUME NEW e, NEW low, NEW b, NEW t, NEW n, NEW l, NEW k, NEW q,
         Holds(e, low, b, t, n, l, k, Nothing, q), NoChoice(e), l # Nothing => n # Nothing,
         NEW found \in Findings, NEW f, Unmapped(Choose(e, found), f)
  PROVE  Good(f) /\ Quiet(e, f) /\ f.learned = e.learned
<1> DEFINE g == Choose(e, found)
<1>1. CASE found = Nothing
  <2> DEFINE up == Push(low, StateOf(b, t, n, l \bullet k, <<n, l \bullet k>>))
  <2>1. /\ Holds(g, up, e.buffer, Nothing, Nothing, Nothing, Nothing, Nothing, Nothing)
        /\ g.mode = "roman" /\ NoChoice(g)
        /\ g.sent = Append(e.sent, Preedit(g.view)) /\ g.learned = e.learned
    BY <1>1, ChooseMisses
  <2> HIDE DEF g, up
  <2>2. /\ Holds(f, up, e.buffer, Nothing, Nothing, Nothing, Nothing, Nothing, Nothing)
        /\ f.mode = "roman" /\ NoChoice(f) /\ f.map = Nothing
        /\ f.sent = Append(e.sent, Preedit(g.view)) /\ f.learned = e.learned
    BY <2>1 DEF Unmapped, g, NoChoice
  <2>3. Plain(f, up, e.buffer, Nothing, Nothing, Nothing)
    BY <2>2 DEF Plain
  <2>4. Good(f)
    BY <2>2, <2>3, PlainIsGood
  <2>5. QED  BY <2>2, <2>4, SendFacts
<1>2. CASE found # Nothing
  <2>1. /\ Holds(g, low, b, t, n, l, k, Nothing, <<n, l \bullet k>>)
        /\ g.mode = "choose" /\ ~NoChoice(g)
        /\ g.sent = Append(e.sent, Preedit(g.view)) /\ g.learned = e.learned
    BY <1>2, ChooseFinds
  <2> HIDE DEF g
  <2>2. /\ Holds(f, low, b, t, n, l, k, Nothing, <<n, l \bullet k>>)
        /\ f.mode = "choose" /\ ~NoChoice(f) /\ f.map = Nothing
        /\ f.sent = Append(e.sent, Preedit(g.view)) /\ f.learned = e.learned
    BY <2>1 DEF Unmapped, g, NoChoice
  <2>3. Fits(f, n, l, k, Nothing, <<n, l \bullet k>>)
    BY <2>2, NothingPending DEF Fits
  <2>4. Fine(f, low, b, t, n, l, k, Nothing, <<n, l \bullet k>>)
    BY <2>2, <2>3 DEF Fine
  <2>5. Good(f)
    BY <2>4, FineIsGood
  <2>6. QED  BY <2>2, <2>5, SendFacts
<1>3. QED  BY <1>1, <1>2

-----------------------------------------------------------------------------
(* A key of the romaji.                                                    *)
LEMMA Reduces ==
  ASSUME NEW e, NEW low, NEW b, NEW t, NEW n, NEW l, NEW k, NEW m, NEW q,
         Holds(e, low, b, t, n, l, k, m, q), NoChoice(e), NEW cs \in Texts,
         e.mode \in {"roman", "kanji"},
         e.mode = "roman" => n = Nothing /\ l = Nothing, l # Nothing => n # Nothing
  PROVE  LET f == RomanReduce(e, cs) IN
         /\ \E t1, n1, k1, q1 :
              /\ Holds(f, low, b, t1, n1, l, k1, Nothing, q1)
              /\ e.mode = "roman" => n1 = Nothing
              /\ l # Nothing => n1 # Nothing
         /\ f.mode = e.mode /\ NoChoice(f) /\ f.learned = e.learned
         /\ Sends(e, f) /\ (e.mode = "kanji" => Quiet(e, f))
<1> DEFINE f == RomanReduce(e, cs)
<1>1. /\ Stands(e, low, b, t, n, l, k, m, q) /\ (l = Nothing => k = Nothing)
      /\ (low = Nothing => t = Nothing) /\ (low = Nothing => b = Nothing)
  <2>1. Stands(e, low, b, t, n, l, k, m, q)
    BY DEF Holds
  <2>2. IsStack(low, b) /\ (low = Nothing => t = Nothing) /\ (l = Nothing => k = Nothing)
    BY <2>1, Unfolded
  <2>3. low = Nothing => b = Nothing
    BY <2>2 DEF IsStack
  <2>4. QED  BY <2>1, <2>2, <2>3
<1>2. CASE e.mode = "kanji" /\ l # Nothing
  <2>1. /\ Holds(f, low, b, t, n, l, k \bullet cs, Nothing, q)
        /\ f.mode = e.mode /\ f.map = e.map /\ NoChoice(f)
        /\ f.sent = Append(e.sent, Preedit(f.view)) /\ f.learned = e.learned
    BY <1>2, OkuriReduces
  <2> HIDE DEF f
  <2>2. \E t1, n1, k1, q1 :
          /\ Holds(f, low, b, t1, n1, l, k1, Nothing, q1)
          /\ e.mode = "roman" => n1 = Nothing
          /\ l # Nothing => n1 # Nothing
    <3>1. ~(e.mode = "roman") /\ n # Nothing /\ Holds(f, low, b, t, n, l, k \bullet cs, Nothing, q)
      BY <1>2, <2>1
    <3>2. QED  BY <3>1, Zenon
  <2>3. QED  BY <2>1, <2>2, SendFacts DEF f
<1>3. CASE e.mode = "kanji" /\ l = Nothing
  <2>1. /\ Holds(f, low, b, t, n \bullet cs, l, k, Nothing, q)
        /\ f.mode = e.mode /\ f.map = e.map /\ NoChoice(f)
        /\ f.sent = Append(e.sent, Preedit(f.view)) /\ f.learned = e.learned
    BY <1>3, EntryReduces
  <2> HIDE DEF f
  <2>2. \E t1, n1, k1, q1 :
          /\ Holds(f, low, b, t1, n1, l, k1, Nothing, q1)
          /\ e.mode = "roman" => n1 = Nothing
          /\ l # Nothing => n1 # Nothing
    <3>1. ~(e.mode = "roman") /\ ~(l # Nothing) /\ Holds(f, low, b, t, n \bullet cs, l, k, Nothing, q)
      BY <1>3, <2>1
    <3>2. QED  BY <3>1, Zenon
  <2>3. QED  BY <2>1, <2>2, SendFacts DEF f
<1>4. CASE e.mode # "kanji" /\ low # Nothing
  <2>1. n = Nothing /\ l = Nothing /\ k = Nothing /\ e.mode = "roman"
    BY <1>1, <1>4
  <2>2. Holds(e, low, b, t, Nothing, Nothing, Nothing, m, q)
    BY <2>1
  <2>3. /\ Holds(f, low, b, t \bullet cs, Nothing, Nothing, Nothing, Nothing, q)
        /\ f.mode = e.mode /\ f.map = e.map /\ NoChoice(f)
        /\ f.sent = Append(e.sent, Preedit(f.view)) /\ f.learned = e.learned
    BY <1>4, <2>2, TextReduces
  <2> HIDE DEF f
  <2>4. \E t1, n1, k1, q1 :
          /\ Holds(f, low, b, t1, n1, l, k1, Nothing, q1)
          /\ e.mode = "roman" => n1 = Nothing
          /\ l # Nothing => n1 # Nothing
    <3>1. ~(l # Nothing) /\ Holds(f, low, b, t \bullet cs, Nothing, l, Nothing, Nothing, q)
      BY <2>1, <2>3
    <3>2. QED  BY <3>1, Zenon
  <2>5. QED  BY <2>1, <2>3, <2>4, SendFacts DEF f
<1>5. CASE e.mode # "kanji" /\ low = Nothing
  <2>1. n = Nothing /\ l = Nothing /\ k = Nothing /\ e.mode = "roman" /\ b = Nothing /\ t = Nothing
    BY <1>1, <1>5
  <2>2. Holds(e, Nothing, Nothing, Nothing, Nothing, Nothing, Nothing, m, q)
    BY <1>5, <2>1
  <2>3. /\ Holds(f, Nothing, Nothing, Nothing, Nothing, Nothing, Nothing, Nothing, Nothing)
        /\ f.mode = e.mode /\ f.map = e.map /\ NoChoice(f)
        /\ f.sent = Append(e.sent, Committed(cs)) /\ f.learned = e.learned
    BY <1>5, <2>2, CommitReduces
  <2> HIDE DEF f
  <2>4. \E t1, n1, k1, q1 :
          /\ Holds(f, low, b, t1, n1, l, k1, Nothing, q1)
          /\ e.mode = "roman" => n1 = Nothing
          /\ l # Nothing => n1 # Nothing
    <3>1. ~(l # Nothing) /\ Holds(f, low, b, Nothing, Nothing, l, Nothing, Nothing, Nothing)
      BY <1>5, <2>1, <2>3
    <3>2. QED  BY <3>1, Zenon
  <2>5. ~(e.mode = "kanji")
    BY <1>5
  <2>6. QED  BY <2>3, <2>4, <2>5, SendFacts DEF f
<1>6. QED  BY <1>2, <1>3, <1>4, <1>5

(* Two messages at most. *)
SendsTwice(e, f) == \E g : Sends(e, g) /\ Sends(g, f)
QuietTwice(e, f) == \E g : Quiet(e, g) /\ Quiet(g, f)

(* One message at most is two at most, and so is one after another. *)
LEMMA TwiceFacts ==
  /\ \A e, f : Sends(e, f) => SendsTwice(e, f)
  /\ \A e, f : Quiet(e, f) => QuietTwice(e, f) /\ Sends(e, f)
  /\ \A e, f, g : Sends(e, g) /\ Sends(g, f) => SendsTwice(e, f)
  /\ \A e, f, g : Quiet(e, g) /\ Quiet(g, f) => QuietTwice(e, f)
<1>1. \A e : Sends(e, e) /\ Quiet(e, e)
  BY SendFacts
<1>2. \A e, f : Quiet(e, f) => Sends(e, f)
  BY Zenon DEF Quiet, Sends
<1>3. QED  BY <1>1, <1>2, Zenon DEF SendsTwice, QuietTwice

(* The romaji as a text. *)
LEMMA AppendIs ==
  ASSUME NEW m \in Texts, NEW key \in Chars
  PROVE  /\ Append(m, key) # Nothing /\ <<key>> # Nothing
         /\ Doubled(Append(m, key)) => m = <<key>>
<1>1. /\ Len(m) \in Nat /\ Len(Append(m, key)) = Len(m) + 1
      /\ Append(m, key)[Len(m) + 1] = key
      /\ \A i \in 1..Len(m) : Append(m, key)[i] = m[i]
  BY DEF Texts
<1>2. Append(m, key) # Nothing /\ <<key>> # Nothing
  <2>1. Len(Nothing) = 0 /\ Len(<<key>>) = 1
    BY DEF Nothing
  <2>2. QED  BY <1>1, <2>1
<1> DEFINE path == Append(m, key)
<1>3. /\ Len(m) \in Nat /\ Len(path) = Len(m) + 1 /\ path[Len(m) + 1] = key
      /\ \A i \in 1..Len(m) : path[i] = m[i]
  BY <1>1
<1> HIDE DEF path
<1>4. ASSUME Doubled(path)
      PROVE  m = <<key>>
  <2>1. Len(path) = 2 /\ path[1] = path[2]
    BY <1>4 DEF Doubled
  <2>2. Len(m) = 1
    <3>1. Len(m) \in Nat /\ Len(m) + 1 = 2
      <4>1. Len(path) = 2 /\ Len(path) = Len(m) + 1 /\ Len(m) \in Nat
        BY <1>3, <2>1, Zenon
      <4>2. QED  BY <4>1, Zenon
    <3> DEFINE x == Len(m)
    <3>2. x \in Nat /\ x + 1 = 2
      BY <3>1
    <3> HIDE DEF x
    <3>3. x = 1
      BY <3>2
    <3>4. QED  BY <3>3 DEF x
  <2>3. path[2] = key /\ path[1] = m[1]
    BY <1>3, <2>2
  <2>4. m[1] = key
    BY <2>1, <2>3
  <2>5. QED  BY <2>2, <2>4 DEF Texts
<1>5. QED  BY <1>2, <1>4 DEF path

(* No sequence of romaji is complete with more to come. *)
LEMMA NotBoth ==
  ASSUME NEW path \in Unfinished
  PROVE  ~Complete(path)
<1>1. Len(path) = 0 \/ path[Len(path)] \in {"k", "x", "y"}
  BY DEF Unfinished
<1>2. Complete(path) => Len(path) # 0 /\ path[Len(path)] \in {"a", "/"}
  <2>1. ASSUME path \in {<<"a">>, <<"k", "a">>, <<"x", "a">>, <<"x", "/">>, <<"y", "a">>}
        PROVE  Len(path) # 0 /\ path[Len(path)] \in {"a", "/"}
    BY SMTT(30), <2>1
  <2>2. ASSUME path \in {<<"k", "y", "a">>, <<"x", "k", "a">>, <<"x", "y", "a">>}
        PROVE  Len(path) # 0 /\ path[Len(path)] \in {"a", "/"}
    BY <2>2
  <2>3. QED  BY <2>1, <2>2 DEF Complete
<1>3. QED  BY <1>1, <1>2

(* What a key the romaji table goes on with makes of the sequence. *)
LEMMA Followed ==
  ASSUME NEW m \in Unfinished, m \in Texts, NEW key \in Printable, Finds(m, key)
  PROVE  LET path == Append(m, key)
         IN /\ path = m \bullet <<key>> /\ path # Nothing /\ KanaOf(path) \in Texts
            /\ ~(path \in Unfinished) /\ ~Complete(path) => m = <<key>> /\ <<key>> \in Unfinished
            /\ m = Nothing => path \in Unfinished \/ Complete(path)
            /\ key \in Chars /\ <<"kana">> \in Texts
            /\ Nothing \bullet <<key>> = <<key>> /\ <<key>> # Nothing
<1> DEFINE path == Append(m, key)
<1>1. key \in Chars /\ "kana" \in Chars
  BY DEF Chars
<1>2. path = m \bullet <<key>> /\ Nothing \bullet <<key>> = <<key>>
  BY <1>1, TextEnds, TextUnit
<1>3. path # Nothing /\ <<key>> # Nothing
  BY <1>1, AppendIs
<1>4. <<"kana">> \in Texts /\ KanaOf(path) \in Texts
  BY <1>1 DEF KanaOf, Texts
<1>5. Finds(m, key) = (path \in Unfinished \/ Complete(path) \/ (Doubled(path) /\ m # Nothing))
  BY DEF Finds, Nothing
<1>6. Doubled(path) => m = <<key>>
  BY <1>1, AppendIs
<1>7. QED  BY <1>1, <1>2, <1>3, <1>4, <1>5, <1>6

(* The engine as a key that the romaji table goes on with finds it. *)
Ready(e, low, b, t, n, l, k, m, q) ==
  /\ Holds(e, low, b, t, n, l, k, m, q) /\ NoChoice(e) /\ e.map = m /\ m \in Unfinished
  /\ e.mode \in {"roman", "kanji"}
  /\ (e.mode = "roman" => n = Nothing /\ l = Nothing) /\ (l # Nothing => n # Nothing)

(* Such a key is pushed, or reduces the sequence and may ask the           *)
(* dictionary.                                                             *)
LEMMA KeyFollowed ==
  ASSUME NEW e, NEW low, NEW b, NEW t, NEW n, NEW l, NEW k, NEW m, NEW q,
         Ready(e, low, b, t, n, l, k, m, q),
         NEW key \in Printable, Finds(m, key), NEW found \in Findings
  PROVE  LET f == ActionPressed(e, key, found) IN
         /\ Good(f) /\ f.learned = e.learned
         /\ SendsTwice(e, f) /\ (e.mode = "kanji" => QuietTwice(e, f))
         /\ m = Nothing /\ l = Nothing => Sends(e, f) /\ (e.mode = "kanji" => Quiet(e, f))
<1> DEFINE f    == ActionPressed(e, key, found)
           path == Append(m, key)
<1> /\ Holds(e, low, b, t, n, l, k, m, q) /\ NoChoice(e) /\ e.map = m /\ m \in Unfinished
    /\ e.mode \in {"roman", "kanji"}
    /\ (e.mode = "roman" => n = Nothing /\ l = Nothing) /\ (l # Nothing => n # Nothing)
  BY DEF Ready
<1>1. f = CASE path \in Unfinished -> RomanPush(e, key, path)
            [] Complete(path) -> RomanCommit(RomanReduce(e, KanaOf(path)), found)
            [] OTHER -> RomanPush(RomanReduce(e, <<"kana">>), key, <<key>>)
  BY DEF ActionPressed
<1>2. m \in Texts
  BY Unfolded DEF Holds
<1>3. /\ path = m \bullet <<key>> /\ path # Nothing /\ KanaOf(path) \in Texts
      /\ ~(path \in Unfinished) /\ ~Complete(path) => m = <<key>> /\ <<key>> \in Unfinished
      /\ m = Nothing => path \in Unfinished \/ Complete(path)
      /\ key \in Chars /\ <<"kana">> \in Texts
      /\ Nothing \bullet <<key>> = <<key>> /\ <<key>> # Nothing
  BY <1>2, Followed
<1>4. ~(path \in Unfinished /\ Complete(path))
  BY NotBoth
<1> HIDE DEF f, path
<1>5. CASE path \in Unfinished
  <2>1. f = RomanPush(e, key, path)
    BY <1>1, <1>4, <1>5
  <2>2. /\ Holds(f, low, b, t, n, l, k, m \bullet <<key>>, q)
        /\ f.mode = e.mode /\ f.map = path /\ NoChoice(f)
        /\ f.sent = Append(e.sent, Preedit(f.view)) /\ f.learned = e.learned
    BY <1>3, <2>1, RomanPushes
  <2>3. Fits(f, n, l, k, path, q)
    BY <1>3, <1>5, <2>2 DEF Fits
  <2>4. Fine(f, low, b, t, n, l, k, path, q)
    BY <1>3, <2>2, <2>3 DEF Fine
  <2>5. Good(f) /\ Quiet(e, f)
    BY <2>2, <2>4, FineIsGood, SendFacts
  <2>6. QED  BY <2>2, <2>5, TwiceFacts DEF f
<1>6. CASE ~(path \in Unfinished) /\ Complete(path)
  <2> DEFINE g == RomanReduce(e, KanaOf(path))
  <2>1. /\ \E t1, n1, k1, q1 :
             /\ Holds(g, low, b, t1, n1, l, k1, Nothing, q1)
             /\ e.mode = "roman" => n1 = Nothing
             /\ l # Nothing => n1 # Nothing
        /\ g.mode = e.mode /\ NoChoice(g) /\ g.learned = e.learned
        /\ Sends(e, g) /\ (e.mode = "kanji" => Quiet(e, g))
    BY <1>3, Reduces
  <2>2. f = RomanCommit(g, found)
    BY <1>1, <1>4, <1>6
  <2> HIDE DEF g
  <2>3. PICK t1, n1, k1, q1 :
             /\ Holds(g, low, b, t1, n1, l, k1, Nothing, q1)
             /\ e.mode = "roman" => n1 = Nothing
             /\ l # Nothing => n1 # Nothing
    BY <2>1
  <2>4. Top(g).okuri > 0 <=> l # Nothing
    <3>1. Stands(g, low, b, t1, n1, l, k1, Nothing, q1)
      BY <2>3 DEF Holds
    <3>2. QED  BY <3>1, Reads
  <2>5. CASE l # Nothing
    <3> DEFINE c == Choose(g, found)
    <3>1. f = [c EXCEPT !.map = Nothing]
      BY <2>2, <2>4, <2>5 DEF RomanCommit, Nothing
    <3>2. \E low1, b1, t2, n2, l2, k2, m2, q2 : Holds(c, low1, b1, t2, n2, l2, k2, m2, q2)
      <4>1. CASE found = Nothing
        <5>1. Holds(c, Push(low, StateOf(b, t1, n1, l \bullet k1, <<n1, l \bullet k1>>)), g.buffer,
                    Nothing, Nothing, Nothing, Nothing, Nothing, Nothing)
          BY <2>1, <2>3, <4>1, ChooseMisses
        <5> HIDE DEF c
        <5>2. QED  BY <5>1, Zenon
      <4>2. CASE found # Nothing
        <5>1. Holds(c, low, b, t1, n1, l, k1, Nothing, <<n1, l \bullet k1>>)
          BY <2>1, <2>3, <4>2, ChooseFinds
        <5> HIDE DEF c
        <5>2. QED  BY <5>1, Zenon
      <4>3. QED  BY <4>1, <4>2
    <3> HIDE DEF c
    <3>3. Unmapped(c, f)
      BY <3>1, <3>2, UnmappedIs
    <3>4. Good(f) /\ Quiet(g, f) /\ f.learned = g.learned
      BY <2>1, <2>3, <3>3, EntryAsked DEF c
    <3>5. ~(m = Nothing /\ l = Nothing)
      BY <2>5
    <3>6. QED  BY <2>1, <3>4, <3>5, TwiceFacts DEF f
  <2>6. CASE l = Nothing
    <3>1. f = [g EXCEPT !.map = Nothing]
      BY <2>2, <2>4, <2>6 DEF RomanCommit, Nothing
    <3>2. Unmapped(g, f)
      BY <2>3, <3>1, UnmappedIs
    <3>3. k1 = Nothing
      <4>1. Stands(g, low, b, t1, n1, l, k1, Nothing, q1)
        BY <2>3 DEF Holds
      <4>2. QED  BY <2>6, <4>1, Unfolded
    <3>4. Holds(f, low, b, t1, n1, Nothing, Nothing, Nothing, q1)
      BY <2>3, <2>6, <3>2, <3>3 DEF Unmapped
    <3>5. f.map = Nothing /\ f.mode = g.mode /\ NoChoice(f) /\ f.sent = g.sent /\ f.learned = g.learned
      BY <2>1, <3>2 DEF Unmapped, NoChoice
    <3>6. Plain(f, low, b, t1, n1, q1)
      BY <3>4, <3>5 DEF Plain
    <3>7. Good(f)
      BY <2>1, <2>3, <3>5, <3>6, PlainIsGood
    <3>8. Sends(e, f) /\ (e.mode = "kanji" => Quiet(e, f))
      BY <2>1, <3>5 DEF Sends, Quiet
    <3>9. QED  BY <2>1, <3>5, <3>7, <3>8, TwiceFacts DEF f
  <2>7. QED  BY <2>5, <2>6
<1>7. CASE ~(path \in Unfinished) /\ ~Complete(path)
  <2> DEFINE g == RomanReduce(e, <<"kana">>)
  <2>1. /\ \E t1, n1, k1, q1 :
             /\ Holds(g, low, b, t1, n1, l, k1, Nothing, q1)
             /\ e.mode = "roman" => n1 = Nothing
             /\ l # Nothing => n1 # Nothing
        /\ g.mode = e.mode /\ NoChoice(g) /\ g.learned = e.learned
        /\ Sends(e, g) /\ (e.mode = "kanji" => Quiet(e, g))
    BY <1>3, Reduces
  <2>2. f = RomanPush(g, key, <<key>>)
    BY <1>1, <1>7
  <2> HIDE DEF g
  <2>3. PICK t1, n1, k1, q1 :
             /\ Holds(g, low, b, t1, n1, l, k1, Nothing, q1)
             /\ e.mode = "roman" => n1 = Nothing
             /\ l # Nothing => n1 # Nothing
    BY <2>1
  <2>4. /\ Holds(f, low, b, t1, n1, l, k1, Nothing \bullet <<key>>, q1)
        /\ f.mode = g.mode /\ f.map = <<key>> /\ NoChoice(f)
        /\ f.sent = Append(g.sent, Preedit(f.view)) /\ f.learned = g.learned
    BY <1>3, <2>1, <2>2, <2>3, RomanPushes
  <2>5. Fits(f, n1, l, k1, <<key>>, q1)
    BY <1>3, <1>7, <2>1, <2>3, <2>4 DEF Fits
  <2>6. Fine(f, low, b, t1, n1, l, k1, <<key>>, q1)
    BY <1>3, <2>4, <2>5 DEF Fine
  <2>7. Good(f) /\ Quiet(g, f)
    BY <2>4, <2>6, FineIsGood, SendFacts
  <2>8. m # Nothing
    BY <1>3, <1>7
  <2>9. QED  BY <2>1, <2>4, <2>7, <2>8, TwiceFacts DEF f
<1>8. QED  BY <1>5, <1>6, <1>7

-----------------------------------------------------------------------------
(* The keys of each mode.                                                  *)
LEMMA KeysAre ==
  /\ \A key : key \in Keys => key \in Printable \/ ~(key \in Printable)
  /\ \A key : key \in Printable => ~Return(key) /\ key # "Linefeed" /\ key # "BackSpace"
                                   /\ key # "Return"
  /\ \A key : Return(key) => key # "Linefeed" /\ key # "BackSpace"
  /\ "1" \in Chars /\ \A key : key \in Printable => key \in Chars /\ Lower(key) \in Printable
BY DEF Printable, Return, Chars, Lower

(* What is learned is for a state of the stack.                            *)
Teaches(e, f) ==
  \/ f.learned = e.learned
  \/ \E j \in DOMAIN e.states : \E cs : f.learned = Append(e.learned, <<e.states[j].asked, cs>>)

(* The state below the top one is one of the stack. *)
LEMMA TaughtTeaches ==
  ASSUME NEW e, NEW low, NEW b, NEW t, NEW n, NEW l, NEW k, NEW m, NEW q,
         Holds(e, low, b, t, n, l, k, m, q), NEW f, Taught(e, f, low)
  PROVE  Teaches(e, f)
<1> DEFINE s == StateOf(b, t, n, l \bullet k, q)
<1>1. e.states = Push(low, s) /\ low \in Stacks /\ s \in States
  <2>1. Stands(e, low, b, t, n, l, k, m, q)
    BY DEF Holds
  <2>2. /\ e.states = Push(low, s) /\ low \in Stacks /\ b \in Texts /\ t \in Texts /\ n \in Texts
        /\ l \bullet k \in Texts /\ q \in Queries
    BY <2>1, Unfolded
  <2>3. QED  BY <2>2, StateIs
<1> HIDE DEF s
<1>2. CASE low = Nothing
  BY <1>2 DEF Taught, Teaches
<1>3. CASE low # Nothing
  <2>1. /\ e.states \in Stacks /\ Size(e.states) = Size(low) + 1 /\ Size(low) \in Nat
        /\ (Size(low) = 0 <=> low = Nothing) /\ \A i \in 1..Size(low) : e.states[i] = low[i]
    BY <1>1, Pushed
  <2>2. DOMAIN e.states = 1..Size(e.states)
    BY <2>1 DEF Stacks, Size
  <2>3. Size(low) \in 1..Size(low) /\ Size(low) \in DOMAIN e.states
    BY <1>3, <2>1, <2>2
  <2>4. e.states[Size(low)] = low[Size(low)]
    BY <2>1, <2>3
  <2>5. QED  BY <2>3, <2>4 DEF Taught, Teaches
<1>4. QED  BY <1>2, <1>3

(* A key forwarded keeps all but what is sent. *)
LEMMA ForwardGood ==
  ASSUME NEW e, Good(e)
  PROVE  LET f == Forward(e) IN Good(f) /\ Quiet(e, f) /\ f.learned = e.learned
<1> DEFINE f == Forward(e)
<1>1. PICK low, b, t, n, l, k, m, q : Fine(e, low, b, t, n, l, k, m, q)
  BY DEF Good
<1>2. /\ Holds(f, low, b, t, n, l, k, m, q)
      /\ f.mode = e.mode /\ f.map = e.map /\ f.candidates = e.candidates
      /\ f.sent = Append(e.sent, Forwarded) /\ f.learned = e.learned
  BY <1>1, Forwards DEF Fine
<1> HIDE DEF f
<1>3. Fits(f, n, l, k, m, q)
  BY <1>1, <1>2 DEF Fine, Fits, NoChoice
<1>4. Fine(f, low, b, t, n, l, k, m, q)
  BY <1>2, <1>3 DEF Fine
<1>5. Good(f)
  BY <1>4, FineIsGood
<1>6. QED  BY <1>2, <1>5, SendFacts DEF f

(* A key in the latin mode. *)
LEMMA LatinKey ==
  ASSUME NEW e, NEW low, NEW b, NEW t, NEW q, Plain(e, low, b, t, Nothing, q),
         e.mode = "latin", NEW key \in Keys
  PROVE  LET f == ModeLatin(e, key) IN Good(f) /\ Sends(e, f) /\ Taught(e, f, low)
<1> DEFINE f == ModeLatin(e, key)
<1>1. f = CASE Return(key) -> TextCommit(e)
            [] key = "Linefeed" -> [e EXCEPT !.mode = "roman"]
            [] key = "BackSpace" -> TextPop(e)
            [] key \in Printable -> TextPush(e, "1")
            [] OTHER -> IF e.buffer = <<>> THEN Forward(e) ELSE e
  BY DEF ModeLatin
<1> HIDE DEF f
<1>2. /\ key \in Printable => ~Return(key) /\ key # "Linefeed" /\ key # "BackSpace"
      /\ Return(key) => key # "Linefeed" /\ key # "BackSpace"
      /\ "1" \in Chars
  BY KeysAre
<1>3. CASE Return(key)
  <2>1. f = TextCommit(e)
    BY <1>1, <1>2, <1>3
  <2>2. QED  BY <2>1, TextDone DEF f
<1>4. CASE key = "Linefeed"
  <2>1. f = [e EXCEPT !.mode = "roman"]
    BY <1>1, <1>2, <1>4
  <2>2. Holds(e, low, b, t, Nothing, Nothing, Nothing, Nothing, q) /\ e.map = Nothing /\ NoChoice(e)
    BY DEF Plain
  <2>3. /\ Holds(f, low, b, t, Nothing, Nothing, Nothing, Nothing, q)
        /\ f.mode = "roman" /\ f.map = e.map /\ f.candidates = e.candidates
        /\ f.sent = e.sent /\ f.learned = e.learned
    BY <2>1, <2>2, ModeSet
  <2>4. Plain(f, low, b, t, Nothing, q)
    BY <2>2, <2>3 DEF Plain, NoChoice
  <2>5. Good(f)
    BY <2>3, <2>4, PlainIsGood
  <2>6. QED  BY <2>3, <2>5, SendFacts DEF f, Taught
<1>5. CASE key = "BackSpace"
  <2>1. f = TextPop(e)
    BY <1>1, <1>2, <1>5
  <2>2. Good(f) /\ Sends(e, f) /\ f.learned = e.learned
    BY <2>1, TextDeleted
  <2>3. QED  BY <2>2 DEF f, Taught
<1>6. CASE key \in Printable
  <2>1. f = TextPush(e, "1")
    BY <1>1, <1>2, <1>6
  <2>2. Good(f) /\ Sends(e, f) /\ f.learned = e.learned
    BY <1>2, <2>1, TextTyped
  <2>3. QED  BY <2>2 DEF f, Taught
<1>7. CASE ~Return(key) /\ key # "Linefeed" /\ key # "BackSpace" /\ ~(key \in Printable)
  <2>1. Good(e)
    BY PlainIsGood
  <2>2. f = Forward(e) \/ f = e
    BY <1>1, <1>7
  <2>3. Good(f) /\ Sends(e, f) /\ f.learned = e.learned
    BY <2>1, <2>2, ForwardGood, SendFacts, TwiceFacts
  <2>4. QED  BY <2>3 DEF f, Taught
<1>8. QED  BY <1>3, <1>4, <1>5, <1>6, <1>7

(* What is shown, with nothing below and no romaji.                        *)
LEMMA JoinIs ==
  \A a, b : a \in Texts /\ b \in Texts =>
    /\ a \o b \in Seq(Chars) /\ Len(a \o b) = Len(a) + Len(b)
    /\ \A i \in 1..Len(a) : (a \o b)[i] = a[i]
    /\ \A i \in 1..Len(b) : (a \o b)[i + Len(a)] = b[i]
<1> SUFFICES ASSUME NEW a \in Seq(Chars), NEW b \in Seq(Chars)
             PROVE  /\ a \o b \in Seq(Chars) /\ Len(a \o b) = Len(a) + Len(b)
                    /\ \A i \in 1..Len(a) : (a \o b)[i] = a[i]
                    /\ \A i \in 1..Len(b) : (a \o b)[i + Len(a)] = b[i]
  BY DEF Texts
<1>1. a \o b \in Seq(Chars) /\ Len(a \o b) = Len(a) + Len(b)
  OBVIOUS
<1>2. \A i \in 1..Len(a) : (a \o b)[i] = a[i]
  OBVIOUS
<1>3. \A i \in 1..Len(b) : (a \o b)[i + Len(a)] = b[i]
  OBVIOUS
<1>4. QED  BY <1>1, <1>2, <1>3

(* Two sequences joined, of which each reads off another.                  *)
AreRead(x, y, z, u, v, w) ==
  /\ x \in Texts /\ y \in Texts /\ z \in Texts /\ Len(z) = Len(x) + Len(y)
  /\ (\A i \in 1..Len(x) : w[i] = u[i]) /\ (\A i \in 1..Len(y) : w[i + Len(x)] = v[i])
  /\ (\A i \in 1..Len(x) : x[i] = u[i].c) /\ (\A i \in 1..Len(y) : y[i] = v[i].c)
  /\ (\A i \in 1..Len(z) : z[i] = w[i].c)

(* Then the first is read off what the other two join to. *)
LEMMA ReadsOff ==
  ASSUME NEW x, NEW y, NEW z, NEW u, NEW v, NEW w, AreRead(x, y, z, u, v, w)
  PROVE  z = x \o y
<1> /\ x \in Texts /\ y \in Texts /\ z \in Texts /\ Len(z) = Len(x) + Len(y)
    /\ (\A i \in 1..Len(x) : w[i] = u[i]) /\ (\A i \in 1..Len(y) : w[i + Len(x)] = v[i])
    /\ (\A i \in 1..Len(x) : x[i] = u[i].c) /\ (\A i \in 1..Len(y) : y[i] = v[i].c)
    /\ (\A i \in 1..Len(z) : z[i] = w[i].c)
  BY DEF AreRead
<1> DEFINE xy == x \o y
<1>1. /\ xy \in Seq(Chars) /\ Len(xy) = Len(x) + Len(y)
      /\ \A i \in 1..Len(x) : xy[i] = x[i]
      /\ \A i \in 1..Len(y) : xy[i + Len(x)] = y[i]
  BY JoinIs
<1> HIDE DEF xy
<1>2. Len(x) \in Nat /\ Len(y) \in Nat /\ z \in Seq(Chars)
  BY DEF Texts
<1>3. ASSUME NEW i \in 1..Len(z)
      PROVE  xy[i] = z[i]
  <2>1. CASE i <= Len(x)
    <3>1. i \in 1..Len(x)
      BY <1>2, <2>1
    <3>2. QED  BY <1>1, <3>1
  <2>2. CASE ~(i <= Len(x))
    <3>1. i - Len(x) \in 1..Len(y) /\ (i - Len(x)) + Len(x) = i
      BY <1>2, <2>2
    <3>2. xy[i] = y[i - Len(x)] /\ w[i] = v[i - Len(x)]
      BY <1>1, <3>1
    <3>3. z[i] = w[i].c /\ y[i - Len(x)] = v[i - Len(x)].c
      BY <3>1
    <3>4. QED  BY <3>2, <3>3
  <2>3. QED  BY <2>1, <2>2
<1>4. xy = z
  <2>1. Len(xy) = Len(z)
    BY <1>1
  <2>2. QED  BY <1>1, <1>2, <1>3, <2>1
<1>5. QED  BY <1>4 DEF xy

(* The characters of a view give back the text it shows, part by part. *)
LEMMA CharactersOf ==
  /\ \A a \in Texts, x \in Marks : Characters(As(a, x)) = a
  /\ \A u, v \in Views : Characters(u \bullet v) = Characters(u) \bullet Characters(v)
<1>1. ASSUME NEW a \in Texts, NEW x \in Marks
      PROVE  Characters(As(a, x)) = a
  <2>1. /\ DOMAIN As(a, x) = DOMAIN a /\ \A i \in DOMAIN a : As(a, x)[i].c = a[i]
    BY DEF As
  <2>2. Characters(As(a, x)) = [i \in DOMAIN a |-> a[i]]
    BY <2>1 DEF Characters
  <2>3. QED  BY <2>2 DEF Texts
<1>2. ASSUME NEW u \in Views, NEW v \in Views
      PROVE  Characters(u \bullet v) = Characters(u) \bullet Characters(v)
  <2>1. \A w \in Views : /\ Characters(w) = [i \in 1..Len(w) |-> w[i].c]
                         /\ Characters(w) \in Seq(Chars) /\ Len(Characters(w)) = Len(w)
                         /\ Len(w) \in Nat
    <3>1. ASSUME NEW w \in Views
          PROVE  /\ Characters(w) = [i \in 1..Len(w) |-> w[i].c]
                 /\ Characters(w) \in Seq(Chars) /\ Len(Characters(w)) = Len(w)
                 /\ Len(w) \in Nat
      <4>1. DOMAIN w = 1..Len(w) /\ Len(w) \in Nat /\ \A i \in 1..Len(w) : w[i] \in Cells
        BY DEF Views
      <4>2. Characters(w) = [i \in 1..Len(w) |-> w[i].c]
        BY <4>1 DEF Characters
      <4>3. \A i \in 1..Len(w) : w[i].c \in Chars
        BY <4>1 DEF Cells
      <4>4. QED  BY <4>1, <4>2, <4>3
    <3>2. QED  BY <3>1
  <2> SUFFICES ASSUME NEW x, NEW y, NEW w, NEW z,
                      x = Characters(u), y = Characters(v), w = u \bullet v, z = Characters(w)
               PROVE  z = x \bullet y
    OBVIOUS
  <2>2. /\ w \in Views /\ Len(w) = Len(u) + Len(v)
        /\ \A i \in 1..Len(u) : w[i] = u[i]
        /\ \A i \in 1..Len(v) : w[i + Len(u)] = v[i]
    BY DEF Views, \bullet
  <2>3. /\ x \in Seq(Chars) /\ Len(x) = Len(u) /\ (\A i \in 1..Len(u) : x[i] = u[i].c)
        /\ y \in Seq(Chars) /\ Len(y) = Len(v) /\ (\A i \in 1..Len(v) : y[i] = v[i].c)
        /\ z \in Seq(Chars) /\ Len(z) = Len(w) /\ (\A i \in 1..Len(w) : z[i] = w[i].c)
        /\ Len(u) \in Nat /\ Len(v) \in Nat
    BY <2>1, <2>2
  <2>4. x \in Texts /\ y \in Texts /\ z \in Texts
    BY <2>3 DEF Texts
  <2>5. /\ Len(z) = Len(x) + Len(y)
        /\ (\A i \in 1..Len(x) : w[i] = u[i]) /\ (\A i \in 1..Len(y) : w[i + Len(x)] = v[i])
        /\ (\A i \in 1..Len(x) : x[i] = u[i].c) /\ (\A i \in 1..Len(y) : y[i] = v[i].c)
        /\ (\A i \in 1..Len(z) : z[i] = w[i].c)
    BY <2>2, <2>3
  <2>6. AreRead(x, y, z, u, v, w)
    BY <2>4, <2>5 DEF AreRead
  <2>7. z = x \o y
    BY <2>6, ReadsOff
  <2>8. QED  BY <2>7 DEF \bullet
<1>3. QED  BY <1>1, <1>2

(* With nothing nested, no romaji and no candidate, the entry is all that  *)
(* is shown.                                                               *)
LEMMA EntryShown ==
  ASSUME NEW e, NEW b, NEW t, NEW n, NEW q, Plain(e, Nothing, b, t, n, q)
  PROVE  Characters(e.view) = n
<1>1. /\ Holds(e, Nothing, b, t, n, Nothing, Nothing, Nothing, q) /\ NoChoice(e)
  BY DEF Plain
<1>2. t = Nothing /\ n \in Texts
  <2>1. Stands(e, Nothing, b, t, n, Nothing, Nothing, Nothing, q)
    BY <1>1 DEF Holds
  <2>2. QED  BY <2>1, Unfolded
<1>3. e.view = ViewOf(Nothing, As(n, "entry"), Nothing, Nothing)
  BY <1>1, <1>2 DEF Holds, Middle
<1>4. /\ As(n, "entry") \in Views /\ As(Nothing, "text") = Nothing
      /\ As(Nothing, "okuri") = Nothing /\ As(Nothing, "roman") = Nothing
  BY <1>2, AsFacts DEF Marks
<1>5. e.view = As(n, "entry")
  BY <1>3, <1>4, ViewUnit DEF ViewOf
<1>6. QED  BY <1>2, <1>5, CharactersOf DEF Marks

(* An entry or a candidate is committed as it is shown.                    *)
Honest(e, f) ==
  \/ QuietTwice(e, f)
  \/ f.sent = Append(e.sent, Committed(Characters(e.view)))
  \/ \E v : f.sent = Append(Append(e.sent, Preedit(v)), Committed(Characters(v)))
  \/ \E x : f.sent = Append(Append(e.sent, Committed(Characters(e.view))), x)

(* A key that commits nothing is. *)
LEMMA HonestIf ==
  /\ \A e, f : Quiet(e, f) => Honest(e, f)
  /\ \A e, f, g : Quiet(e, g) /\ Quiet(g, f) => Honest(e, f)
  /\ \A e, f : QuietTwice(e, f) => Honest(e, f)
BY TwiceFacts DEF Honest

(* Space asks the dictionary, in any mode, with no romaji pending. *)
LEMMA ChooseMap ==
  ASSUME NEW e, NEW low, NEW b, NEW t, NEW n, NEW q, Plain(e, low, b, t, n, q),
         NEW found \in Findings
  PROVE  LET f == Choose(e, found) IN Good(f) /\ Quiet(e, f) /\ f.learned = e.learned
<1> DEFINE f == Choose(e, found)
<1>1. /\ Holds(e, low, b, t, n, Nothing, Nothing, Nothing, q)
      /\ e.map = Nothing /\ NoChoice(e)
  BY DEF Plain
<1>2. f.map = Nothing
  <2>1. CASE found = Nothing
    BY <1>1, <2>1, ChooseMisses
  <2>2. CASE found # Nothing
    BY <1>1, <2>2, ChooseFinds
  <2>3. QED  BY <2>1, <2>2
<1>3. Unmapped(Choose(e, found), f)
  <2> HIDE DEF f
  <2>1. Unmapped(f, f)
    BY <1>2, UnmappedIs
  <2>2. QED  BY <2>1 DEF f
<1>4. Good(f) /\ Quiet(e, f) /\ f.learned = e.learned
  <2>1. Nothing # Nothing => n # Nothing
    OBVIOUS
  <2> HIDE DEF f
  <2>2. QED  BY <1>1, <1>3, <2>1, EntryAsked
<1>5. QED  BY <1>4

Suits(x, n) == x \in {"word", "kanji"} \/ (x \in {"latin", "roman"} /\ n = Nothing)

(* A mode that fits may be entered. *)
LEMMA PlainMode ==
  ASSUME NEW e, NEW low, NEW b, NEW t, NEW n, NEW q, Plain(e, low, b, t, n, q), NEW x,
         Suits(x, n)
  PROVE  LET f == [e EXCEPT !.mode = x] IN
         /\ Good(f) /\ Quiet(e, f) /\ f.learned = e.learned
         /\ Plain(f, low, b, t, n, q) /\ f.mode = x /\ f.sent = e.sent
<1> DEFINE f == [e EXCEPT !.mode = x]
<1>1. /\ Holds(e, low, b, t, n, Nothing, Nothing, Nothing, q)
      /\ e.map = Nothing /\ NoChoice(e)
  BY DEF Plain
<1>2. /\ Holds(f, low, b, t, n, Nothing, Nothing, Nothing, q)
      /\ f.mode = x /\ f.map = e.map /\ f.candidates = e.candidates
      /\ f.sent = e.sent /\ f.learned = e.learned
  BY <1>1, ModeSet
<1> HIDE DEF f
<1>3. Plain(f, low, b, t, n, q)
  BY <1>1, <1>2 DEF Plain, NoChoice
<1>4. Good(f)
  BY <1>2, <1>3, PlainIsGood DEF Suits
<1>5. QED  BY <1>2, <1>3, <1>4, SendFacts DEF f

(* A key in the word mode. *)
LEMMA WordKey ==
  ASSUME NEW e, NEW low, NEW b, NEW t, NEW n, NEW q, Plain(e, low, b, t, n, q),
         e.mode = "word", NEW key \in Keys, NEW found \in Findings
  PROVE  LET f == ModeWord(e, key, found) IN
         Good(f) /\ Sends(e, f) /\ f.learned = e.learned /\ (low = Nothing => Honest(e, f))
<1> DEFINE f == ModeWord(e, key, found)
<1>1. f = CASE Return(key) -> EntryCommit(e)
            [] key = "Linefeed" ->
                 [e EXCEPT !.mode = IF Top(e).entry > 0 THEN "kanji" ELSE "roman"]
            [] key = "BackSpace" -> EntryPop(e)
            [] key = " " -> IF Top(e).entry > 0 THEN Choose(e, found) ELSE e
            [] key \in Printable \ {" "} -> EntryPush(e, "1")
            [] OTHER -> e
  BY DEF ModeWord
<1> HIDE DEF f
<1>2. /\ key \in Printable => ~Return(key) /\ key # "Linefeed" /\ key # "BackSpace"
      /\ Return(key) => key # "Linefeed" /\ key # "BackSpace"
      /\ "1" \in Chars /\ " " \in Printable
  BY KeysAre DEF Printable
<1>3. Top(e).entry = Size(n) /\ Size(n) \in Nat /\ (Size(n) = 0 <=> n = Nothing)
  <2>1. Stands(e, low, b, t, n, Nothing, Nothing, Nothing, q)
    BY DEF Plain, Holds
  <2>2. Top(e).entry = Size(n) /\ n \in Texts
    BY <2>1, Reads
  <2>3. QED  BY <2>2, TextSize
<1>4. Good(e)
  BY PlainIsGood
<1>5. CASE Return(key)
  <2>1. f = EntryCommit(e)
    BY <1>1, <1>2, <1>5
  <2>2. /\ Good(f) /\ Sends(e, f) /\ f.learned = e.learned
        /\ low = Nothing => f.sent = Append(e.sent, Committed(n))
    BY <2>1, EntryDone
  <2>3. low = Nothing => Characters(e.view) = n
    BY EntryShown
  <2>4. low = Nothing => Honest(e, f)
    BY <2>2, <2>3 DEF Honest
  <2>5. QED  BY <2>2, <2>4 DEF f
<1>6. ASSUME Good(f) /\ Quiet(e, f) /\ f.learned = e.learned
      PROVE  Good(f) /\ Sends(e, f) /\ f.learned = e.learned /\ Honest(e, f)
  BY <1>6, HonestIf, TwiceFacts
<1>7. CASE key = "Linefeed"
  <2>1. f = [e EXCEPT !.mode = IF Top(e).entry > 0 THEN "kanji" ELSE "roman"]
    BY <1>1, <1>2, <1>7
  <2> DEFINE x == IF Top(e).entry > 0 THEN "kanji" ELSE "roman"
  <2>2. Suits(x, n)
    BY <1>3 DEF Suits
  <2>3. f = [e EXCEPT !.mode = x]
    BY <2>1
  <2> HIDE DEF x
  <2>4. Good(f) /\ Quiet(e, f) /\ f.learned = e.learned
    BY <2>2, <2>3, PlainMode
  <2>5. QED  BY <1>6, <2>4 DEF f
<1>8. CASE key = "BackSpace"
  <2>1. f = EntryPop(e)
    BY <1>1, <1>2, <1>8
  <2>2. Good(f) /\ Quiet(e, f) /\ f.learned = e.learned
    BY <2>1, EntryDeleted
  <2>3. QED  BY <1>6, <2>2 DEF f
<1>9. CASE key = " "
  <2>1. f = Choose(e, found) \/ f = e
    BY <1>1, <1>2, <1>9
  <2>2. Good(f) /\ Quiet(e, f) /\ f.learned = e.learned
    BY <1>4, <2>1, ChooseMap, SendFacts
  <2>3. QED  BY <1>6, <2>2 DEF f
<1>10. CASE key \in Printable \ {" "}
  <2>1. f = EntryPush(e, "1")
    BY <1>1, <1>2, <1>10
  <2>2. Good(f) /\ Quiet(e, f) /\ f.learned = e.learned
    BY <1>2, <2>1, EntryTyped
  <2>3. QED  BY <1>6, <2>2 DEF f
<1>11. CASE ~Return(key) /\ key # "Linefeed" /\ key # "BackSpace" /\ ~(key \in Printable)
  <2>1. f = e
    BY <1>1, <1>2, <1>11
  <2>2. Good(f) /\ Quiet(e, f) /\ f.learned = e.learned
    BY <1>4, <2>1, SendFacts
  <2>3. QED  BY <1>6, <2>2 DEF f
<1>12. QED  BY <1>2, <1>5, <1>7, <1>8, <1>9, <1>10, <1>11

(* A key in the roman mode. *)
LEMMA RomanKey ==
  ASSUME NEW e, NEW low, NEW b, NEW t, NEW n, NEW l, NEW k, NEW m, NEW q,
         Fine(e, low, b, t, n, l, k, m, q), e.mode = "roman",
         NEW key \in Keys, NEW found \in Findings
  PROVE  LET f == ModeRoman(e, key, found) IN
         /\ Good(f) /\ Taught(e, f, low) /\ SendsTwice(e, f)
         /\ m = Nothing => Sends(e, f)
         /\ key \in Printable => f.learned = e.learned
<1> DEFINE f == ModeRoman(e, key, found)
           lower == Lower(key)
           r  == ResetPending(e)
           e1 == IF Finds(e.map, lower) THEN e ELSE r
           e2 == IF e1.map = <<>> /\ lower # key THEN [e1 EXCEPT !.mode = "kanji"] ELSE e1
<1>1. f = CASE Return(key) -> TextCommit(r)
            [] key = "BackSpace" -> IF e.map # <<>> THEN RomanReset(e) ELSE TextPop(e)
            [] key = "Linefeed" -> r
            [] key \in Printable /\ Finds(e1.map, lower) -> ActionPressed(e2, lower, found)
            [] key \in Printable /\ ~Finds(e1.map, lower) ->
                 CASE key = "/" -> [e1 EXCEPT !.mode = "word"]
                   [] key = "l" -> [e1 EXCEPT !.mode = "latin"]
                   [] key = "q" -> e1
                   [] OTHER -> TextPush(e1, "1")
            [] OTHER -> IF r.buffer = <<>> THEN Forward(r) ELSE r
  BY DEF ModeRoman
<1> HIDE DEF f
<1>2. /\ key \in Printable => ~Return(key) /\ key # "Linefeed" /\ key # "BackSpace"
      /\ Return(key) => key # "Linefeed" /\ key # "BackSpace"
      /\ "1" \in Chars /\ (key \in Printable => lower \in Printable)
  BY KeysAre
<1>3. /\ Holds(e, low, b, t, n, l, k, m, q) /\ e.map = m /\ m \in Unfinished
      /\ n = Nothing /\ l = Nothing /\ NoChoice(e)
  BY DEF Fine, Fits
<1>4. /\ Plain(r, low, b, t, Nothing, q) /\ r.mode = "roman" /\ r.learned = e.learned
      /\ Sends(e, r) /\ Quiet(e, r) /\ (m = Nothing => r = e)
  BY <1>3, ResetsPending
<1>5. Good(r)
  BY <1>4, PlainIsGood
<1> HIDE DEF lower, r, e1, e2
<1>6. ASSUME NEW g, Good(g), Sends(r, g), g.learned = r.learned
      PROVE  /\ Good(g) /\ Taught(e, g, low) /\ SendsTwice(e, g)
             /\ m = Nothing => Sends(e, g)
             /\ g.learned = e.learned
  <2>1. SendsTwice(e, g) /\ (m = Nothing => Sends(e, g))
    BY <1>4, <1>6, TwiceFacts
  <2>2. QED  BY <1>4, <1>6, <2>1 DEF Taught
<1>7. CASE Return(key)
  <2>1. f = TextCommit(r)
    BY <1>1, <1>2, <1>7
  <2>2. Good(f) /\ Sends(r, f) /\ Taught(r, f, low)
    BY <1>4, <2>1, TextDone
  <2>3. Taught(e, f, low)
    BY <1>4, <2>2 DEF Taught
  <2>4. SendsTwice(e, f) /\ (m = Nothing => Sends(e, f))
    BY <1>4, <2>2, TwiceFacts
  <2>5. QED  BY <1>2, <1>7, <2>2, <2>3, <2>4 DEF f
<1>8. CASE key = "BackSpace"
  <2>1. CASE m # Nothing
    <3>1. f = r
      BY <1>1, <1>2, <1>3, <1>8, <2>1 DEF r, ResetPending, Nothing
    <3>2. Sends(r, f)
      BY <3>1, SendFacts
    <3>3. QED  BY <1>5, <1>6, <3>1, <3>2 DEF f
  <2>2. CASE m = Nothing
    <3>1. f = TextPop(r)
      BY <1>1, <1>2, <1>3, <1>4, <1>8, <2>2 DEF Nothing
    <3>2. Good(f) /\ Sends(r, f) /\ f.learned = r.learned
      BY <1>4, <3>1, TextDeleted
    <3>3. QED  BY <1>6, <3>2 DEF f
  <2>3. QED  BY <2>1, <2>2
<1>9. CASE key = "Linefeed"
  <2>1. f = r
    BY <1>1, <1>2, <1>9
  <2>2. Sends(r, f)
    BY <2>1, SendFacts
  <2>3. QED  BY <1>5, <1>6, <2>1, <2>2 DEF f
<1>10. CASE key \in Printable /\ Finds(e1.map, lower)
  <2>1. f = ActionPressed(e2, lower, found)
    BY <1>1, <1>2, <1>10
  <2>2. ASSUME NEW m1, NEW g, Holds(g, low, b, t, Nothing, Nothing, Nothing, m1, q), NoChoice(g),
               g.map = m1, m1 \in Unfinished, g.mode \in {"roman", "kanji"}, Finds(m1, lower),
               f = ActionPressed(g, lower, found)
        PROVE  /\ Good(f) /\ f.learned = g.learned /\ SendsTwice(g, f)
               /\ m1 = Nothing => Sends(g, f)
    <3>1. lower \in Printable
      BY <1>2, <1>10
    <3>2. Ready(g, low, b, t, Nothing, Nothing, Nothing, m1, q)
      BY <2>2 DEF Ready
    <3>3. QED  BY <2>2, <3>1, <3>2, KeyFollowed
  <2>3. CASE Finds(e.map, lower) /\ m # Nothing
    <3>1. e1 = e /\ e2 = e
      BY <1>3, <2>3 DEF e1, e2, Nothing
    <3>2. Holds(e, low, b, t, Nothing, Nothing, Nothing, m, q)
      <4>1. k = Nothing
        <5>1. Stands(e, low, b, t, n, l, k, m, q)
          BY <1>3 DEF Holds
        <5>2. QED  BY <1>3, <5>1, Unfolded
      <4>2. QED  BY <1>3, <4>1
    <3>3. Good(f) /\ f.learned = e.learned /\ SendsTwice(e, f)
      BY <1>3, <2>1, <2>2, <2>3, <3>1, <3>2
    <3>4. QED  BY <2>3, <3>3 DEF f, Taught
  <2>4. CASE ~(Finds(e.map, lower) /\ m # Nothing)
    <3>1. e1 = r
      BY <1>4, <2>4 DEF e1
    <3>2. r.map = Nothing /\ Holds(r, low, b, t, Nothing, Nothing, Nothing, Nothing, q) /\ NoChoice(r)
      BY <1>4 DEF Plain
    <3>3. Finds(Nothing, lower)
      BY <1>10, <3>1, <3>2
    <3>4. /\ Holds(e2, low, b, t, Nothing, Nothing, Nothing, Nothing, q) /\ NoChoice(e2)
          /\ e2.map = Nothing /\ e2.mode \in {"roman", "kanji"}
          /\ e2.sent = r.sent /\ e2.learned = r.learned
      <4>1. CASE e2 = r
        BY <1>4, <3>2, <4>1
      <4>2. CASE e2 # r
        <5>1. e2 = [r EXCEPT !.mode = "kanji"]
          BY <3>1, <4>2 DEF e2
        <5>2. Suits("kanji", Nothing)
          BY DEF Suits
        <5>3. /\ Plain(e2, low, b, t, Nothing, q) /\ e2.mode = "kanji"
              /\ e2.sent = r.sent /\ e2.learned = r.learned
          BY <1>4, <5>1, <5>2, PlainMode
        <5>4. QED  BY <5>3 DEF Plain
      <4>3. QED  BY <4>1, <4>2
    <3>5. Good(f) /\ f.learned = e2.learned /\ Sends(e2, f)
      BY <2>1, <2>2, <3>3, <3>4, NothingPending
    <3>6. Sends(r, f) /\ f.learned = r.learned
      BY <3>4, <3>5 DEF Sends
    <3>7. QED  BY <1>6, <3>5, <3>6 DEF f
  <2>5. QED  BY <2>3, <2>4
<1>11. CASE key \in Printable /\ ~Finds(e1.map, lower)
  <2>1. e1 = r
    BY <1>11 DEF e1
  <2>2. f = CASE key = "/" -> [r EXCEPT !.mode = "word"]
              [] key = "l" -> [r EXCEPT !.mode = "latin"]
              [] key = "q" -> r
              [] OTHER -> TextPush(r, "1")
    BY <1>1, <1>2, <1>11, <2>1
  <2>3. \/ f = [r EXCEPT !.mode = "word"] \/ f = [r EXCEPT !.mode = "latin"]
        \/ f = r \/ f = TextPush(r, "1")
    BY <2>2
  <2>4. ASSUME NEW x, x \in {"word", "latin"}, f = [r EXCEPT !.mode = x]
        PROVE  Good(f) /\ Sends(r, f) /\ f.learned = r.learned
    <3>1. Suits(x, Nothing)
      BY <2>4 DEF Suits
    <3>2. Good(f) /\ Quiet(r, f) /\ f.learned = r.learned
      BY <1>4, <2>4, <3>1, PlainMode
    <3>3. QED  BY <3>2, TwiceFacts
  <2>5. ASSUME f = TextPush(r, "1")
        PROVE  Good(f) /\ Sends(r, f) /\ f.learned = r.learned
    BY <1>2, <1>4, <2>5, TextTyped
  <2>6. ASSUME f = r
        PROVE  Good(f) /\ Sends(r, f) /\ f.learned = r.learned
    BY <1>5, <2>6, SendFacts
  <2>7. Good(f) /\ Sends(r, f) /\ f.learned = r.learned
    BY <2>3, <2>4, <2>5, <2>6
  <2>8. QED  BY <1>6, <2>7 DEF f
<1>12. CASE ~Return(key) /\ key # "Linefeed" /\ key # "BackSpace" /\ ~(key \in Printable)
  <2>1. f = Forward(r) \/ f = r
    BY <1>1, <1>12
  <2>2. Good(f) /\ Sends(r, f) /\ f.learned = r.learned
    BY <1>5, <2>1, ForwardGood, SendFacts, TwiceFacts
  <2>3. QED  BY <1>6, <2>2 DEF f
<1>13. QED  BY <1>7, <1>8, <1>9, <1>10, <1>11, <1>12

(* A capital letter starts the inflection.                                 *)
OkuriStarted(e, c) ==
  SetTop([e EXCEPT !.buffer = Append(@, c)], [Top(e) EXCEPT !.okuri = 1])

(* It is in the buffer, but not shown. *)
LEMMA OkuriStarts ==
  ASSUME NEW e, NEW low, NEW b, NEW t, NEW n, NEW q, Plain(e, low, b, t, n, q), NEW c \in Chars
  PROVE  LET f == OkuriStarted(e, c) IN
         /\ Holds(f, low, b, t, n, <<c>>, Nothing, Nothing, q) /\ NoChoice(f)
         /\ f.map = Nothing /\ f.mode = e.mode /\ f.sent = e.sent /\ f.learned = e.learned
<1> DEFINE e1 == [e EXCEPT !.buffer = Append(@, c)]
           z  == [Top(e) EXCEPT !.okuri = 1]
           f  == [e1 EXCEPT !.states = Push(low, z)]
<1>1. /\ Stands(e, low, b, t, n, Nothing, Nothing, Nothing, q) /\ e.map = Nothing /\ NoChoice(e)
      /\ e.view = ViewOf(t, Middle(e, n), Nothing, Nothing)
  BY DEF Plain, Holds
<1>2. /\ IsEngine(e) /\ q \in Queries
      /\ IsStack(low, b) /\ (low = Nothing => t = Nothing) /\ low \in Stacks
      /\ e.buffer = Whole(b, t, n, Nothing, Nothing, Nothing)
      /\ ChoicesOK(e) /\ b \in Texts /\ t \in Texts /\ n \in Texts /\ Nothing \in Texts
      /\ Size(Nothing) = 0
  BY <1>1, Unfolded
<1>3. <<c>> \in Texts /\ Size(<<c>>) = 1 /\ <<c>> # Nothing /\ <<c>> \bullet Nothing = <<c>>
  BY <1>2, TextEnds, TextUnit
<1>4. z = StateOf(b, t, n, <<c>> \bullet Nothing, q) /\ z \in States
  <2>1. Top(e) = StateOf(b, t, n, Nothing \bullet Nothing, q)
    BY <1>1, Reads
  <2>2. z = StateOf(b, t, n, <<c>>, q)
    BY <1>3, <2>1 DEF StateOf
  <2>3. StateOf(b, t, n, <<c>>, q) \in States
    BY <1>2, <1>3, StateIs
  <2>4. QED  BY <1>3, <2>2, <2>3
<1>5. Append(e.buffer, c) = Whole(b, t, n, <<c>>, Nothing, Nothing)
  <2>1. e.buffer = b \bullet (t \bullet n)
    BY <1>2, TextUnit DEF Whole
  <2>2. e.buffer \in Texts /\ t \bullet n \in Texts
    BY <1>2, <2>1, TextJoin
  <2>3. Append(e.buffer, c) = (b \bullet (t \bullet n)) \bullet <<c>>
    BY <2>1, <2>2, TextEnds
  <2>4. (b \bullet (t \bullet n)) \bullet <<c>> = b \bullet (t \bullet (n \bullet <<c>>))
    BY <1>2, <1>3, <2>2, TextJoin
  <2>5. Whole(b, t, n, <<c>>, Nothing, Nothing) = b \bullet (t \bullet (n \bullet <<c>>))
    BY <1>2, <1>3, TextUnit DEF Whole
  <2>6. QED  BY <2>3, <2>4, <2>5
<1>6. /\ IsEngine(e1) /\ e1.states = e.states /\ e1.buffer = Append(e.buffer, c)
      /\ e1.view = e.view /\ e1.mode = e.mode /\ e1.map = e.map /\ e1.sent = e.sent
      /\ e1.learned = e.learned /\ e1.candidates = e.candidates /\ e1.chosen = e.chosen
  BY <1>2 DEF IsEngine, Fields
<1> HIDE DEF e1, z
<1>7. SetTop(e1, z) = f
  <2>1. \A g, s : IsEngine(g) /\ g.states = e.states /\ s \in States =>
                  SetTop(g, s) = [g EXCEPT !.states = Push(low, s)]
    BY <1>1, Reads
  <2>2. QED  BY <1>4, <1>6, <2>1
<1>8. /\ IsEngine(f) /\ f.states = Push(low, z) /\ f.buffer = Append(e.buffer, c)
      /\ f.view = e.view /\ f.mode = e.mode /\ f.map = e.map /\ f.sent = e.sent
      /\ f.learned = e.learned /\ f.candidates = e.candidates /\ f.chosen = e.chosen
  BY <1>6 DEF IsEngine, Fields
<1> HIDE DEF f
<1>9. AreParts(b, t, n, <<c>>, Nothing, Nothing)
  BY <1>2, <1>3 DEF AreParts
<1>10. ChoicesOK(f)
  BY <1>2, <1>8 DEF ChoicesOK, NoChoice
<1>11. Stands(f, low, b, t, n, <<c>>, Nothing, Nothing, q)
  BY <1>2, <1>4, <1>5, <1>8, <1>9, <1>10 DEF Stands
<1>12. f.view = ViewOf(t, Middle(f, n), Nothing, Nothing)
  BY <1>1, <1>8 DEF Middle, NoChoice
<1>13. /\ Holds(f, low, b, t, n, <<c>>, Nothing, Nothing, q) /\ NoChoice(f)
       /\ f.map = Nothing /\ f.mode = e.mode /\ f.sent = e.sent /\ f.learned = e.learned
  BY <1>1, <1>8, <1>11, <1>12 DEF Holds, NoChoice
<1>14. OkuriStarted(e, c) = f
  BY <1>7 DEF OkuriStarted, e1, z
<1>15. QED  BY <1>13, <1>14

(* A key the table begins with is no capital letter. *)
LEMMA LowerFound ==
  \A key \in Printable : Finds(Nothing, key) => Lower(key) = key
<1> SUFFICES ASSUME NEW key \in Printable, Lower(key) # key
             PROVE  ~Finds(Nothing, key)
  OBVIOUS
<1>1. key \in {"A", "K"}
  BY DEF Lower
<1>2. Append(Nothing, key) = <<key>>
  BY DEF Nothing
<1>3. ~(<<key>> \in Unfinished)
  <2>1. \A p \in Unfinished : Len(p) = 0 \/ p[1] \in {"k", "x", "y"}
    BY DEF Unfinished
  <2>2. Len(<<key>>) = 1 /\ <<key>>[1] = key
    OBVIOUS
  <2>3. QED  BY <1>1, <2>1, <2>2
<1>4. ~Complete(<<key>>)
  <2> DEFINE p == <<key>>
  <2>1. Len(p) = 1 /\ p[1] = key
    OBVIOUS
  <2> HIDE DEF p
  <2>2. ~(p \in {<<"a">>, <<"k", "a">>, <<"x", "a">>, <<"x", "/">>, <<"y", "a">>})
    BY <1>1, <2>1
  <2>3. ~(p \in {<<"k", "y", "a">>, <<"x", "k", "a">>, <<"x", "y", "a">>})
    BY <1>1, <2>1
  <2>4. ~Complete(p)
    BY <2>2, <2>3 DEF Complete
  <2>5. QED  BY <2>4 DEF p
<1>5. QED  BY <1>2, <1>3, <1>4 DEF Finds, Nothing

(* A key in the kanji mode. *)
LEMMA KanjiKey ==
  ASSUME NEW e, NEW low, NEW b, NEW t, NEW n, NEW l, NEW k, NEW m, NEW q,
         Fine(e, low, b, t, n, l, k, m, q), e.mode = "kanji",
         NEW key \in Keys, NEW found \in Findings
  PROVE  LET f == ModeKanji(e, key, found) IN
         /\ Good(f) /\ SendsTwice(e, f) /\ f.learned = e.learned
         /\ low = Nothing => Honest(e, f)
<1> DEFINE f == ModeKanji(e, key, found)
           lower == Lower(key)
           r  == ResetPending(e)
           e1 == IF Finds(e.map, lower) THEN e ELSE r
           found1 == IF Finds(e.map, lower) \/ e.map = <<>> THEN Finds(e1.map, lower)
                     ELSE Finds(e1.map, key)
           e2 == IF e1.map = <<>> /\ lower # key /\ Top(e1).entry > 0
                 THEN SetTop([e1 EXCEPT !.buffer = Append(@, lower)],
                             [Top(e1) EXCEPT !.okuri = 1])
                 ELSE e1
<1>1. f = CASE Return(key) -> EntryCommit(r)
            [] key = "BackSpace" /\ e.map # <<>> ->
                 [RomanReset(e) EXCEPT
                    !.mode = IF RomanReset(e).buffer = <<>> THEN "roman" ELSE @]
            [] key = "BackSpace" /\ e.map = <<>> -> EntryPop(e)
            [] key \in Printable /\ found1 -> ActionPressed(e2, lower, found)
            [] key \in Printable /\ ~found1 ->
                 CASE key = " " -> Choose(e1, found)
                   [] key \in {"/", "l"} -> [e1 EXCEPT !.mode = "word"]
                   [] key = "q" -> e1
                   [] OTHER -> EntryPush(e1, "1")
            [] OTHER -> r
  BY DEF ModeKanji
<1> HIDE DEF f
<1>2. /\ key \in Printable => ~Return(key) /\ key # "Linefeed" /\ key # "BackSpace"
      /\ Return(key) => key # "Linefeed" /\ key # "BackSpace"
      /\ "1" \in Chars /\ (key \in Printable => lower \in Printable /\ lower \in Chars)
  BY KeysAre
<1>3. /\ Holds(e, low, b, t, n, l, k, m, q) /\ e.map = m /\ m \in Unfinished
      /\ (l # Nothing => n # Nothing) /\ NoChoice(e)
      /\ (m = Nothing => l = Nothing)
  BY DEF Fine, Fits
<1>4. /\ Plain(r, low, b, t, n, q) /\ r.mode = "kanji" /\ r.learned = e.learned
      /\ Sends(e, r) /\ Quiet(e, r) /\ (m = Nothing => r = e)
      /\ (m # Nothing => r.sent = Append(e.sent, Preedit(r.view)))
  BY <1>3, ResetsPending
<1>5. Good(r)
  BY <1>4, PlainIsGood
<1>6. e2 = IF e1.map = <<>> /\ lower # key /\ Top(e1).entry > 0 THEN OkuriStarted(e1, lower) ELSE e1
  BY DEF OkuriStarted
<1> HIDE DEF lower, r, e1, e2, found1
<1>7. ASSUME NEW g, Good(g), Quiet(r, g), g.learned = r.learned
      PROVE  Good(g) /\ SendsTwice(e, g) /\ g.learned = e.learned /\ Honest(e, g)
  BY <1>4, <1>7, TwiceFacts, HonestIf
<1>8. ASSUME NEW g, Good(g), SendsTwice(e, g), QuietTwice(e, g), g.learned = e.learned
      PROVE  Good(g) /\ SendsTwice(e, g) /\ g.learned = e.learned /\ Honest(e, g)
  BY <1>8, HonestIf
<1>9. CASE Return(key)
  <2>1. f = EntryCommit(r)
    BY <1>1, <1>2, <1>9
  <2>2. /\ Good(f) /\ Sends(r, f) /\ f.learned = r.learned
        /\ low = Nothing => f.sent = Append(r.sent, Committed(n))
    BY <1>4, <2>1, EntryDone
  <2>3. SendsTwice(e, f)
    BY <1>4, <2>2, TwiceFacts
  <2>4. low = Nothing => Honest(e, f)
    <3> SUFFICES ASSUME low = Nothing
                 PROVE  Honest(e, f)
      OBVIOUS
    <3>1. Characters(r.view) = n
      BY <1>4, EntryShown
    <3>2. f.sent = Append(r.sent, Committed(Characters(r.view)))
      BY <2>2, <3>1
    <3>3. CASE m = Nothing
      BY <1>4, <3>2, <3>3 DEF Honest
    <3>4. CASE m # Nothing
      <4>1. f.sent = Append(Append(e.sent, Preedit(r.view)), Committed(Characters(r.view)))
        BY <1>4, <3>2, <3>4
      <4>2. \E v : f.sent = Append(Append(e.sent, Preedit(v)), Committed(Characters(v)))
        BY <4>1, Zenon
      <4>3. QED  BY <4>2 DEF Honest
    <3>5. QED  BY <3>3, <3>4
  <2>5. QED  BY <1>4, <2>2, <2>3, <2>4 DEF f
<1>10. CASE key = "BackSpace" /\ m # Nothing
  <2>1. r = RomanReset(e)
    BY <1>3, <1>10 DEF r, ResetPending, Nothing
  <2> DEFINE x == IF r.buffer = <<>> THEN "roman" ELSE r.mode
  <2>2. f = [r EXCEPT !.mode = x]
    BY <1>1, <1>2, <1>3, <1>10, <2>1 DEF Nothing
  <2>3. Suits(x, n)
    <3>1. CASE r.buffer = <<>>
      <4>1. Stands(r, low, b, t, n, Nothing, Nothing, Nothing, q)
        BY <1>4 DEF Plain, Holds
      <4>2. /\ Size(r.buffer) = Size(b) + Size(t) + Size(n) + Size(Nothing) + Size(Nothing) + Size(Nothing)
            /\ Size(b) \in Nat /\ Size(t) \in Nat /\ Size(n) \in Nat /\ n \in Texts
        BY <4>1, Reads
      <4>3. Size(r.buffer) = 0 /\ Size(Nothing) = 0 /\ (Size(n) = 0 <=> n = Nothing)
        BY <3>1, <4>2, TextSize DEF Nothing
      <4>4. Size(n) = 0
        <5> DEFINE x1 == Size(b)
                   x2 == Size(t)
                   x3 == Size(n)
        <5>1. x1 \in Nat /\ x2 \in Nat /\ x3 \in Nat /\ 0 = x1 + x2 + x3 + 0 + 0 + 0
          BY <4>2, <4>3
        <5> HIDE DEF x1, x2, x3
        <5>2. x3 = 0
          BY <5>1
        <5>3. QED  BY <5>2 DEF x3
      <4>5. QED  BY <3>1, <4>3, <4>4 DEF Suits
    <3>2. CASE r.buffer # <<>>
      BY <1>4, <3>2 DEF Suits
    <3>3. QED  BY <3>1, <3>2
  <2> HIDE DEF x
  <2>4. Good(f) /\ Quiet(r, f) /\ f.learned = r.learned
    <3> SUFFICES ASSUME NEW y, Suits(y, n),
                        f = [r EXCEPT !.mode = y]
                 PROVE  Good(f) /\ Quiet(r, f) /\ f.learned = r.learned
      BY <2>2, <2>3
    <3>1. LET g == [r EXCEPT !.mode = y] IN Good(g) /\ Quiet(r, g) /\ g.learned = r.learned
      BY <1>4, PlainMode
    <3>2. QED  BY <3>1
  <2>5. QED  BY <1>7, <2>4 DEF f
<1>11. CASE key = "BackSpace" /\ m = Nothing
  <2>1. f = EntryPop(r)
    BY <1>1, <1>2, <1>3, <1>4, <1>11 DEF Nothing
  <2>2. Good(f) /\ Quiet(r, f) /\ f.learned = r.learned
    BY <1>4, <2>1, EntryDeleted
  <2>3. QED  BY <1>7, <2>2 DEF f
<1>12. CASE key \in Printable /\ found1
  <2>1. f = ActionPressed(e2, lower, found)
    BY <1>1, <1>2, <1>12
  <2>2. ASSUME NEW l1, NEW k1, NEW m1, NEW g, Holds(g, low, b, t, n, l1, k1, m1, q), NoChoice(g),
               g.map = m1, m1 \in Unfinished, g.mode = "kanji", Finds(m1, lower),
               l1 # Nothing => n # Nothing, f = ActionPressed(g, lower, found)
        PROVE  /\ Good(f) /\ f.learned = g.learned /\ SendsTwice(g, f) /\ QuietTwice(g, f)
               /\ m1 = Nothing /\ l1 = Nothing => Quiet(g, f)
    <3>1. lower \in Printable /\ ~(g.mode = "roman") /\ g.mode \in {"roman", "kanji"}
      BY <1>2, <1>12, <2>2
    <3>2. Ready(g, low, b, t, n, l1, k1, m1, q) /\ Finds(m1, lower)
      BY <2>2, <3>1 DEF Ready
    <3> DEFINE h == ActionPressed(g, lower, found)
    <3>3. /\ Good(h) /\ h.learned = g.learned
          /\ SendsTwice(g, h) /\ (g.mode = "kanji" => QuietTwice(g, h))
          /\ m1 = Nothing /\ l1 = Nothing => Sends(g, h) /\ (g.mode = "kanji" => Quiet(g, h))
      BY <3>1, <3>2, KeyFollowed
    <3> HIDE DEF h
    <3>4. f = h /\ g.mode = "kanji"
      BY <2>2 DEF h
    <3>5. QED  BY <3>3, <3>4
  <2>3. CASE Finds(e.map, lower)
    <3>1. e1 = e
      BY <2>3 DEF e1
    <3>2. CASE e2 = e
      <4>1. Good(f) /\ f.learned = e.learned /\ SendsTwice(e, f) /\ QuietTwice(e, f)
        BY <1>3, <2>1, <2>2, <2>3, <3>2
      <4>2. QED  BY <1>8, <4>1 DEF f
    <3>3. CASE e2 # e
      <4>1. e2 = OkuriStarted(e, lower) /\ m = Nothing /\ Top(e).entry > 0
        BY <1>3, <1>6, <3>1, <3>3 DEF Nothing
      <4>2. r = e /\ Plain(e, low, b, t, n, q)
        BY <1>4, <4>1
      <4>3. n # Nothing
        <5>1. Stands(e, low, b, t, n, l, k, m, q)
          BY <1>3 DEF Holds
        <5>2. Top(e).entry = Size(n) /\ n \in Texts
          BY <5>1, Reads
        <5>3. Size(Nothing) = 0
          BY TextSize
        <5>4. QED  BY <4>1, <5>2, <5>3
      <4>4. /\ Holds(e2, low, b, t, n, <<lower>>, Nothing, Nothing, q) /\ NoChoice(e2)
            /\ e2.map = Nothing /\ e2.mode = e.mode /\ e2.sent = e.sent /\ e2.learned = e.learned
        BY <1>2, <1>12, <4>1, <4>2, OkuriStarts
      <4>5. Finds(Nothing, lower)
        BY <1>3, <2>3, <4>1
      <4>6. Good(f) /\ f.learned = e2.learned /\ SendsTwice(e2, f) /\ QuietTwice(e2, f)
        BY <2>1, <2>2, <4>3, <4>4, <4>5, NothingPending
      <4>7. SendsTwice(e, f) /\ QuietTwice(e, f)
        BY <4>4, <4>6 DEF SendsTwice, QuietTwice, Sends, Quiet
      <4>8. QED  BY <1>8, <4>4, <4>6, <4>7 DEF f
    <3>4. QED  BY <3>2, <3>3
  <2>4. CASE ~Finds(e.map, lower)
    <3>1. e1 = r
      BY <2>4 DEF e1
    <3>2. /\ Holds(r, low, b, t, n, Nothing, Nothing, Nothing, q) /\ NoChoice(r) /\ r.map = Nothing
      BY <1>4 DEF Plain
    <3>3. m # Nothing
      <4> SUFFICES ASSUME m = Nothing
                   PROVE  FALSE
        OBVIOUS
      <4>1. r = e
        BY <1>4
      <4>2. QED  BY <1>3, <1>12, <2>4, <3>1, <4>1 DEF found1, Nothing
    <3>4. Finds(Nothing, key)
      BY <1>3, <1>12, <2>4, <3>1, <3>2, <3>3 DEF found1, Nothing
    <3>5. lower = key
      BY <1>12, <3>4, LowerFound DEF lower
    <3>6. e2 = r
      BY <1>6, <3>1, <3>5
    <3>7. Good(f) /\ f.learned = r.learned /\ Quiet(r, f)
      <4>1. /\ f = ActionPressed(r, lower, found) /\ Finds(Nothing, lower) /\ r.mode = "kanji"
            /\ ~(Nothing # Nothing)
        BY <1>4, <2>1, <3>4, <3>5, <3>6
      <4>2. QED  BY <2>2, <3>2, <4>1, NothingPending
    <3>8. QED  BY <1>7, <3>7 DEF f
  <2>5. QED  BY <2>3, <2>4
<1>13. CASE key \in Printable /\ ~found1
  <2>1. e1 = r
    BY <1>13 DEF e1, found1
  <2>2. f = CASE key = " " -> Choose(r, found)
              [] key \in {"/", "l"} -> [r EXCEPT !.mode = "word"]
              [] key = "q" -> r
              [] OTHER -> EntryPush(r, "1")
    BY <1>1, <1>2, <1>13, <2>1
  <2>3. \/ f = Choose(r, found) \/ f = [r EXCEPT !.mode = "word"]
        \/ f = r \/ f = EntryPush(r, "1")
    BY <2>2
  <2>4. ASSUME f = Choose(r, found)
        PROVE  Good(f) /\ Quiet(r, f) /\ f.learned = r.learned
    BY <1>4, <2>4, ChooseMap
  <2>5. ASSUME f = [r EXCEPT !.mode = "word"]
        PROVE  Good(f) /\ Quiet(r, f) /\ f.learned = r.learned
    <3>1. Suits("word", n)
      BY DEF Suits
    <3>2. QED  BY <1>4, <2>5, <3>1, PlainMode
  <2>6. ASSUME f = r
        PROVE  Good(f) /\ Quiet(r, f) /\ f.learned = r.learned
    BY <1>5, <2>6, SendFacts
  <2>7. ASSUME f = EntryPush(r, "1")
        PROVE  Good(f) /\ Quiet(r, f) /\ f.learned = r.learned
    BY <1>2, <1>4, <2>7, EntryTyped
  <2>8. Good(f) /\ Quiet(r, f) /\ f.learned = r.learned
    BY <2>3, <2>4, <2>5, <2>6, <2>7
  <2>9. QED  BY <1>7, <2>8 DEF f
<1>14. CASE ~Return(key) /\ key # "BackSpace" /\ ~(key \in Printable)
  <2>1. f = r
    BY <1>1, <1>14
  <2>2. Quiet(r, f)
    BY <2>1, SendFacts
  <2>3. QED  BY <1>5, <1>7, <2>1, <2>2 DEF f
<1>15. QED  BY <1>9, <1>10, <1>11, <1>12, <1>13, <1>14

(* With nothing nested, the candidate and its okuri are all that is shown. *)
LEMMA CandidateShown ==
  ASSUME NEW e, NEW b, NEW t, NEW n, NEW l, NEW k, NEW q,
         Holds(e, Nothing, b, t, n, l, k, Nothing, q), ~NoChoice(e)
  PROVE  Characters(e.view) = Word(e) \bullet k
<1>1. t = Nothing
  <2>1. Stands(e, Nothing, b, t, n, l, k, Nothing, q)
    BY DEF Holds
  <2>2. QED  BY <2>1, Unfolded
<1>2. /\ k \in Texts /\ Word(e) \in Texts
      /\ As(t, "text") \bullet (As(Word(e), "candidate") \bullet As(k, "okuri")) = e.view
      /\ As(Word(e), "candidate") \in Views /\ As(k, "okuri") \in Views
  BY WordShown
<1>3. As(t, "text") = Nothing
  BY <1>1, AsFacts DEF Marks
<1>4. As(Word(e), "candidate") \bullet As(k, "okuri") \in Views
  BY <1>2, ViewJoin
<1>5. e.view = As(Word(e), "candidate") \bullet As(k, "okuri")
  BY <1>2, <1>3, <1>4, ViewUnit
<1>6. Characters(As(Word(e), "candidate")) = Word(e) /\ Characters(As(k, "okuri")) = k
  BY <1>2, CharactersOf DEF Marks
<1>7. QED  BY <1>2, <1>5, <1>6, CharactersOf

(* The candidates before and after one. *)
LEMMA RangeFacts ==
  \A c, z : c \in Nat /\ z \in Nat /\ c < z =>
    /\ c = 0 \/ c > 0
    /\ ~(c = 0 /\ c > 0)
    /\ c + 1 < z \/ c + 1 >= z
    /\ ~(c + 1 < z /\ c + 1 >= z)
    /\ c + 1 \in Nat
    /\ c > 0 => c - 1 \in Nat /\ c - 1 < z
OBVIOUS

(* The candidate is committed, or is the text of what waits below. *)
Takes(e, f, low, q) ==
  /\ \E b1, t1 : Plain(f, low, b1, t1, Nothing, Nothing)
  /\ f.mode = "roman" /\ Learns(e, f, q) /\ Sends(e, f)
  /\ low = Nothing => f.sent = Append(e.sent, Committed(Characters(e.view)))

(* ChooseCommit does either. *)
LEMMA ChooseDone ==
  ASSUME NEW e, NEW low, NEW b, NEW t, NEW n, NEW l, NEW k, NEW q, NEW j,
         Holds(e, low, b, t, n, l, k, Nothing, q), ~NoChoice(e), e.map = Nothing,
         WordSize(e, j)
  PROVE  Takes(e, ChooseCommit(e, j), low, <<n, l \bullet k>>)
<1> DEFINE f == ChooseCommit(e, j)
<1>1. CASE low = Nothing
  <2>1. Holds(e, Nothing, b, t, n, l, k, Nothing, q)
    BY <1>1
  <2>2. /\ Holds(f, Nothing, Nothing, Nothing, Nothing, Nothing, Nothing, Nothing, Nothing)
        /\ f.mode = "roman" /\ f.map = e.map /\ NoChoice(f)
        /\ f.sent = Append(e.sent, Committed(Word(e) \bullet k))
        /\ Learns(e, f, <<n, l \bullet k>>)
    BY <2>1, ChooseCommitsAll
  <2>3. Characters(e.view) = Word(e) \bullet k
    BY <2>1, CandidateShown
  <2> HIDE DEF f
  <2>4. Plain(f, low, Nothing, Nothing, Nothing, Nothing)
    BY <1>1, <2>2 DEF Plain
  <2>5. \E b1, t1 : Plain(f, low, b1, t1, Nothing, Nothing)
    BY <2>4, Zenon
  <2>6. Takes(e, f, low, <<n, l \bullet k>>)
    BY <2>2, <2>3, <2>5, SendFacts DEF Takes
  <2>7. QED  BY <2>6 DEF f
<1>2. CASE low # Nothing
  <2>1. /\ Holds(f, low, b, t \bullet (Word(e) \bullet k), Nothing, Nothing, Nothing, Nothing, Nothing)
        /\ f.mode = "roman" /\ f.map = e.map /\ NoChoice(f)
        /\ f.sent = Append(e.sent, Preedit(f.view)) /\ Learns(e, f, <<n, l \bullet k>>)
    BY <1>2, ChooseCommits
  <2> HIDE DEF f
  <2>2. Plain(f, low, b, t \bullet (Word(e) \bullet k), Nothing, Nothing)
    BY <2>1 DEF Plain
  <2>3. \E b1, t1 : Plain(f, low, b1, t1, Nothing, Nothing)
    BY <2>2, Zenon
  <2>4. Takes(e, f, low, <<n, l \bullet k>>)
    BY <1>2, <2>1, <2>3, SendFacts DEF Takes
  <2>5. QED  BY <2>4 DEF f
<1>3. QED  BY <1>1, <1>2

(* A key in the choose mode. *)
LEMMA ChooseKey ==
  ASSUME NEW e, NEW low, NEW b, NEW t, NEW n, NEW l, NEW k, NEW m, NEW q,
         Fine(e, low, b, t, n, l, k, m, q), e.mode = "choose",
         NEW key \in Keys, NEW found \in Findings
  PROVE  LET f == ModeChoose(e, key, found) IN
         /\ Good(f) /\ SendsTwice(e, f) /\ Learns(e, f, q)
         /\ low = Nothing => Honest(e, f)
<1> DEFINE f == ModeChoose(e, key, found)
           j == Len(e.candidates[e.chosen + 1])
           g == ChooseCommit(e, j)
           back == key = "BackSpace" \/ (key = "x" /\ e.chosen = 0)
           next == key = " " /\ e.chosen + 1 < Len(e.candidates)
           last == key = " " /\ e.chosen + 1 >= Len(e.candidates)
           prev == key = "x" /\ e.chosen > 0
           other == key \in Printable \ {"x", " "}
<1>1. f = CASE back -> ChooseBack(e, j)
            [] next -> ChooseNth(e, j, e.chosen + 1)
            [] last -> ChooseNone(e, j)
            [] prev -> ChooseNth(e, j, e.chosen - 1)
            [] key = "Return" -> g
            [] other -> ModeRoman(g, key, found)
            [] OTHER -> e
  BY DEF ModeChoose
<1>2. /\ key \in Printable => key # "Linefeed" /\ key # "BackSpace" /\ key # "Return"
      /\ "x" \in Printable /\ " " \in Printable
  BY KeysAre DEF Printable
<1>3. /\ Holds(e, low, b, t, n, l, k, Nothing, q) /\ e.map = Nothing
      /\ (l # Nothing => n # Nothing) /\ ~NoChoice(e) /\ q = <<n, l \bullet k>>
      /\ m = Nothing
  BY DEF Fine, Fits
<1>4. e.chosen \in Nat /\ e.chosen < Len(e.candidates) /\ e.candidates \in Findings \cup {<<>>}
  <2>1. Stands(e, low, b, t, n, l, k, Nothing, q)
    BY <1>3 DEF Holds
  <2>2. ChoicesOK(e)
    BY <2>1, Unfolded
  <2>3. QED  BY <1>3, <2>2 DEF ChoicesOK
<1>5. Len(e.candidates) \in Nat
  BY <1>4, EngineAssumption
<1>6. Good(e)
  BY FineIsGood
<1>7.  LET c == e.chosen
           z == Len(e.candidates)
       IN /\ c = 0 \/ c > 0
          /\ ~(c = 0 /\ c > 0)
          /\ c + 1 < z \/ c + 1 >= z
          /\ ~(c + 1 < z /\ c + 1 >= z)
          /\ c + 1 \in Nat
          /\ c > 0 => c - 1 \in Nat /\ c - 1 < z
  BY <1>4, <1>5, RangeFacts, Zenon
<1>8.  /\ back => ~next /\ ~last /\ ~prev /\ ~other /\ key # "Return"
       /\ next => ~back /\ ~last /\ ~prev /\ ~other /\ key # "Return"
       /\ last => ~back /\ ~next /\ ~prev /\ ~other /\ key # "Return"
       /\ prev => ~next /\ ~last /\ ~back /\ ~other /\ key # "Return"
       /\ other => ~next /\ ~last /\ ~back /\ ~prev /\ key # "Return"
       /\ key = "Return" => ~next /\ ~last /\ ~back /\ ~prev /\ ~other
       /\ back \/ next \/ last \/ prev \/ other \/ key = "Return" \/ f = e
  <2>1. /\ back => ~next /\ ~last /\ ~prev /\ ~other /\ key # "Return"
        /\ key = "Return" => ~next /\ ~last /\ ~back /\ ~prev /\ ~other
    BY <1>2, <1>7, Zenon
  <2>2. next => ~last
    BY <1>7, Zenon
  <2>3. next \/ last => ~back /\ ~prev /\ ~other /\ key # "Return"
    BY <1>2
  <2>4. prev => ~next /\ ~last /\ ~back /\ ~other /\ key # "Return"
    BY <1>2, <1>7, Zenon
  <2>5. other => ~next /\ ~last /\ ~back /\ ~prev /\ key # "Return"
    BY <1>2
  <2>6. ~(back \/ next \/ last \/ prev \/ other \/ key = "Return") => f = e
    <3> HIDE DEF f, g, back, next, last, prev, other
    <3>1. QED  BY <1>1
  <2> HIDE DEF f, back, next, last, prev, other
  <2>7. QED  BY <2>1, <2>2, <2>3, <2>4, <2>5, <2>6
<1>9.  /\ next => IsChoice(e, e.chosen + 1)
       /\ prev => IsChoice(e, e.chosen - 1)
  BY <1>7, Zenon DEF IsChoice
<1>10. WordSize(e, j)
  BY DEF WordSize
<1> HIDE DEF j
<1>11.  Holds(e, low, b, t, n, l, k, Nothing, q) /\ ~NoChoice(e) /\ e.map = Nothing
  BY <1>3, Zenon
<1>12. Takes(e, g, low, <<n, l \bullet k>>)
  BY <1>11, <1>10, ChooseDone
<1>13. Takes(e, g, low, q)
  BY <1>3, <1>12
<1> HIDE DEF f, g, back, next, last, prev, other
<1>14. /\ \E b1, t1 : Plain(g, low, b1, t1, Nothing, Nothing)
       /\ g.mode = "roman" /\ Learns(e, g, q) /\ Sends(e, g)
       /\ low = Nothing => g.sent = Append(e.sent, Committed(Characters(e.view)))
  BY <1>13 DEF Takes
<1>15. ASSUME Good(f), Quiet(e, f), f.learned = e.learned
       PROVE  Good(f) /\ SendsTwice(e, f) /\ Learns(e, f, q) /\ Honest(e, f)
  BY <1>15, TwiceFacts, HonestIf DEF Learns
<1>16. CASE back
  <2>1. f = ChooseBack(e, j)
    BY <1>1, <1>8, <1>16
  <2>2. /\ Holds(f, low, b, t, n, Nothing, Nothing, Nothing, Nothing)
        /\ f.mode = "kanji" /\ f.map = e.map /\ NoChoice(f)
        /\ f.sent = Append(e.sent, Preedit(f.view)) /\ f.learned = e.learned
    BY <1>3, <2>1, <1>10, ChooseReopens
  <2>3. Plain(f, low, b, t, n, Nothing)
    BY <1>3, <2>2 DEF Plain
  <2>4. Good(f) /\ Quiet(e, f)
    BY <2>2, <2>3, PlainIsGood, SendFacts
  <2>5. QED  BY <1>15, <2>2, <2>4 DEF f
<1>17. ASSUME NEW c, IsChoice(e, c), f = ChooseNth(e, j, c)
       PROVE  Good(f) /\ Quiet(e, f) /\ f.learned = e.learned
  <2>1. /\ Holds(f, low, b, t, n, l, k, Nothing, q)
        /\ f.mode = e.mode /\ f.map = e.map /\ ~NoChoice(f)
        /\ f.sent = Append(e.sent, Preedit(f.view)) /\ f.learned = e.learned
    BY <1>3, <1>17, <1>10, ChooseShows
  <2>2. Fits(f, n, l, k, Nothing, q)
    BY <1>3, <2>1, NothingPending DEF Fits
  <2>3. Fine(f, low, b, t, n, l, k, Nothing, q)
    BY <2>1, <2>2 DEF Fine
  <2>4. QED  BY <2>1, <2>3, FineIsGood, SendFacts
<1>18. CASE next
  <2>1. f = ChooseNth(e, j, e.chosen + 1)
    BY <1>1, <1>8, <1>18
  <2>2. QED  BY <1>15, <1>17, <1>18, <1>9, <2>1 DEF f
<1>19. CASE last
  <2>1. f = ChooseNone(e, j)
    BY <1>1, <1>8, <1>19
  <2> DEFINE up == Push(low, StateOf(b, t, n, l \bullet k, <<n, l \bullet k>>))
  <2>2. Holds(e, low, b, t, n, l, k, Nothing, <<n, l \bullet k>>)
    BY <1>3
  <2>3. /\ Holds(f, up, e.buffer, Nothing, Nothing, Nothing, Nothing, Nothing, Nothing)
        /\ f.mode = "roman" /\ f.map = e.map /\ NoChoice(f)
        /\ f.sent = Append(e.sent, Preedit(f.view)) /\ f.learned = e.learned
    BY <1>3, <2>1, <2>2, <1>10, ChooseEnds
  <2> HIDE DEF up
  <2>4. Plain(f, up, e.buffer, Nothing, Nothing, Nothing)
    BY <1>3, <2>3 DEF Plain
  <2>5. Good(f) /\ Quiet(e, f)
    BY <2>3, <2>4, PlainIsGood, SendFacts
  <2>6. QED  BY <1>15, <2>3, <2>5 DEF f
<1>20. CASE prev
  <2>1. f = ChooseNth(e, j, e.chosen - 1)
    BY <1>1, <1>8, <1>20
  <2>2. QED  BY <1>15, <1>17, <1>20, <1>9, <2>1 DEF f
<1>21. CASE key = "Return"
  <2>1. f = g
    BY <1>1, <1>8, <1>21
  <2>2. Good(g)
    BY <1>14, PlainIsGood
  <2>3. SendsTwice(e, g)
    BY <1>14, TwiceFacts
  <2>4. low = Nothing => Honest(e, g)
    BY <1>14 DEF Honest
  <2>5. QED  BY <1>14, <2>1, <2>2, <2>3, <2>4 DEF f
<1>22. CASE other
  <2>1. f = ModeRoman(g, key, found)
    BY <1>1, <1>8, <1>22
  <2>2. PICK b1, t1 : Plain(g, low, b1, t1, Nothing, Nothing)
    BY <1>14
  <2>3. Fine(g, low, b1, t1, Nothing, Nothing, Nothing, Nothing, Nothing)
    <3>1. Fits(g, Nothing, Nothing, Nothing, Nothing, Nothing)
      BY <1>14, <2>2, NothingPending DEF Plain, Fits
    <3>2. QED  BY <2>2, <3>1 DEF Plain, Fine
  <2>4. /\ Good(f) /\ Sends(g, f) /\ f.learned = g.learned
    BY <1>14, <1>22, <2>1, <2>3, RomanKey DEF other
  <2>5. SendsTwice(e, f)
    BY <1>14, <2>4, TwiceFacts
  <2>6. low = Nothing => Honest(e, f)
    BY <1>14, <2>4 DEF Honest, Sends
  <2>7. Learns(e, f, q)
    BY <1>14, <2>4 DEF Learns
  <2>8. QED  BY <2>4, <2>5, <2>6, <2>7 DEF f
<1>23. CASE f = e
  <2>1. Quiet(e, f)
    BY <1>23, SendFacts
  <2>2. QED  BY <1>6, <1>15, <1>23, <2>1 DEF f
<1>24. QED  BY <1>16, <1>18, <1>19, <1>20, <1>21, <1>22, <1>23, <1>8 DEF f

(* What is learned by the candidate is for the top state.                  *)
LEMMA LearnsTeaches ==
  ASSUME NEW e, NEW low, NEW b, NEW t, NEW n, NEW l, NEW k, NEW m, NEW q,
         Holds(e, low, b, t, n, l, k, m, q), NEW f, Learns(e, f, q)
  PROVE  Teaches(e, f)
<1> DEFINE s == StateOf(b, t, n, l \bullet k, q)
           j == Size(low) + 1
<1>1. e.states = Push(low, s) /\ low \in Stacks /\ s \in States /\ s.asked = q
  <2>1. Stands(e, low, b, t, n, l, k, m, q)
    BY DEF Holds
  <2>2. /\ e.states = Push(low, s) /\ low \in Stacks /\ b \in Texts /\ t \in Texts /\ n \in Texts
        /\ l \bullet k \in Texts /\ q \in Queries
    BY <2>1, Unfolded
  <2>3. s.asked = q
    BY DEF StateOf
  <2>4. QED  BY <2>2, <2>3, StateIs
<1> HIDE DEF s
<1>2. /\ e.states \in Stacks /\ Size(e.states) = Size(low) + 1 /\ Size(low) \in Nat
      /\ e.states[Size(low) + 1] = s
  BY <1>1, Pushed
<1>3. DOMAIN e.states = 1..Size(e.states)
  BY <1>2 DEF Stacks, Size
<1>4. j \in DOMAIN e.states /\ e.states[j].asked = q
  BY <1>1, <1>2, <1>3
<1> HIDE DEF j
<1>5. CASE f.learned = e.learned
  BY <1>5 DEF Teaches
<1>6. ASSUME NEW cs, f.learned = Append(e.learned, <<q, cs>>)
      PROVE  Teaches(e, f)
  <2>1. f.learned = Append(e.learned, <<e.states[j].asked, cs>>)
    BY <1>4, <1>6
  <2>2. QED  BY <1>4, <2>1, Zenon DEF Teaches
<1>7. QED  BY <1>5, <1>6 DEF Learns

-----------------------------------------------------------------------------
(* A key, in any mode. *)
Composing(e) == e.mode \in {"word", "kanji", "choose"}

Pressed(e, f, low) ==
  /\ Good(f) /\ SendsTwice(e, f) /\ Teaches(e, f)
  /\ low = Nothing /\ Composing(e) => Honest(e, f)

(* Whatever the mode, a key does as Pressed says. *)
LEMMA AnyKey ==
  ASSUME NEW e, NEW low, NEW b, NEW t, NEW n, NEW l, NEW k, NEW m, NEW q,
         Fine(e, low, b, t, n, l, k, m, q), NEW key \in Keys, NEW found \in Findings
  PROVE  Pressed(e, KeyPressed(e, key, found), low)
<1> DEFINE f == KeyPressed(e, key, found)
<1>1. Holds(e, low, b, t, n, l, k, m, q) /\ Fits(e, n, l, k, m, q)
  BY DEF Fine
<1>2. l = Nothing => k = Nothing
  <2>1. Stands(e, low, b, t, n, l, k, m, q)
    BY <1>1 DEF Holds
  <2>2. QED  BY <2>1, Unfolded
<1>3. e.mode \in {"latin", "word", "roman", "kanji", "choose"}
  BY <1>1 DEF Fits
<1>4. ASSUME f.learned = e.learned
      PROVE  Teaches(e, f)
  BY <1>4 DEF Teaches
<1>5. CASE e.mode = "latin"
  <2>1. n = Nothing /\ l = Nothing /\ m = Nothing /\ e.map = Nothing /\ NoChoice(e)
    BY <1>1, <1>5 DEF Fits
  <2>2. Plain(e, low, b, t, Nothing, q)
    BY <1>1, <1>2, <2>1 DEF Plain
  <2>3. f = ModeLatin(e, key)
    BY <1>5 DEF KeyPressed
  <2> HIDE DEF f
  <2>4. Good(f) /\ Sends(e, f) /\ Taught(e, f, low)
    BY <1>5, <2>2, <2>3, LatinKey
  <2>5. Teaches(e, f)
    BY <1>1, <2>4, TaughtTeaches
  <2>6. SendsTwice(e, f)
    BY <2>4, TwiceFacts
  <2>7. QED  BY <1>5, <2>4, <2>5, <2>6 DEF Pressed, Composing, f
<1>6. CASE e.mode = "word"
  <2>1. l = Nothing /\ m = Nothing /\ e.map = Nothing /\ NoChoice(e)
    BY <1>1, <1>6 DEF Fits
  <2>2. Plain(e, low, b, t, n, q)
    BY <1>1, <1>2, <2>1 DEF Plain
  <2>3. f = ModeWord(e, key, found)
    BY <1>6 DEF KeyPressed
  <2> HIDE DEF f
  <2>4. Good(f) /\ Sends(e, f) /\ f.learned = e.learned /\ (low = Nothing => Honest(e, f))
    BY <1>6, <2>2, <2>3, WordKey
  <2>5. SendsTwice(e, f)
    BY <2>4, TwiceFacts
  <2>6. QED  BY <1>4, <2>4, <2>5 DEF Pressed, f
<1>7. CASE e.mode = "roman"
  <2>1. f = ModeRoman(e, key, found)
    BY <1>7 DEF KeyPressed
  <2> HIDE DEF f
  <2>2. Good(f) /\ Taught(e, f, low) /\ SendsTwice(e, f)
    BY <1>7, <2>1, RomanKey
  <2>3. Teaches(e, f)
    BY <1>1, <2>2, TaughtTeaches
  <2>4. QED  BY <1>7, <2>2, <2>3 DEF Pressed, Composing, f
<1>8. CASE e.mode = "kanji"
  <2>1. f = ModeKanji(e, key, found)
    BY <1>8 DEF KeyPressed
  <2> HIDE DEF f
  <2>2. Good(f) /\ SendsTwice(e, f) /\ f.learned = e.learned /\ (low = Nothing => Honest(e, f))
    BY <1>8, <2>1, KanjiKey
  <2>3. QED  BY <1>4, <2>2 DEF Pressed, f
<1>9. CASE e.mode = "choose"
  <2>1. f = ModeChoose(e, key, found)
    BY <1>9 DEF KeyPressed
  <2> HIDE DEF f
  <2>2. Good(f) /\ SendsTwice(e, f) /\ Learns(e, f, q) /\ (low = Nothing => Honest(e, f))
    BY <1>9, <2>1, ChooseKey
  <2>3. Teaches(e, f)
    BY <1>1, <2>2, LearnsTeaches
  <2>4. QED  BY <2>2, <2>3 DEF Pressed, f
<1>10. QED  BY <1>3, <1>5, <1>6, <1>7, <1>8, <1>9

-----------------------------------------------------------------------------
(* The invariant: the engine is of some texts, and sends twice at most.    *)
Few(sent) ==
  \/ sent = Nothing
  \/ \E x : sent = Append(Nothing, x)
  \/ \E x, y : sent = Append(Append(Nothing, x), y)

IInv == Good(engine) /\ Few(engine.sent)

(* The engine with nothing sent and nothing learned yet, as a key finds it. *)
Fresh(e) == [e EXCEPT !.sent = Nothing, !.learned = Nothing]

(* It is of the same texts. *)
LEMMA FreshIs ==
  ASSUME NEW e, NEW low, NEW b, NEW t, NEW n, NEW l, NEW k, NEW m, NEW q,
         Fine(e, low, b, t, n, l, k, m, q)
  PROVE  LET f == Fresh(e) IN
         /\ Fine(f, low, b, t, n, l, k, m, q)
         /\ f.sent = Nothing /\ f.learned = Nothing
         /\ f.mode = e.mode /\ f.view = e.view /\ f.states = e.states
<1> DEFINE f == Fresh(e)
<1>1. /\ Stands(e, low, b, t, n, l, k, m, q) /\ e.view = ViewOf(t, Middle(e, n), k, m)
      /\ Fits(e, n, l, k, m, q)
  BY DEF Fine, Holds
<1>2. IsEngine(e)
  BY <1>1, Unfolded
<1>3. /\ f.buffer = e.buffer /\ f.states = e.states /\ f.map = e.map /\ IsEngine(f)
      /\ f.view = e.view /\ f.candidates = e.candidates /\ f.chosen = e.chosen
      /\ f.mode = e.mode /\ f.sent = Nothing /\ f.learned = Nothing
  BY <1>2 DEF IsEngine, Fields, Fresh
<1> HIDE DEF f
<1>4. Stands(f, low, b, t, n, l, k, m, q)
  BY <1>1, <1>3 DEF Stands, ChoicesOK, NoChoice
<1>5. f.view = ViewOf(t, Middle(f, n), k, m)
  BY <1>1, <1>3 DEF Middle, NoChoice
<1>6. Fits(f, n, l, k, m, q)
  BY <1>1, <1>3 DEF Fits, NoChoice
<1>7. QED  BY <1>3, <1>4, <1>5, <1>6 DEF Fine, Holds, f

(* From there on, two messages at most are two. *)
LEMMA FewSent ==
  ASSUME NEW e, NEW f, e.sent = Nothing, SendsTwice(e, f)
  PROVE  Few(f.sent)
<1>1. PICK g : Sends(e, g) /\ Sends(g, f)
  BY DEF SendsTwice
<1>2. CASE g.sent = Nothing
  BY <1>1, <1>2, Zenon DEF Sends, Few
<1>3. ASSUME NEW x, g.sent = Append(Nothing, x)
      PROVE  Few(f.sent)
  <2>1. f.sent = Append(Nothing, x) \/ \E y : f.sent = Append(Append(Nothing, x), y)
    BY <1>1, <1>3 DEF Sends
  <2>2. QED  BY <2>1, Zenon DEF Few
<1>4. g.sent = Nothing \/ \E x : g.sent = Append(Nothing, x)
  BY <1>1 DEF Sends
<1>5. QED  BY <1>2, <1>3, <1>4

(* The first engine. *)
First == [mode |-> "roman", buffer |-> Nothing, map |-> Nothing,
          states |-> <<NewState(0)>>, candidates |-> Nothing, chosen |-> 0,
          view |-> Nothing, sent |-> Nothing, learned |-> Nothing,
          undefined |-> FALSE]

(* It is of empty texts. *)
LEMMA FirstIsGood == Good(First)
<1> DEFINE e == First
           s == StateOf(Nothing, Nothing, Nothing, Nothing, Nothing)
<1>1. /\ e.mode = "roman" /\ e.buffer = Nothing /\ e.map = Nothing /\ e.states = <<NewState(0)>>
      /\ e.candidates = Nothing /\ e.chosen = 0 /\ e.view = Nothing /\ ~e.undefined
      /\ DOMAIN e = Fields
  BY DEF First, Fields
<1>2. Nothing \in Texts /\ Size(Nothing) = 0 /\ Nothing \bullet Nothing = Nothing
  BY TextUnit, TextSize
<1>3. <<NewState(0)>> = Push(Nothing, s)
  <2>1. NewState(0) = s
    BY <1>2 DEF NewState, StateOf, Nothing
  <2>2. QED  BY <2>1 DEF Push, Nothing
<1> HIDE DEF e, s
<1>4. AreParts(Nothing, Nothing, Nothing, Nothing, Nothing, Nothing)
  BY <1>2 DEF AreParts
<1>5. Nothing \in Queries
  BY DEF Queries, Nothing
<1>6. IsStack(Nothing, Nothing)
  <2>1. Nothing \in Stacks
    BY DEF Stacks, Nothing
  <2>2. \A i \in 1..Size(Nothing) : FALSE
    BY <1>2
  <2>3. QED  BY <2>1, <2>2 DEF IsStack
<1>7. Whole(Nothing, Nothing, Nothing, Nothing, Nothing, Nothing) = Nothing
  BY <1>2 DEF Whole
<1>8. NoChoice(e) /\ ChoicesOK(e) /\ IsEngine(e)
  BY <1>1 DEF NoChoice, ChoicesOK, IsEngine, Nothing
<1>9. e.states = Push(Nothing, StateOf(Nothing, Nothing, Nothing, Nothing \bullet Nothing, Nothing))
  BY <1>1, <1>2, <1>3 DEF s
<1>10. Stands(e, Nothing, Nothing, Nothing, Nothing, Nothing, Nothing, Nothing, Nothing)
  BY <1>1, <1>4, <1>5, <1>6, <1>7, <1>8, <1>9 DEF Stands
<1>11. e.view = ViewOf(Nothing, Middle(e, Nothing), Nothing, Nothing)
  <2>1. \A x \in Marks : As(Nothing, x) = Nothing
    BY AsFacts
  <2>2. Middle(e, Nothing) = Nothing
    BY <1>8, <2>1 DEF Middle, Marks
  <2>3. QED  BY <1>1, <1>2, <2>1, <2>2 DEF ViewOf, Marks
<1>12. Plain(e, Nothing, Nothing, Nothing, Nothing, Nothing)
  BY <1>1, <1>8, <1>10, <1>11 DEF Plain, Holds
<1>13. Good(e)
  BY <1>1, <1>12, PlainIsGood
<1>14. QED  BY <1>13 DEF e

(* The invariant holds of it, ... *)
LEMMA InitIInv == Init => IInv
<1> SUFFICES ASSUME Init PROVE IInv
  OBVIOUS
<1>1. engine = First
  BY DEF Init, First, Nothing
<1>2. First.sent = Nothing
  BY DEF First
<1>3. QED  BY <1>1, <1>2, FirstIsGood DEF IInv, Few

(* A key keeps it, ... *)
LEMMA PressIs ==
  ASSUME NEW key \in Keys, Press(key)
  PROVE  \E found \in Findings : engine' = KeyPressed(Fresh(engine), key, found)
BY DEF Press, Fresh, Nothing

(* ... is kept by every key, ... *)
LEMMA NextIInv == IInv /\ [Next]_engine => IInv'
<1> SUFFICES ASSUME IInv, [Next]_engine PROVE IInv'
  OBVIOUS
<1>1. CASE UNCHANGED engine
  BY <1>1 DEF IInv
<1>2. ASSUME NEW key \in Keys, Press(key)
      PROVE  IInv'
  <2>1. PICK found \in Findings : engine' = KeyPressed(Fresh(engine), key, found)
    BY <1>2, PressIs
  <2>2. PICK low, b, t, n, l, k, m, q : Fine(engine, low, b, t, n, l, k, m, q)
    BY DEF IInv, Good
  <2> DEFINE e == Fresh(engine)
             f == engine'
  <2>3. Fine(e, low, b, t, n, l, k, m, q) /\ e.sent = Nothing
    BY <2>2, FreshIs
  <2> HIDE DEF e
  <2>4. Pressed(e, f, low)
    BY <2>1, <2>3, AnyKey DEF e
  <2>5. Good(f) /\ Few(f.sent)
    BY <2>3, <2>4, FewSent DEF Pressed
  <2>6. QED  BY <2>5 DEF IInv
<1>3. QED  BY <1>1, <1>2 DEF Next

(* ... and so holds always (t_engine::f_key_pressed of im/engine.cc). *)
THEOREM EngineInvariant == Spec => []IInv
BY InitIInv, NextIInv, PTL DEF Spec

-----------------------------------------------------------------------------
(* What the invariant says of the state. *)
LEMMA FineTypeOK ==
  ASSUME NEW low, NEW b, NEW t, NEW n, NEW l, NEW k, NEW m, NEW q,
         Fine(engine, low, b, t, n, l, k, m, q)
  PROVE  TypeOK
<1> DEFINE s == StateOf(b, t, n, l \bullet k, q)
<1>1. Stands(engine, low, b, t, n, l, k, m, q) /\ Fits(engine, n, l, k, m, q)
  BY DEF Fine, Holds
<1>2. /\ engine.mode \in {"latin", "word", "roman", "kanji", "choose"}
      /\ engine.map \in Unfinished
  BY <1>1 DEF Fits
<1>3. engine.candidates \in Findings \cup {<<>>} /\ engine.chosen \in Nat
  BY <1>1, Unfolded DEF ChoicesOK
<1>4. engine.buffer \in Seq(Printable \cup {"kana", "word"})
  <2>1. AreParts(b, t, n, l, k, m) /\ engine.buffer = Whole(b, t, n, l, k, m)
    BY <1>1, Unfolded
  <2>2. Whole(b, t, n, l, k, m) \in Texts
    BY <2>1, PartsCut
  <2>3. QED  BY <2>1, <2>2 DEF Texts, Chars
<1>5. engine.states = Push(low, s) /\ low \in Stacks /\ s \in States
  <2>1. /\ engine.states = Push(low, s) /\ low \in Stacks /\ b \in Texts /\ t \in Texts
        /\ n \in Texts /\ l \bullet k \in Texts /\ q \in Queries
    BY <1>1, Unfolded
  <2>2. QED  BY <2>1, StateIs
<1> HIDE DEF s
<1>6. engine.states \in Seq(States) /\ Len(engine.states) = Size(low) + 1 /\ Size(low) \in Nat
  BY <1>5, Pushed DEF Stacks, Size
<1>7. engine.states # <<>>
  BY <1>6
<1>8. \A i \in DOMAIN engine.states : engine.states[i] \in States
  BY <1>6
<1>9. \A i \in DOMAIN engine.states :
        LET z == engine.states[i] IN {z.base, z.text, z.entry, z.okuri} \subseteq Nat
  BY <1>8 DEF States
<1>10. QED  BY <1>2, <1>3, <1>4, <1>7, <1>9 DEF TypeOK

(* Of LayoutOK: the states divide the buffer. *)
LEMMA FineLayoutOK ==
  ASSUME NEW low, NEW b, NEW t, NEW n, NEW l, NEW k, NEW m, NEW q,
         Fine(engine, low, b, t, n, l, k, m, q)
  PROVE  LayoutOK
<1> DEFINE s == Top(engine)
           z == StateOf(b, t, n, l \bullet k, q)
<1>1. Stands(engine, low, b, t, n, l, k, m, q) /\ engine.map = m
  BY DEF Fine, Holds, Fits
<1>2. /\ engine.states = Push(low, z) /\ IsStack(low, b) /\ low \in Stacks
      /\ b \in Texts /\ t \in Texts /\ n \in Texts /\ l \bullet k \in Texts /\ q \in Queries
      /\ Size(Nothing) = 0
  BY <1>1, Unfolded
<1>3. z \in States /\ z.base = Size(b)
  <2>1. z \in States
    BY <1>2, StateIs
  <2>2. QED  BY <2>1 DEF StateOf
<1>4. /\ s.base = Size(b) /\ s.text = Size(t) /\ s.entry = Size(n) /\ s.okuri = Size(l) + Size(k)
      /\ Size(engine.buffer) = Size(b) + Size(t) + Size(n) + Size(l) + Size(k) + Size(m)
      /\ Size(b) \in Nat /\ Size(t) \in Nat /\ Size(n) \in Nat
      /\ Size(l) \in Nat /\ Size(k) \in Nat /\ Size(m) \in Nat
  BY <1>1, Reads
<1>5. Cut(engine.buffer, s.base + s.text + s.entry + s.okuri + 1, Size(engine.buffer)) = m
  BY <1>1, Slices
<1>6. /\ Size(engine.states) = Size(low) + 1 /\ Size(low) \in Nat
      /\ (Size(low) = 0 <=> low = Nothing) /\ engine.states[Size(low) + 1] = z
      /\ \A i \in 1..Size(low) : engine.states[i] = low[i]
  BY <1>2, <1>3, Pushed
<1>7. /\ low = Nothing => b = Nothing
      /\ low # Nothing => low[1].base = 0 /\ EndOf(low[Size(low)]) = Size(b)
      /\ \A i \in 1..Size(low) : i < Size(low) => low[i + 1].base = EndOf(low[i])
  BY <1>2 DEF IsStack
<1> HIDE DEF z, s
<1>8. engine.states[1].base = 0
  <2>1. CASE low = Nothing
    <3>1. engine.states[1] = z /\ Size(b) = 0
      BY <1>2, <1>6, <1>7, <2>1
    <3>2. QED  BY <1>3, <3>1
  <2>2. CASE low # Nothing
    <3>1. 1 \in 1..Size(low)
      BY <1>6, <2>2
    <3>2. QED  BY <1>6, <1>7, <2>2, <3>1
  <2>3. QED  BY <2>1, <2>2
<1>9. ASSUME NEW i \in 2..Len(engine.states)
      PROVE  engine.states[i].base = EndOf(engine.states[i - 1])
  <2>1. Len(engine.states) = Size(low) + 1
    BY <1>6 DEF Size
  <2>2. i - 1 \in 1..Size(low) /\ i = (i - 1) + 1 /\ (i - 1 = Size(low) \/ i - 1 < Size(low))
    BY <1>6, <1>9, <2>1
  <2>3. engine.states[i - 1] = low[i - 1]
    BY <1>6, <2>2
  <2>4. CASE i - 1 = Size(low)
    <3>1. i = Size(low) + 1 /\ low # Nothing
      BY <1>6, <2>2, <2>4
    <3>2. QED  BY <1>3, <1>6, <1>7, <2>3, <2>4, <3>1
  <2>5. CASE i - 1 < Size(low)
    <3>1. i \in 1..Size(low)
      BY <1>6, <2>2, <2>5
    <3>2. engine.states[i] = low[i] /\ low[i].base = EndOf(low[i - 1])
      BY <1>6, <1>7, <2>2, <2>5, <3>1
    <3>3. QED  BY <2>3, <3>2
  <2>6. QED  BY <2>2, <2>4, <2>5
<1>10. /\ From(engine, EndOf(s)) = engine.map
       /\ EndOf(s) <= Len(engine.buffer)
  <2>1. From(engine, EndOf(s)) = m
    BY <1>5 DEF From, EndOf, Cut, Size
  <2>2. EndOf(s) <= Size(engine.buffer)
    BY <1>4 DEF EndOf
  <2>3. QED  BY <1>1, <2>1, <2>2 DEF Size
<1>11. QED  BY <1>8, <1>9, <1>10 DEF LayoutOK, EndOf, s

(* Of ModeOK: each mode finds what it relies on. *)
LEMMA FineModeOK ==
  ASSUME NEW low, NEW b, NEW t, NEW n, NEW l, NEW k, NEW m, NEW q,
         Fine(engine, low, b, t, n, l, k, m, q)
  PROVE  ModeOK
<1> DEFINE s == Top(engine)
<1>1. Stands(engine, low, b, t, n, l, k, m, q) /\ Fits(engine, n, l, k, m, q)
  BY DEF Fine, Holds
<1>2. /\ s.text = Size(t) /\ s.entry = Size(n) /\ s.okuri = Size(l) + Size(k)
      /\ (s.okuri > 0 <=> l # Nothing) /\ Nested(engine) = (low # Nothing)
  BY <1>1, Reads
<1>3. /\ t \in Texts /\ n \in Texts /\ Size(l) \in {0, 1} /\ Size(k) \in Nat /\ Size(Nothing) = 0
      /\ (l = Nothing <=> Size(l) = 0) /\ (l = Nothing => k = Nothing) /\ ChoicesOK(engine)
      /\ low = Nothing => t = Nothing
  BY <1>1, Unfolded
<1>4. Size(n) \in Nat /\ (Size(n) = 0 <=> n = Nothing)
  BY <1>3, TextSize
<1> HIDE DEF s
<1>5. engine.mode = "choose" <=> engine.candidates # <<>>
  BY <1>1 DEF Fits, NoChoice
<1>6. engine.mode = "choose" => engine.chosen < Len(engine.candidates)
  BY <1>3, <1>5 DEF ChoicesOK, NoChoice
<1>7. engine.mode \in {"latin", "word", "choose"} => engine.map = <<>>
  BY <1>1 DEF Fits, Nothing
<1>8. l = Nothing => s.okuri = 0
  BY <1>2, <1>3
<1>9. engine.mode \in {"latin", "roman"} => s.entry = 0 /\ s.okuri = 0
  <2>1. engine.mode \in {"latin", "roman"} => n = Nothing /\ l = Nothing
    BY <1>1 DEF Fits
  <2>2. QED  BY <1>2, <1>4, <1>8, <2>1
<1>10. engine.map = <<>> /\ engine.mode # "choose" => s.okuri = 0
  <2>1. engine.map = <<>> /\ engine.mode # "choose" => l = Nothing
    BY <1>1 DEF Fits, Nothing
  <2>2. QED  BY <1>8, <2>1
<1>11. ~Nested(engine) => s.text = 0
  BY <1>2, <1>3
<1>12. s.okuri > 0 => s.entry > 0
  <2>1. s.okuri > 0 => n # Nothing
    BY <1>1, <1>2 DEF Fits
  <2>2. QED  BY <1>2, <1>4, <2>1
<1>13. QED  BY <1>5, <1>6, <1>7, <1>9, <1>10, <1>11, <1>12 DEF ModeOK, s

(* Of KeepsWhatWasAsked: what is composed later does not touch what waits. *)
LEMMA FineKeeps ==
  ASSUME NEW low, NEW b, NEW t, NEW n, NEW l, NEW k, NEW m, NEW q,
         Fine(engine, low, b, t, n, l, k, m, q)
  PROVE  KeepsWhatWasAsked
<1> DEFINE z == StateOf(b, t, n, l \bullet k, q)
           rest == t \bullet (n \bullet (l \bullet (k \bullet m)))
<1>1. Stands(engine, low, b, t, n, l, k, m, q) /\ Fits(engine, n, l, k, m, q)
  BY DEF Fine, Holds
<1>2. /\ engine.states = Push(low, z) /\ IsStack(low, b) /\ low \in Stacks
      /\ engine.buffer = Whole(b, t, n, l, k, m)
      /\ b \in Texts /\ t \in Texts /\ n \in Texts /\ l \bullet k \in Texts /\ q \in Queries
      /\ l \in Texts /\ k \in Texts /\ m \in Texts
  BY <1>1, Unfolded
<1>3. engine.buffer = b \bullet rest /\ rest \in Texts /\ Size(b) \in Nat
  BY <1>2, TextJoin, TextSize DEF Whole
<1>4. z \in States
  BY <1>2, StateIs
<1>5. Top(engine) = z /\ Top(engine).asked = q
  BY <1>1, Reads
<1> HIDE DEF z, rest
<1>6. /\ Size(engine.states) = Size(low) + 1 /\ Size(low) \in Nat
      /\ engine.states[Size(low) + 1] = z /\ engine.states \in Stacks
      /\ \A i \in 1..Size(low) : engine.states[i] = low[i]
  BY <1>2, <1>4, Pushed
<1>7. \A i \in 1..Size(low) : /\ EndOf(low[i]) <= Size(b) /\ low[i].asked = AskedIn(b, low[i])
                              /\ low[i] \in States
  BY <1>2 DEF IsStack, Stacks, Size
<1>8. ASSUME NEW i \in 1..Size(low)
      PROVE  Asked(engine, engine.states[i]) = engine.states[i].asked
  <2> DEFINE s == low[i]
             x == s.base + s.text
             y == s.base + s.text + s.entry
             w == s.base + s.text + s.entry + s.okuri
  <2>1. engine.states[i] = s /\ s.asked = AskedIn(b, s) /\ EndOf(s) <= Size(b) /\ s \in States
    BY <1>6, <1>7
  <2>2. /\ s.base \in Nat /\ s.text \in Nat /\ s.entry \in Nat /\ s.okuri \in Nat
    BY <2>1 DEF States
  <2>3. /\ x + 1 \in Nat \ {0} /\ y + 1 \in Nat \ {0} /\ y \in Nat /\ w \in Nat
        /\ y <= Size(b) /\ w <= Size(b)
    BY <1>3, <2>1, <2>2 DEF EndOf
  <2>4. AskedIn(b, s) = <<Cut(b, x + 1, y), Cut(b, y + 1, w)>>
    BY DEF AskedIn, EndOf
  <2>5. Asked(engine, s) = <<Cut(engine.buffer, x + 1, y), Cut(engine.buffer, y + 1, w)>>
    BY DEF Asked, Slice, Cut
  <2> HIDE DEF s, x, y, w
  <2>6. /\ Cut(b \bullet rest, x + 1, y) = Cut(b, x + 1, y)
        /\ Cut(b \bullet rest, y + 1, w) = Cut(b, y + 1, w)
    BY <1>2, <1>3, <2>3, CutPrefix
  <2>7. QED  BY <1>3, <2>1, <2>4, <2>5, <2>6
<1>9. engine.mode = "choose" => Asked(engine, z) = z.asked
  <2>1. engine.mode = "choose" => q = <<n, l \bullet k>>
    BY <1>1 DEF Fits
  <2>2. Asked(engine, Top(engine)) = <<n, l \bullet k>>
    BY <1>1, AskedIs
  <2>3. QED  BY <1>5, <2>1, <2>2
<1>10. ASSUME NEW i \in DOMAIN engine.states, i < Len(engine.states) \/ engine.mode = "choose"
       PROVE  Asked(engine, engine.states[i]) = engine.states[i].asked
  <2>1. i \in 1..(Size(low) + 1) /\ Len(engine.states) = Size(low) + 1
    BY <1>6 DEF Stacks, Size
  <2>2. i \in 1..Size(low) \/ i = Size(low) + 1
    BY <1>6, <2>1
  <2>3. CASE i \in 1..Size(low)
    BY <1>8, <2>3
  <2>4. CASE i = Size(low) + 1
    <3>1. engine.mode = "choose"
      BY <1>6, <1>10, <2>1, <2>4
    <3>2. QED  BY <1>6, <1>9, <2>4, <3>1
  <2>5. QED  BY <2>2, <2>3, <2>4
<1>11. QED  BY <1>10 DEF KeepsWhatWasAsked

(* Of SendsFew. *)
LEMMA FewLen ==
  ASSUME NEW sent, Few(sent)
  PROVE  Len(sent) <= 2
<1>1. CASE sent = Nothing
  BY <1>1 DEF Nothing
<1>2. ASSUME NEW x, sent = Append(Nothing, x)
      PROVE  Len(sent) <= 2
  BY <1>2 DEF Nothing
<1>3. ASSUME NEW x, NEW y, sent = Append(Append(Nothing, x), y)
      PROVE  Len(sent) <= 2
  BY <1>3 DEF Nothing
<1>4. QED  BY <1>1, <1>2, <1>3 DEF Few

(* Of ViewOK: the texts are cut from the buffer as Shown does. *)
LEMMA FineShown ==
  ASSUME NEW low, NEW b, NEW t, NEW n, NEW l, NEW k, NEW m, NEW q,
         Fine(engine, low, b, t, n, l, k, m, q)
  PROVE  ViewOK
<1> DEFINE s == Top(engine)
           i == s.base + s.text
           v == s.base + s.text + s.entry + s.okuri - Inflection(s)
           middle == Middle(engine, n)
<1>1. Stands(engine, low, b, t, n, l, k, m, q) /\ engine.view = ViewOf(t, middle, k, m)
  BY DEF Fine, Holds
<1>2. ~engine.undefined
  BY <1>1, Unfolded DEF IsEngine
<1>3. /\ Cut(engine.buffer, s.base + 1, s.base + s.text) = t
      /\ Cut(engine.buffer, s.base + s.text + 1, s.base + s.text + s.entry) = n
      /\ Cut(engine.buffer, v + 1, v + Inflection(s)) = k
      /\ Cut(engine.buffer, s.base + s.text + s.entry + s.okuri + 1, Size(engine.buffer)) = m
  BY <1>1, Slices
<1>4. /\ Slice(engine, s.base, s.text) = t /\ Slice(engine, i, s.entry) = n
      /\ Slice(engine, i + s.entry + s.okuri - Inflection(s), Inflection(s)) = k
      /\ From(engine, i + s.entry + s.okuri) = m
  BY <1>3 DEF Slice, From, Cut, Size
<1>5. Shown(engine) =
        As(Slice(engine, s.base, s.text), "text")
        \o (IF engine.candidates = <<>> THEN As(Slice(engine, i, s.entry), "entry")
            ELSE As(engine.candidates[engine.chosen + 1], "candidate"))
        \o As(Slice(engine, i + s.entry + s.okuri - Inflection(s), Inflection(s)), "okuri")
        \o As(From(engine, i + s.entry + s.okuri), "roman")
  BY DEF Shown
<1>6. middle = IF engine.candidates = <<>> THEN As(n, "entry")
               ELSE As(engine.candidates[engine.chosen + 1], "candidate")
  BY DEF Middle, NoChoice
<1> HIDE DEF middle, i, v, s
<1>7. Shown(engine) = As(t, "text") \o middle \o As(k, "okuri") \o As(m, "roman")
  BY <1>4, <1>5, <1>6
<1>8. /\ As(t, "text") \in Views /\ As(k, "okuri") \in Views /\ As(m, "roman") \in Views
      /\ middle \in Views
  <2>1. t \in Texts /\ n \in Texts /\ k \in Texts /\ m \in Texts /\ ChoicesOK(engine)
    BY <1>1, Unfolded
  <2>2. /\ As(t, "text") \in Views /\ As(k, "okuri") \in Views /\ As(m, "roman") \in Views
        /\ As(n, "entry") \in Views
    BY <2>1, AsFacts DEF Marks
  <2>3. CASE NoChoice(engine)
    BY <1>6, <2>2, <2>3 DEF NoChoice
  <2>4. CASE ~NoChoice(engine)
    <3>1. engine.candidates \in Findings /\ engine.chosen \in Nat /\ engine.chosen < Len(engine.candidates)
      BY <2>1, <2>4 DEF ChoicesOK, NoChoice
    <3>2. engine.candidates[engine.chosen + 1] \in Texts
      BY <3>1, FoundWords
    <3>3. As(engine.candidates[engine.chosen + 1], "candidate") \in Views
      BY <3>2, AsFacts DEF Marks
    <3>4. QED  BY <1>6, <2>2, <2>4, <3>3 DEF NoChoice
  <2>5. QED  BY <2>3, <2>4
<1>9. As(t, "text") \o middle \o As(k, "okuri") \o As(m, "roman") = ViewOf(t, middle, k, m)
  <2> DEFINE p == As(t, "text")
             o == As(k, "okuri")
             r == As(m, "roman")
  <2>1. p \in Views /\ o \in Views /\ r \in Views
    BY <1>8
  <2> HIDE DEF p, o, r
  <2>2. p \o middle \o o \o r = ((p \bullet middle) \bullet o) \bullet r
    BY DEF \bullet
  <2>3. p \bullet middle \in Views /\ o \bullet r \in Views
    BY <1>8, <2>1, ViewJoin
  <2>4. ((p \bullet middle) \bullet o) \bullet r = p \bullet (middle \bullet (o \bullet r))
    BY <1>8, <2>1, <2>3, ViewJoin
  <2>5. ViewOf(t, middle, k, m) = p \bullet (middle \bullet (o \bullet r))
    BY DEF ViewOf, p, o, r
  <2>6. QED  BY <2>2, <2>4, <2>5 DEF p, o, r
<1>10. QED  BY <1>1, <1>2, <1>7, <1>9 DEF ViewOK

(* However registrations nest, the states divide the buffer between them,  *)
(* each mode finds the engine as it relies on it, a state that waits for a *)
(* word still holds what the dictionary was asked about, and a key sends   *)
(* twice at most (t_engine::f_key_pressed of im/engine.cc).                *)
THEOREM EngineStateCorrect == Spec => []StateOK
<1>1. IInv => StateOK
  <2> SUFFICES ASSUME IInv PROVE StateOK
    OBVIOUS
  <2>1. PICK low, b, t, n, l, k, m, q : Fine(engine, low, b, t, n, l, k, m, q)
    BY DEF IInv, Good
  <2>2. TypeOK
    BY <2>1, FineTypeOK
  <2>3. LayoutOK
    BY <2>1, FineLayoutOK
  <2>4. ModeOK
    BY <2>1, FineModeOK
  <2>5. KeepsWhatWasAsked
    BY <2>1, FineKeeps
  <2>6. SendsFew
    BY FewLen DEF IInv, SendsFew
  <2>7. QED  BY <2>2, <2>3, <2>4, <2>5, <2>6 DEF StateOK
<1>2. QED  BY <1>1, EngineInvariant, PTL

(* What the application shows as preedit is what the engine holds: every   *)
(* edit f_on_compose is given is of what is shown, and the edits add up.   *)
THEOREM EngineViewCorrect == Spec => []ViewOK
<1>1. IInv => ViewOK
  BY FineShown DEF IInv, Good
<1>2. QED  BY <1>1, EngineInvariant, PTL

-----------------------------------------------------------------------------
(* What a key of the engine does, from a state of the invariant.           *)
LEMMA KeyFromInvariant ==
  ASSUME IInv, NEW key \in Keys, Press(key)
  PROVE  /\ Teaches(Fresh(engine), engine')
         /\ ~Nested(engine) /\ Composing(engine) => Honest(Fresh(engine), engine')
         /\ Fresh(engine).sent = Nothing /\ Fresh(engine).learned = Nothing
         /\ Fresh(engine).view = engine.view /\ Fresh(engine).states = engine.states
<1>1. PICK found \in Findings : engine' = KeyPressed(Fresh(engine), key, found)
  BY PressIs
<1>2. PICK low, b, t, n, l, k, m, q : Fine(engine, low, b, t, n, l, k, m, q)
  BY DEF IInv, Good
<1> DEFINE e == Fresh(engine)
           f == engine'
<1>3. /\ Fine(e, low, b, t, n, l, k, m, q) /\ e.sent = Nothing /\ e.learned = Nothing
      /\ e.mode = engine.mode /\ e.view = engine.view /\ e.states = engine.states
  BY <1>2, FreshIs
<1>4. Nested(engine) = (low # Nothing)
  <2>1. Stands(engine, low, b, t, n, l, k, m, q)
    BY <1>2 DEF Fine, Holds
  <2>2. QED  BY <2>1, Reads
<1> HIDE DEF e
<1>5. Pressed(e, f, low)
  BY <1>1, <1>3, AnyKey DEF e
<1>6. Composing(e) <=> Composing(engine)
  BY <1>3 DEF Composing
<1>7. QED  BY <1>3, <1>4, <1>5, <1>6 DEF Pressed, e

(* What is registered is an entry and okuri the dictionary was asked about *)
(* for a state that waits for a word (the calls of f_register in           *)
(* im/engine.cc).                                                          *)
THEOREM EngineLearns == Spec => LearnsWhatWasAsked
<1> DEFINE Asks == \A k \in DOMAIN engine'.learned :
                     \E j \in DOMAIN engine.states :
                       engine'.learned[k][1] = engine.states[j].asked
<1>1. IInv /\ [Next]_engine => [Asks]_engine
  <2> SUFFICES ASSUME IInv, NEW key \in Keys, Press(key) PROVE Asks
    BY DEF Next
  <2>1. Teaches(Fresh(engine), engine') /\ Fresh(engine).learned = Nothing
        /\ Fresh(engine).states = engine.states
    BY KeyFromInvariant
  <2>2. CASE engine'.learned = Nothing
    <3>1. DOMAIN engine'.learned = {}
      BY <2>2 DEF Nothing
    <3>2. QED  BY <3>1
  <2>3. ASSUME NEW j \in DOMAIN engine.states, NEW cs,
               engine'.learned = Append(Nothing, <<engine.states[j].asked, cs>>)
        PROVE  Asks
    <3>1. engine'.learned = <<<<engine.states[j].asked, cs>>>>
      BY <2>3 DEF Nothing
    <3>2. DOMAIN engine'.learned = {1} /\ engine'.learned[1][1] = engine.states[j].asked
      BY <3>1
    <3>3. QED  BY <3>2
  <2>4. QED  BY <2>1, <2>2, <2>3 DEF Teaches
<1>2. QED  BY <1>1, EngineInvariant, PTL DEF Spec, LearnsWhatWasAsked

(* The first message that commits. *)
CommitAt(sent) == SelectInSeq(sent, LAMBDA x : x.type = "commit")

(* It is the first of its kind, or there is none. *)
LEMMA CommitFound ==
  ASSUME NEW sent, Len(sent) \in Nat
  PROVE  /\ (\A i \in 1..Len(sent) : sent[i].type # "commit") => CommitAt(sent) = 0
         /\ \A i \in 1..Len(sent) :
              sent[i].type = "commit" /\ (\A j \in 1..(i - 1) : sent[j].type # "commit")
                => CommitAt(sent) = i
<1> DEFINE I == {i \in 1..Len(sent) : sent[i].type = "commit"}
<1>1. CommitAt(sent) = IF I # {} THEN Min(I) ELSE 0
  BY DEF CommitAt, SelectInSeq
<1>2. (\A i \in 1..Len(sent) : sent[i].type # "commit") => CommitAt(sent) = 0
  BY <1>1
<1>3. ASSUME NEW i \in 1..Len(sent), sent[i].type = "commit",
             \A j \in 1..(i - 1) : sent[j].type # "commit"
      PROVE  CommitAt(sent) = i
  <2>1. i \in I /\ \A j \in I : i <= j
    BY <1>3
  <2>2. \A z \in I : (\A j \in I : z <= j) => z = i
    BY <2>1
  <2>3. Min(I) = i
    <3> HIDE DEF I
    <3>1. QED  BY <2>1, <2>2 DEF Min
  <2>4. QED  BY <1>1, <2>1, <2>3
<1>4. QED  BY <1>2, <1>3

(* The messages of a short sequence. *)
LEMMA FewAre ==
  /\ \A x : Append(Nothing, x) = <<x>> /\ Len(Append(Nothing, x)) = 1 /\ Append(Nothing, x)[1] = x
  /\ \A x, y : LET s == Append(Append(Nothing, x), y)
               IN Len(s) = 2 /\ s[1] = x /\ s[2] = y
  /\ Len(Nothing) = 0
BY DEF Nothing

(* The message that commits is of the text shown, or of the one just sent. *)
LEMMA HonestCommits ==
  ASSUME NEW e, NEW f, e.sent = Nothing, Honest(e, f), CommitAt(f.sent) > 0
  PROVE  LET at == CommitAt(f.sent)
             shown == IF at > 1 THEN f.sent[at - 1].cs ELSE Characters(e.view)
         IN f.sent[at].cs = shown
<1>1. CASE QuietTwice(e, f)
  <2>1. PICK g : Quiet(e, g) /\ Quiet(g, f)
    BY <1>1 DEF QuietTwice
  <2>2. \/ g.sent = Nothing
        \/ \E x : g.sent = Append(Nothing, x) /\ x.type # "commit"
    BY <2>1 DEF Quiet
  <2>3. \/ f.sent = Nothing
        \/ \E x : f.sent = Append(Nothing, x) /\ x.type # "commit"
        \/ \E x, y : f.sent = Append(Append(Nothing, x), y) /\ x.type # "commit" /\ y.type # "commit"
    <3>1. CASE g.sent = Nothing
      BY <2>1, <3>1 DEF Quiet
    <3>2. ASSUME NEW x, g.sent = Append(Nothing, x), x.type # "commit"
          PROVE  \/ f.sent = Append(Nothing, x)
                 \/ \E y : f.sent = Append(Append(Nothing, x), y) /\ y.type # "commit"
      BY <2>1, <3>2 DEF Quiet
    <3>3. QED  BY <2>2, <3>1, <3>2, Zenon
  <2>4. Len(f.sent) \in Nat /\ \A i \in 1..Len(f.sent) : f.sent[i].type # "commit"
    <3>1. CASE f.sent = Nothing
      BY <3>1, FewAre
    <3>2. ASSUME NEW x, f.sent = Append(Nothing, x), x.type # "commit"
          PROVE  Len(f.sent) \in Nat /\ \A i \in 1..Len(f.sent) : f.sent[i].type # "commit"
      BY <3>2, FewAre
    <3>3. ASSUME NEW x, NEW y, f.sent = Append(Append(Nothing, x), y),
                 x.type # "commit", y.type # "commit"
          PROVE  Len(f.sent) \in Nat /\ \A i \in 1..Len(f.sent) : f.sent[i].type # "commit"
      BY <3>3, FewAre
    <3>4. QED  BY <2>3, <3>1, <3>2, <3>3
  <2>5. CommitAt(f.sent) = 0
    BY <2>4, CommitFound
  <2>6. QED  BY <2>5
<1>2. CASE f.sent = Append(e.sent, Committed(Characters(e.view)))
  <2> DEFINE c == Committed(Characters(e.view))
  <2>1. c.type = "commit" /\ c.cs = Characters(e.view)
    BY DEF Committed
  <2> HIDE DEF c
  <2>2. Len(f.sent) = 1 /\ f.sent[1] = c
    BY <1>2, FewAre DEF c
  <2>3. CommitAt(f.sent) = 1
    BY <2>1, <2>2, CommitFound
  <2>4. QED  BY <2>1, <2>2, <2>3
<1>3. ASSUME NEW v, f.sent = Append(Append(e.sent, Preedit(v)), Committed(Characters(v)))
      PROVE  CommitAt(f.sent) = 2 /\ f.sent[2].cs = f.sent[1].cs
  <2> DEFINE p == Preedit(v)
             c == Committed(Characters(v))
  <2>1. c.type = "commit" /\ c.cs = Characters(v) /\ p.type = "preedit" /\ p.cs = Characters(v)
    BY DEF Committed, Preedit
  <2> HIDE DEF c, p
  <2>2. Len(f.sent) = 2 /\ f.sent[1] = p /\ f.sent[2] = c
    BY <1>3, FewAre DEF c, p
  <2>3. f.sent[2].type = "commit" /\ \A j \in 1..(2 - 1) : f.sent[j].type # "commit"
    BY <2>1, <2>2
  <2>4. CommitAt(f.sent) = 2
    BY <2>2, <2>3, CommitFound
  <2>5. QED  BY <2>1, <2>2, <2>4
<1>4. ASSUME NEW x, f.sent = Append(Append(e.sent, Committed(Characters(e.view))), x)
      PROVE  CommitAt(f.sent) = 1 /\ f.sent[1].cs = Characters(e.view)
  <2> DEFINE c == Committed(Characters(e.view))
  <2>1. c.type = "commit" /\ c.cs = Characters(e.view)
    BY DEF Committed
  <2> HIDE DEF c
  <2>2. Len(f.sent) = 2 /\ f.sent[1] = c
    BY <1>4, FewAre DEF c
  <2>3. CommitAt(f.sent) = 1
    BY <2>1, <2>2, CommitFound
  <2>4. QED  BY <2>1, <2>2, <2>3
<1>5. CASE \E v : f.sent = Append(Append(e.sent, Preedit(v)), Committed(Characters(v)))
  BY <1>3, <1>5
<1>6. CASE \E x : f.sent = Append(Append(e.sent, Committed(Characters(e.view))), x)
  BY <1>4, <1>6
<1>7. QED  BY <1>1, <1>2, <1>5, <1>6 DEF Honest

(* When an entry or a candidate is committed with nothing nested, the      *)
(* application gets the very text it showed last (f_commit and the modes   *)
(* of im/engine.cc).                                                       *)
THEOREM EngineCommits == Spec => CommitsWhatIsShown
<1> DEFINE Agrees == LET sent   == engine'.sent
                        commit == SelectInSeq(sent, LAMBDA x : x.type = "commit")
                        shown  == IF commit > 1 THEN sent[commit - 1].cs
                                  ELSE Characters(engine.view)
                    IN ~Nested(engine) /\ engine.mode \in {"word", "kanji", "choose"}
                       /\ commit > 0 => sent[commit].cs = shown
<1>1. IInv /\ [Next]_engine => [Agrees]_engine
  <2> SUFFICES ASSUME IInv, NEW key \in Keys, Press(key) PROVE Agrees
    BY DEF Next
  <2> DEFINE e == Fresh(engine)
             f == engine'
             at == CommitAt(f.sent)
  <2>1. /\ ~Nested(engine) /\ Composing(engine) => Honest(e, f)
        /\ e.sent = Nothing /\ e.view = engine.view
    BY KeyFromInvariant
  <2> HIDE DEF e
  <2>2. ASSUME ~Nested(engine), Composing(engine), at > 0
        PROVE  f.sent[at].cs = IF at > 1 THEN f.sent[at - 1].cs ELSE Characters(engine.view)
    BY <2>1, <2>2, HonestCommits
  <2>3. QED  BY <2>2 DEF Composing, CommitAt
<1>2. QED  BY <1>1, EngineInvariant, PTL DEF Spec, CommitsWhatIsShown
=============================================================================
