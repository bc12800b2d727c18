---------------------------- MODULE MCDictionary ----------------------------
EXTENDS BasicDictionary

(* Two kana, in two bytes each, and two consonants. *)
A == 42146
I == 42148
K == 107
S == 115

Plain  == <<A, I>>
Marked == <<A, Close, Slash>>
Edged  == <<Open, Backslash, Semicolon>>

SomeContents ==
  {Missing,
   [aris |-> <<A, K>> :> <<Plain, Marked>>, nasis |-> Nothing],
   [aris  |-> <<A, K>> :> <<Marked>> @@ <<A, A, K>> :> <<Plain, Edged>> @@ <<A, S>> :> <<Plain>>,
    nasis |-> <<A>> :> <<Plain>> @@ <<A, A>> :> <<Edged, Plain>> @@ <<I>> :> <<Marked, Edged>>]}

Ari(entry, okuri)  == [ari |-> TRUE, entry |-> entry, okuri |-> okuri]
Nasi(entry)        == [ari |-> FALSE, entry |-> entry, okuri |-> <<>>]

SomeQuestions ==
  {Ari(<<A, K>>, <<I>>), Ari(<<A, K>>, <<A>>), Ari(<<A, A, K>>, <<I>>),
   Ari(<<I, K>>, <<I>>),
   Nasi(<<A>>), Nasi(<<A, A>>), Nasi(<<I>>), Nasi(<<A, I>>)}

Learnt(q, text) == [ari |-> q.ari, entry |-> q.entry, okuri |-> q.okuri, text |-> text]

SomeRegistrations ==
  {Learnt(Ari(<<A, K>>, <<I>>), x) : x \in {Plain, Edged}}
  \cup {Learnt(Ari(<<A, K>>, <<A>>), Marked)}
  \cup {Learnt(Nasi(<<A>>), x) : x \in {Edged, Marked}}
  \cup {Learnt(Nasi(<<I>>), Plain)}

(* Every search of a file that a question leads to. *)
SomeSearches ==
  {SeparatorSearch(PublicFile(c)) : c \in SomeContents}
  \cup UNION {LET s == SeparatorSearch(PublicFile(c)) IN
              {EntrySearch(q, s, p) : q \in SomeQuestions,
                                      p \in {l \in Lines(s) : EqualLine(s, l)}} :
              c \in SomeContents}
=============================================================================
