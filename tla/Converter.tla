----------------------------- MODULE Converter -----------------------------
(***************************************************************************)
(* The conversions of xade/converter.h between characters and bytes,       *)
(* through buffers that may end anywhere.  A character is its code: one    *)
(* byte if it is below 128, or else two, as in the EUC encodings.          *)
(***************************************************************************)
EXTENDS Integers, Sequences, SequencesExt

CONSTANTS
  ChunkSize,   \* sizeof(cs) of t_iconv::f_to, in bytes
  EncoderSize, \* v_cs of t_encoder, in characters
  SourceSize,  \* v_mbs of t_decoder, in bytes
  DecoderSize  \* v_cs of t_decoder, in characters

ASSUME ConverterAssumption ==
  /\ {ChunkSize, SourceSize} \subseteq Nat \ {0, 1}
  /\ {EncoderSize, DecoderSize} \subseteq Nat \ {0}

Bytes(c) == IF c < 128 THEN <<c>> ELSE <<c \div 256, c % 256>>
Encoded(cs) == FlattenSeq([k \in DOMAIN cs |-> Bytes(cs[k])])

From(seq, k) == SubSeq(seq, k, Len(seq))

-----------------------------------------------------------------------------
(* iconv: what of the input it takes until the output is full (E2BIG) or   *)
(* the input ends in the middle of a character (EINVAL).                   *)
Fitting(cs, n) ==
  CHOOSE k \in 0..Len(cs) :
    /\ Len(Encoded(SubSeq(cs, 1, k))) <= n
    /\ k = Len(cs) \/ Len(Encoded(SubSeq(cs, 1, k + 1))) > n

(* At most n characters. *)
Decode(bytes, n) ==
  LET size(k) == IF bytes[k] < 128 THEN 1 ELSE 2
      code(k) == IF size(k) = 1 THEN bytes[k] ELSE bytes[k] * 256 + bytes[k + 1]
      Ended(k, error) == [cs |-> <<>>, rest |-> From(bytes, k), error |-> error]
      run[k \in 1..Len(bytes) + 1, m \in 0..n] ==
        CASE k > Len(bytes)               -> Ended(k, "none")
          [] k + size(k) > Len(bytes) + 1 -> Ended(k, "EINVAL")
          [] m = n                        -> Ended(k, "E2BIG")
          [] OTHER -> LET r == run[k + size(k), m + 1]
                      IN [r EXCEPT !.cs = <<code(k)>> \o @]
  IN run[1, 0]

-----------------------------------------------------------------------------
(* t_iconv::f_to: chunk by chunk. *)
Converted(cs) ==
  LET to[k \in 0..Len(cs)] ==
        LET n == Fitting(From(cs, k + 1), ChunkSize)
        IN Encoded(SubSeq(cs, k + 1, k + n))
           \o IF k + n = Len(cs) THEN <<>> ELSE to[k + n]
  IN to[0]

(* t_encoder: its operators, and its destructor. *)
Flushed(encoder) ==
  [held |-> <<>>, out |-> encoder.out \o Converted(encoder.held)]

Put(encoder, c) ==
  LET e == IF Len(encoder.held) >= EncoderSize THEN Flushed(encoder) ELSE encoder
  IN [e EXCEPT !.held = Append(@, c)]

EncoderOutput(cs) ==
  Flushed(FoldLeft(Put, [held |-> <<>>, out |-> <<>>], cs)).out

(* t_decoder: all that its operator returns until WEOF, from a position of *)
(* a file.  left is what lies between v_p0 and v_q0, and at the front of   *)
(* v_mbs only then is more read behind it.                                 *)
Decoder == [left : Seq(Nat), front : BOOLEAN, at : Nat]

DecoderOutput(file, position) ==
  LET Read(d) ==
        IF d.front
        THEN SubSeq(file, d.at + 1,
                    Min({d.at + SourceSize - Len(d.left), Len(file)}))
        ELSE <<>>
      next[d \in Decoder] ==
        LET r == Decode(d.left \o Read(d), DecoderSize)
        IN IF d.front /\ Read(d) = <<>> THEN <<>>
           ELSE r.cs \o next[[left |-> r.rest, front |-> r.error # "E2BIG",
                              at |-> d.at + Len(Read(d))]]
  IN next[[left |-> <<>>, front |-> TRUE, at |-> position]]
=============================================================================
