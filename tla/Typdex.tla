------------------------------- MODULE Typdex -------------------------------
(***************************************************************************)
(* The tags of dybuf.h: a type and an index in one to four bytes.  A tag   *)
(* of t bytes starts with t - 1 ones and a zero, followed by the bits of   *)
(* the type and those of the index.                                        *)
(***************************************************************************)
EXTENDS Integers, Sequences

C == INSTANCE VarCodec WITH W <- 8

TypBits == <<4, 6, 8, 8>>
IdxBits == <<3, 8, 13, 20>>

\* A slip: off by one.
FitsLoose(type, index, t) == type < C!Pow2[TypBits[t]] /\ index <= C!Pow2[IdxBits[t]]

Fits(type, index, t) == type < C!Pow2[TypBits[t]] /\ index < C!Pow2[IdxBits[t]]

\* The last whole bytes of the index stand on their own; the bytes before
\* hold the lead, the type and the rest of the index.
Low(t) == IdxBits[t] \div 8
High(t) == IdxBits[t] - 8 * Low(t)

\* dyb_append_typdex: nothing, and null, when no tag has room.
Tag(type, index) ==
  IF \E t \in 1 .. 4 : Fits(type, index, t)
  THEN LET t == CHOOSE i \in 1 .. 4 : /\ Fits(type, index, i)
                                      /\ \A j \in 1 .. i - 1 : ~Fits(type, index, j)
           low == C!Pow2[8 * Low(t)]
       IN  C!Bytes((C!Pow2[t] - 2) * C!Pow2[TypBits[t] + High(t)]
                     + type * C!Pow2[High(t)] + index \div low, t - Low(t))
             \o C!Bytes(index % low, Low(t))
  ELSE <<>>

\* dyb_peek_typdex of the bytes ahead, and how many of them dyb_next_typdex
\* uses: none when the lead is none of the four.
NextTypdex(bs) ==
  IF bs[1] >= 240 THEN [type |-> bs[1], index |-> 0, used |-> 0]
  ELSE LET t == CHOOSE i \in 1 .. 4 : bs[1] >= C!Ones(i - 1) /\ bs[1] < C!Ones(i)
           n == C!Number(SubSeq(bs, 1, t - Low(t)))
       IN  [type  |-> (n \div C!Pow2[High(t)]) % C!Pow2[TypBits[t]],
            index |-> (n % C!Pow2[High(t)]) * C!Pow2[8 * Low(t)]
                        + C!Number(SubSeq(bs, t - Low(t) + 1, t)),
            used  |-> t]
=============================================================================
