------------------------------ MODULE VarCodec ------------------------------
(***************************************************************************)
(* The variable-length code of dybuf.h for unsigned and signed numbers.    *)
(* The lead byte of a k-byte code starts with k - 1 ones and a zero; the   *)
(* other bits hold the number, less the least number that needs k bytes;   *)
(* after a lead byte of ones alone follows a full-width number.  The code  *)
(* is the same for every width W of a byte: dybuf.h has W = 8, where full  *)
(* width is 64 bits and the offsets are 0, 0x80, 0x4080, ...               *)
(***************************************************************************)
EXTENDS Integers, Sequences

CONSTANT W     \* bits of a byte

ASSUME VarCodecAssumption == W \in Nat \ {0, 1}

\* Two to the power of n.
Pow2[n \in Nat] == IF n = 0 THEN 1 ELSE 2 * Pow2[n - 1]

Q == Pow2[W]
Width == W * W

\* The weight of a byte before i others.
Place(i) == Pow2[W * i]

\* dyb_append_u8 ... dyb_append_u64 of a number of k bytes, the most
\* significant first, and dyb_next_u8 ... dyb_next_u64.
BytesReversed(n, k) == [i \in 1 .. k |-> (n \div Place(i - 1)) % Q]   \* a slip
Bytes(n, k) == [i \in 1 .. k |-> (n \div Place(k - i)) % Q]
Number(bs) ==
  LET upto[i \in 0 .. Len(bs)] == IF i = 0 THEN 0 ELSE upto[i - 1] * Q + bs[i]
  IN  upto[Len(bs)]

\* The least number whose code has k bytes: 0, 0x80, 0x4080, 0x204080 ...
Base[k \in Nat \ {0}] == IF k = 1 THEN 0 ELSE Base[k - 1] + Pow2[(W - 1) * (k - 1)]

\* A byte of j ones, followed by zeros: 0x80, 0xC0, 0xE0 ...
Ones(j) == Q - Pow2[W - j]

\* A slip: the first number of a tier is put into the tier before.
TierLate(v) == CHOOSE k \in 1 .. W + 1 : k <= W => v <= Base[k + 1]

\* The branches of dyb_append_var_u64.
Tier(v) == CHOOSE k \in 1 .. W + 1 : Base[k] <= v /\ (k <= W => v < Base[k + 1])

\* dyb_append_var_u64
VarU64(v) ==
  LET k == Tier(v)
      p == v - Base[k]
  IN  IF k <= W THEN Bytes(Ones(k - 1) * Place(k - 1) + p, k)
                ELSE <<Q - 1>> \o Bytes(p, W)

\* dyb_next_var_u64 of the bytes ahead: the value and the bytes it used.
NextVarU64(bs) ==
  LET k == CHOOSE j \in 1 .. W + 1 : bs[1] >= Ones(j - 1) /\ (j <= W => bs[1] < Ones(j))
  IN  IF k <= W
      THEN [val  |-> Number(SubSeq(bs, 1, k)) - Ones(k - 1) * Place(k - 1) + Base[k],
            used |-> k]
      ELSE [val  |-> (Number(SubSeq(bs, 2, W + 1)) + Base[k]) % Pow2[Width],
            used |-> W + 1]

\* (value << 1) ^ (value >> 63): small numbers of either sign become small.
ZigZag(s) == IF s >= 0 THEN 2 * s ELSE - 2 * s - 1

\* A slip: the sign is taken back without the complement.
UnZigNegate(u) == IF u % 2 = 0 THEN u \div 2 ELSE - (u \div 2)

UnZig(u) == IF u % 2 = 0 THEN u \div 2 ELSE - (u \div 2) - 1

\* dyb_append_var_s64, dyb_next_var_s64
VarS64(s) == VarU64(ZigZag(s))
NextVarS64(bs) == LET r == NextVarU64(bs) IN [r EXCEPT !.val = UnZig(@)]
=============================================================================
