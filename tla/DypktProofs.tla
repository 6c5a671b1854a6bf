---------------------------- MODULE DypktProofs ----------------------------
(***************************************************************************)
(* Packets of Dypkt, for any items, any memory of the writer and packets   *)
(* of any length: the reader sees what the writer appended, all of it.     *)
(***************************************************************************)
EXTENDS Dypkt, FiniteSetTheorems, TLAPS

\* What is known of codes and tags, at the width of a byte.
P == INSTANCE CodeProofs WITH W <- 8, Indexes <- << 0 >>, v <- 0

----------------------------------------------------------------------------
(* Codes                                                                   *)

\* The operators of Typdex and those of CodeProofs are the same.
LEMMA SamePowers ==
  P!Pow2 = C!Pow2 /\ P!Base = C!Base /\ P!X!C!Pow2 = C!Pow2
BY DEF P!Pow2, C!Pow2, P!Base, C!Base, P!X!C!Pow2

\* The parts of a code.
LEMMA SameParts ==
  /\ \A j : P!Ones(j) = C!Ones(j) /\ P!Place(j) = C!Place(j) /\ P!Tier(j) = C!Tier(j)
  /\ \A j : P!X!C!Ones(j) = C!Ones(j) /\ P!X!C!Place(j) = C!Place(j)
  /\ P!Q = C!Q /\ P!X!C!Q = C!Q /\ P!Width = C!Width
BY SamePowers DEF P!Ones, C!Ones, P!Place, C!Place, P!Q, C!Q, P!Tier, C!Tier, P!Width, C!Width,
     P!X!C!Ones, P!X!C!Place, P!X!C!Q

\* Bytes of numbers and numbers of bytes.
LEMMA SameBytes ==
  /\ \A n, k : P!Bytes(n, k) = C!Bytes(n, k) /\ P!X!C!Bytes(n, k) = C!Bytes(n, k)
  /\ \A bs : P!Number(bs) = C!Number(bs) /\ P!X!C!Number(bs) = C!Number(bs)
BY Zenon DEF P!Bytes, C!Bytes, P!Number, C!Number, P!Place, C!Place, C!Pow2, P!Pow2, P!Q, C!Q,
     P!X!C!Bytes, P!X!C!Number, P!X!C!Place, P!X!C!Pow2, P!X!C!Q

\* Codes and tags.
LEMMA SameCodes ==
  /\ \A n : P!VarU64(n) = C!VarU64(n)
  /\ \A bs : P!NextVarU64(bs) = C!NextVarU64(bs)
BY SamePowers, SameParts, SameBytes DEF P!VarU64, C!VarU64, P!NextVarU64, C!NextVarU64

\* Tags.
LEMMA SameTags ==
  /\ \A t : P!X!Low(t) = Low(t) /\ P!X!High(t) = High(t)
  /\ \A y, x, t : P!X!Fits(y, x, t) <=> Fits(y, x, t)
  /\ \A y, x : P!X!Tag(y, x) = Tag(y, x)
  /\ \A bs : P!X!NextTypdex(bs) = NextTypdex(bs)
<1>1. P!X!TypBits = TypBits /\ P!X!IdxBits = IdxBits
  BY DEF P!X!TypBits, TypBits, P!X!IdxBits, IdxBits
<1>2. \A t : P!X!Low(t) = Low(t) /\ P!X!High(t) = High(t)
  BY <1>1 DEF P!X!Low, Low, P!X!High, High
<1>3. \A y, x, t : P!X!Fits(y, x, t) <=> Fits(y, x, t)
  BY <1>1, SamePowers DEF P!X!Fits, Fits
<1>4. \A y, x : P!X!Tag(y, x) = Tag(y, x)
  <2> SUFFICES ASSUME NEW y, NEW x PROVE P!X!Tag(y, x) = Tag(y, x)
    OBVIOUS
  <2> DEFINE t == CHOOSE i \in 1 .. 4 : Fits(y, x, i) /\ \A j \in 1 .. i - 1 : ~Fits(y, x, j)
             u == CHOOSE i \in 1 .. 4 :
                    P!X!Fits(y, x, i) /\ \A j \in 1 .. i - 1 : ~P!X!Fits(y, x, j)
  <2>1. t = u
    BY Zenon DEF P!X!Fits, Fits, P!X!TypBits, TypBits, P!X!IdxBits, IdxBits, P!X!C!Pow2, C!Pow2
  <2>2. (\E i \in 1 .. 4 : P!X!Fits(y, x, i)) <=> \E i \in 1 .. 4 : Fits(y, x, i)
    BY <1>3
  <2> DEFINE a == (C!Pow2[t] - 2) * C!Pow2[TypBits[t] + High(t)] + y * C!Pow2[High(t)]
                    + x \div C!Pow2[8 * Low(t)]
             b == x % C!Pow2[8 * Low(t)]
             c == (P!X!C!Pow2[u] - 2) * P!X!C!Pow2[P!X!TypBits[u] + P!X!High(u)]
                    + y * P!X!C!Pow2[P!X!High(u)] + x \div P!X!C!Pow2[8 * P!X!Low(u)]
             d == x % P!X!C!Pow2[8 * P!X!Low(u)]
  <2>3. Tag(y, x) = IF \E i \in 1 .. 4 : Fits(y, x, i)
                    THEN C!Bytes(a, t - Low(t)) \o C!Bytes(b, Low(t)) ELSE <<>>
    BY Zenon DEF Tag
  <2>4. P!X!Tag(y, x) = IF \E i \in 1 .. 4 : P!X!Fits(y, x, i)
                        THEN P!X!C!Bytes(c, u - P!X!Low(u)) \o P!X!C!Bytes(d, P!X!Low(u)) ELSE <<>>
    BY Zenon DEF P!X!Tag
  <2>5. a = c /\ b = d
    <3> HIDE DEF t, u
    <3> QED
      BY <1>1, <1>2, <2>1, SamePowers
  <2> HIDE DEF a, b, c, d, t, u
  <2> QED
    BY <1>2, <2>1, <2>2, <2>3, <2>4, <2>5, SameBytes
<1>5. \A bs : P!X!NextTypdex(bs) = NextTypdex(bs)
  BY <1>1, <1>2, SamePowers, SameParts, SameBytes, Zenon DEF P!X!NextTypdex, NextTypdex
<1> QED
  BY <1>2, <1>3, <1>4, <1>5

\* The sequence of indexes CodeProofs asks for.
LEMMA OneIndex == << 0 >> \in Seq(Nat) \ {<<>>} /\ 8 \in Nat \ {0, 1}
OBVIOUS

\* Numbers of 64 bits are those below the largest power.
LEMMA U64Is ==
  ASSUME NEW n, IsU64(n)
  PROVE  n \in Nat /\ n < C!Pow2[C!Width]
<1> DEFINE p == C!Pow2[30]
<1>1. /\ p \in Nat \ {0} /\ C!Pow2[60] = p * p /\ C!Pow2[64] = C!Pow2[60] * 16
      /\ C!Pow2[60] \in Nat \ {0}
  <2>1. P!Pow2[30] \in Nat \ {0} /\ P!Pow2[60] \in Nat \ {0}
    BY P!Pow2Is, OneIndex
  <2>2. P!Pow2[30 + 30] = P!Pow2[30] * P!Pow2[30] /\ P!Pow2[60 + 4] = P!Pow2[60] * P!Pow2[4]
    BY P!Pow2Sum, OneIndex
  <2>3. 30 + 30 = 60 /\ 60 + 4 = 64
    OBVIOUS
  <2>4. P!X!C!Pow2[4] = 16
    BY P!Powers, OneIndex
  <2> QED
    BY <2>1, <2>2, <2>3, <2>4, SamePowers
<1>2. n \in Nat /\ (n \div p) \div p < 16
  BY DEF IsU64
<1> HIDE DEF p
<1>3. (n \div p) \div p = n \div (p * p)
  BY <1>1, <1>2, P!DivDiv, OneIndex
<1> DEFINE q == C!Pow2[60]
           d == n \div q
<1>4. d < 16
  BY <1>1, <1>2, <1>3
<1>5. d \in Nat /\ n % q \in 0 .. q - 1 /\ n = q * d + (n % q)
  BY <1>1, <1>2, P!DivHas, OneIndex
<1> DEFINE r == n % q
<1>6. n < q * 16
  <2> HIDE DEF q, d, r
  <2>1. q \in Nat /\ r \in Nat /\ r < q /\ d + 1 <= 16
    BY <1>1, <1>4, <1>5 DEF q, r
  <2>2. n = q * d + r
    BY <1>5 DEF r
  <2>3. q * (d + 1) = q * d + q * 1 /\ q * (d + 1) <= q * 16
    BY <1>5, <2>1, P!Products, OneIndex
  <2>4. q * d \in Nat /\ q * (d + 1) \in Nat /\ q * 16 \in Nat /\ q * 1 = q
    BY <1>5, <2>1, P!Products, OneIndex
  <2> DEFINE a == q * d
             b == q * (d + 1)
             c == q * 16
  <2>5. n = a + r /\ b = a + q /\ b <= c /\ a \in Nat /\ b \in Nat /\ c \in Nat
    BY <2>2, <2>3, <2>4
  <2> HIDE DEF a, b, c
  <2>6. n < c
    BY <2>1, <2>5
  <2> QED
    BY <2>6 DEF c
<1>7. C!Width = 64
  BY DEF C!Width
<1> QED
  BY <1>1, <1>2, <1>6, <1>7

\* A number is read back, whatever follows.
LEMMA Numbers ==
  ASSUME NEW w, IsU64(w)
  PROVE  /\ C!VarU64(w) \in Seq(Nat) /\ Len(C!VarU64(w)) \in Nat \ {0}
         /\ \A tail \in Seq(Nat) :
              C!NextVarU64(C!VarU64(w) \o tail) = [val |-> w, used |-> Len(C!VarU64(w))]
<1>1. P!Pow2[P!Width] = C!Pow2[C!Width]
  BY SamePowers, SameParts
<1>2. w \in Nat /\ w < P!Pow2[P!Width]
  BY <1>1, U64Is
<1>3. P!VarU64(w) \in Seq(Nat) /\ Len(P!VarU64(w)) \in Nat \ {0}
  BY <1>2, OneIndex, P!CodeBytesAre
<1>4. ASSUME NEW tail \in Seq(Nat)
      PROVE  P!NextVarU64(P!VarU64(w) \o tail) = [val |-> w, used |-> Len(P!VarU64(w))]
  BY <1>2, OneIndex, P!NumbersReturn
<1> QED
  BY <1>3, <1>4, SameCodes

\* So is a signed one.
LEMMA SignedNumbers ==
  ASSUME NEW s \in Int, IsU64(C!ZigZag(s))
  PROVE  /\ C!VarS64(s) \in Seq(Nat) /\ Len(C!VarS64(s)) \in Nat \ {0}
         /\ \A tail \in Seq(Nat) :
              C!NextVarS64(C!VarS64(s) \o tail) = [val |-> s, used |-> Len(C!VarS64(s))]
<1> DEFINE u == C!ZigZag(s)
<1>1. C!UnZig(u) = s
  BY DEF C!UnZig, C!ZigZag
<1> HIDE DEF u
<1>2. IsU64(u) /\ C!VarS64(s) = C!VarU64(u)
  BY DEF u, C!VarS64
<1>3. ASSUME NEW tail \in Seq(Nat)
      PROVE  C!NextVarS64(C!VarS64(s) \o tail) = [val |-> s, used |-> Len(C!VarS64(s))]
  <2> DEFINE r == C!NextVarU64(C!VarU64(u) \o tail)
             l == Len(C!VarU64(u))
  <2>1. r = [val |-> u, used |-> l]
    BY <1>2, Numbers
  <2>2. C!NextVarS64(C!VarU64(u) \o tail) = [r EXCEPT !.val = C!UnZig(r.val)]
    BY DEF C!NextVarS64
  <2> HIDE DEF r, l
  <2>3. [r EXCEPT !.val = C!UnZig(r.val)] = [val |-> s, used |-> l]
    BY <1>1, <2>1
  <2> QED
    BY <1>2, <2>2, <2>3 DEF l
<1> QED
  BY <1>2, <1>3, Numbers

\* And so is a tag.
LEMMA Tags ==
  ASSUME NEW y \in 0 .. 255, NEW x \in 0 .. C!Pow2[20] - 1
  PROVE  /\ Tag(y, x) \in Seq(Nat) /\ Len(Tag(y, x)) \in Nat \ {0}
         /\ \A tail \in Seq(Nat) :
              NextTypdex(Tag(y, x) \o tail) = [type |-> y, index |-> x, used |-> Len(Tag(y, x))]
<1>1. P!Pow2[20] \in Nat
  BY P!Pow2Is, OneIndex
<1>2. y \in Nat /\ y < 256 /\ x \in Nat /\ x < P!X!C!Pow2[20]
  BY <1>1, SamePowers
<1>3. P!X!Tag(y, x) \in Seq(Nat) /\ Len(P!X!Tag(y, x)) \in 1 .. 4
  BY <1>2, OneIndex, P!TagBytesAre
<1>4. ASSUME NEW tail \in Seq(Nat)
      PROVE  P!X!NextTypdex(P!X!Tag(y, x) \o tail)
               = [type |-> y, index |-> x, used |-> Len(P!X!Tag(y, x))]
  BY <1>2, OneIndex, P!TagsReturn
<1>5. P!X!Tag(y, x) = Tag(y, x)
  BY SameTags
<1>6. ASSUME NEW tail \in Seq(Nat)
      PROVE  NextTypdex(Tag(y, x) \o tail) = [type |-> y, index |-> x, used |-> Len(Tag(y, x))]
  <2>1. P!X!NextTypdex(Tag(y, x) \o tail) = NextTypdex(Tag(y, x) \o tail)
    BY SameTags
  <2> QED
    BY <1>4, <1>5, <2>1
<1>7. Tag(y, x) \in Seq(Nat) /\ Len(Tag(y, x)) \in Nat \ {0}
  <2>1. Tag(y, x) \in Seq(Nat) /\ Len(Tag(y, x)) \in 1 .. 4
    BY <1>3, <1>5, Zenon
  <2>2. \A n \in 1 .. 4 : n \in Nat \ {0}
    OBVIOUS
  <2> QED
    BY <2>1, <2>2, Zenon
<1> QED
  BY <1>6, <1>7

----------------------------------------------------------------------------
(* Items                                                                   *)

\* The types.
LEMMA Types ==
  /\ dype_bool = 1 /\ dype_int = 2 /\ dype_uint = 3 /\ dype_float = 6 /\ dype_double = 7
  /\ dype_string = 10 /\ dype_bytes = 11 /\ dype_f = 15
BY DEF dype_bool, dype_int, dype_uint, dype_float, dype_double, dype_string, dype_bytes, dype_f

\* A number is no text.
LEMMA Kinds ==
  ASSUME NEW y, NEW k
  PROVE  /\ IsNumber(y, k) => y \in {3, 15}
         /\ IsText(y, k) => y \in {10, 15} /\ ~IsNumber(y, k)
BY Types DEF IsNumber, IsText, dype_f_version, dype_f_protocol, dype_f_proto_version

\* How a value of each type is read.
LEMMA ValueIs ==
  ASSUME NEW y, NEW k, NEW bs
  PROVE  /\ y = 1 => Value(y, k, bs) = [val |-> IF bs[1] # 0 THEN 1 ELSE 0, skip |-> 1, len |-> 0]
         /\ y = 2 => Value(y, k, bs) = Number(C!NextVarS64(bs))
         /\ IsNumber(y, k) => Value(y, k, bs) = Number(C!NextVarU64(bs))
         /\ y = 6 => Value(y, k, bs) = Raw(bs, 4)
         /\ y = 7 => Value(y, k, bs) = Raw(bs, 8)
         /\ IsText(y, k) => Value(y, k, bs) = Text(bs)
         /\ y = 11 => Value(y, k, bs) = Counted(bs, 0)
         /\ y = 15 /\ ~IsNumber(y, k) /\ ~IsText(y, k)
              => Value(y, k, bs) = [val |-> <<>>, skip |-> 0, len |-> 0]
<1> DEFINE a == [val |-> IF bs[1] # 0 THEN 1 ELSE 0, skip |-> 1, len |-> 0]
           b == Number(C!NextVarS64(bs))
           c == Number(C!NextVarU64(bs))
           z == [val |-> <<>>, skip |-> 0, len |-> 0]
<1>1. Value(y, k, bs) =
        CASE y = dype_bool -> a [] y = dype_int -> b [] IsNumber(y, k) -> c
          [] y = dype_float -> Raw(bs, 4) [] y = dype_double -> Raw(bs, 8)
          [] IsText(y, k) -> Text(bs) [] y = dype_bytes -> Counted(bs, 0) [] OTHER -> z
  BY DEF Value
<1> HIDE DEF a, b, c, z
<1>2. Value(y, k, bs) =
        CASE y = 1 -> a [] y = 2 -> b [] IsNumber(y, k) -> c
          [] y = 6 -> Raw(bs, 4) [] y = 7 -> Raw(bs, 8)
          [] IsText(y, k) -> Text(bs) [] y = 11 -> Counted(bs, 0) [] OTHER -> z
  BY <1>1, Types
<1> QED
  BY <1>2, Kinds DEF a, b, c, z

\* What is written of each.
LEMMA PartsAre ==
  ASSUME NEW x
  PROVE  /\ x.type = 1 => ValueParts(x) = <<<<x.val>>>>
         /\ x.type = 2 => ValueParts(x) = <<C!VarS64(x.val)>>
         /\ IsNumber(x.type, x.index) => ValueParts(x) = <<C!VarU64(x.val)>>
         /\ x.type \in {6, 7} => ValueParts(x) = <<x.val>>
         /\ IsText(x.type, x.index)
              => ValueParts(x) = <<C!VarU64(Len(x.val) + 1), x.val \o << 0 >>>>
         /\ x.type = 11 => ValueParts(x) = <<C!VarU64(Len(x.val)), x.val>>
         /\ x.type = 15 /\ ~IsNumber(x.type, x.index) /\ ~IsText(x.type, x.index)
              => ValueParts(x) = <<>>
<1> DEFINE y == x.type
           k == x.index
           a == <<<<x.val>>>>
           b == <<C!VarS64(x.val)>>
           c == <<C!VarU64(x.val)>>
           d == <<x.val>>
           e == <<C!VarU64(Len(x.val) + 1), x.val \o << 0 >>>>
           f == <<C!VarU64(Len(x.val)), x.val>>
           fl == y \in {dype_float, dype_double}
<1>1. ValueParts(x) =
        CASE y = dype_bool -> a [] y = dype_int -> b [] IsNumber(y, k) -> c
          [] fl -> d [] IsText(y, k) -> e [] y = dype_bytes -> f [] OTHER -> <<>>
  BY DEF ValueParts
<1>0. fl <=> (y = 6 \/ y = 7)
  BY Types
<1> HIDE DEF a, b, c, d, e, f, fl
<1>2. ValueParts(x) =
        CASE y = 1 -> a [] y = 2 -> b [] IsNumber(y, k) -> c
          [] fl -> d [] IsText(y, k) -> e [] y = 11 -> f [] OTHER -> <<>>
  BY <1>1, Types
<1>3. (IsNumber(y, k) => y = 3 \/ y = 15) /\ (IsText(y, k) => (y = 10 \/ y = 15) /\ ~IsNumber(y, k))
  BY Kinds
<1>4. y = 1 => ValueParts(x) = a
  BY <1>0, <1>2, <1>3
<1>5. y = 2 => ValueParts(x) = b
  BY <1>0, <1>2, <1>3
<1>6. IsNumber(y, k) => ValueParts(x) = c
  BY <1>0, <1>2, <1>3
<1>7. y = 6 \/ y = 7 => ValueParts(x) = d
  BY <1>0, <1>2, <1>3
<1>8. IsText(y, k) => ValueParts(x) = e
  BY <1>0, <1>2, <1>3
<1>9. y = 11 => ValueParts(x) = f
  BY <1>0, <1>2, <1>3
<1>10. y = 15 /\ ~IsNumber(y, k) /\ ~IsText(y, k) => ValueParts(x) = <<>>
  BY <1>0, <1>2, <1>3
<1> QED
  BY <1>4, <1>5, <1>6, <1>7, <1>8, <1>9, <1>10 DEF a, b, c, d, e, f

\* The function with which sequences are put one after the other.
F(s, f) == f = [i \in 1 .. Len(s) |-> IF i = 1 THEN s[i] ELSE f[i - 1] \o s[i]]

\* Up to three sequences, one after the other.
LEMMA FlatFew ==
  ASSUME NEW a, NEW b, NEW c
  PROVE  /\ FlattenSeq(<<a>>) = a /\ FlattenSeq(<<a, b>>) = a \o b
         /\ FlattenSeq(<<a, b, c>>) = (a \o b) \o c /\ FlattenSeq(<<>>) = <<>>
<1>1. ASSUME NEW s, NEW n \in 1 .. 3, Len(s) = n
      PROVE  \E f : FlattenSeq(s) = f[n] /\ F(s, f)
  <2> DEFINE h(i) == IF i = 1 THEN s[1] ELSE IF i = 2 THEN s[1] \o s[2] ELSE (s[1] \o s[2]) \o s[3]
             g == [i \in 1 .. n |-> h(i)]
  <2>1. F(s, g)
    <3>1. ASSUME NEW i \in 1 .. n
          PROVE  h(i) = IF i = 1 THEN s[i] ELSE g[i - 1] \o s[i]
      <4>1. CASE i = 1
        BY <4>1
      <4>2. CASE i = 2
        <5>1. 1 \in 1 .. n
          BY <4>2
        <5>2. g[1] = h(1)
          BY <5>1
        <5> HIDE DEF g
        <5>3. h(1) = s[1] /\ h(2) = s[1] \o s[2] /\ 2 - 1 = 1 /\ 2 # 1
          OBVIOUS
        <5> HIDE DEF h
        <5> QED
          BY <4>2, <5>2, <5>3
      <4>3. CASE i = 3
        <5>1. 2 \in 1 .. n
          BY <4>3
        <5>2. g[2] = h(2) /\ h(2) = s[1] \o s[2]
          <6>1. h(2) = s[1] \o s[2]
            OBVIOUS
          <6> HIDE DEF h
          <6> QED
            BY <5>1, <6>1
        <5> HIDE DEF g
        <5>3. h(3) = (s[1] \o s[2]) \o s[3] /\ 3 - 1 = 2 /\ 3 # 1
          OBVIOUS
        <5> HIDE DEF h
        <5> QED
          BY <4>3, <5>2, <5>3
      <4>4. i = 1 \/ i = 2 \/ i = 3
        OBVIOUS
      <4> QED
        BY <4>1, <4>2, <4>3, <4>4
    <3>2. [i \in 1 .. n |-> h(i)] = [i \in 1 .. n |-> IF i = 1 THEN s[i] ELSE g[i - 1] \o s[i]]
      <4> HIDE DEF h, g
      <4> QED
        BY <3>1, Zenon
    <3> HIDE DEF h
    <3> QED
      BY <1>1, <3>2, Zenon DEF F
  <2> DEFINE f == CHOOSE u : u = [i \in 1 .. Len(s) |-> IF i = 1 THEN s[i] ELSE u[i - 1] \o s[i]]
  <2>2. F(s, f)
    <3> HIDE DEF g
    <3> QED
      BY <2>1, Zenon DEF F
  <2>3. FlattenSeq(s) = f[n]
    <3>1. FlattenSeq(s) = IF Len(s) = 0 THEN s ELSE f[Len(s)]
      BY Zenon DEF FlattenSeq
    <3>2. n # 0
      OBVIOUS
    <3> HIDE DEF f
    <3> QED
      BY <1>1, <3>1, <3>2
  <2> HIDE DEF f
  <2> QED
    BY <2>2, <2>3
<1>2. FlattenSeq(<<a>>) = a
  <2> DEFINE s == <<a>>
  <2>1. Len(s) = 1 /\ s[1] = a
    OBVIOUS
  <2> HIDE DEF s
  <2>2. PICK f : FlattenSeq(s) = f[1] /\ F(s, f)
    BY <1>1, <2>1
  <2> QED
    BY <2>1, <2>2 DEF s, F
<1>3. FlattenSeq(<<a, b>>) = a \o b
  <2> DEFINE s == <<a, b>>
  <2>1. Len(s) = 2 /\ s[1] = a /\ s[2] = b
    OBVIOUS
  <2> HIDE DEF s
  <2>2. PICK f : FlattenSeq(s) = f[2] /\ F(s, f)
    BY <1>1, <2>1
  <2>3. f[1] = a /\ f[2] = f[1] \o b
    BY <2>1, <2>2 DEF F
  <2> QED
    BY <2>1, <2>2, <2>3 DEF s
<1>4. FlattenSeq(<<a, b, c>>) = (a \o b) \o c
  <2> DEFINE s == <<a, b, c>>
  <2>1. Len(s) = 3 /\ s[1] = a /\ s[2] = b /\ s[3] = c
    OBVIOUS
  <2> HIDE DEF s
  <2>2. PICK f : FlattenSeq(s) = f[3] /\ F(s, f)
    BY <1>1, <2>1
  <2>3. f[1] = a /\ f[2] = f[1] \o b /\ f[3] = f[2] \o c
    <3> DEFINE e(i) == IF i = 1 THEN s[i] ELSE f[i - 1] \o s[i]
               h == [i \in 1 .. 3 |-> e(i)]
    <3>1. e(1) = s[1] /\ e(2) = f[1] \o s[2] /\ e(3) = f[2] \o s[3]
      OBVIOUS
    <3>0. h[1] = e(1) /\ h[2] = e(2) /\ h[3] = e(3)
      <4> HIDE DEF e
      <4> QED
        OBVIOUS
    <3> HIDE DEF h
    <3>2. f = h
      BY <2>1, <2>2, Zenon DEF F, h
    <3> HIDE DEF e
    <3> QED
      BY <2>1, <3>0, <3>1, <3>2
  <2> QED
    BY <2>1, <2>2, <2>3 DEF s
<1>5. FlattenSeq(<<>>) = <<>>
  BY DEF FlattenSeq
<1> QED
  BY <1>2, <1>3, <1>4, <1>5

\* Two sequences, one after the other.
LEMMA JoinTwo ==
  ASSUME NEW a \in Seq(Nat), NEW b \in Seq(Nat)
  PROVE  /\ a \o b \in Seq(Nat) /\ Len(a \o b) = Len(a) + Len(b)
         /\ Len(a) \in Nat /\ Len(b) \in Nat
         /\ a \o b = [i \in 1 .. Len(a) + Len(b) |-> (a \o b)[i]]
         /\ \A i \in 1 .. Len(a) : (a \o b)[i] = a[i]
         /\ \A i \in 1 .. Len(b) : (a \o b)[Len(a) + i] = b[i]
<1> DEFINE s == a \o b
<1>1. s \in Seq(Nat) /\ Len(s) = Len(a) + Len(b) /\ Len(a) \in Nat /\ Len(b) \in Nat
  OBVIOUS
<1>2. \A i \in 1 .. Len(a) : s[i] = a[i]
  OBVIOUS
<1>3. \A i \in 1 .. Len(b) : s[Len(a) + i] = b[i]
  OBVIOUS
<1>4. s = [i \in 1 .. Len(a) + Len(b) |-> s[i]]
  <2> HIDE DEF s
  <2> QED
    BY <1>1
<1> QED
  BY <1>1, <1>2, <1>3, <1>4

\* Joining is associative.
LEMMA Assoc ==
  ASSUME NEW a \in Seq(Nat), NEW b \in Seq(Nat), NEW c \in Seq(Nat)
  PROVE  (a \o b) \o c = a \o (b \o c)
<1> DEFINE l == Len(a)
           m == Len(b)
           n == Len(c)
           d == a \o b
           e == b \o c
           u == d \o c
           w == a \o e
<1>1. /\ l \in Nat /\ m \in Nat /\ n \in Nat
      /\ d \in Seq(Nat) /\ Len(d) = l + m /\ e \in Seq(Nat) /\ Len(e) = m + n
  BY JoinTwo
<1>2. (\A i \in 1 .. l : d[i] = a[i]) /\ (\A i \in 1 .. m : d[l + i] = b[i])
  BY JoinTwo
<1>3. (\A i \in 1 .. m : e[i] = b[i]) /\ (\A i \in 1 .. n : e[m + i] = c[i])
  BY JoinTwo
<1> HIDE DEF d, e
<1>4. /\ u = [i \in 1 .. Len(d) + n |-> u[i]]
      /\ \A i \in 1 .. Len(d) : u[i] = d[i]
      /\ \A i \in 1 .. n : u[Len(d) + i] = c[i]
  BY <1>1, JoinTwo
<1>5. /\ w = [i \in 1 .. l + Len(e) |-> w[i]]
      /\ \A i \in 1 .. l : w[i] = a[i]
      /\ \A i \in 1 .. Len(e) : w[l + i] = e[i]
  BY <1>1, JoinTwo
<1> HIDE DEF l, m, n, u, w
<1>6. ASSUME NEW i \in 1 .. l + m + n PROVE u[i] = w[i]
  <2>1. CASE i <= l
    <3>1. i \in 1 .. l /\ i \in 1 .. l + m
      BY <1>1, <2>1
    <3> QED
      BY <1>1, <1>2, <1>4, <1>5, <3>1
  <2>2. CASE l < i /\ i <= l + m
    <3> DEFINE j == i - l
    <3>1. j \in 1 .. m /\ j \in 1 .. m + n /\ l + j = i /\ i \in 1 .. l + m
      BY <1>1, <2>2
    <3> HIDE DEF j
    <3>2. u[i] = d[l + j] /\ d[l + j] = b[j]
      BY <1>1, <1>2, <1>4, <3>1
    <3>3. w[l + j] = e[j] /\ e[j] = b[j]
      BY <1>1, <1>3, <1>5, <3>1
    <3> QED
      BY <3>1, <3>2, <3>3
  <2>3. CASE l + m < i
    <3> DEFINE j == i - (l + m)
               k == i - l
    <3>1. j \in 1 .. n /\ k \in 1 .. m + n /\ k = m + j /\ l + k = i /\ (l + m) + j = i
      BY <1>1, <2>3
    <3> HIDE DEF j, k
    <3>2. u[(l + m) + j] = c[j]
      BY <1>1, <1>4, <3>1
    <3>3. w[l + k] = e[k] /\ e[m + j] = c[j]
      BY <1>1, <1>3, <1>5, <3>1
    <3> QED
      BY <3>1, <3>2, <3>3
  <2> QED
    BY <1>1, <2>1, <2>2, <2>3
<1>7. Len(d) + n = l + m + n /\ l + Len(e) = l + m + n
  BY <1>1
<1>8. u = w
  BY <1>4, <1>5, <1>6, <1>7, Zenon
<1> QED
  BY <1>8 DEF u, w, d, e

\* Sequences one after the other.
LEMMA Join ==
  ASSUME NEW a \in Seq(Nat), NEW b \in Seq(Nat), NEW c \in Seq(Nat)
  PROVE  /\ a \o b \in Seq(Nat) /\ Len(a \o b) = Len(a) + Len(b) /\ Len(a) \in Nat
         /\ (a \o b) \o c = a \o (b \o c)
BY JoinTwo, Assoc

\* What stands between two sequences.
LEMMA Middle ==
  ASSUME NEW a \in Seq(Nat), NEW b \in Seq(Nat), NEW c \in Seq(Nat), NEW d,
         d = (a \o b) \o c
  PROVE  /\ SubSeq(d, Len(a) + 1, Len(a) + Len(b)) = b
         /\ d = a \o (b \o c) /\ d \in Seq(Nat) /\ Len(d) = Len(a) + Len(b) + Len(c)
<1>0. a \o b \in Seq(Nat) /\ Len(a \o b) = Len(a) + Len(b) /\ Len(a) \in Nat /\ Len(b) \in Nat
  BY JoinTwo
<1>1. d \in Seq(Nat) /\ Len(d) = Len(a) + Len(b) + Len(c)
  BY <1>0, JoinTwo
<1>2. ASSUME NEW i \in 1 .. Len(b) PROVE d[Len(a) + i] = b[i]
  <2> DEFINE u == a \o b
             j == Len(a) + i
  <2>1. u[j] = b[i]
    BY JoinTwo
  <2>2. j \in 1 .. Len(u) /\ u \in Seq(Nat)
    BY <1>0
  <2> HIDE DEF u, j
  <2>3. (u \o c)[j] = u[j]
    BY <2>2, JoinTwo
  <2> QED
    BY <2>1, <2>3 DEF u, j
<1>3. d = a \o (b \o c)
  BY Assoc
<1> DEFINE e == SubSeq(d, Len(a) + 1, Len(a) + Len(b))
<1>4. e \in Seq(Nat) /\ Len(e) = Len(b) /\ \A i \in 1 .. Len(b) : e[i] = d[Len(a) + i]
  BY <1>1
<1>5. e = [i \in 1 .. Len(e) |-> e[i]] /\ b = [i \in 1 .. Len(b) |-> b[i]]
  <2> HIDE DEF e
  <2> QED
    BY <1>4
<1>6. e = b
  <2> HIDE DEF e
  <2>1. \A i \in 1 .. Len(b) : e[i] = b[i]
    BY <1>2, <1>4
  <2> QED
    BY <1>4, <1>5, <2>1, Zenon
<1> QED
  BY <1>1, <1>3, <1>6

\* What stands between.
LEMMA Between ==
  ASSUME NEW a \in Seq(Nat), NEW b \in Seq(Nat), NEW c \in Seq(Nat)
  PROVE  SubSeq((a \o b) \o c, Len(a) + 1, Len(a) + Len(b)) = b
BY Middle

\* One sequence, and two.
LEMMA FlatOne ==
  ASSUME NEW a
  PROVE  FlattenSeq(<<a>>) = a
BY FlatFew

\* Two sequences.
LEMMA FlatTwo ==
  ASSUME NEW a, NEW b
  PROVE  FlattenSeq(<<a, b>>) = a \o b
BY FlatFew

\* What stands in front.
LEMMA InFront ==
  ASSUME NEW a \in Seq(Nat), NEW b \in Seq(Nat)
  PROVE  SubSeq(a \o b, 1, Len(a)) = a
<1>1. SubSeq((<<>> \o a) \o b, Len(<<>>) + 1, Len(<<>>) + Len(a)) = a
  BY Middle
<1>2. <<>> \o a = a /\ Len(<<>>) = 0 /\ 0 + 1 = 1 /\ 0 + Len(a) = Len(a)
  OBVIOUS
<1> QED
  BY <1>1, <1>2

\* The value of an item in bytes.
Body(x) == FlattenSeq(ValueParts(x))

\* A value is read back as it was written, by the function of its type and
\* with as many bytes, whatever follows.
ReturnsWith(x, tail, v) ==
  v.val = x.val /\ v.skip \in Nat /\ v.len \in Nat /\ v.skip + v.len = Len(Body(x))

Returns(x) ==
  /\ Body(x) \in Seq(Nat)
  /\ \A tail \in Seq(Nat) : ReturnsWith(x, tail, Value(x.type, x.index, Body(x) \o tail))

\* The kinds of an item.
LEMMA ItemIs ==
  ASSUME NEW x, IsItem(x)
  PROVE  LET y == x.type
             k == x.index
             w == x.val
         IN  \/ y = 1 /\ w \in {0, 1}
             \/ y = 2 /\ w \in Int /\ IsU64(C!ZigZag(w))
             \/ IsNumber(y, k) /\ IsU64(w)
             \/ y = 6 /\ w \in Seq(Nat) /\ Len(w) = 4
             \/ y = 7 /\ w \in Seq(Nat) /\ Len(w) = 8
             \/ IsText(y, k) /\ w \in Seq(Nat) /\ IsU64(Len(w) + 1)
             \/ y = 11 /\ w \in Seq(Nat) /\ IsU64(Len(w))
             \/ y = 15 /\ ~IsNumber(y, k) /\ ~IsText(y, k) /\ w = <<>>
<1>1. \A w : w \in ByteSeq => w \in Seq(Nat)
  <2> DEFINE byte == 0 .. 255
  <2>1. byte \subseteq Nat
    OBVIOUS
  <2> HIDE DEF byte
  <2> SUFFICES ASSUME NEW w \in Seq(byte) PROVE w \in Seq(Nat)
    BY DEF ByteSeq, byte
  <2>2. Len(w) \in Nat /\ w = [i \in 1 .. Len(w) |-> w[i]] /\ \A i \in 1 .. Len(w) : w[i] \in byte
    OBVIOUS
  <2> QED
    BY <2>1, <2>2
<1> QED
  BY <1>1, Types, Zenon DEF IsItem

\* A bit.
LEMMA BitReturns ==
  ASSUME NEW x, x.type = 1, x.val \in {0, 1}
  PROVE  Returns(x)
<1>1. ValueParts(x) = <<<<x.val>>>>
  BY PartsAre
<1>2. Body(x) = <<x.val>>
  BY <1>1, FlatFew DEF Body
<1>3. ASSUME NEW tail \in Seq(Nat)
      PROVE  ReturnsWith(x, tail, Value(x.type, x.index, Body(x) \o tail))
  <2> DEFINE bs == <<x.val>> \o tail
             u == Value(x.type, x.index, bs)
  <2>1. bs[1] = x.val
    OBVIOUS
  <2>2. u = [val |-> IF bs[1] # 0 THEN 1 ELSE 0, skip |-> 1, len |-> 0]
    BY ValueIs, Zenon
  <2> HIDE DEF u, bs
  <2>3. u.val = x.val /\ u.skip = 1 /\ u.len = 0
    BY <2>1, <2>2
  <2>4. Len(Body(x)) = 1
    BY <1>2
  <2>5. ReturnsWith(x, tail, u)
    BY <2>3, <2>4 DEF ReturnsWith
  <2> QED
    BY <1>2, <2>5 DEF u, bs
<1>4. <<x.val>> \in Seq(Nat)
  OBVIOUS
<1> QED
  BY <1>2, <1>3, <1>4, Zenon DEF Returns

\* A code that is read back as a number is a value read back.
LEMMA CodeReturns ==
  ASSUME NEW x, NEW code, ValueParts(x) = <<code>>, code \in Seq(Nat),
         \A tail \in Seq(Nat) :
           Value(x.type, x.index, code \o tail) = Number([val |-> x.val, used |-> Len(code)])
  PROVE  Returns(x)
<1>2. Body(x) = code
  BY FlatFew DEF Body
<1>3. ASSUME NEW tail \in Seq(Nat)
      PROVE  ReturnsWith(x, tail, Value(x.type, x.index, Body(x) \o tail))
  <2> DEFINE bs == code \o tail
             u == Value(x.type, x.index, bs)
             l == Len(code)
             r == [val |-> x.val, used |-> l]
  <2>1. u = Number(r) /\ r = [val |-> x.val, used |-> l]
    OBVIOUS
  <2>2. l \in Nat /\ Len(Body(x)) = l
    BY <1>2
  <2> HIDE DEF u, r, l
  <2>3. u = [val |-> r.val, skip |-> r.used, len |-> 0]
    BY <2>1 DEF Number
  <2>4. r.val = x.val /\ r.used = l
    BY <2>1
  <2>5. u.val = x.val /\ u.skip = l /\ u.len = 0
    BY <2>3, <2>4
  <2>6. ReturnsWith(x, tail, u)
    BY <2>2, <2>5 DEF ReturnsWith
  <2> QED
    BY <1>2, <2>6 DEF u
<1> QED
  BY <1>2, <1>3, Zenon DEF Returns

\* Bytes as they are.
LEMMA RawReturns ==
  ASSUME NEW x, NEW n \in Nat, ValueParts(x) = <<x.val>>, x.val \in Seq(Nat), Len(x.val) = n,
         \A bs : Value(x.type, x.index, bs) = Raw(bs, n)
  PROVE  Returns(x)
<1>2. Body(x) = x.val
  BY FlatFew DEF Body
<1>3. ASSUME NEW tail \in Seq(Nat)
      PROVE  ReturnsWith(x, tail, Value(x.type, x.index, Body(x) \o tail))
  <2> DEFINE bs == x.val \o tail
             u == Value(x.type, x.index, bs)
             s == SubSeq(bs, 1, n)
  <2>1. u = Raw(bs, n)
    OBVIOUS
  <2>2. s = x.val
    BY InFront
  <2>3. u = [val |-> s, skip |-> n, len |-> 0]
    BY <2>1 DEF Raw
  <2> HIDE DEF u, bs, s
  <2>4. u.val = x.val /\ u.skip = n /\ u.len = 0
    BY <2>2, <2>3
  <2>5. ReturnsWith(x, tail, u)
    BY <1>2, <2>4 DEF ReturnsWith
  <2> QED
    BY <1>2, <2>5 DEF u, bs
<1> QED
  BY <1>2, <1>3, Zenon DEF Returns

\* Bytes behind their length, of which the value leaves out the last.
LEMMA CountedReturns ==
  ASSUME NEW x, NEW w \in Seq(Nat), NEW rest \in Seq(Nat), NEW last \in Nat,
         x.val = w, Len(rest) = last, IsU64(Len(w) + last),
         Body(x) = C!VarU64(Len(w) + last) \o (w \o rest),
         \A bs : Value(x.type, x.index, bs) = Counted(bs, last)
  PROVE  Returns(x)
<1> DEFINE m == Len(w)
           a == C!VarU64(m + last)
           l == Len(a)
<1>1. /\ a \in Seq(Nat) /\ l \in Nat /\ m \in Nat
      /\ \A tail \in Seq(Nat) : C!NextVarU64(a \o tail) = [val |-> m + last, used |-> l]
  BY Numbers
<1>2. Body(x) = a \o (w \o rest)
  OBVIOUS
<1> HIDE DEF a
<1>4. Body(x) \in Seq(Nat) /\ Len(Body(x)) = l + (m + last)
  <2>1. w \o rest \in Seq(Nat) /\ Len(w \o rest) = m + last
    BY Join
  <2>2. a \o (w \o rest) \in Seq(Nat) /\ Len(a \o (w \o rest)) = l + Len(w \o rest)
    BY <1>1, <2>1, Join, Zenon
  <2> QED
    BY <1>2, <2>1, <2>2
<1>5. ASSUME NEW tail \in Seq(Nat)
      PROVE  ReturnsWith(x, tail, Value(x.type, x.index, Body(x) \o tail))
  <2> DEFINE bs == Body(x) \o tail
             u == Value(x.type, x.index, bs)
             d == (a \o w) \o (rest \o tail)
  <2>1. rest \o tail \in Seq(Nat) /\ w \o rest \in Seq(Nat) /\ (w \o rest) \o tail \in Seq(Nat)
    BY Join
  <2>2. (w \o rest) \o tail = w \o (rest \o tail)
    BY Assoc, Zenon
  <2>3. d = a \o (w \o (rest \o tail)) /\ SubSeq(d, l + 1, l + m) = w
    <3>1. a \in Seq(Nat)
      BY <1>1
    <3>2. SubSeq(d, Len(a) + 1, Len(a) + Len(w)) = w
      BY <2>1, <3>1, Between, Zenon
    <3>3. d = a \o (w \o (rest \o tail))
      BY <2>1, <3>1, Assoc, Zenon
    <3> QED
      BY <3>2, <3>3
  <2>4. bs = a \o ((w \o rest) \o tail)
    <3> DEFINE z == w \o rest
    <3>1. z \in Seq(Nat) /\ Body(x) = a \o z
      BY <1>2, <2>1
    <3> HIDE DEF z
    <3>2. (a \o z) \o tail = a \o (z \o tail)
      BY <1>1, <3>1, Assoc, Zenon
    <3>3. bs = a \o (z \o tail)
      BY <3>1, <3>2
    <3> QED
      BY <3>3 DEF z
  <2>5. bs = d
    BY <2>2, <2>3, <2>4
  <2> DEFINE n == C!NextVarU64(bs)
             s == SubSeq(bs, n.used + 1, n.used + n.val - last)
  <2>6. n = [val |-> m + last, used |-> l]
    BY <1>1, <2>1, <2>4
  <2>7. u = [val |-> s, skip |-> n.used, len |-> n.val]
    <3>1. u = Counted(bs, last)
      OBVIOUS
    <3> QED
      BY <3>1 DEF Counted
  <2> HIDE DEF bs, u, d, n
  <2>8. n.used = l /\ n.val = m + last /\ n.used + n.val - last = l + m
    BY <1>1, <2>6
  <2>9. s = w
    BY <2>3, <2>5, <2>8
  <2> HIDE DEF s
  <2>10. u.val = w /\ u.skip = l /\ u.len = m + last
    BY <2>7, <2>8, <2>9
  <2>11. ReturnsWith(x, tail, u)
    BY <1>1, <1>4, <2>10 DEF ReturnsWith
  <2> QED
    BY <2>11 DEF u, bs
<1> QED
  BY <1>4, <1>5, Zenon DEF Returns

\* The items without a value.
LEMMA NothingReturns ==
  ASSUME NEW x, x.val = <<>>, ValueParts(x) = <<>>,
         \A bs : Value(x.type, x.index, bs) = [val |-> <<>>, skip |-> 0, len |-> 0]
  PROVE  Returns(x)
<1>1. Body(x) = <<>>
  BY FlatFew DEF Body
<1>2. ASSUME NEW tail \in Seq(Nat)
      PROVE  ReturnsWith(x, tail, Value(x.type, x.index, Body(x) \o tail))
  <2> DEFINE u == Value(x.type, x.index, Body(x) \o tail)
  <2>1. u = [val |-> <<>>, skip |-> 0, len |-> 0]
    OBVIOUS
  <2> HIDE DEF u
  <2>2. u.val = x.val /\ u.skip = 0 /\ u.len = 0 /\ Len(Body(x)) = 0
    BY <1>1, <2>1
  <2>3. ReturnsWith(x, tail, u)
    BY <2>2 DEF ReturnsWith
  <2> QED
    BY <2>3 DEF u
<1>3. <<>> \in Seq(Nat)
  OBVIOUS
<1> QED
  BY <1>1, <1>2, <1>3, Zenon DEF Returns

\* Every value is read back.
LEMMA ValuesReturn ==
  ASSUME NEW x, IsItem(x)
  PROVE  Returns(x)
<1> DEFINE y == x.type
           k == x.index
           w == x.val
<1>1. CASE y = 1 /\ w \in {0, 1}
  BY <1>1, BitReturns
<1>2. CASE y = 2 /\ w \in Int /\ IsU64(C!ZigZag(w))
  <2> DEFINE Read(bs) == C!NextVarS64(bs)
             code == C!VarS64(w)
  <2>1. code \in Seq(Nat) /\ \A tail \in Seq(Nat) : Read(code \o tail) = [val |-> w, used |-> Len(code)]
    BY <1>2, SignedNumbers
  <2>2. ValueParts(x) = <<code>>
    BY <1>2, PartsAre, Zenon
  <2>3. \A bs : Value(y, k, bs) = Number(Read(bs))
    BY <1>2, ValueIs
  <2> HIDE DEF Read, code
  <2>4. \A tail \in Seq(Nat) : Value(y, k, code \o tail) = Number([val |-> w, used |-> Len(code)])
    BY <2>1, <2>3, Zenon
  <2> QED
    BY <2>1, <2>2, <2>4, CodeReturns, Zenon
<1>3. CASE IsNumber(y, k) /\ IsU64(w)
  <2> DEFINE Read(bs) == C!NextVarU64(bs)
             code == C!VarU64(w)
  <2>1. code \in Seq(Nat) /\ \A tail \in Seq(Nat) : Read(code \o tail) = [val |-> w, used |-> Len(code)]
    BY <1>3, Numbers
  <2>2. ValueParts(x) = <<code>>
    BY <1>3, PartsAre, Zenon
  <2>3. \A bs : Value(y, k, bs) = Number(Read(bs))
    BY <1>3, ValueIs
  <2> HIDE DEF Read, code
  <2>4. \A tail \in Seq(Nat) : Value(y, k, code \o tail) = Number([val |-> w, used |-> Len(code)])
    BY <2>1, <2>3, Zenon
  <2> QED
    BY <2>1, <2>2, <2>4, CodeReturns, Zenon
<1>4. CASE y = 6 /\ w \in Seq(Nat) /\ Len(w) = 4
  <2>1. ValueParts(x) = <<w>> /\ \A bs : Value(y, k, bs) = Raw(bs, 4)
    BY <1>4, PartsAre, ValueIs
  <2>2. 4 \in Nat
    OBVIOUS
  <2> QED
    BY <1>4, <2>1, <2>2, RawReturns
<1>5. CASE y = 7 /\ w \in Seq(Nat) /\ Len(w) = 8
  <2>1. ValueParts(x) = <<w>> /\ \A bs : Value(y, k, bs) = Raw(bs, 8)
    BY <1>5, PartsAre, ValueIs
  <2>2. 8 \in Nat
    OBVIOUS
  <2> QED
    BY <1>5, <2>1, <2>2, RawReturns
<1>6. CASE IsText(y, k) /\ w \in Seq(Nat) /\ IsU64(Len(w) + 1)
  <2>1. ValueParts(x) = <<C!VarU64(Len(w) + 1), w \o << 0 >>>>
    BY <1>6, PartsAre, Zenon
  <2>2. \A bs : Value(y, k, bs) = Counted(bs, 1)
    BY <1>6, ValueIs, Zenon DEF Text
  <2>3. << 0 >> \in Seq(Nat) /\ Len(<< 0 >>) = 1 /\ 1 \in Nat
    OBVIOUS
  <2>4. Body(x) = C!VarU64(Len(w) + 1) \o (w \o << 0 >>)
    BY <2>1, FlatTwo, Zenon DEF Body
  <2> QED
    BY <1>6, <2>2, <2>3, <2>4, CountedReturns
<1>7. CASE y = 11 /\ w \in Seq(Nat) /\ IsU64(Len(w))
  <2>1. ValueParts(x) = <<C!VarU64(Len(w)), w>>
    BY <1>7, PartsAre, Zenon
  <2>2. \A bs : Value(y, k, bs) = Counted(bs, 0)
    BY <1>7, ValueIs
  <2>3. <<>> \in Seq(Nat) /\ Len(<<>>) = 0 /\ 0 \in Nat
    OBVIOUS
  <2>4. Len(w) + 0 = Len(w) /\ w \o <<>> = w
    BY <1>7
  <2>5. Body(x) = C!VarU64(Len(w)) \o w
    BY <2>1, FlatTwo, Zenon DEF Body
  <2>6. Body(x) = C!VarU64(Len(w) + 0) \o (w \o <<>>) /\ IsU64(Len(w) + 0)
    BY <1>7, <2>4, <2>5
  <2> QED
    BY <1>7, <2>2, <2>3, <2>6, CountedReturns
<1>8. CASE y = 15 /\ ~IsNumber(y, k) /\ ~IsText(y, k) /\ w = <<>>
  <2>1. ValueParts(x) = <<>>
    BY <1>8, PartsAre, Zenon
  <2>2. \A bs : Value(y, k, bs) = [val |-> <<>>, skip |-> 0, len |-> 0]
    BY <1>8, ValueIs, Zenon
  <2> QED
    BY <1>8, <2>1, <2>2, NothingReturns
<1> QED
  BY <1>1, <1>2, <1>3, <1>4, <1>5, <1>6, <1>7, <1>8, ItemIs

\* Values are written in at most two parts.
LEMMA FewParts ==
  ASSUME NEW x, IsItem(x)
  PROVE  \/ ValueParts(x) = <<>>
         \/ \E a \in Seq(Nat) : ValueParts(x) = <<a>>
         \/ \E a, b \in Seq(Nat) : ValueParts(x) = <<a, b>>
<1> DEFINE y == x.type
           k == x.index
           w == x.val
           One == \E a \in Seq(Nat) : ValueParts(x) = <<a>>
           Two == \E a, b \in Seq(Nat) : ValueParts(x) = <<a, b>>
<1>1. CASE y = 1 /\ w \in {0, 1}
  <2>1. <<w>> \in Seq(Nat) /\ ValueParts(x) = <<<<w>>>>
    BY <1>1, PartsAre
  <2> QED
    BY <2>1, Zenon
<1>2. CASE y = 2 /\ w \in Int /\ IsU64(C!ZigZag(w))
  BY <1>2, SignedNumbers, PartsAre, Zenon
<1>3. CASE IsNumber(y, k) /\ IsU64(w)
  BY <1>3, Numbers, PartsAre, Zenon
<1>4. CASE (y = 6 \/ y = 7) /\ w \in Seq(Nat)
  <2>1. ValueParts(x) = <<w>>
    BY <1>4, PartsAre
  <2> QED
    BY <1>4, <2>1, Zenon
<1>5. CASE IsText(y, k) /\ w \in Seq(Nat) /\ IsU64(Len(w) + 1)
  <2>1. << 0 >> \in Seq(Nat)
    OBVIOUS
  <2>2. w \o << 0 >> \in Seq(Nat)
    BY <1>5, <2>1, Join, Zenon
  <2> QED
    BY <1>5, <2>2, Numbers, PartsAre, Zenon
<1>6. CASE y = 11 /\ w \in Seq(Nat) /\ IsU64(Len(w))
  BY <1>6, Numbers, PartsAre, Zenon
<1>7. CASE y = 15 /\ ~IsNumber(y, k) /\ ~IsText(y, k)
  BY <1>7, PartsAre, Zenon
<1> QED
  BY <1>1, <1>2, <1>3, <1>4, <1>5, <1>6, <1>7, ItemIs

\* Tag and value of an item, one after the other.
LEMMA CodeIs ==
  ASSUME NEW x, IsItem(x)
  PROVE  /\ Code(x) = Tag(x.type, x.index) \o Body(x)
         /\ Code(x) \in Seq(Nat) /\ Len(Code(x)) \in Nat \ {0}
         /\ Len(Code(x)) = Len(Tag(x.type, x.index)) + Len(Body(x))
         /\ x.type \in 0 .. 255 /\ x.index \in 0 .. C!Pow2[20] - 1
<1> DEFINE t == Tag(x.type, x.index)
<1>1. x.type \in 0 .. 255
  <2>1. x.type \in {1, 2, 6, 7, 11, 15} \/ IsNumber(x.type, x.index) \/ IsText(x.type, x.index)
    BY ItemIs, Zenon
  <2> QED
    BY <2>1, Kinds
<1>2. x.index \in 0 .. C!Pow2[20] - 1
  BY Zenon DEF IsItem
<1>3. t \in Seq(Nat) /\ Len(t) \in Nat \ {0}
  BY <1>1, <1>2, Tags, Zenon
<1>4. Body(x) \in Seq(Nat) /\ Len(Body(x)) \in Nat
  <2>1. Body(x) \in Seq(Nat)
    BY ValuesReturn, Zenon DEF Returns
  <2> QED
    BY <2>1
<1> HIDE DEF t
<1>5. Code(x) = t \o Body(x)
  BY DEF Code, Body, t
<1>6. t \o Body(x) \in Seq(Nat) /\ Len(t \o Body(x)) = Len(t) + Len(Body(x))
  BY <1>3, <1>4, Join, Zenon
<1>7. Len(Code(x)) \in Nat \ {0}
  BY <1>3, <1>4, <1>5, <1>6
<1> QED
  BY <1>1, <1>2, <1>5, <1>6, <1>7 DEF t

----------------------------------------------------------------------------
(* Buffers                                                                 *)

\* A buffer whose cursors are in order.
Sound(b) ==
  /\ b = [data |-> b.data, cap |-> b.cap, limit |-> b.limit, pos |-> b.pos, mark |-> b.mark,
          fixed |-> b.fixed]
  /\ b.cap \in Nat /\ b.limit \in Nat /\ b.pos \in Nat /\ b.fixed \in BOOLEAN
  /\ b.pos <= b.limit /\ b.limit <= b.cap
  /\ b.data \in [0 .. b.cap - 1 -> Nat]

\* c is b with the bytes bs at its position and the position behind them.
Wrote(b, c, bs) ==
  /\ Sound(c) /\ c.fixed = b.fixed /\ c.pos = b.pos + Len(bs)
  /\ b.cap <= c.cap /\ (b.fixed => c.cap = b.cap)
  /\ \A i \in 0 .. b.pos - 1 : c.data[i] = b.data[i]
  /\ \A i \in 1 .. Len(bs) : c.data[b.pos + i - 1] = bs[i]

\* A limit that is set leaves the bytes before the position.
Kept(b, e, l) ==
  /\ Sound(e) /\ e.fixed = b.fixed /\ e.pos = b.pos /\ l <= e.limit
  /\ b.cap <= e.cap /\ (b.fixed => e.cap = b.cap)
  /\ \A i \in 0 .. b.pos - 1 : e.data[i] = b.data[i]

\* e is b with a block u of n bytes and the limit l.
Limited(b, e, u, n, l) ==
  /\ \E m : e = [data |-> u, cap |-> n, limit |-> l, pos |-> b.pos, mark |-> m, fixed |-> b.fixed]
  /\ u \in [0 .. n - 1 -> Nat] /\ n \in Nat /\ l <= n /\ b.cap <= n
  /\ b.fixed => n = b.cap
  /\ \A i \in 0 .. b.pos - 1 : u[i] = b.data[i]

\* A limit that is set on a buffer of n bytes u.
LEMMA LimitSet ==
  ASSUME NEW b, Sound(b), NEW l \in Nat, b.pos <= l, NEW e, NEW u, NEW n, Limited(b, e, u, n, l)
  PROVE  Kept(b, e, l)
<1>0. PICK m : e = [data |-> u, cap |-> n, limit |-> l, pos |-> b.pos, mark |-> m,
                    fixed |-> b.fixed]
  BY DEF Limited
<1>1. /\ e.data = u /\ e.cap = n /\ e.limit = l /\ e.pos = b.pos /\ e.mark = m
      /\ e.fixed = b.fixed
  BY <1>0
<1>2. b.pos \in Nat /\ b.fixed \in BOOLEAN
  BY DEF Sound
<1>3. e = [data |-> e.data, cap |-> e.cap, limit |-> e.limit, pos |-> e.pos, mark |-> e.mark,
           fixed |-> e.fixed]
  BY <1>0, <1>1
<1>4. Sound(e)
  BY <1>1, <1>2, <1>3 DEF Sound, Limited
<1> QED
  BY <1>1, <1>4 DEF Kept, Limited

\* The block that grows keeps its bytes.
LEMMA Grown ==
  ASSUME NEW c \in Nat, NEW n \in Nat, c <= n, NEW d \in [0 .. c - 1 -> Nat]
  PROVE  LET u == [i \in 0 .. n - 1 |-> IF i < c THEN d[i] ELSE 0]
         IN  u \in [0 .. n - 1 -> Nat] /\ \A i \in 0 .. c - 1 : u[i] = d[i]
<1> DEFINE h(i) == IF i < c THEN d[i] ELSE 0
           u == [i \in 0 .. n - 1 |-> h(i)]
<1>1. \A i \in 0 .. n - 1 : h(i) \in Nat /\ (i \in 0 .. c - 1 => h(i) = d[i])
  OBVIOUS
<1>2. \A i \in 0 .. c - 1 : i \in 0 .. n - 1
  OBVIOUS
<1>3. u \in [0 .. n - 1 -> Nat] /\ \A i \in 0 .. c - 1 : u[i] = d[i]
  <2> HIDE DEF h
  <2> QED
    BY <1>1, <1>2
<1> QED
  BY <1>3

\* dyb_set_limit makes room and leaves the bytes before the position.
LEMMA EnsureLeaves ==
  ASSUME NEW b, Sound(b), NEW l \in Nat, b.pos <= l, b.fixed => l <= b.cap
  PROVE  Kept(b, B!Ensure(b, l), l)
<1> DEFINE e == B!Ensure(b, l)
           d == b.data
           c == b.cap
           p == b.pos
<1>1. c \in Nat /\ p \in Nat /\ b.limit \in Nat /\ p <= b.limit /\ b.limit <= c /\ b.fixed \in BOOLEAN
      /\ d \in [0 .. c - 1 -> Nat]
  BY DEF Sound
<1>2. CASE l <= b.limit
  <2>1. ~(l > b.limit)
    BY <1>1, <1>2
  <2>2. e = b
    BY <2>1, Zenon DEF B!Ensure
  <2>3. Kept(b, b, l)
    BY <1>1, <1>2 DEF Kept
  <2> QED
    BY <2>2, <2>3
<1>4. CASE l > b.limit
  <2>1. B!Least(p, l) = p
    BY <1>1, <1>4 DEF B!Least
  <2>2. CASE l <= c
    <3> DEFINE m == B!Least(b.mark, l)
    <3>1. e = [b EXCEPT !.limit = l, !.mark = m, !.pos = p]
      <4>1. ~(l > c) /\ ~(l > b.cap /\ b.fixed)
        BY <1>1, <2>2
      <4>2. e = [b EXCEPT !.limit = l, !.mark = B!Least(@, l), !.pos = B!Least(@, l)]
        BY <1>4, <4>1, Zenon DEF B!Ensure, B!SetLimit
      <4> QED
        BY <2>1, <4>2
    <3>2. b = [data |-> d, cap |-> c, limit |-> b.limit, pos |-> p, mark |-> b.mark, fixed |-> b.fixed]
      BY DEF Sound
    <3>3. e = [data |-> d, cap |-> c, limit |-> l, pos |-> p, mark |-> m, fixed |-> b.fixed]
      <4> HIDE DEF e, m
      <4> QED
        BY <3>1, <3>2
    <3>4. c <= c /\ (b.fixed => c = c) /\ \A i \in 0 .. p - 1 : d[i] = d[i]
      BY <1>1
    <3> HIDE DEF e, m
    <3>5. Limited(b, e, d, c, l)
      BY <1>1, <2>2, <3>3, <3>4, Zenon DEF Limited
    <3> QED
      BY <3>5, LimitSet DEF e
  <2>3. CASE l > c
    <3> DEFINE n == B!AllocSize(l)
               u == [i \in 0 .. n - 1 |-> IF i < c THEN d[i] ELSE 0]
               g == B!SetCapacity(b, l)
               m == B!Least(g.mark, l)
    <3>1. ~b.fixed /\ n \in Nat /\ l <= n /\ c < n /\ B!Least(c, n) = c /\ B!Least(p, n) = p
      BY <1>1, <2>3 DEF B!AllocSize, B!Greatest, B!Least
    <3>2. g = [data |-> u, cap |-> n, limit |-> B!Least(b.limit, n), pos |-> p,
               mark |-> B!Least(b.mark, n), fixed |-> FALSE]
      <4>1. l # c
        BY <1>1, <2>3
      <4>2. ~(l = b.cap \/ b.fixed)
        BY <3>1, <4>1
      <4>3. g = [data |-> [i \in 0 .. n - 1 |-> IF i < B!Least(c, n) THEN d[i] ELSE 0],
                 cap |-> n, limit |-> B!Least(b.limit, n), pos |-> B!Least(p, n),
                 mark |-> B!Least(b.mark, n), fixed |-> FALSE]
        BY <4>2, Zenon DEF B!SetCapacity
      <4> HIDE DEF n
      <4> QED
        BY <3>1, <4>3, Zenon
    <3>3. e = [g EXCEPT !.limit = l, !.mark = m, !.pos = B!Least(@, l)]
      <4>1. ~(l > b.cap /\ b.fixed) /\ l > b.cap
        BY <2>3, <3>1
      <4> QED
        BY <1>4, <4>1, Zenon DEF B!Ensure, B!SetLimit
    <3>4. b.fixed = FALSE
      BY <1>1, <3>1
    <3>5. e = [data |-> u, cap |-> n, limit |-> l, pos |-> p, mark |-> m, fixed |-> b.fixed]
      <4> HIDE DEF e, g, u, n, m
      <4> QED
        BY <2>1, <3>2, <3>3, <3>4
    <3>7. c <= n /\ (b.fixed => n = c)
      BY <1>1, <3>1
    <3>6. u \in [0 .. n - 1 -> Nat] /\ \A i \in 0 .. p - 1 : u[i] = d[i]
      <4>1. \A i \in 0 .. p - 1 : i \in 0 .. c - 1
        BY <1>1
      <4> HIDE DEF n
      <4>2. u \in [0 .. n - 1 -> Nat] /\ \A i \in 0 .. c - 1 : u[i] = d[i]
        BY <1>1, <3>1, <3>7, Grown
      <4> HIDE DEF u
      <4> QED
        BY <4>1, <4>2
    <3> HIDE DEF e, u, n, m, g
    <3>8. Limited(b, e, u, n, l)
      BY <3>1, <3>5, <3>6, <3>7, Zenon DEF Limited
    <3> QED
      BY <3>8, LimitSet DEF e
  <2> QED
    BY <1>1, <2>2, <2>3
<1> QED
  BY <1>1, <1>2, <1>4

\* The bytes d with bs at p.
Overlaid(u, c, p, d, bs) ==
  u = [i \in 0 .. c - 1 |-> IF i \in p .. p + Len(bs) - 1 THEN bs[i - p + 1] ELSE d[i]]

\* What then lies in the block.
Holds(v, c, p, d, bs) ==
  /\ v \in [0 .. c - 1 -> Nat]
  /\ \A i \in 0 .. p - 1 : v[i] = d[i]
  /\ \A i \in 1 .. Len(bs) : v[p + i - 1] = bs[i]

\* The bytes that are stored.
LEMMA Stored ==
  ASSUME NEW c \in Nat, NEW p \in Nat, NEW d \in [0 .. c - 1 -> Nat], NEW bs \in Seq(Nat),
         p + Len(bs) <= c, NEW v, Overlaid(v, c, p, d, bs)
  PROVE  Holds(v, c, p, d, bs)
<1> DEFINE n == Len(bs)
           h(i) == IF i \in p .. p + n - 1 THEN bs[i - p + 1] ELSE d[i]
           u == [i \in 0 .. c - 1 |-> h(i)]
<1>1. n \in Nat /\ \A i \in 1 .. n : bs[i] \in Nat
  OBVIOUS
<1>2. ASSUME NEW i \in 0 .. c - 1
      PROVE  h(i) \in Nat
  <2>1. i \in p .. p + n - 1 => i - p + 1 \in 1 .. n
    BY <1>1
  <2> HIDE DEF n
  <2> QED
    BY <1>1, <2>1
<1>3. ASSUME NEW i \in 0 .. p - 1
      PROVE  h(i) = d[i] /\ i \in 0 .. c - 1
  BY <1>1
<1>4. ASSUME NEW i \in 1 .. n
      PROVE  h(p + i - 1) = bs[i] /\ p + i - 1 \in 0 .. c - 1
  <2>1. p + i - 1 \in p .. p + n - 1 /\ (p + i - 1) - p + 1 = i /\ p + i - 1 \in 0 .. c - 1
    BY <1>1
  <2> HIDE DEF n
  <2> QED
    BY <2>1
<1>5. /\ u \in [0 .. c - 1 -> Nat]
      /\ \A i \in 0 .. p - 1 : u[i] = d[i]
      /\ \A i \in 1 .. n : u[p + i - 1] = bs[i]
  <2> HIDE DEF h, n
  <2> QED
    BY <1>2, <1>3, <1>4
<1> QED
  BY <1>5, Zenon DEF Overlaid, Holds

\* An append writes its bytes and nothing before them.
LEMMA AppendWrites ==
  ASSUME NEW b, Sound(b), NEW bs \in Seq(Nat), b.pos + Len(bs) <= MaxUint,
         b.fixed => b.pos + Len(bs) <= b.cap
  PROVE  Wrote(b, B!Append_(b, bs), bs)
<1> DEFINE n == Len(bs)
           l == b.pos + n
           e == B!Ensure(b, l)
           r == B!Append_(b, bs)
           u == [i \in 0 .. e.cap - 1 |-> IF i \in e.pos .. e.pos + n - 1
                                          THEN bs[i - e.pos + 1] ELSE e.data[i]]
<1>1. b.pos \in Nat /\ n \in Nat /\ l \in Nat /\ b.pos <= l /\ MaxUint \in Nat
  BY DypktAssumption DEF Sound
<1>2. /\ Sound(e) /\ e.fixed = b.fixed /\ e.pos = b.pos /\ l <= e.limit
      /\ b.cap <= e.cap /\ (b.fixed => e.cap = b.cap)
      /\ \A i \in 0 .. b.pos - 1 : e.data[i] = b.data[i]
  <2>1. Kept(b, e, l)
    <3> HIDE DEF n, l
    <3> QED
      BY <1>1, EnsureLeaves DEF l, n
  <2> HIDE DEF e
  <2> QED
    BY <2>1 DEF Kept
<1>3. B!Plus(b.pos, n) = l
  BY <1>1 DEF B!Plus
<1>4. r = [e EXCEPT !.data = B!Store(e, bs), !.pos = B!Plus(e.pos, n)]
  BY <1>3, Zenon DEF B!Append_, B!Put
<1> HIDE DEF e, r
<1>5. e.data \in [0 .. e.cap - 1 -> Nat] /\ e.cap \in Nat /\ e.limit <= e.cap /\ e.limit \in Nat
  BY <1>2 DEF Sound
<1>6. B!Store(e, bs) = u
  <2>1. DOMAIN e.data = 0 .. e.cap - 1
    BY <1>5
  <2> QED
    BY <2>1, Zenon DEF B!Store
<1>7. /\ u \in [0 .. e.cap - 1 -> Nat]
      /\ \A i \in 0 .. e.pos - 1 : u[i] = e.data[i]
      /\ \A i \in 1 .. n : u[e.pos + i - 1] = bs[i]
  <2>1. e.pos \in Nat /\ e.pos + Len(bs) <= e.cap
    BY <1>1, <1>2, <1>5
  <2> DEFINE c == e.cap
             p == e.pos
             d == e.data
  <2>2. Overlaid(u, c, p, d, bs)
    BY DEF Overlaid
  <2> HIDE DEF u, c, p, d, n
  <2>3. c \in Nat /\ p \in Nat /\ d \in [0 .. c - 1 -> Nat] /\ p + Len(bs) <= c
    BY <1>5, <2>1 DEF c, p, d
  <2>4. /\ u \in [0 .. c - 1 -> Nat]
        /\ \A i \in 0 .. p - 1 : u[i] = d[i]
        /\ \A i \in 1 .. Len(bs) : u[p + i - 1] = bs[i]
    <3>1. Holds(u, c, p, d, bs)
      BY <2>2, <2>3, Stored, Zenon
    <3> QED
      BY <3>1, Zenon DEF Holds
  <2> QED
    BY <2>4, Zenon DEF c, p, d, n
<1> HIDE DEF u
<1>10. r = [data |-> u, cap |-> e.cap, limit |-> e.limit, pos |-> l, mark |-> e.mark,
            fixed |-> e.fixed]
  <2>1. e = [data |-> e.data, cap |-> e.cap, limit |-> e.limit, pos |-> e.pos, mark |-> e.mark,
             fixed |-> e.fixed]
    BY <1>2 DEF Sound
  <2>2. r = [e EXCEPT !.data = u, !.pos = l]
    BY <1>2, <1>3, <1>4, <1>6
  <2> HIDE DEF l
  <2> QED
    BY <2>1, <2>2
<1>11. r.data = u /\ r.cap = e.cap /\ r.limit = e.limit /\ r.pos = l /\ r.mark = e.mark
       /\ r.fixed = e.fixed
  BY <1>10
<1>12. Sound(r)
  <2>1. e.fixed \in BOOLEAN
    BY <1>2 DEF Sound
  <2> HIDE DEF l
  <2> QED
    BY <1>1, <1>2, <1>5, <1>7, <1>10, <1>11, <2>1 DEF Sound
<1>13. Wrote(b, r, bs)
  BY <1>1, <1>2, <1>7, <1>11, <1>12 DEF Wrote
<1> QED
  BY <1>13 DEF r

\* Two appends write what lies in both.
LEMMA WroteBoth ==
  ASSUME NEW b, NEW c, NEW d, NEW s \in Seq(Nat), NEW t \in Seq(Nat),
         Sound(b), Wrote(b, c, s), Wrote(c, d, t)
  PROVE  Wrote(b, d, s \o t)
<1> DEFINE m == Len(s)
           n == Len(t)
           st == s \o t
           p == b.pos
<1>1. /\ m \in Nat /\ n \in Nat /\ Len(st) = m + n
      /\ \A i \in 1 .. m : st[i] = s[i]
      /\ \A i \in 1 .. n : st[m + i] = t[i]
  OBVIOUS
<1>2. /\ Sound(c) /\ c.fixed = b.fixed /\ c.pos = p + m /\ b.cap <= c.cap
      /\ \A i \in 0 .. p - 1 : c.data[i] = b.data[i]
      /\ \A i \in 1 .. m : c.data[p + i - 1] = s[i]
  BY DEF Wrote
<1>3. /\ Sound(d) /\ d.fixed = c.fixed /\ d.pos = c.pos + n /\ c.cap <= d.cap
      /\ \A i \in 0 .. c.pos - 1 : d.data[i] = c.data[i]
      /\ \A i \in 1 .. n : d.data[c.pos + i - 1] = t[i]
  BY DEF Wrote
<1>4. b.fixed => d.cap = b.cap
  <2>1. b.fixed => c.fixed /\ c.cap = b.cap
    BY <1>2 DEF Wrote
  <2>2. c.fixed => d.cap = c.cap
    BY DEF Wrote
  <2> QED
    BY <2>1, <2>2
<1>5. p \in Nat /\ b.cap \in Nat /\ c.cap \in Nat /\ d.cap \in Nat
  BY <1>2, <1>3 DEF Sound
<1> HIDE DEF m, n, st, p
<1>6. ASSUME NEW i \in 0 .. p - 1 PROVE d.data[i] = b.data[i]
  <2>1. i \in 0 .. c.pos - 1
    BY <1>1, <1>2, <1>5
  <2> QED
    BY <1>2, <1>3, <2>1
<1>7. ASSUME NEW i \in 1 .. m + n PROVE d.data[p + i - 1] = st[i]
  <2>1. CASE i <= m
    <3>1. i \in 1 .. m /\ p + i - 1 \in 0 .. c.pos - 1
      BY <1>1, <1>2, <1>5, <2>1
    <3> QED
      BY <1>1, <1>2, <1>3, <3>1
  <2>2. CASE i > m
    <3> DEFINE j == i - m
    <3>1. j \in 1 .. n /\ p + i - 1 = c.pos + j - 1 /\ m + j = i
      BY <1>1, <1>2, <1>5, <2>2
    <3> HIDE DEF j
    <3>2. d.data[c.pos + j - 1] = t[j] /\ st[m + j] = t[j]
      BY <1>1, <1>3, <3>1
    <3> QED
      BY <3>1, <3>2
  <2> QED
    BY <1>1, <2>1, <2>2
<1>8. d.pos = p + Len(st) /\ b.cap <= d.cap /\ d.fixed = b.fixed
  BY <1>1, <1>2, <1>3, <1>5
<1>9. Len(st) = m + n
  BY <1>1
<1>10. Wrote(b, d, st)
  BY <1>3, <1>4, <1>6, <1>7, <1>8, <1>9 DEF Wrote, p
<1> QED
  BY <1>10 DEF st

\* The function with which parts are appended.
After(b, parts, f) ==
  f = [i \in 0 .. Len(parts) |-> IF i = 0 THEN b ELSE B!Append_(f[i - 1], parts[i])]

\* Up to two parts, one append after the other.
LEMMA AppendedFew ==
  ASSUME NEW b, NEW a, NEW c
  PROVE  /\ Appended(b, <<>>) = b
         /\ Appended(b, <<a>>) = B!Append_(b, a)
         /\ Appended(b, <<a, c>>) = B!Append_(B!Append_(b, a), c)
<1>1. ASSUME NEW s, NEW n \in 0 .. 2, Len(s) = n
      PROVE  \E f : Appended(b, s) = f[n] /\ After(b, s, f)
  <2> DEFINE h(i) == IF i = 0 THEN b ELSE IF i = 1 THEN B!Append_(b, s[1])
                     ELSE B!Append_(B!Append_(b, s[1]), s[2])
             g == [i \in 0 .. n |-> h(i)]
  <2>1. After(b, s, g)
    <3>1. ASSUME NEW i \in 0 .. n
          PROVE  h(i) = IF i = 0 THEN b ELSE B!Append_(g[i - 1], s[i])
      <4>1. CASE i = 0
        BY <4>1
      <4>2. CASE i = 1
        <5>1. 0 \in 0 .. n
          OBVIOUS
        <5>2. g[0] = h(0)
          BY <5>1
        <5> HIDE DEF g
        <5>3. h(1) = B!Append_(b, s[1]) /\ h(0) = b /\ 1 - 1 = 0 /\ 1 # 0
          OBVIOUS
        <5> HIDE DEF h
        <5> QED
          BY <4>2, <5>2, <5>3
      <4>3. CASE i = 2
        <5>1. 1 \in 0 .. n
          BY <4>3
        <5>2. g[1] = h(1)
          BY <5>1
        <5> HIDE DEF g
        <5>3. /\ h(2) = B!Append_(B!Append_(b, s[1]), s[2]) /\ h(1) = B!Append_(b, s[1])
              /\ 2 - 1 = 1 /\ 2 # 0
          OBVIOUS
        <5> HIDE DEF h
        <5> QED
          BY <4>3, <5>2, <5>3
      <4>4. i = 0 \/ i = 1 \/ i = 2
        OBVIOUS
      <4> QED
        BY <4>1, <4>2, <4>3, <4>4
    <3>2. [i \in 0 .. n |-> h(i)] = [i \in 0 .. n |-> IF i = 0 THEN b ELSE B!Append_(g[i - 1], s[i])]
      <4> HIDE DEF h, g
      <4> QED
        BY <3>1, Zenon
    <3> HIDE DEF h
    <3> QED
      BY <1>1, <3>2, Zenon DEF After
  <2> DEFINE f == CHOOSE u : u = [i \in 0 .. Len(s) |->
                                    IF i = 0 THEN b ELSE B!Append_(u[i - 1], s[i])]
  <2>2. After(b, s, f)
    <3> HIDE DEF g
    <3> QED
      BY <2>1, Zenon DEF After
  <2>3. Appended(b, s) = f[n]
    <3>1. Appended(b, s) = f[Len(s)]
      BY Zenon DEF Appended
    <3> HIDE DEF f
    <3> QED
      BY <1>1, <3>1
  <2> HIDE DEF f
  <2> QED
    BY <2>2, <2>3
<1>2. ASSUME NEW s, NEW n \in 0 .. 2, Len(s) = n, NEW f, After(b, s, f)
      PROVE  /\ f[0] = b
             /\ n >= 1 => f[1] = B!Append_(f[0], s[1])
             /\ n = 2 => f[2] = B!Append_(f[1], s[2])
  <2> DEFINE e(i) == IF i = 0 THEN b ELSE B!Append_(f[i - 1], s[i])
             h == [i \in 0 .. n |-> e(i)]
  <2>1. e(0) = b /\ e(1) = B!Append_(f[0], s[1]) /\ e(2) = B!Append_(f[1], s[2])
    OBVIOUS
  <2>2. h[0] = e(0) /\ (n >= 1 => h[1] = e(1)) /\ (n = 2 => h[2] = e(2))
    <3> HIDE DEF e
    <3> QED
      OBVIOUS
  <2>3. f = h
    BY <1>2, Zenon DEF After
  <2> HIDE DEF h, e
  <2> QED
    BY <2>1, <2>2, <2>3
<1>3. Appended(b, <<>>) = b
  <2> DEFINE s == <<>>
  <2>1. Len(s) = 0
    OBVIOUS
  <2> HIDE DEF s
  <2>2. PICK f : Appended(b, s) = f[0] /\ After(b, s, f)
    BY <1>1, <2>1
  <2>3. f[0] = b
    BY <1>2, <2>1, <2>2
  <2> QED
    BY <2>2, <2>3 DEF s
<1>4. Appended(b, <<a>>) = B!Append_(b, a)
  <2> DEFINE s == <<a>>
  <2>1. Len(s) = 1 /\ s[1] = a
    OBVIOUS
  <2> HIDE DEF s
  <2>2. PICK f : Appended(b, s) = f[1] /\ After(b, s, f)
    BY <1>1, <2>1
  <2>3. f[0] = b /\ f[1] = B!Append_(f[0], a)
    BY <1>2, <2>1, <2>2
  <2> QED
    BY <2>2, <2>3 DEF s
<1>5. Appended(b, <<a, c>>) = B!Append_(B!Append_(b, a), c)
  <2> DEFINE s == <<a, c>>
  <2>1. Len(s) = 2 /\ s[1] = a /\ s[2] = c
    OBVIOUS
  <2> HIDE DEF s
  <2>2. PICK f : Appended(b, s) = f[2] /\ After(b, s, f)
    BY <1>1, <2>1
  <2>3. f[0] = b /\ f[1] = B!Append_(f[0], a) /\ f[2] = B!Append_(f[1], c)
    BY <1>2, <2>1, <2>2
  <2> QED
    BY <2>2, <2>3 DEF s
<1> QED
  BY <1>3, <1>4, <1>5

\* Two parts.
Twice(u, p, q) == Appended(u, <<p, q>>) = B!Append_(B!Append_(u, p), q)

\* They are appended one after the other.
LEMMA AppendedTwo ==
  ASSUME NEW u, NEW p, NEW q
  PROVE  Twice(u, p, q)
<1>1. /\ Appended(u, <<>>) = u
      /\ Appended(u, <<p>>) = B!Append_(u, p)
      /\ Appended(u, <<p, q>>) = B!Append_(B!Append_(u, p), q)
  BY AppendedFew
<1> QED
  BY <1>1 DEF Twice

\* There is room for n bytes.
RoomFor(b, n) == b.pos + n <= MaxUint /\ (b.fixed => b.pos + n <= b.cap)

\* One more append.
LEMMA AppendMore ==
  ASSUME NEW b, NEW c, NEW s \in Seq(Nat), NEW t \in Seq(Nat), Sound(b), Wrote(b, c, s),
         RoomFor(b, Len(s) + Len(t))
  PROVE  Wrote(b, B!Append_(c, t), s \o t)
<1>1. Sound(c) /\ c.fixed = b.fixed /\ c.pos = b.pos + Len(s) /\ (b.fixed => c.cap = b.cap)
  BY DEF Wrote
<1>2. b.pos \in Nat /\ Len(s) \in Nat /\ Len(t) \in Nat
  BY DEF Sound
<1>3. c.pos + Len(t) <= MaxUint /\ (c.fixed => c.pos + Len(t) <= c.cap)
  BY <1>1, <1>2 DEF RoomFor
<1>4. Wrote(c, B!Append_(c, t), t)
  BY <1>1, <1>3, AppendWrites
<1> QED
  BY <1>4, WroteBoth

\* An item is written as its code.
LEMMA ItemWritten ==
  ASSUME NEW b, NEW x, Sound(b), IsItem(x), RoomFor(b, Len(Code(x)))
  PROVE  Wrote(b, Appended(B!Append_(b, Tag(x.type, x.index)), ValueParts(x)), Code(x))
<1> DEFINE t == Tag(x.type, x.index)
           c == B!Append_(b, t)
<1>1. /\ Code(x) = t \o Body(x) /\ Len(Code(x)) = Len(t) + Len(Body(x))
      /\ t \in Seq(Nat) /\ Body(x) \in Seq(Nat)
  <2>1. t \in Seq(Nat)
    BY CodeIs, Tags, Zenon
  <2>2. Body(x) \in Seq(Nat)
    BY ValuesReturn, Zenon DEF Returns
  <2> QED
    BY <2>1, <2>2, CodeIs
<1>2. Len(t) \in Nat /\ Len(Body(x)) \in Nat /\ b.pos \in Nat /\ b.cap \in Nat
      /\ MaxUint \in Nat
  BY <1>1, DypktAssumption DEF Sound
<1> HIDE DEF t
<1>3. b.pos + Len(t) <= MaxUint /\ (b.fixed => b.pos + Len(t) <= b.cap)
  BY <1>1, <1>2 DEF RoomFor
<1>4. Wrote(b, c, t)
  BY <1>1, <1>3, AppendWrites, Zenon
<1> HIDE DEF c
<1>5. CASE ValueParts(x) = <<>>
  <2>1. Body(x) = <<>>
    BY <1>5, FlatFew DEF Body
  <2>2. t \o <<>> = t
    BY <1>1
  <2>3. Appended(c, <<>>) = c
    BY AppendedFew, Zenon
  <2> QED
    BY <1>1, <1>4, <1>5, <2>1, <2>2, <2>3 DEF c, t
<1>6. ASSUME NEW a \in Seq(Nat), ValueParts(x) = <<a>>
      PROVE  Wrote(b, Appended(c, ValueParts(x)), Code(x))
  <2>1. Body(x) = a
    BY <1>6, FlatOne, Zenon DEF Body
  <2>2. Appended(c, <<a>>) = B!Append_(c, a)
    BY AppendedFew, Zenon
  <2>3. RoomFor(b, Len(t) + Len(a))
    BY <1>1, <2>1
  <2>4. Wrote(b, B!Append_(c, a), t \o a)
    BY <1>1, <1>4, <2>3, AppendMore, Zenon
  <2> QED
    BY <1>1, <1>6, <2>1, <2>2, <2>4, Zenon
<1>7. ASSUME NEW a \in Seq(Nat), NEW d \in Seq(Nat), ValueParts(x) = <<a, d>>
      PROVE  Wrote(b, Appended(c, ValueParts(x)), Code(x))
  <2>1. Body(x) = a \o d
    BY <1>7, FlatTwo, Zenon DEF Body
  <2>2. Appended(c, <<a, d>>) = B!Append_(B!Append_(c, a), d)
    <3>1. Twice(c, a, d)
      BY AppendedTwo
    <3> QED
      BY <3>1, Zenon DEF Twice
  <2>3. /\ Len(a) \in Nat /\ Len(d) \in Nat /\ Len(a \o d) = Len(a) + Len(d)
        /\ t \o a \in Seq(Nat) /\ Len(t \o a) = Len(t) + Len(a)
    BY <1>1, Join
  <2>4. RoomFor(b, Len(t) + Len(a)) /\ RoomFor(b, Len(t \o a) + Len(d))
    BY <1>1, <1>2, <2>1, <2>3 DEF RoomFor
  <2> DEFINE e == B!Append_(c, a)
  <2>5. Wrote(b, e, t \o a)
    BY <1>1, <1>4, <2>4, AppendMore, Zenon
  <2> HIDE DEF e
  <2>6. Wrote(b, B!Append_(e, d), (t \o a) \o d)
    BY <2>3, <2>4, <2>5, AppendMore, Zenon
  <2>7. (t \o a) \o d = t \o (a \o d)
    BY <1>1, Assoc, Zenon
  <2> QED
    BY <1>1, <1>7, <2>1, <2>2, <2>6, <2>7, Zenon DEF e
<1>8. Wrote(b, Appended(c, ValueParts(x)), Code(x))
  BY <1>5, <1>6, <1>7, FewParts, Zenon DEF c, t
<1> QED
  BY <1>8 DEF c, t

----------------------------------------------------------------------------
(* Items in a buffer                                                       *)

\* The bytes bs lie at p.
Lies(d, p, bs) == \A k \in 1 .. Len(bs) : d[p + k - 1] = bs[k]

\* The items lie one behind the other, the i-th between f[i - 1] and f[i].
LaidOut(d, items, f) ==
  /\ f \in [0 .. Len(items) -> Nat] /\ f[0] = 0
  /\ \A i \in 1 .. Len(items) :
       f[i] = f[i - 1] + Len(Code(items[i])) /\ Lies(d, f[i - 1], Code(items[i]))
  /\ \A i, j \in 0 .. Len(items) : i < j => f[i] < f[j]

\* They lie there as long as their bytes stay.
LEMMA LaidSame ==
  ASSUME NEW items \in Seq(Item), NEW d, NEW e, NEW f, LaidOut(d, items, f),
         \A i \in 0 .. f[Len(items)] - 1 : e[i] = d[i]
  PROVE  LaidOut(e, items, f)
<1> DEFINE n == Len(items)
<1>1. n \in Nat /\ f \in [0 .. n -> Nat] /\ \A i, j \in 0 .. n : i < j => f[i] < f[j]
  BY DEF LaidOut
<1>2. ASSUME NEW i \in 1 .. n
      PROVE  Lies(e, f[i - 1], Code(items[i]))
  <2> DEFINE c == Code(items[i])
             p == f[i - 1]
  <2>1. f[i] = p + Len(c) /\ Lies(d, p, c)
    BY <1>2 DEF LaidOut
  <2>2. p \in Nat /\ f[i] \in Nat /\ f[n] \in Nat /\ f[i] <= f[n]
    <3>1. i - 1 \in 0 .. n /\ i \in 0 .. n /\ n \in 0 .. n
      BY <1>1
    <3>2. i < n \/ i = n
      BY <1>1
    <3>3. p \in Nat /\ f[i] \in Nat /\ f[n] \in Nat
      BY <1>1, <3>1
    <3>4. i < n => f[i] < f[n]
      BY <1>1, <3>1
    <3> HIDE DEF p, n
    <3> QED
      BY <3>2, <3>3, <3>4
  <2>3. Len(c) \in Nat
    <3>1. IsItem(items[i])
      BY DypktAssumption
    <3> QED
      BY <3>1, CodeIs
  <2> HIDE DEF c, p
  <2>4. ASSUME NEW k \in 1 .. Len(c) PROVE e[p + k - 1] = c[k]
    <3>1. p + k - 1 \in 0 .. f[n] - 1
      BY <2>1, <2>2, <2>3
    <3> QED
      BY <2>1, <3>1 DEF Lies
  <2> QED
    BY <2>4 DEF Lies, c, p
<1> QED
  BY <1>2 DEF LaidOut

\* One item more.
LEMMA LaidMore ==
  ASSUME NEW items \in Seq(Item), NEW x \in Item, NEW d, NEW f, LaidOut(d, items, f),
         Lies(d, f[Len(items)], Code(x))
  PROVE  \E g : /\ LaidOut(d, Append(items, x), g)
                /\ g[Len(items) + 1] = f[Len(items)] + Len(Code(x))
<1> DEFINE n == Len(items)
           more == Append(items, x)
           l == Len(Code(x))
           h(i) == IF i <= n THEN f[i] ELSE f[n] + l
           g == [i \in 0 .. n + 1 |-> h(i)]
<1>1. /\ n \in Nat /\ f \in [0 .. n -> Nat] /\ f[0] = 0
      /\ \A i, j \in 0 .. n : i < j => f[i] < f[j]
  BY DEF LaidOut
<1>2. l \in Nat \ {0}
  BY DypktAssumption, CodeIs
<1>3. Len(more) = n + 1 /\ more[n + 1] = x /\ \A i \in 1 .. n : more[i] = items[i]
  OBVIOUS
<1> HIDE DEF more, l
<1>4. \A i \in 0 .. n : h(i) = f[i] /\ i \in 0 .. n + 1
  BY <1>1
<1>5. h(n + 1) = f[n] + l /\ n + 1 \in 0 .. n + 1
  BY <1>1
<1>6. \A i \in 0 .. n + 1 : i \in 0 .. n \/ i = n + 1
  BY <1>1
<1> HIDE DEF h
<1>7. \A i \in 0 .. n : g[i] = f[i]
  BY <1>4
<1>8. g[n + 1] = f[n] + l
  BY <1>5
<1>9. g = [i \in 0 .. n + 1 |-> g[i]]
  OBVIOUS
<1> HIDE DEF g
<1>10. f[n] \in Nat /\ \A i \in 0 .. n : f[i] \in Nat /\ f[i] <= f[n]
  <2>1. n \in 0 .. n /\ \A i \in 0 .. n : i < n \/ i = n
    BY <1>1
  <2>2. \A i \in 0 .. n : f[i] \in Nat
    BY <1>1
  <2>3. ASSUME NEW i \in 0 .. n PROVE f[i] <= f[n]
    BY <1>1, <2>1, <2>2
  <2> QED
    BY <2>1, <2>2, <2>3
<1>11. g \in [0 .. n + 1 -> Nat]
  <2>1. \A i \in 0 .. n + 1 : g[i] \in Nat
    BY <1>2, <1>6, <1>7, <1>8, <1>10
  <2> QED
    BY <1>9, <2>1
<1>12. ASSUME NEW i \in 1 .. n + 1
       PROVE  g[i] = g[i - 1] + Len(Code(more[i])) /\ Lies(d, g[i - 1], Code(more[i]))
  <2>1. CASE i = n + 1
    <3>1. i - 1 = n /\ n \in 0 .. n
      BY <1>1, <2>1
    <3>2. g[i - 1] = f[n]
      BY <1>7, <3>1
    <3> QED
      BY <1>3, <1>8, <2>1, <3>2 DEF l
  <2>2. CASE i \in 1 .. n
    <3>1. i - 1 \in 0 .. n /\ i \in 0 .. n
      BY <1>1, <2>2
    <3>2. g[i - 1] = f[i - 1] /\ g[i] = f[i] /\ more[i] = items[i]
      BY <1>3, <1>7, <2>2, <3>1
    <3>3. f[i] = f[i - 1] + Len(Code(items[i])) /\ Lies(d, f[i - 1], Code(items[i]))
      BY <2>2 DEF LaidOut
    <3> QED
      BY <3>2, <3>3
  <2> QED
    BY <1>1, <2>1, <2>2
<1>13. ASSUME NEW i \in 0 .. n + 1, NEW j \in 0 .. n + 1, i < j
       PROVE  g[i] < g[j]
  <2>1. i \in 0 .. n
    BY <1>1, <1>13
  <2>2. CASE j \in 0 .. n
    BY <1>1, <1>7, <1>13, <2>1, <2>2
  <2>3. CASE j = n + 1
    BY <1>2, <1>7, <1>8, <1>10, <2>1, <2>3
  <2> QED
    BY <1>6, <2>2, <2>3
<1>14. g[0] = 0
  BY <1>1, <1>7
<1>15. LaidOut(d, more, g)
  BY <1>3, <1>11, <1>12, <1>13, <1>14 DEF LaidOut
<1> QED
  BY <1>8, <1>15 DEF more, l

\* A sequence that begins with another.
LEMMA SplitAt ==
  ASSUME NEW s \in Seq(Nat), NEW c \in Seq(Nat), Len(c) <= Len(s),
         \A i \in 1 .. Len(c) : s[i] = c[i]
  PROVE  SubSeq(s, Len(c) + 1, Len(s)) \in Seq(Nat) /\ s = c \o SubSeq(s, Len(c) + 1, Len(s))
<1> DEFINE n == Len(c)
           m == Len(s)
           t == SubSeq(s, n + 1, m)
           u == c \o t
<1>1. n \in Nat /\ m \in Nat
  OBVIOUS
<1>2. t \in Seq(Nat) /\ Len(t) = m - n /\ \A i \in 1 .. m - n : t[i] = s[n + i]
  BY <1>1
<1> HIDE DEF t
<1>3. /\ Len(u) = m /\ u \in Seq(Nat)
      /\ \A i \in 1 .. n : u[i] = c[i]
      /\ \A i \in 1 .. m - n : u[n + i] = t[i]
  BY <1>1, <1>2
<1> HIDE DEF u
<1>4. ASSUME NEW i \in 1 .. m PROVE u[i] = s[i]
  <2>1. CASE i <= n
    <3>1. i \in 1 .. n
      BY <1>1, <2>1
    <3> QED
      BY <1>3, <3>1
  <2>2. CASE i > n
    <3> DEFINE j == i - n
    <3>1. j \in 1 .. m - n /\ n + j = i
      BY <1>1, <2>2
    <3> HIDE DEF j
    <3>2. u[n + j] = t[j] /\ t[j] = s[n + j]
      BY <1>2, <1>3, <3>1
    <3> QED
      BY <3>1, <3>2
  <2> QED
    BY <1>1, <2>1, <2>2
<1>5. u = [i \in 1 .. m |-> u[i]] /\ s = [i \in 1 .. m |-> s[i]]
  BY <1>3
<1>6. u = s
  BY <1>4, <1>5, Zenon
<1> QED
  BY <1>2, <1>6 DEF u, t

\* What stands behind.
LEMMA Behind ==
  ASSUME NEW a \in Seq(Nat), NEW b \in Seq(Nat)
  PROVE  SubSeq(a \o b, Len(a) + 1, Len(a \o b)) = b
<1>1. SubSeq((a \o b) \o <<>>, Len(a) + 1, Len(a) + Len(b)) = b
  BY Between
<1>2. (a \o b) \o <<>> = a \o b /\ Len(a \o b) = Len(a) + Len(b)
  OBVIOUS
<1> QED
  BY <1>1, <1>2

\* c is b with its position moved by n.
Moved(b, c, n) ==
  /\ Sound(c) /\ c.pos = b.pos + n
  /\ c.limit = b.limit /\ c.cap = b.cap /\ c.data = b.data

\* Bytes that lie before the limit are taken.
LEMMA Takes ==
  ASSUME NEW b, Sound(b), NEW n \in Nat, b.pos + n <= b.limit, b.limit <= MaxUint
  PROVE  Moved(b, B!Next_(b, n), n)
<1> DEFINE c == B!Next_(b, n)
           p == b.pos + n
<1>1. b.pos \in Nat /\ b.limit \in Nat /\ b.cap \in Nat /\ MaxUint \in Nat
  BY DypktAssumption DEF Sound
<1>2. B!Plus(b.pos, n) = p
  BY <1>1 DEF B!Plus
<1>3. c = [b EXCEPT !.pos = p]
  BY <1>2 DEF B!Next_
<1>4. b = [data |-> b.data, cap |-> b.cap, limit |-> b.limit, pos |-> b.pos, mark |-> b.mark,
           fixed |-> b.fixed]
  BY DEF Sound
<1>5. p \in Nat /\ p <= b.limit
  BY <1>1
<1> HIDE DEF c, p
<1>6. c = [data |-> b.data, cap |-> b.cap, limit |-> b.limit, pos |-> p, mark |-> b.mark,
           fixed |-> b.fixed]
  BY <1>3, <1>4
<1>7. /\ c.data = b.data /\ c.cap = b.cap /\ c.limit = b.limit /\ c.pos = p /\ c.mark = b.mark
      /\ c.fixed = b.fixed
  BY <1>6
<1>8. Sound(c)
  BY <1>5, <1>6, <1>7 DEF Sound
<1> QED
  BY <1>7, <1>8 DEF Moved, c, p

\* The bytes ahead of a reader begin with the item that lies there.
LEMMA SeesNext ==
  ASSUME NEW b, Sound(b), NEW c \in Seq(Nat), Lies(b.data, b.pos, c), b.pos + Len(c) <= b.limit
  PROVE  \E tail \in Seq(Nat) : Ahead(b) = c \o tail
<1> DEFINE m == b.cap - b.pos + 16
           h(i) == B!ByteAt(b, b.pos + i - 1)
           s == [i \in 1 .. m |-> h(i)]
<1>1. /\ b.pos \in Nat /\ b.cap \in Nat /\ b.limit \in Nat /\ Len(c) \in Nat
      /\ b.limit <= b.cap /\ b.pos <= b.limit /\ b.data \in [0 .. b.cap - 1 -> Nat]
  BY DEF Sound
<1>2. m \in Nat /\ Len(c) <= m
  BY <1>1
<1>3. ASSUME NEW i \in 1 .. m PROVE h(i) \in Nat
  BY <1>1 DEF B!ByteAt
<1>4. ASSUME NEW i \in 1 .. Len(c) PROVE h(i) = c[i] /\ i \in 1 .. m
  <2>1. b.pos + i - 1 \in 0 .. b.cap - 1 /\ i \in 1 .. m
    <3> DEFINE l == Len(c)
               p == b.pos
               e == b.cap
    <3>1. i \in 1 .. l /\ l \in Nat /\ p + l <= e /\ p \in Nat /\ e \in Nat
      BY <1>1
    <3> HIDE DEF l, p, e
    <3>2. p + i - 1 \in 0 .. e - 1
      BY <3>1
    <3>3. i \in 1 .. e - p + 16
      BY <3>1
    <3> QED
      BY <3>2, <3>3 DEF p, e
  <2>2. b.data[b.pos + i - 1] = c[i]
    BY DEF Lies
  <2> QED
    BY <1>1, <2>1, <2>2 DEF B!ByteAt
<1>5. Ahead(b) = s
  BY DEF Ahead
<1> HIDE DEF h, m
<1>6. s \in Seq(Nat) /\ Len(s) = m /\ \A i \in 1 .. Len(c) : s[i] = c[i]
  BY <1>2, <1>3, <1>4
<1> HIDE DEF s
<1> QED
  BY <1>2, <1>5, <1>6, SplitAt

\* The tag t and the value v are those of x, and a reader that has passed them
\* as y stands behind it.
ReadsAs(b, x, t, v, y) ==
  /\ t.type = x.type /\ t.index = x.index /\ v.val = x.val
  /\ v.len > 0 => B!HasData(y, v.len)
  /\ Moved(b, B!NextData(y, v.len), Len(Code(x)))

\* The item that lies at the position is read.
LEMMA ItemRead ==
  ASSUME NEW b, Sound(b), NEW x, IsItem(x), Lies(b.data, b.pos, Code(x)),
         b.pos + Len(Code(x)) <= b.limit, b.limit <= MaxUint,
         NEW bs, bs = Ahead(b), NEW t, t = NextTypdex(bs),
         NEW rest, rest = SubSeq(bs, t.used + 1, Len(bs)),
         NEW v, v = Value(t.type, t.index, rest),
         NEW y, y = B!Next_(b, t.used + v.skip)
  PROVE  ReadsAs(b, x, t, v, y)
<1> DEFINE tag == Tag(x.type, x.index)
           body == Body(x)
           l == Len(tag)
           m == Len(body)
<1>1. /\ Code(x) = tag \o body /\ Code(x) \in Seq(Nat) /\ Len(Code(x)) = l + m
      /\ x.type \in 0 .. 255 /\ x.index \in 0 .. C!Pow2[20] - 1
  BY CodeIs
<1>2. tag \in Seq(Nat) /\ body \in Seq(Nat)
  <2>1. tag \in Seq(Nat)
    BY <1>1, Tags, Zenon
  <2>2. body \in Seq(Nat)
    BY ValuesReturn, Zenon DEF Returns
  <2> QED
    BY <2>1, <2>2
<1>3. l \in Nat /\ m \in Nat
  BY <1>2
<1>4. PICK tail \in Seq(Nat) : bs = Code(x) \o tail
  BY <1>1, SeesNext, Zenon
<1>5. ASSUME NEW s \in Seq(Nat)
      PROVE  NextTypdex(tag \o s) = [type |-> x.type, index |-> x.index, used |-> l]
  BY <1>1, Tags, Zenon
<1>6. ReturnsWith(x, tail, Value(x.type, x.index, body \o tail))
  BY ValuesReturn, Zenon DEF Returns
<1> HIDE DEF tag, body
<1>7. bs = tag \o (body \o tail) /\ body \o tail \in Seq(Nat)
  <2>1. body \o tail \in Seq(Nat)
    BY <1>2, Join, Zenon
  <2>2. (tag \o body) \o tail = tag \o (body \o tail)
    BY <1>2, Assoc, Zenon
  <2> QED
    BY <1>1, <1>4, <2>1, <2>2
<1>8. t = [type |-> x.type, index |-> x.index, used |-> l]
  BY <1>5, <1>7, Zenon
<1>9. t.type = x.type /\ t.index = x.index /\ t.used = l
  <2> HIDE DEF l
  <2> QED
    BY <1>8
<1>10. rest = body \o tail
  BY <1>2, <1>7, <1>9, Behind, Zenon
<1>11. ReturnsWith(x, tail, v)
  BY <1>6, <1>9, <1>10, Zenon
<1>12. v.val = x.val /\ v.skip \in Nat /\ v.len \in Nat /\ v.skip + v.len = m
  BY <1>11 DEF ReturnsWith, body
<1> DEFINE s == v.skip
           n == v.len
           p == b.pos
           lim == b.limit
<1>13. p \in Nat /\ lim \in Nat /\ s \in Nat /\ n \in Nat /\ s + n = m /\ p + (l + m) <= lim
       /\ lim <= MaxUint
  BY <1>1, <1>12 DEF Sound
<1> HIDE DEF l, m
<1>14. l + s \in Nat /\ b.pos + (l + s) <= b.limit
  <2>1. l + s \in Nat /\ p + (l + s) <= lim
    <3> HIDE DEF s, n, p, lim
    <3> QED
      BY <1>3, <1>13 DEF l
  <2> QED
    BY <2>1
<1>15. Moved(b, y, l + s)
  BY <1>9, <1>14, Takes
<1>16. Sound(y) /\ y.pos = p + (l + s) /\ y.limit = lim /\ y.cap = b.cap /\ y.data = b.data
  BY <1>15 DEF Moved
<1> DEFINE z == B!NextData(y, n)
<1>17. CASE n = 0
  <2>1. ~(n > 0) /\ ~(n # 0) /\ l + s = l + m
    <3> HIDE DEF s, n, p, lim
    <3> QED
      BY <1>3, <1>13, <1>17
  <2>2. z = y
    BY <2>1, Zenon DEF B!NextData, B!HasData
  <2>3. Moved(b, z, l + m)
    BY <1>15, <2>1, <2>2
  <2> QED
    BY <1>1, <1>9, <1>12, <2>1, <2>3 DEF l, m, ReadsAs
<1>18. CASE n # 0
  <2>1. y.pos + n <= y.limit /\ y.limit <= MaxUint /\ y.pos + n = p + (l + m)
    <3> DEFINE yp == y.pos
               yl == y.limit
    <3>1. yp = p + (l + s) /\ yl = lim
      BY <1>16
    <3> HIDE DEF s, n, p, lim, yp, yl
    <3>2. yp + n <= yl /\ yl <= MaxUint /\ yp + n = p + (l + m)
      BY <1>3, <1>13, <3>1
    <3> QED
      BY <3>2 DEF yp, yl
  <2>2. B!Plus(y.pos, n) = y.pos + n
    <3>1. y.pos \in Nat /\ y.limit \in Nat /\ MaxUint \in Nat
      BY <1>16, DypktAssumption DEF Sound
    <3> HIDE DEF n
    <3> QED
      BY <1>13, <2>1, <3>1 DEF B!Plus
  <2>3. B!HasData(y, n)
    BY <1>18, <2>1, <2>2 DEF B!HasData
  <2>4. z = B!Next_(y, n)
    BY <2>3 DEF B!NextData
  <2>5. Moved(y, z, n)
    BY <1>13, <1>16, <2>1, <2>4, Takes
  <2>6. Moved(b, z, l + m)
    BY <1>16, <2>1, <2>5 DEF Moved
  <2> QED
    BY <1>1, <1>9, <1>12, <2>3, <2>6 DEF l, m, ReadsAs
<1> QED
  BY <1>17, <1>18

----------------------------------------------------------------------------
(* The invariant                                                           *)

\* The items sent lie in the writer's buffer up to its position, and not all
\* that may come is more than a uint can count.
Written ==
  /\ got = <<>> /\ over = FALSE
  /\ Len(sent) <= MaxItems /\ MaxItems * out.pos <= Len(sent) * MaxUint
  /\ out.pos <= MaxUint
  /\ \E f : LaidOut(out.data, sent, f) /\ f[Len(sent)] = out.pos

\* They lie in the reader's buffer up to its limit, and the reader stands
\* behind the last item it has read, with no eof before that one.
Readable ==
  /\ Sound(in) /\ in.limit <= MaxUint
  /\ \E f : LaidOut(in.data, sent, f) /\ f[Len(sent)] = in.limit /\ f[Len(got)] = in.pos
  /\ Len(got) <= Len(sent) /\ \A i \in 1 .. Len(got) : got[i] = sent[i]
  /\ \A i \in 1 .. Len(got) : IsEof(sent[i]) => i = Len(got) /\ over = TRUE
  /\ over = TRUE => Len(got) = Len(sent) \/ (Len(got) \in 1 .. Len(sent) /\ IsEof(sent[Len(got)]))

IInv ==
  /\ phase \in {"writing", "reading"} /\ fault = FALSE /\ over \in BOOLEAN
  /\ sent \in Seq(Item) /\ got \in Seq(Item)
  /\ Sound(out) /\ DOMAIN in.data = 0 .. in.cap - 1 /\ in.pos <= in.limit
  /\ phase = "writing" => Written
  /\ phase = "reading" => Readable

\* The constants.
LEMMA Constants ==
  /\ MaxUint \in Nat /\ Memory \in Nat /\ MaxItems \in Nat
  /\ \A x \in Item : /\ IsItem(x) /\ Len(Code(x)) \in Nat \ {0} /\ Code(x) \in Seq(Nat)
                     /\ MaxItems * Len(Code(x)) <= MaxUint
<1>1. \A x \in Item : IsItem(x) /\ MaxItems * Len(Code(x)) <= MaxUint
  BY DypktAssumption
<1>2. \A x \in Item : Len(Code(x)) \in Nat \ {0} /\ Code(x) \in Seq(Nat)
  BY <1>1, CodeIs, Zenon
<1> QED
  BY <1>1, <1>2, DypktAssumption

\* The buffers of the constructors.
LEMMA Created ==
  /\ Sound(B!Create(0)) /\ B!Create(0).pos = 0
  /\ LET b == B!Refer([i \in 0 .. Memory - 1 |-> 0], Memory, TRUE) IN Sound(b) /\ b.pos = 0
<1>1. Memory \in Nat
  BY Constants
<1>2. Sound(B!Create(0)) /\ B!Create(0).pos = 0
  <2> DEFINE b == B!Create(0)
             d == [i \in 0 .. 16 - 1 |-> 0]
  <2>1. B!AllocSize(0) = 16
    BY DEF B!AllocSize, B!Greatest
  <2>2. b = [data |-> d, cap |-> 16, limit |-> 0, pos |-> 0, mark |-> 0, fixed |-> FALSE]
    BY <2>1, Zenon DEF B!Create
  <2>3. d \in [0 .. 16 - 1 -> Nat]
    OBVIOUS
  <2> HIDE DEF b, d
  <2>4. b.data = d /\ b.cap = 16 /\ b.limit = 0 /\ b.pos = 0 /\ b.mark = 0 /\ b.fixed = FALSE
    BY <2>2
  <2>5. Sound(b) /\ b.pos = 0
    BY <2>2, <2>3, <2>4 DEF Sound
  <2> QED
    BY <2>5 DEF b
<1>3. LET b == B!Refer([i \in 0 .. Memory - 1 |-> 0], Memory, TRUE) IN Sound(b) /\ b.pos = 0
  <2> DEFINE d == [i \in 0 .. Memory - 1 |-> 0]
             b == B!Refer(d, Memory, TRUE)
  <2>1. d \in [0 .. Memory - 1 -> Nat]
    OBVIOUS
  <2> HIDE DEF d
  <2>2. b = [data |-> d, cap |-> Memory, limit |-> 0, pos |-> 0, mark |-> 0, fixed |-> TRUE]
    BY DEF B!Refer
  <2> HIDE DEF b
  <2>3. b.data = d /\ b.cap = Memory /\ b.limit = 0 /\ b.pos = 0 /\ b.mark = 0 /\ b.fixed = TRUE
    BY <2>2
  <2>4. Sound(b) /\ b.pos = 0
    BY <1>1, <2>1, <2>2, <2>3 DEF Sound
  <2> QED
    BY <2>4 DEF b, d
<1> QED
  BY <1>2, <1>3

\* The invariant holds at first.
LEMMA InitInv ==
  ASSUME Init
  PROVE  IInv
<1>1. Sound(out) /\ out.pos = 0
  BY Created, Zenon DEF Init
<1>2. in.data = <<>> /\ in.cap = 0 /\ in.limit = 0 /\ in.pos = 0
  BY DEF Init, B!Refer
<1>3. DOMAIN in.data = 0 .. in.cap - 1 /\ in.pos <= in.limit
  <2>1. DOMAIN <<>> = 0 .. 0 - 1
    OBVIOUS
  <2> QED
    BY <1>2, <2>1
<1>4. phase = "writing" /\ sent = <<>> /\ got = <<>> /\ fault = FALSE /\ over = FALSE
  BY DEF Init
<1>5. Len(sent) = 0 /\ sent \in Seq(Item) /\ got \in Seq(Item)
  BY <1>4
<1>6. LaidOut(out.data, sent, [i \in 0 .. 0 |-> 0])
  BY <1>5 DEF LaidOut
<1>7. MaxItems * out.pos <= Len(sent) * MaxUint /\ out.pos <= MaxUint /\ Len(sent) <= MaxItems
  BY <1>1, <1>5, Constants
<1>8. \E f : LaidOut(out.data, sent, f) /\ f[Len(sent)] = out.pos
  <2> DEFINE f == [i \in 0 .. 0 |-> 0]
  <2>1. f[0] = 0
    OBVIOUS
  <2>2. LaidOut(out.data, sent, f)
    BY <1>6
  <2> HIDE DEF f
  <2> QED
    BY <1>1, <1>5, <2>1, <2>2
<1>9. Written
  BY <1>4, <1>7, <1>8 DEF Written
<1> QED
  BY <1>1, <1>3, <1>4, <1>5, <1>9 DEF IInv

\* As many items as may come fit into a uint.
LEMMA AllFit ==
  ASSUME NEW m \in Nat, NEW p \in Nat, NEW l \in Nat, NEW n \in Nat, NEW u \in Nat,
         n < m, m * p <= n * u, m * l <= u
  PROVE  m * (p + l) <= (n + 1) * u /\ p + l <= u
<1>1. /\ m * p \in Nat /\ m * l \in Nat /\ n * u \in Nat /\ (n + 1) * u \in Nat
      /\ m * (p + l) \in Nat /\ m * u \in Nat /\ m * (u + 1) \in Nat
  BY P!Products, OneIndex
<1>2. m * (p + l) = m * p + m * l
  BY P!Products, OneIndex
<1>3. (n + 1) * u = n * u + u
  <2>1. u * (n + 1) = u * n + u * 1 /\ u * (n + 1) = (n + 1) * u /\ u * n = n * u
    BY P!Products, OneIndex
  <2> QED
    BY <2>1
<1>4. m * (p + l) <= (n + 1) * u
  <2> DEFINE a == m * p
             b == m * l
             c == n * u
             d == m * (p + l)
             e == (n + 1) * u
  <2>1. a \in Nat /\ b \in Nat /\ c \in Nat /\ a <= c /\ b <= u /\ d = a + b /\ e = c + u
    BY <1>1, <1>2, <1>3
  <2> HIDE DEF a, b, c, d, e
  <2>2. d <= e
    BY <2>1
  <2> QED
    BY <2>2 DEF d, e
<1>5. (n + 1) * u <= m * u
  <2>1. n + 1 <= m /\ n + 1 \in Nat
    OBVIOUS
  <2> QED
    BY <2>1, P!Products, OneIndex
<1>6. p + l <= u
  <2> SUFFICES ASSUME p + l > u PROVE FALSE
    OBVIOUS
  <2> DEFINE a == m * (p + l)
             b == m * u
             c == (n + 1) * u
  <2>1. u < p + l /\ p + l \in Nat /\ m # 0
    OBVIOUS
  <2>2. u * m < (p + l) * m
    BY <2>1, P!Products, OneIndex
  <2>3. u * m = b /\ (p + l) * m = a
    BY <2>1, P!Products, OneIndex
  <2>4. b < a /\ a <= c /\ c <= b /\ a \in Nat /\ b \in Nat /\ c \in Nat
    BY <1>1, <1>4, <1>5, <2>2, <2>3
  <2> HIDE DEF a, b, c
  <2> QED
    BY <2>4
<1> QED
  BY <1>4, <1>6

\* A writer that looks keeps the items in its buffer.
LEMMA AppendInv ==
  ASSUME IInv, NEW x \in Item, AppendItem(x)
  PROVE  IInv'
<1> DEFINE b == out
           c == Code(x)
           l == Len(c)
           n == Len(sent)
           o == Appended(B!Append_(out, Tag(x.type, x.index)), ValueParts(x))
<1>1. /\ phase = "writing" /\ n < MaxItems /\ (out.fixed => out.pos + l <= out.cap)
      /\ out' = o /\ fault' = (fault \/ out'.pos > out'.cap) /\ sent' = Append(sent, x)
      /\ phase' = phase /\ in' = in /\ got' = got /\ over' = over
  BY DEF AppendItem, Room
<1>2. /\ fault = FALSE /\ over \in BOOLEAN /\ sent \in Seq(Item) /\ got \in Seq(Item)
      /\ Sound(out) /\ DOMAIN in.data = 0 .. in.cap - 1 /\ in.pos <= in.limit /\ Written
  BY <1>1 DEF IInv
<1>3. /\ IsItem(x) /\ l \in Nat \ {0} /\ c \in Seq(Nat) /\ MaxItems * l <= MaxUint
      /\ MaxUint \in Nat /\ MaxItems \in Nat /\ n \in Nat /\ out.pos \in Nat
  BY <1>2, Constants DEF Sound
<1>4. /\ got = <<>> /\ over = FALSE /\ MaxItems * out.pos <= n * MaxUint
  BY <1>2 DEF Written
<1> HIDE DEF o, c
<1>5. MaxItems * (out.pos + l) <= (n + 1) * MaxUint /\ out.pos + l <= MaxUint
  <2> DEFINE p == out.pos
  <2>1. p \in Nat /\ MaxItems * p <= n * MaxUint
    BY <1>3, <1>4
  <2> HIDE DEF n, p, l
  <2>2. MaxItems * (p + l) <= (n + 1) * MaxUint /\ p + l <= MaxUint
    <3>1. l \in Nat
      BY <1>3
    <3> QED
      BY <1>1, <1>3, <2>1, <3>1, AllFit
  <2> QED
    BY <2>2 DEF p
<1>6. Wrote(out, o, c)
  <2>1. RoomFor(out, Len(Code(x)))
    BY <1>1, <1>5 DEF RoomFor, c
  <2> QED
    BY <1>2, <1>3, <2>1, ItemWritten DEF o, c
<1>7. /\ Sound(o) /\ o.pos = out.pos + l
      /\ \A i \in 0 .. out.pos - 1 : o.data[i] = out.data[i]
      /\ Lies(o.data, out.pos, c)
  BY <1>6 DEF Wrote, Lies
<1>8. o.pos <= o.cap /\ o.pos \in Nat /\ o.cap \in Nat
  BY <1>7 DEF Sound
<1>9. fault' = FALSE
  <2>1. ~(out'.pos > out'.cap)
    BY <1>1, <1>8
  <2>2. fault' = (fault \/ out'.pos > out'.cap)
    BY <1>1
  <2> QED
    BY <1>2, <2>1, <2>2, Zenon
<1>10. PICK f : LaidOut(out.data, sent, f) /\ f[n] = out.pos
  BY <1>2 DEF Written
<1>11. LaidOut(o.data, sent, f)
  BY <1>2, <1>7, <1>10, LaidSame
<1>12. PICK g : LaidOut(o.data, Append(sent, x), g) /\ g[n + 1] = f[n] + l
  BY <1>2, <1>7, <1>10, <1>11, LaidMore DEF c
<1>13. Len(sent') = n + 1 /\ sent' \in Seq(Item)
  BY <1>1, <1>2
<1>14. Written'
  <2>1. LaidOut(out'.data, sent', g) /\ g[Len(sent')] = out'.pos
    BY <1>1, <1>7, <1>10, <1>12, <1>13
  <2>2. MaxItems * out'.pos <= Len(sent') * MaxUint /\ out'.pos <= MaxUint
    BY <1>1, <1>5, <1>7, <1>13
  <2>3. got' = <<>> /\ over' = FALSE /\ Len(sent') <= MaxItems
    BY <1>1, <1>3, <1>4, <1>13
  <2> QED
    BY <2>1, <2>2, <2>3 DEF Written
<1> QED
  BY <1>1, <1>2, <1>7, <1>9, <1>13, <1>14 DEF IInv

\* Sent is what was written.
LEMMA SendInv ==
  ASSUME IInv, Send
  PROVE  IInv'
<1>1. /\ phase = "writing" /\ phase' = "reading"
      /\ out' = out /\ sent' = sent /\ got' = got /\ fault' = fault /\ over' = over
  BY DEF Send
<1>2. /\ fault = FALSE /\ over \in BOOLEAN /\ sent \in Seq(Item) /\ got \in Seq(Item)
      /\ Sound(out) /\ Written
  BY <1>1 DEF IInv
<1> DEFINE p == out.pos
           d == out.data
<1>3. /\ p \in Nat /\ out.cap \in Nat /\ p <= out.cap /\ p <= MaxUint
      /\ d \in [0 .. out.cap - 1 -> Nat] /\ got = <<>> /\ over = FALSE
  BY <1>2 DEF Sound, Written
<1>4. Sound(in') /\ in'.pos = 0 /\ in'.limit = p /\ \A i \in 0 .. p - 1 : in'.data[i] = d[i]
  <2>1. ASSUME NEW u, NEW n \in Nat, NEW f \in BOOLEAN, u \in [0 .. n - 1 -> Nat], p <= n,
               in' = [data |-> u, cap |-> n, limit |-> p, pos |-> 0, mark |-> 0, fixed |-> f],
               \A i \in 0 .. p - 1 : u[i] = d[i]
        PROVE  /\ Sound(in') /\ in'.pos = 0 /\ in'.limit = p
               /\ \A i \in 0 .. p - 1 : in'.data[i] = d[i]
    <3> DEFINE b == in'
    <3>0. b = [data |-> u, cap |-> n, limit |-> p, pos |-> 0, mark |-> 0, fixed |-> f]
      BY <2>1
    <3> HIDE DEF b
    <3>1. /\ b.data = u /\ b.cap = n /\ b.limit = p /\ b.pos = 0 /\ b.mark = 0 /\ b.fixed = f
      BY <3>0
    <3>2. Sound(b)
      BY <1>3, <2>1, <3>0, <3>1 DEF Sound
    <3>3. b.pos = 0 /\ b.limit = p /\ \A i \in 0 .. p - 1 : b.data[i] = d[i]
      BY <2>1, <3>1
    <3> QED
      BY <3>2, <3>3 DEF b
  <2> DEFINE u == [i \in 0 .. p - 1 |-> d[i]]
  <2>2. u = Packet
    BY DEF Packet
  <2>3. u \in [0 .. p - 1 -> Nat] /\ \A i \in 0 .. p - 1 : u[i] = d[i]
    BY <1>3
  <2> HIDE DEF u
  <2>4. CASE in' = B!Refer(Packet, out.pos, FALSE)
    <3>1. in' = [data |-> u, cap |-> p, limit |-> p, pos |-> 0, mark |-> 0, fixed |-> TRUE]
      BY <2>2, <2>4 DEF B!Refer
    <3> HIDE DEF p, d
    <3>2. p \in Nat /\ p <= p /\ TRUE \in BOOLEAN
      BY <1>3
    <3> QED
      BY <2>1, <2>3, <3>1, <3>2, Zenon
  <2>5. CASE in' = B!Copy(Packet, out.pos, FALSE)
    <3> DEFINE n == B!AllocSize(p)
               w == [i \in 0 .. n - 1 |-> IF i < p THEN u[i] ELSE 0]
    <3>1. n \in Nat /\ p <= n
      BY <1>3 DEF B!AllocSize, B!Greatest
    <3>2. in' = [B!Create(p) EXCEPT !.limit = p, !.data = w]
      BY <2>2, <2>5, Zenon DEF B!Copy
    <3> HIDE DEF w
    <3>3. in' = [data |-> w, cap |-> n, limit |-> p, pos |-> 0, mark |-> 0, fixed |-> FALSE]
      <4> HIDE DEF n
      <4> QED
        BY <3>2 DEF B!Create, n
    <3>4. w \in [0 .. n - 1 -> Nat] /\ \A i \in 0 .. p - 1 : w[i] = u[i]
      <4> HIDE DEF n, p
      <4> QED
        BY <1>3, <2>3, <3>1, Grown DEF w
    <3> HIDE DEF n, p, d
    <3>5. \A i \in 0 .. p - 1 : w[i] = d[i]
      BY <2>3, <3>4
    <3> QED
      BY <2>1, <3>1, <3>3, <3>4, <3>5
  <2>6. CASE in' = B!Flip(out)
    <3>1. in' = [out EXCEPT !.limit = p, !.pos = 0, !.mark = 0]
      BY <2>6 DEF B!Flip
    <3>2. out = [data |-> d, cap |-> out.cap, limit |-> out.limit, pos |-> p, mark |-> out.mark,
                 fixed |-> out.fixed]
      BY <1>2 DEF Sound
    <3>3. out.fixed \in BOOLEAN
      BY <1>2 DEF Sound
    <3> DEFINE n == out.cap
               f == out.fixed
    <3>4. in' = [data |-> d, cap |-> n, limit |-> p, pos |-> 0, mark |-> 0, fixed |-> f]
      <4> DEFINE b == out
                 k == in'
      <4>1. k = [b EXCEPT !.limit = p, !.pos = 0, !.mark = 0]
        BY <3>1
      <4> DEFINE lm == out.limit
                 mk == out.mark
      <4>2. b = [data |-> d, cap |-> n, limit |-> lm, pos |-> p, mark |-> mk, fixed |-> f]
        BY <3>2
      <4> HIDE DEF d, p, n, f, b, k, lm, mk
      <4>3. k = [data |-> d, cap |-> n, limit |-> p, pos |-> 0, mark |-> 0, fixed |-> f]
        BY <4>1, <4>2
      <4> QED
        BY <4>3 DEF k
    <3>5. n \in Nat /\ p <= n /\ f \in BOOLEAN /\ d \in [0 .. n - 1 -> Nat]
      BY <1>3, <3>3
    <3> HIDE DEF d, p, n, f
    <3> QED
      BY <2>1, <3>4, <3>5
  <2> QED
    BY <2>4, <2>5, <2>6 DEF Send, Unpack
<1>5. PICK f : LaidOut(d, sent, f) /\ f[Len(sent)] = p
  BY <1>2 DEF Written
<1>6. LaidOut(in'.data, sent, f)
  BY <1>2, <1>4, <1>5, LaidSame
<1>7. f[0] = 0 /\ Len(got) = 0 /\ Len(sent) \in Nat
  BY <1>2, <1>3, <1>5 DEF LaidOut
<1>8. Readable'
  <2>1. LaidOut(in'.data, sent', f) /\ f[Len(sent')] = in'.limit /\ f[Len(got')] = in'.pos
    BY <1>1, <1>4, <1>5, <1>6, <1>7
  <2>2. Len(got') <= Len(sent') /\ \A i \in 1 .. Len(got') : FALSE
    BY <1>1, <1>7
  <2>3. over' = FALSE /\ Sound(in') /\ in'.limit <= MaxUint
    BY <1>1, <1>3, <1>4
  <2> QED
    BY <2>1, <2>2, <2>3 DEF Readable
<1>9. DOMAIN in'.data = 0 .. in'.cap - 1 /\ in'.pos <= in'.limit
  BY <1>4 DEF Sound
<1> QED
  BY <1>1, <1>2, <1>8, <1>9 DEF IInv

\* Every item is read with the function of its type.
LEMMA ReadInv ==
  ASSUME IInv, ReadItem
  PROVE  IInv'
<1>1. /\ phase = "reading" /\ over = FALSE /\ B!Remainder(in) > 0
      /\ phase' = phase /\ out' = out /\ sent' = sent
  BY DEF ReadItem, IInv
<1>2. /\ fault = FALSE /\ sent \in Seq(Item) /\ got \in Seq(Item) /\ Sound(out) /\ Readable
  BY <1>1 DEF IInv
<1> DEFINE n == Len(got)
           m == Len(sent)
           p == in.pos
           lim == in.limit
           x == sent[n + 1]
           l == Len(Code(x))
<1>3. /\ Sound(in) /\ lim <= MaxUint /\ n \in Nat /\ m \in Nat /\ n <= m
      /\ p \in Nat /\ lim \in Nat /\ p <= lim /\ in.cap \in Nat /\ lim <= in.cap
  BY <1>2 DEF Readable, Sound
<1>4. PICK f : LaidOut(in.data, sent, f) /\ f[m] = lim /\ f[n] = p
  BY <1>2 DEF Readable
<1>5. p < lim
  <2>1. B!Remainder(in) = lim - p
    BY <1>3 DEF B!Remainder, B!Minus
  <2> HIDE DEF p, lim
  <2> QED
    BY <1>1, <1>3, <2>1
<1>6. n < m
  BY <1>3, <1>4, <1>5
<1>7. /\ f \in [0 .. m -> Nat] /\ \A i, j \in 0 .. m : i < j => f[i] < f[j]
      /\ \A i \in 1 .. m : f[i] = f[i - 1] + Len(Code(sent[i])) /\ Lies(in.data, f[i - 1], Code(sent[i]))
  BY <1>4 DEF LaidOut
<1>8. n + 1 \in 1 .. m /\ n + 1 \in 0 .. m /\ m \in 0 .. m /\ (n + 1) - 1 = n
  BY <1>3, <1>6
<1>9. x \in Item /\ IsItem(x) /\ l \in Nat \ {0}
  <2>1. x \in Item
    BY <1>2, <1>8
  <2> HIDE DEF x
  <2> QED
    BY <2>1, Constants
<1>10. f[n + 1] = p + l /\ Lies(in.data, p, Code(x)) /\ p + l <= lim
  <2>1. f[n + 1] = f[(n + 1) - 1] + l /\ Lies(in.data, f[(n + 1) - 1], Code(x))
    BY <1>7, <1>8
  <2>2. f[n + 1] = p + l /\ Lies(in.data, p, Code(x))
    BY <1>4, <1>8, <2>1
  <2>3. f[n + 1] \in Nat /\ f[m] \in Nat /\ (n + 1 < m => f[n + 1] < f[m])
    BY <1>7, <1>8
  <2>4. n + 1 < m \/ n + 1 = m
    BY <1>3, <1>6
  <2>5. f[n + 1] <= f[m]
    <3> HIDE DEF n, m
    <3> QED
      BY <2>3, <2>4
  <2> QED
    BY <1>4, <2>2, <2>5
<1>11. PICK bs \in {Ahead(in)} : \E t \in {NextTypdex(bs)} :
         \E rest \in {SubSeq(bs, t.used + 1, Len(bs))} : \E v \in {Value(t.type, t.index, rest)} :
         LET y == B!Next_(in, t.used + v.skip)
             refused == v.len > 0 /\ ~B!HasData(y, v.len)
             item == [type |-> t.type, index |-> t.index, val |-> IF refused THEN <<>> ELSE v.val]
         IN  /\ in' = B!NextData(y, v.len)
             /\ got' = Append(got, item)
             /\ over' = IsEof(item)
             /\ fault' = (fault \/ in'.pos > in.cap)
  BY DEF ReadItem
<1>12. PICK t \in {NextTypdex(bs)} :
         \E rest \in {SubSeq(bs, t.used + 1, Len(bs))} : \E v \in {Value(t.type, t.index, rest)} :
         LET y == B!Next_(in, t.used + v.skip)
             refused == v.len > 0 /\ ~B!HasData(y, v.len)
             item == [type |-> t.type, index |-> t.index, val |-> IF refused THEN <<>> ELSE v.val]
         IN  /\ in' = B!NextData(y, v.len)
             /\ got' = Append(got, item)
             /\ over' = IsEof(item)
             /\ fault' = (fault \/ in'.pos > in.cap)
  BY <1>11, Zenon
<1>13. PICK rest \in {SubSeq(bs, t.used + 1, Len(bs))} : \E v \in {Value(t.type, t.index, rest)} :
         LET y == B!Next_(in, t.used + v.skip)
             refused == v.len > 0 /\ ~B!HasData(y, v.len)
             item == [type |-> t.type, index |-> t.index, val |-> IF refused THEN <<>> ELSE v.val]
         IN  /\ in' = B!NextData(y, v.len)
             /\ got' = Append(got, item)
             /\ over' = IsEof(item)
             /\ fault' = (fault \/ in'.pos > in.cap)
  BY <1>12, Zenon
<1>14. PICK v \in {Value(t.type, t.index, rest)} :
         LET y == B!Next_(in, t.used + v.skip)
             refused == v.len > 0 /\ ~B!HasData(y, v.len)
             item == [type |-> t.type, index |-> t.index, val |-> IF refused THEN <<>> ELSE v.val]
         IN  /\ in' = B!NextData(y, v.len)
             /\ got' = Append(got, item)
             /\ over' = IsEof(item)
             /\ fault' = (fault \/ in'.pos > in.cap)
  BY <1>13, Zenon
<1> DEFINE y == B!Next_(in, t.used + v.skip)
           refused == v.len > 0 /\ ~B!HasData(y, v.len)
           item == [type |-> t.type, index |-> t.index, val |-> IF refused THEN <<>> ELSE v.val]
<1>15. /\ in' = B!NextData(y, v.len) /\ got' = Append(got, item) /\ over' = IsEof(item)
       /\ fault' = (fault \/ in'.pos > in.cap)
  BY <1>14, Zenon
<1>16. /\ bs = Ahead(in) /\ t = NextTypdex(bs) /\ rest = SubSeq(bs, t.used + 1, Len(bs))
       /\ v = Value(t.type, t.index, rest)
  BY <1>11, <1>12, <1>13, <1>14
<1>17. /\ t.type = x.type /\ t.index = x.index /\ v.val = x.val
       /\ v.len > 0 => B!HasData(y, v.len)
       /\ Moved(in, B!NextData(y, v.len), l)
  <2>1. Sound(in) /\ IsItem(x) /\ Lies(in.data, in.pos, Code(x)) /\ in.pos + Len(Code(x)) <= in.limit
        /\ in.limit <= MaxUint
    BY <1>3, <1>9, <1>10
  <2> HIDE DEF x, y
  <2>2. y = B!Next_(in, t.used + v.skip)
    BY DEF y
  <2>3. ReadsAs(in, x, t, v, y)
    BY <1>16, <2>1, <2>2, ItemRead, Zenon
  <2> QED
    BY <2>3, Zenon DEF ReadsAs
<1>18. item = x
  <2>1. ~refused
    BY <1>17, Zenon
  <2>2. x = [type |-> x.type, index |-> x.index, val |-> x.val]
    BY <1>9, Zenon DEF IsItem
  <2> HIDE DEF refused, x
  <2>3. (IF refused THEN <<>> ELSE v.val) = v.val
    BY <2>1
  <2> QED
    BY <1>17, <2>2, <2>3, Zenon
<1>19. /\ Sound(in') /\ in'.pos = p + l /\ in'.limit = lim /\ in'.cap = in.cap /\ in'.data = in.data
  BY <1>15, <1>17, Zenon DEF Moved
<1> HIDE DEF item, y, refused
<1>20. got' = Append(got, x) /\ over' = IsEof(x)
  BY <1>15, <1>18, Zenon
<1> HIDE DEF x
<1>21. /\ got' \in Seq(Item) /\ Len(got') = n + 1 /\ got'[n + 1] = x
       /\ \A i \in 1 .. n : got'[i] = got[i]
  BY <1>2, <1>9, <1>20
<1>22. fault' = FALSE
  <2>1. ~(in'.pos > in.cap)
    <3> DEFINE q == in'.pos
               c == in.cap
    <3>1. q = p + l /\ p + l <= lim /\ lim <= c /\ c \in Nat /\ lim \in Nat /\ p \in Nat /\ l \in Nat
      BY <1>3, <1>9, <1>10, <1>19
    <3> HIDE DEF q, c, p, l, lim
    <3> QED
      BY <3>1 DEF q, c
  <2>2. fault' = (fault \/ in'.pos > in.cap)
    BY <1>15
  <2> QED
    BY <1>2, <2>1, <2>2, Zenon
<1>23. over' \in BOOLEAN /\ (over' = TRUE <=> IsEof(x))
  BY <1>20 DEF IsEof
<1>24. Readable'
  <2>1. LaidOut(in'.data, sent', f) /\ f[Len(sent')] = in'.limit /\ f[Len(got')] = in'.pos
    BY <1>1, <1>4, <1>10, <1>19, <1>21
  <2>2. Len(got') <= Len(sent') /\ \A i \in 1 .. Len(got') : got'[i] = sent'[i]
    <3>1. ASSUME NEW i \in 1 .. n + 1 PROVE got'[i] = sent'[i]
      <4>1. CASE i = n + 1
        BY <1>1, <1>21, <4>1 DEF x
      <4>2. CASE i \in 1 .. n
        BY <1>1, <1>2, <1>21, <4>2 DEF Readable
      <4> QED
        BY <1>3, <4>1, <4>2
    <3> QED
      BY <1>1, <1>6, <1>8, <1>21, <3>1
  <2>3. ASSUME NEW i \in 1 .. Len(got'), IsEof(sent'[i]) PROVE i = Len(got') /\ over' = TRUE
    <3>1. CASE i = n + 1
      <4>1. IsEof(x)
        BY <1>1, <2>3, <3>1 DEF x
      <4> QED
        BY <1>21, <1>23, <3>1, <4>1
    <3>2. CASE i \in 1 .. n
      <4>1. IsEof(sent[i])
        BY <1>1, <2>3
      <4>2. over = TRUE
        BY <1>2, <3>2, <4>1 DEF Readable
      <4>3. FALSE
        BY <1>1, <4>2
      <4> QED
        BY <4>3
    <3>3. i \in 1 .. n + 1
      BY <1>21
    <3>4. i = n + 1 \/ i \in 1 .. n
      <4> HIDE DEF n
      <4> QED
        BY <1>3, <3>3
    <3> QED
      BY <3>1, <3>2, <3>4
  <2>4. over' = TRUE => Len(got') \in 1 .. Len(sent') /\ IsEof(sent'[Len(got')])
    BY <1>1, <1>8, <1>21, <1>23 DEF x
  <2>5. Sound(in') /\ in'.limit <= MaxUint
    BY <1>3, <1>19
  <2> QED
    BY <2>1, <2>2, <2>3, <2>4, <2>5 DEF Readable
<1>25. DOMAIN in'.data = 0 .. in'.cap - 1 /\ in'.pos <= in'.limit
  BY <1>19 DEF Sound
<1> QED
  BY <1>1, <1>2, <1>21, <1>22, <1>23, <1>24, <1>25 DEF IInv

\* Where nothing remains everything has been read.
LEMMA EndInv ==
  ASSUME IInv, ReadEnd
  PROVE  IInv'
<1>1. /\ phase = "reading" /\ over = FALSE /\ B!Remainder(in) = 0 /\ over' = TRUE
      /\ phase' = phase /\ out' = out /\ in' = in /\ sent' = sent /\ got' = got /\ fault' = fault
  BY DEF ReadEnd, IInv
<1>2. /\ fault = FALSE /\ sent \in Seq(Item) /\ got \in Seq(Item) /\ Sound(out) /\ Readable
      /\ DOMAIN in.data = 0 .. in.cap - 1 /\ in.pos <= in.limit
  BY <1>1 DEF IInv
<1> DEFINE n == Len(got)
           m == Len(sent)
           p == in.pos
           lim == in.limit
<1>3. n \in Nat /\ m \in Nat /\ n <= m /\ p \in Nat /\ lim \in Nat /\ p <= lim
  BY <1>2 DEF Readable, Sound
<1>4. PICK f : LaidOut(in.data, sent, f) /\ f[m] = lim /\ f[n] = p
  BY <1>2 DEF Readable
<1>5. p = lim
  <2>1. B!Remainder(in) = lim - p
    BY <1>3 DEF B!Remainder, B!Minus
  <2> HIDE DEF p, lim
  <2> QED
    BY <1>1, <1>3, <2>1
<1>6. n = m
  <2>1. n \in 0 .. m /\ m \in 0 .. m
    BY <1>3
  <2>2. n < m => f[n] < f[m]
    BY <1>4, <2>1 DEF LaidOut
  <2> HIDE DEF n, m, p, lim
  <2> QED
    BY <1>3, <1>4, <1>5, <2>2
<1>7. Readable'
  BY <1>1, <1>2, <1>6 DEF Readable
<1> QED
  BY <1>1, <1>2, <1>7 DEF IInv

\* What a step that changes nothing keeps.
LEMMA StutterInv ==
  ASSUME IInv, UNCHANGED vars
  PROVE  IInv'
BY DEF vars, IInv, Written, Readable

\* The invariant of a packet.
THEOREM Invariant == Spec => []IInv
<1>1. Init => IInv
  BY InitInv
<1>2. IInv /\ [Next]_vars => IInv'
  <2> SUFFICES ASSUME IInv, [Next]_vars PROVE IInv'
    OBVIOUS
  <2>1. ASSUME NEW x \in Item, AppendItem(x) PROVE IInv'
    BY <2>1, AppendInv
  <2>2. CASE Send
    BY <2>2, SendInv
  <2>3. CASE ReadItem
    BY <2>3, ReadInv
  <2>4. CASE ReadEnd
    BY <2>4, EndInv
  <2>5. CASE UNCHANGED vars
    BY <2>5, StutterInv
  <2> QED
    BY <2>1, <2>2, <2>3, <2>4, <2>5, Zenon DEF Next
<1> QED
  BY <1>1, <1>2, PTL DEF Spec

\* The reader sees the items of the writer, in their order, with type, index
\* and value (dyp_append_ and dyp_next_ functions).
THEOREM ItemsComeBack == Spec => []ReadsWhatWasSent
<1>1. IInv => ReadsWhatWasSent
  <2> SUFFICES ASSUME IInv, phase = "reading" PROVE IsPrefix(got, sent)
    BY DEF ReadsWhatWasSent
  <2>1. /\ sent \in Seq(Item) /\ got \in Seq(Item)
        /\ Len(got) <= Len(sent) /\ \A i \in 1 .. Len(got) : got[i] = sent[i]
    BY DEF IInv, Readable
  <2>2. Len(got) \in Nat /\ Len(sent) \in Nat
    BY <2>1
  <2> DEFINE s == SubSeq(sent, 1, Len(got))
  <2>3. Len(s) = Len(got) /\ \A i \in 1 .. Len(got) : s[i] = sent[i]
    BY <2>1, <2>2
  <2>4. s = [i \in 1 .. Len(got) |-> s[i]] /\ got = [i \in 1 .. Len(got) |-> got[i]]
    BY <2>1, <2>2
  <2> HIDE DEF s
  <2>5. \A i \in 1 .. Len(got) : s[i] = got[i]
    BY <2>1, <2>3
  <2>6. s = got
    BY <2>4, <2>5, Zenon
  <2> QED
    BY <2>1, <2>6 DEF IsPrefix, s
<1> QED
  BY <1>1, Invariant, PTL

\* A reader at its end has seen everything up to the first eof.
THEOREM NothingIsLeftOut == Spec => []ReadsAll
<1>1. IInv => ReadsAll
  <2> SUFFICES ASSUME IInv, over PROVE Len(got) = Cardinality(UpToEof(sent))
    BY DEF ReadsAll
  <2> DEFINE n == Len(got)
             m == Len(sent)
  <2>1. over = TRUE
    BY DEF IInv
  <2>2. phase = "reading" /\ Readable
    BY <2>1 DEF IInv, Written
  <2>3. sent \in Seq(Item) /\ got \in Seq(Item) /\ n <= m /\ n \in Nat /\ m \in Nat
    BY <2>2 DEF IInv, Readable
  <2>4. \A i \in 1 .. n : IsEof(sent[i]) => i = n
    BY <2>2 DEF Readable
  <2>5. n = m \/ (n \in 1 .. m /\ IsEof(sent[n]))
    BY <2>1, <2>2 DEF Readable
  <2>6. UpToEof(sent) = {i \in 1 .. m : \A j \in 1 .. i - 1 : ~IsEof(sent[j])}
    BY DEF UpToEof
  <2>7. UpToEof(sent) = 1 .. n
    <3>1. ASSUME NEW i \in 1 .. n PROVE i \in UpToEof(sent)
      <4>1. ASSUME NEW j \in 1 .. i - 1 PROVE ~IsEof(sent[j])
        <5>1. j \in 1 .. n /\ j # n
          BY <2>3
        <5> QED
          BY <2>4, <5>1
      <4>2. i \in 1 .. m
        BY <2>3
      <4> QED
        BY <2>6, <4>1, <4>2
    <3>2. ASSUME NEW i \in UpToEof(sent) PROVE i \in 1 .. n
      <4>1. i \in 1 .. m /\ \A j \in 1 .. i - 1 : ~IsEof(sent[j])
        BY <2>6
      <4>2. CASE n = m
        BY <4>1, <4>2
      <4>3. CASE n \in 1 .. m /\ IsEof(sent[n])
        <5>1. ~(n \in 1 .. i - 1)
          BY <4>1, <4>3
        <5> HIDE DEF n, m
        <5> QED
          BY <2>3, <4>1, <4>3, <5>1
      <4> QED
        BY <2>5, <4>2, <4>3
    <3> QED
      BY <3>1, <3>2
  <2>8. Cardinality(1 .. n) = n
    <3> HIDE DEF n
    <3>1. 1 \in Int /\ n \in Int
      BY <2>3
    <3>2. Cardinality(1 .. n) = IF 1 > n THEN 0 ELSE n - 1 + 1
      BY <3>1, FS_Interval
    <3> QED
      BY <2>3, <3>2
  <2> QED
    BY <2>7, <2>8
<1> QED
  BY <1>1, Invariant, PTL

\* Neither side leaves its block, and the reader never passes the limit.
THEOREM BlocksAreKept == Spec => []StaysInside
<1>1. IInv => StaysInside
  <2> SUFFICES ASSUME IInv PROVE StaysInside
    OBVIOUS
  <2>1. /\ phase \in {"writing", "reading"} /\ fault = FALSE /\ over \in BOOLEAN /\ sent \in Seq(Item)
        /\ Sound(out) /\ DOMAIN in.data = 0 .. in.cap - 1 /\ in.pos <= in.limit
    BY DEF IInv
  <2>2. DOMAIN out.data = 0 .. out.cap - 1
    BY <2>1 DEF Sound
  <2>3. \A b \in {out, in} : DOMAIN b.data = 0 .. b.cap - 1
    BY <2>1, <2>2
  <2> QED
    BY <2>1, <2>3 DEF StaysInside, TypeOK
<1> QED
  BY <1>1, Invariant, PTL
=============================================================================
