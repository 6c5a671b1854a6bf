--------------------------- MODULE MmUnpackProofs ---------------------------
(***************************************************************************)
(* The packer's stream and the first pass of the unpacker, for every graph *)
(* of objects, every class and any number of roots: each object is in the  *)
(* stream once (PackInv) and made once (TwinInv), and the stream can be    *)
(* read, to the very properties that were packed (ShowInv).                *)
(***************************************************************************)
EXTENDS MmUnpack, FiniteSetTheorems, SequenceTheorems, TLAPS

\* Induction and recursion over the numbers are proved in CodeProofs, of no
\* particular byte: what is cited of it does not mention its constants.
Nats == INSTANCE CodeProofs WITH W <- 8, Indexes <- << 0 >>, v <- 0

\* These constants are what CodeProofs assumes of its own.
LEMMA NatsAssumptions == << 0 >> \in Seq(Nat) \ {<<>>} /\ 8 \in Nat \ {0, 1}
OBVIOUS

----------------------------------------------------------------------------
(* Sequences and functions                                                 *)

\* A sequence of whatever elements.
IsSeq(s) == s \in Seq(Range(s))

\* What is under the keys of a function once a value was put under one.
LEMMA UnderIs ==
  ASSUME NEW f, NEW k, NEW v
  PROVE  /\ DOMAIN Under(f, k, v) = DOMAIN f \cup {k}
         /\ Under(f, k, v)[k] = v
         /\ \A j \in DOMAIN f : j # k => Under(f, k, v)[j] = f[j]
BY DEF Under

\* A sequence of a set is a sequence.
LEMMA SeqIs ==
  ASSUME NEW S, NEW s \in Seq(S)
  PROVE  IsSeq(s) /\ Len(s) \in Nat /\ DOMAIN s = 1 .. Len(s)
<1>1. Len(s) \in Nat /\ DOMAIN s = 1 .. Len(s) /\ s \in [1 .. Len(s) -> S]
  OBVIOUS
<1>2. s \in [1 .. Len(s) -> Range(s)]
  BY <1>1 DEF Range
<1> QED
  BY <1>1, <1>2 DEF IsSeq

\* The places of a sequence.
LEMMA SeqPlaces ==
  ASSUME NEW s, IsSeq(s)
  PROVE  Len(s) \in Nat /\ DOMAIN s = 1 .. Len(s)
BY DEF IsSeq

\* A sequence that grows by an element.
LEMMA SeqAppend ==
  ASSUME NEW s, IsSeq(s), NEW x
  PROVE  /\ IsSeq(Append(s, x)) /\ Len(Append(s, x)) = Len(s) + 1
         /\ Append(s, x)[Len(s) + 1] = x
         /\ \A i \in 1 .. Len(s) : Append(s, x)[i] = s[i]
<1> DEFINE S == Range(s) \cup {x}
<1>1. s \in Seq(S)
  BY DEF IsSeq
<1> HIDE DEF S
<1>2. x \in S
  BY DEF S
<1>3. /\ Append(s, x) \in Seq(S) /\ Len(Append(s, x)) = Len(s) + 1
      /\ Append(s, x)[Len(s) + 1] = x
      /\ \A i \in 1 .. Len(s) : Append(s, x)[i] = s[i]
  BY <1>1, <1>2
<1>4. IsSeq(Append(s, x))
  BY Zenon, <1>3, SeqIs
<1> QED
  BY <1>3, <1>4

\* A sequence with another element in a place.
LEMMA SeqReplaced ==
  ASSUME NEW s, IsSeq(s), NEW t, DOMAIN t = DOMAIN s, t = [i \in DOMAIN s |-> t[i]]
  PROVE  IsSeq(t) /\ Len(t) = Len(s)
<1>1. Len(s) \in Nat /\ DOMAIN s = 1 .. Len(s)
  BY SeqPlaces
<1>2. t \in [1 .. Len(s) -> Range(t)]
  BY <1>1 DEF Range
<1>3. t \in Seq(Range(t)) /\ Len(t) = Len(s)
  BY <1>1, <1>2
<1> QED
  BY <1>3 DEF IsSeq

\* A sequence without its last element.
LEMMA SeqFront ==
  ASSUME NEW s, IsSeq(s), s # <<>>
  PROVE  IsSeq(Front(s))
<1>1. s \in Seq(Range(s)) /\ Len(s) \in Nat /\ DOMAIN s = 1 .. Len(s)
  BY SeqPlaces DEF IsSeq
<1>2. Front(s) = [i \in 1 .. Len(s) - 1 |-> s[i]]
  BY <1>1 DEF Front
<1>3. Len(s) - 1 \in Nat
  BY <1>1
<1>4. Front(s) \in Seq(Range(s))
  BY <1>1, <1>2, <1>3
<1> QED
  BY <1>4, SeqIs

----------------------------------------------------------------------------
(* The stream                                                              *)

Kinds == Leaves \cup {"ref", "array", "object", "context", "name", "function"}
Token == [t : Kinds, k : Nat, v : Nat \cup Leaf \cup Class \cup {Null}]

\* A sequence of one element.
LEMMA RangeOne ==
  ASSUME NEW x
  PROVE  Range(<<x>>) = {x}
<1>1. DOMAIN <<x>> = {1} /\ <<x>>[1] = x
  OBVIOUS
<1> QED
  BY <1>1 DEF Range

\* Two sequences, one after the other.
LEMMA ConcatIs ==
  ASSUME NEW S, NEW s \in Seq(S), NEW t \in Seq(S)
  PROVE  /\ s \o t \in Seq(S) /\ Range(s \o t) = Range(s) \cup Range(t)
         /\ Len(s \o t) = Len(s) + Len(t)
         /\ \A i \in 1 .. Len(s) : (s \o t)[i] = s[i]
         /\ \A i \in 1 .. Len(t) : (s \o t)[Len(s) + i] = t[i]
<1>1. /\ s \o t \in Seq(S) /\ Len(s \o t) = Len(s) + Len(t)
      /\ Len(s) \in Nat /\ Len(t) \in Nat /\ DOMAIN s = 1 .. Len(s) /\ DOMAIN t = 1 .. Len(t)
      /\ DOMAIN (s \o t) = 1 .. Len(s) + Len(t)
  OBVIOUS
<1>2. \A i \in 1 .. Len(s) : (s \o t)[i] = s[i]
  BY <1>1
<1>3. \A i \in 1 .. Len(t) : (s \o t)[Len(s) + i] = t[i]
  BY <1>1
<1>4. ASSUME NEW x \in Range(s \o t) PROVE x \in Range(s) \cup Range(t)
  <2>1. PICK i \in 1 .. Len(s) + Len(t) : x = (s \o t)[i]
    BY <1>1 DEF Range
  <2>2. CASE i <= Len(s)
    BY <1>1, <1>2, <2>1, <2>2 DEF Range
  <2>3. CASE i > Len(s)
    <3>1. i - Len(s) \in 1 .. Len(t) /\ Len(s) + (i - Len(s)) = i
      BY <1>1, <2>3
    <3>2. x = t[i - Len(s)]
      BY <1>3, <2>1, <3>1
    <3> QED
      BY <1>1, <3>1, <3>2 DEF Range
  <2> QED
    BY <1>1, <2>1, <2>2, <2>3
<1>5. ASSUME NEW x \in Range(s) PROVE x \in Range(s \o t)
  <2>1. PICK i \in 1 .. Len(s) : x = s[i]
    BY <1>1 DEF Range
  <2>2. i \in 1 .. Len(s) + Len(t)
    BY <1>1
  <2> QED
    BY <1>1, <1>2, <2>1, <2>2 DEF Range
<1>6. ASSUME NEW x \in Range(t) PROVE x \in Range(s \o t)
  <2>1. PICK i \in 1 .. Len(t) : x = t[i]
    BY <1>1 DEF Range
  <2>2. Len(s) + i \in 1 .. Len(s) + Len(t)
    BY <1>1
  <2> QED
    BY Zenon, <1>1, <1>3, <2>1, <2>2 DEF Range
<1> QED
  BY <1>1, <1>2, <1>3, <1>4, <1>5, <1>6

\* Three sequences, one after the other.
LEMMA Regrouped ==
  ASSUME NEW S, NEW s \in Seq(S), NEW t \in Seq(S), NEW u \in Seq(S)
  PROVE  (s \o t) \o u = s \o (t \o u)
OBVIOUS

\* All sequences of a sequence, one after the other, have the elements of them.
LEMMA FlattenIs ==
  ASSUME NEW S, NEW seqs \in Seq(Seq(S))
  PROVE  /\ FlattenSeq(seqs) \in Seq(S)
         /\ \A i \in DOMAIN seqs : Range(seqs[i]) \subseteq Range(FlattenSeq(seqs))
         /\ \A x \in Range(FlattenSeq(seqs)) : \E i \in DOMAIN seqs : x \in Range(seqs[i])
<1> DEFINE n == Len(seqs)
           F(g) == g = [i \in 1 .. n |-> IF i = 1 THEN seqs[i] ELSE g[i - 1] \o seqs[i]]
<1>1. n \in Nat /\ DOMAIN seqs = 1 .. n /\ \A i \in 1 .. n : seqs[i] \in Seq(S)
  OBVIOUS
<1>2. CASE n = 0
  <2>1. FlattenSeq(seqs) = <<>> /\ seqs = <<>>
    BY <1>1, <1>2 DEF FlattenSeq
  <2> QED
    BY <2>1 DEF Range
<1>3. CASE n # 0
  <2>1. n \in Nat \ {0} /\ 1 \in 1 .. n
    BY <1>1, <1>3
  <2>2. \E g : F(g)
    <3> DEFINE X == Seq(S)
               step == [k \in Nat |-> [h \in X |-> IF k + 2 \in 1 .. n THEN h \o seqs[k + 2] ELSE h]]
    <3>1. step \in [Nat -> [X -> X]]
      <4>1. ASSUME NEW k \in Nat, NEW h \in X
            PROVE  (IF k + 2 \in 1 .. n THEN h \o seqs[k + 2] ELSE h) \in X
        BY <1>1
      <4> QED
        BY <4>1
    <3>2. seqs[1] \in X
      BY <1>1, <2>1
    <3>3. Nats!ResultsByStep(X, seqs[1], step) # {}
      <4> HIDE DEF X, step
      <4> QED
        BY Zenon, <3>1, <3>2, NatsAssumptions, Nats!Recurrence
    <3>4. PICK r \in [Nat -> X] : r[0] = seqs[1] /\ \A k \in Nat : r[k + 1] = step[k][r[k]]
      BY Zenon, <3>3 DEF Nats!ResultsByStep
    <3> DEFINE g == [i \in 1 .. n |-> r[i - 1]]
    <3>5. ASSUME NEW i \in 1 .. n, i # 1 PROVE g[i] = g[i - 1] \o seqs[i]
      <4>1. i - 2 \in Nat /\ i - 1 \in 1 .. n /\ i \in Nat /\ (i - 2) + 1 = i - 1 /\ (i - 2) + 2 = i
        BY <1>1, <3>5
      <4>2. r[i - 1] = step[i - 2][r[i - 2]] /\ r[i - 2] \in X
        BY Zenon, <3>4, <4>1
      <4>3. step[i - 2][r[i - 2]] = r[i - 2] \o seqs[i]
        BY Zenon, <4>1, <4>2
      <4>4. g[i] = r[i - 1] /\ g[i - 1] = r[(i - 1) - 1] /\ (i - 1) - 1 = i - 2
        BY <4>1
      <4> QED
        BY Zenon, <4>2, <4>3, <4>4
    <3>6. g[1] = seqs[1]
      BY <2>1, <3>4
    <3>7. g = [i \in 1 .. n |-> IF i = 1 THEN seqs[i] ELSE g[i - 1] \o seqs[i]]
      <4>1. ASSUME NEW i \in 1 .. n PROVE g[i] = IF i = 1 THEN seqs[i] ELSE g[i - 1] \o seqs[i]
        BY Zenon, <3>5, <3>6
      <4>2. g = [i \in 1 .. n |-> g[i]]
        OBVIOUS
      <4> HIDE DEF g
      <4> QED
        BY Zenon, <4>1, <4>2
    <3> QED
      BY Zenon, <3>7
  <2> DEFINE f == CHOOSE g : F(g)
  <2>3. F(f)
    BY Zenon, <2>2
  <2>4. FlattenSeq(seqs) = f[n]
    BY <1>3 DEF FlattenSeq
  <2> DEFINE P(i) == /\ f[i] \in Seq(S)
                     /\ \A j \in 1 .. i : Range(seqs[j]) \subseteq Range(f[i])
                     /\ \A x \in Range(f[i]) : \E j \in 1 .. i : x \in Range(seqs[j])
             T == {i \in Nat : i \in 1 .. n => P(i)}
  <2>5. f[1] = seqs[1] /\ \A i \in 1 .. n : i # 1 => f[i] = f[i - 1] \o seqs[i]
    <3> HIDE DEF f
    <3> QED
      BY Zenon, <2>1, <2>3
  <2> HIDE DEF f, F
  <2>6. 0 \in T
    BY <1>1
  <2>7. ASSUME NEW i \in Nat, i \in T PROVE i + 1 \in T
    <3>1. CASE i + 1 = 1
      <4>1. P(1)
        BY <1>1, <2>1, <2>5
      <4> QED
        BY <3>1, <4>1
    <3>2. CASE i + 1 # 1 /\ i + 1 \in 1 .. n
      <4>1. i \in 1 .. n /\ (i + 1) - 1 = i
        BY <1>1, <3>2
      <4>2. P(i) /\ f[i + 1] = f[i] \o seqs[i + 1] /\ seqs[i + 1] \in Seq(S)
        BY Zenon, <1>1, <2>5, <2>7, <3>2, <4>1
      <4>3. Range(f[i + 1]) = Range(f[i]) \cup Range(seqs[i + 1]) /\ f[i + 1] \in Seq(S)
        BY <4>2, ConcatIs
      <4>4. \A j \in 1 .. i + 1 : j = i + 1 \/ j \in 1 .. i
        BY <4>1
      <4>5. \A j \in 1 .. i : j \in 1 .. i + 1
        BY <4>1
      <4>6. P(i + 1)
        BY <4>1, <4>2, <4>3, <4>4, <4>5
      <4> QED
        BY <4>6
    <3> QED
      BY <3>1, <3>2
  <2>8. P(n)
    <3> HIDE DEF P
    <3>1. Nat \subseteq T
      <4> HIDE DEF T
      <4> QED
        BY Zenon, <2>6, <2>7, NatsAssumptions, Nats!InductionOnSet
    <3> QED
      BY <1>1, <2>1, <3>1
  <2> QED
    BY Zenon, <1>1, <2>4, <2>8
<1> QED
  BY <1>2, <1>3

\* No element of a sequence comes twice.
Distinct(s) == \A i, j \in DOMAIN s : s[i] = s[j] => i = j

\* An object that is met has a number, those that had one keep it, and no
\* object has two.
LEMMA NumberedIs ==
  ASSUME NEW met \in Seq(Obj), NEW o \in Obj
  PROVE  /\ Numbered(met, o) \in Seq(Obj) /\ o \in Range(Numbered(met, o))
         /\ Range(met) \subseteq Range(Numbered(met, o))
         /\ Len(met) <= Len(Numbered(met, o))
         /\ \A i \in 1 .. Len(met) : Numbered(met, o)[i] = met[i]
         /\ Distinct(met) => Distinct(Numbered(met, o))
<1>1. CASE o \in Range(met)
  BY <1>1 DEF Numbered
<1>2. CASE o \notin Range(met)
  <2>1. /\ Append(met, o) \in Seq(Obj) /\ Len(Append(met, o)) = Len(met) + 1
        /\ Len(met) \in Nat /\ DOMAIN met = 1 .. Len(met)
        /\ DOMAIN Append(met, o) = 1 .. Len(met) + 1
        /\ Append(met, o)[Len(met) + 1] = o
        /\ \A i \in 1 .. Len(met) : Append(met, o)[i] = met[i]
    OBVIOUS
  <2>2. o \in Range(Append(met, o))
    BY <2>1 DEF Range
  <2>3. Range(met) \subseteq Range(Append(met, o))
    BY <2>1 DEF Range
  <2>4. ASSUME Distinct(met) PROVE Distinct(Append(met, o))
    <3>1. \A i \in 1 .. Len(met) : met[i] # o
      BY <1>2, <2>1 DEF Range
    <3>2. \A i \in 1 .. Len(met) + 1 : i = Len(met) + 1 \/ i \in 1 .. Len(met)
      BY <2>1
    <3> QED
      BY <2>1, <2>4, <3>1, <3>2 DEF Distinct
  <2> QED
    BY <1>2, <2>1, <2>2, <2>3, <2>4 DEF Numbered
<1> QED
  BY <1>1, <1>2

\* The number of an object that was met is below the count of them.
LEMMA IdIs ==
  ASSUME NEW S, NEW met \in Seq(S), NEW o \in Range(met)
  PROVE  Id(met, o) \in 0 .. Len(met) - 1 /\ met[Id(met, o) + 1] = o
<1> DEFINE i == CHOOSE j \in DOMAIN met : met[j] = o
<1>1. DOMAIN met = 1 .. Len(met) /\ Len(met) \in Nat
  OBVIOUS
<1>2. i \in DOMAIN met /\ met[i] = o
  BY DEF Range
<1>3. Id(met, o) = i - 1
  BY DEF Id
<1> HIDE DEF i
<1>4. i - 1 \in 0 .. Len(met) - 1 /\ (i - 1) + 1 = i
  BY <1>1, <1>2
<1> QED
  BY <1>2, <1>3, <1>4

\* Each object has a number once it was met, those that had one keep it.
LEMMA AllNumberedIs ==
  ASSUME NEW met \in Seq(Obj), NEW os \in Seq(Obj)
  PROVE  /\ AllNumbered(met, os) \in Seq(Obj)
         /\ Range(os) \subseteq Range(AllNumbered(met, os))
         /\ Len(met) <= Len(AllNumbered(met, os))
         /\ \A i \in 1 .. Len(met) : AllNumbered(met, os)[i] = met[i]
         /\ Distinct(met) => Distinct(AllNumbered(met, os))
<1> DEFINE n == Len(os)
           F(g) == g = [i \in 0 .. n |-> IF i = 0 THEN met ELSE Numbered(g[i - 1], os[i])]
<1>1. n \in Nat /\ DOMAIN os = 1 .. n /\ \A i \in 1 .. n : os[i] \in Obj
  OBVIOUS
<1>2. \E g : F(g)
  <2> DEFINE X == Seq(Obj)
             step == [k \in Nat |-> [h \in X |-> IF k + 1 \in 1 .. n THEN Numbered(h, os[k + 1]) ELSE h]]
  <2>1. step \in [Nat -> [X -> X]]
    <3>1. ASSUME NEW k \in Nat, NEW h \in X
          PROVE  (IF k + 1 \in 1 .. n THEN Numbered(h, os[k + 1]) ELSE h) \in X
      BY <1>1, NumberedIs
    <3> QED
      BY <3>1
  <2>2. Nats!ResultsByStep(X, met, step) # {}
    <3> HIDE DEF X, step
    <3>1. met \in X
      BY DEF X
    <3> QED
      BY Zenon, <2>1, <3>1, NatsAssumptions, Nats!Recurrence
  <2>3. PICK r \in [Nat -> X] : r[0] = met /\ \A k \in Nat : r[k + 1] = step[k][r[k]]
    BY Zenon, <2>2 DEF Nats!ResultsByStep
  <2> DEFINE g == [i \in 0 .. n |-> r[i]]
  <2>4. ASSUME NEW i \in 0 .. n, i # 0 PROVE g[i] = Numbered(g[i - 1], os[i])
    <3>1. i - 1 \in Nat /\ i - 1 \in 0 .. n /\ (i - 1) + 1 = i /\ i \in 1 .. n
      BY <1>1, <2>4
    <3>2. r[i] = step[i - 1][r[i - 1]] /\ r[i - 1] \in X
      BY Zenon, <2>3, <3>1
    <3>3. step[i - 1][r[i - 1]] = Numbered(r[i - 1], os[i])
      BY <3>1, <3>2
    <3> QED
      BY <3>1, <3>2, <3>3
  <2>5. g[0] = met
    BY <1>1, <2>3
  <2>6. g = [i \in 0 .. n |-> IF i = 0 THEN met ELSE Numbered(g[i - 1], os[i])]
    <3>1. ASSUME NEW i \in 0 .. n PROVE g[i] = IF i = 0 THEN met ELSE Numbered(g[i - 1], os[i])
      BY Zenon, <2>4, <2>5
    <3>2. g = [i \in 0 .. n |-> g[i]]
      OBVIOUS
    <3> HIDE DEF g
    <3> QED
      BY Zenon, <3>1, <3>2
  <2> QED
    BY Zenon, <2>6
<1> DEFINE f == CHOOSE g : F(g)
<1>3. F(f)
  BY Zenon, <1>2
<1>4. AllNumbered(met, os) = f[n]
  BY DEF AllNumbered
<1> DEFINE P(i) == /\ f[i] \in Seq(Obj) /\ Len(met) <= Len(f[i])
                   /\ \A j \in 1 .. Len(met) : f[i][j] = met[j]
                   /\ \A j \in 1 .. i : os[j] \in Range(f[i])
                   /\ Distinct(met) => Distinct(f[i])
           T == {i \in Nat : i <= n => P(i)}
<1>5. f[0] = met /\ \A i \in 1 .. n : f[i] = Numbered(f[i - 1], os[i])
  <2>1. \A i \in 1 .. n : i \in 0 .. n /\ i # 0
    BY <1>1
  <2>2. 0 \in 0 .. n
    BY <1>1
  <2> HIDE DEF f
  <2> QED
    BY Zenon, <1>3, <2>1, <2>2
<1> HIDE DEF f, F
<1>6. 0 \in T
  BY <1>1, <1>5
<1>7. ASSUME NEW i \in Nat, i \in T PROVE i + 1 \in T
  <2>1. CASE i + 1 <= n
    <3>1. i + 1 \in 1 .. n /\ (i + 1) - 1 = i
      BY <1>1, <2>1
    <3>2. P(i) /\ f[i + 1] = Numbered(f[i], os[i + 1]) /\ os[i + 1] \in Obj
      BY <1>1, <1>5, <1>7, <2>1, <3>1
    <3>3. /\ f[i + 1] \in Seq(Obj) /\ Len(f[i]) <= Len(f[i + 1])
          /\ Range(f[i]) \subseteq Range(f[i + 1]) /\ os[i + 1] \in Range(f[i + 1])
          /\ \A j \in 1 .. Len(f[i]) : f[i + 1][j] = f[i][j]
          /\ Distinct(f[i]) => Distinct(f[i + 1])
      BY ZenonT(60), <3>2, NumberedIs
    <3>4. Len(met) <= Len(f[i + 1])
      BY <3>2, <3>3
    <3>5. \A j \in 1 .. Len(met) : f[i + 1][j] = met[j]
      <4>1. \A j \in 1 .. Len(met) : j \in 1 .. Len(f[i])
        BY <3>2
      <4> QED
        BY <3>2, <3>3, <4>1
    <3>6. \A j \in 1 .. i + 1 : os[j] \in Range(f[i + 1])
      <4>1. \A j \in 1 .. i : os[j] \in Range(f[i])
        BY <3>2
      <4> SUFFICES ASSUME NEW j \in 1 .. i + 1 PROVE os[j] \in Range(f[i + 1])
        OBVIOUS
      <4>2. CASE j = i + 1
        BY <3>3, <4>2
      <4>3. CASE j # i + 1
        <5>1. j \in 1 .. i
          BY <4>3
        <5> QED
          BY <3>3, <4>1, <5>1
      <4> QED
        BY <4>2, <4>3
    <3> QED
      BY <3>2, <3>3, <3>4, <3>5, <3>6
  <2> QED
    BY <2>1
<1>8. P(n)
  <2> HIDE DEF P
  <2>1. Nat \subseteq T
    <3> HIDE DEF T
    <3> QED
      BY <1>6, <1>7, NatsAssumptions, Nats!InductionOnSet
  <2> QED
    BY <1>1, <2>1
<1>9. Range(os) \subseteq Range(f[n])
  BY <1>1, <1>8 DEF Range
<1> QED
  BY <1>4, <1>8, <1>9

----------------------------------------------------------------------------
(* What the packer writes                                                  *)

\* Where a stream has the beginning of the object of number n.
StartsIn(s, n) == {p \in DOMAIN s : s[p].t = "object" /\ s[p].k = n /\ s[p].v # Null}

\* Tokens that begin no object and refer to one of n numbers.
Inner(s, n) == \A x \in Range(s) :
  (x.t = "object" => x.v = Null) /\ (x.t = "ref" => x.v \in 0 .. n - 1)

\* The objects before this one have begun in the stream.
Begun == IF doing = Null THEN Len(num) ELSE IF doing.l = 0 THEN doing.i ELSE doing.i + 1

PackTypes ==
  /\ \A o \in Obj : IsObject(graph[o])
  /\ num \in Seq(Obj) /\ names \in Seq(Class) /\ out \in Seq(Token)
  /\ IsFiniteSet(DOMAIN roots)
  /\ doing \in [i : Nat, l : Nat] \cup {Null}
  /\ doing # Null => doing.i <= Len(num) /\ (doing.l # 0 => doing.i < Len(num))

PackInv ==
  /\ PackTypes
  /\ \A p \in DOMAIN out : out[p].t = "ref" => out[p].v \in 0 .. Len(num) - 1
  /\ \A n \in Nat : IF n < Begun THEN \E p : StartsIn(out, n) = {p} ELSE StartsIn(out, n) = {}

\* Tokens within an object begin none.
LEMMA InnerStarts ==
  ASSUME NEW s \in Seq(Token), NEW x \in Seq(Token), NEW m \in Nat, Inner(x, m), NEW n
  PROVE  StartsIn(s \o x, n) = StartsIn(s, n)
<1>1. /\ Len(s) \in Nat /\ Len(x) \in Nat /\ DOMAIN s = 1 .. Len(s) /\ DOMAIN x = 1 .. Len(x)
      /\ DOMAIN (s \o x) = 1 .. Len(s) + Len(x)
      /\ \A i \in 1 .. Len(s) : (s \o x)[i] = s[i]
      /\ \A i \in 1 .. Len(x) : (s \o x)[Len(s) + i] = x[i]
  BY ConcatIs
<1>2. ASSUME NEW p \in 1 .. Len(s) + Len(x) PROVE p \in StartsIn(s \o x, n) <=> p \in StartsIn(s, n)
  <2>1. CASE p <= Len(s)
    <3>1. p \in 1 .. Len(s)
      BY <1>1, <2>1
    <3> QED
      BY <1>1, <3>1 DEF StartsIn
  <2>2. CASE p > Len(s)
    <3>1. p - Len(s) \in 1 .. Len(x) /\ Len(s) + (p - Len(s)) = p /\ p \notin 1 .. Len(s)
      BY <1>1, <2>2
    <3>2. (s \o x)[p] = x[p - Len(s)] /\ x[p - Len(s)] \in Range(x)
      BY <1>1, <3>1 DEF Range
    <3>3. ~((s \o x)[p].t = "object" /\ (s \o x)[p].v # Null)
      BY <3>2 DEF Inner
    <3> QED
      BY <1>1, <3>1, <3>3 DEF StartsIn
  <2> QED
    BY <1>1, <2>1, <2>2
<1>3. \A p \in 1 .. Len(s) : p \in 1 .. Len(s) + Len(x)
  BY <1>1
<1>4. StartsIn(s, n) \subseteq 1 .. Len(s) /\ StartsIn(s \o x, n) \subseteq 1 .. Len(s) + Len(x)
  BY <1>1 DEF StartsIn
<1> QED
  BY Zenon, <1>2, <1>3, <1>4

\* The beginning of an object is added to those of its number.
LEMMA ObjectStarts ==
  ASSUME NEW s \in Seq(Token), NEW k \in Nat, NEW v \in Nat, NEW n
  PROVE  StartsIn(Append(s, Tok("object", k, v)), n)
           = IF n = k THEN StartsIn(s, n) \cup {Len(s) + 1} ELSE StartsIn(s, n)
<1> DEFINE x == Tok("object", k, v)
<1>1. x \in Token /\ x.t = "object" /\ x.k = k /\ x.v = v
  BY DEF Token, Tok, Kinds
<1>2. v # Null
  BY MmPackAssumption
<1> HIDE DEF x
<1>3. /\ DOMAIN s = 1 .. Len(s) /\ Len(s) \in Nat
      /\ DOMAIN Append(s, x) = 1 .. Len(s) + 1
      /\ Append(s, x)[Len(s) + 1] = x
      /\ \A i \in 1 .. Len(s) : Append(s, x)[i] = s[i]
  BY <1>1
<1>4. \A p \in 1 .. Len(s) + 1 : p = Len(s) + 1 \/ p \in 1 .. Len(s)
  BY <1>3
<1>5. Len(s) + 1 \in 1 .. Len(s) + 1 /\ Len(s) + 1 \notin 1 .. Len(s)
      /\ \A p \in 1 .. Len(s) : p \in 1 .. Len(s) + 1
  BY <1>3
<1>6. StartsIn(Append(s, x), n)
        = {p \in 1 .. Len(s) + 1 : Append(s, x)[p].t = "object" /\ Append(s, x)[p].k = n
                                   /\ Append(s, x)[p].v # Null}
  BY <1>3 DEF StartsIn
<1>7. StartsIn(s, n) = {p \in 1 .. Len(s) : s[p].t = "object" /\ s[p].k = n /\ s[p].v # Null}
  BY <1>3 DEF StartsIn
<1>8. StartsIn(Append(s, x), n) = IF n = k THEN StartsIn(s, n) \cup {Len(s) + 1} ELSE StartsIn(s, n)
  BY <1>1, <1>2, <1>3, <1>4, <1>5, <1>6, <1>7
<1> QED
  BY <1>8 DEF x

\* A name is added once, and is in the stream when it is used.
LEMMA NameIs ==
  ASSUME names \in Seq(Class), NEW c \in Class, NEW m \in Nat
  PROVE  /\ Named(c) \in Seq(Class) /\ c \in Range(Named(c))
         /\ Id(Named(c), c) \in Nat
         /\ NameTokens(c) \in Seq(Token) /\ Inner(NameTokens(c), m)
<1>1. Named(c) \in Seq(Class) /\ c \in Range(Named(c))
  <2>1. CASE c \in Range(names)
    BY <2>1 DEF Named
  <2>2. CASE c \notin Range(names)
    <3>1. Append(names, c) \in Seq(Class) /\ Append(names, c)[Len(names) + 1] = c
          /\ Len(names) + 1 \in DOMAIN Append(names, c)
      OBVIOUS
    <3> QED
      BY <2>2, <3>1 DEF Named, Range
  <2> QED
    BY <2>1, <2>2
<1>2. Id(Named(c), c) \in Nat
  BY <1>1, IdIs
<1>3. NameTokens(c) \in Seq(Token) /\ Inner(NameTokens(c), m)
  <2>1. CASE c \in Range(names)
    BY <2>1 DEF NameTokens, Inner, Range
  <2>2. CASE c \notin Range(names)
    <3> DEFINE x == Tok("name", Len(names), c)
    <3>1. x \in Token /\ x.t = "name"
      BY DEF Token, Tok, Kinds
    <3>2. NameTokens(c) = << x >>
      BY <2>2 DEF NameTokens
    <3> HIDE DEF x
    <3> QED
      BY <3>1, <3>2 DEF Inner, Range
  <2> QED
    BY <2>1, <2>2
<1> QED
  BY <1>1, <1>2, <1>3

Fields == [k : Nat, t : Leaves \cup {"ref", "array"}]

\* A field refers to objects.
LEMMA RefsAre ==
  ASSUME NEW f \in Fields, NEW v, IsValue(f.t, v)
  PROVE  Refs(f, v) \in Seq(Obj)
<1>1. Null \notin Obj
  BY MmPackAssumption
<1>2. CASE f.t = "array"
  BY <1>2 DEF Refs, IsValue
<1>3. CASE f.t = "ref"
  BY <1>1, <1>3 DEF Refs, IsValue
<1>4. CASE f.t \in Leaves
  BY <1>4 DEF Refs, IsValue, Leaves
<1> QED
  BY <1>2, <1>3, <1>4 DEF Fields

\* The tokens of a field refer to objects that have numbers.
LEMMA FieldTokensAre ==
  ASSUME NEW met \in Seq(Obj), NEW f \in Fields, NEW v, IsValue(f.t, v),
         Range(Refs(f, v)) \subseteq Range(met)
  PROVE  FieldTokens(met, f, v) \in Seq(Token) /\ Inner(FieldTokens(met, f, v), Len(met))
<1>1. Null \notin Obj /\ f.k \in Nat /\ f.t \in Kinds
  BY MmPackAssumption DEF Fields, Kinds
<1>2. CASE f.t = "array"
  <2>1. v \in Seq(Obj) /\ Len(v) \in Nat /\ DOMAIN v = 1 .. Len(v) /\ Refs(f, v) = v
    BY <1>2 DEF IsValue, Refs
  <2> DEFINE a == Tok("array", f.k, Len(v) + 1)
             z == Tok("array", f.k, 0)
             r == [i \in DOMAIN v |-> Tok("ref", 0, Id(met, v[i]))]
  <2>2. a \in Token /\ z \in Token /\ a.t = "array" /\ z.t = "array"
    BY <1>1, <2>1 DEF Token, Tok, Kinds
  <2>3. ASSUME NEW i \in DOMAIN v
        PROVE  r[i] \in Token /\ r[i].t = "ref" /\ r[i].v \in 0 .. Len(met) - 1
    <3>1. v[i] \in Range(met)
      BY Zenon, <2>1 DEF Range
    <3>2. Id(met, v[i]) \in 0 .. Len(met) - 1 /\ Id(met, v[i]) \in Nat
      BY <3>1, IdIs
    <3> QED
      BY <3>2 DEF Token, Tok, Kinds
  <2>4. r \in [1 .. Len(v) -> Token]
    BY <2>1, <2>3
  <2>5. r \in Seq(Token) /\ DOMAIN r = DOMAIN v
    BY <2>1, <2>4
  <2>6. FieldTokens(met, f, v) = (<<a>> \o r) \o <<z>>
    BY <1>2 DEF FieldTokens
  <2> HIDE DEF a, z, r
  <2>7. << a >> \in Seq(Token) /\ << z >> \in Seq(Token)
        /\ Range(<<a>>) = {a} /\ Range(<<z>>) = {z}
    <3>1. << a >> \in Seq(Token) /\ << z >> \in Seq(Token)
      BY <2>2
    <3> QED
      BY Zenon, <3>1, RangeOne
  <2>8. (<<a>> \o r) \o <<z>> \in Seq(Token)
        /\ Range((<<a>> \o r) \o <<z>>) = ({a} \cup Range(r)) \cup {z}
    <3> DEFINE aa == << a >>
               zz == << z >>
    <3>1. aa \in Seq(Token) /\ zz \in Seq(Token) /\ Range(aa) = {a} /\ Range(zz) = {z}
      BY <2>7
    <3> HIDE DEF aa, zz
    <3>2. aa \o r \in Seq(Token) /\ Range(aa \o r) = {a} \cup Range(r)
      BY <2>5, <3>1, ConcatIs
    <3> DEFINE bb == aa \o r
    <3>3. bb \in Seq(Token) /\ Range(bb) = {a} \cup Range(r)
      BY <3>2
    <3> HIDE DEF bb
    <3>4. bb \o zz \in Seq(Token) /\ Range(bb \o zz) = Range(bb) \cup Range(zz)
      BY <3>1, <3>3, ConcatIs
    <3> QED
      BY Zenon, <3>1, <3>3, <3>4 DEF aa, zz, bb
  <2>9. ASSUME NEW x \in Range(r) PROVE x.t = "ref" /\ x.v \in 0 .. Len(met) - 1
    BY <2>3, <2>5 DEF Range
  <2> QED
    BY Zenon, <2>2, <2>6, <2>8, <2>9 DEF Inner
<1>3. CASE f.t = "ref"
  <2>1. CASE v = Null
    BY <1>3, <2>1 DEF FieldTokens, Inner, Range
  <2>2. CASE v # Null
    <3>1. v \in Range(met)
      BY <1>3, <2>2 DEF Refs, Range
    <3>2. Id(met, v) \in 0 .. Len(met) - 1 /\ Id(met, v) \in Nat
      BY <3>1, IdIs
    <3> DEFINE x == Tok("ref", f.k, Id(met, v))
    <3>3. x \in Token /\ x.t = "ref" /\ x.v \in 0 .. Len(met) - 1
      BY <1>1, <3>2 DEF Token, Tok, Kinds
    <3>4. FieldTokens(met, f, v) = << x >>
      BY <1>3, <2>2 DEF FieldTokens
    <3> HIDE DEF x
    <3> QED
      BY <3>3, <3>4 DEF Inner, Range
  <2> QED
    BY <2>1, <2>2
<1>4. CASE f.t \in Leaves
  <2> DEFINE x == Tok(f.t, f.k, v)
  <2>1. v \in Leaf /\ FieldTokens(met, f, v) = << x >>
    BY <1>4 DEF FieldTokens, IsValue, Leaves
  <2>2. x \in Token /\ x.t \notin {"ref", "object"}
    BY <1>1, <1>4, <2>1 DEF Token, Tok, Kinds, Leaves
  <2> HIDE DEF x
  <2> QED
    BY <2>1, <2>2 DEF Inner, Range
<1> QED
  BY <1>2, <1>3, <1>4 DEF Fields

\* The layers of an object and what is in them.
LEMMA LayerIs ==
  ASSUME NEW c \in Class, NEW l \in DOMAIN Layers[c]
  PROVE  /\ Layers[c] \in Seq(Layer) /\ Layers[c][l] \in Layer
         /\ Layers[c][l].name \in Class /\ Layers[c][l].fields \in Seq(Fields)
<1>1. Layers[c] \in Seq(Layer)
  BY MmPackAssumption
<1>2. Layers[c][l] \in Layer
  BY <1>1
<1> QED
  BY <1>1, <1>2 DEF Layer, Fields

\* What a layer packs: references to objects it gave their numbers.
LEMMA LayerTokensAre ==
  ASSUME NEW met0 \in Seq(Obj), NEW fs \in Seq(Fields), NEW body,
         \A i \in DOMAIN fs : IsValue(fs[i].t, body[fs[i].k]),
         NEW refs, refs = FlattenSeq([i \in DOMAIN fs |-> Refs(fs[i], body[fs[i].k])]),
         NEW met, met = AllNumbered(met0, refs),
         NEW x, x = FlattenSeq([i \in DOMAIN fs |-> FieldTokens(met, fs[i], body[fs[i].k])])
  PROVE  /\ met \in Seq(Obj) /\ Len(met0) <= Len(met)
         /\ x \in Seq(Token) /\ Inner(x, Len(met))
<1> DEFINE rs == [i \in DOMAIN fs |-> Refs(fs[i], body[fs[i].k])]
           ts == [i \in DOMAIN fs |-> FieldTokens(met, fs[i], body[fs[i].k])]
<1>1. DOMAIN fs = 1 .. Len(fs) /\ Len(fs) \in Nat /\ \A i \in DOMAIN fs : fs[i] \in Fields
  OBVIOUS
<1>2. ASSUME NEW i \in DOMAIN fs PROVE rs[i] \in Seq(Obj)
  BY <1>1, RefsAre
<1>3. rs \in Seq(Seq(Obj)) /\ DOMAIN rs = DOMAIN fs
  <2>1. rs \in [1 .. Len(fs) -> Seq(Obj)]
    BY <1>1, <1>2
  <2> QED
    BY <1>1, <2>1
<1>4. refs \in Seq(Obj) /\ \A i \in DOMAIN fs : Range(rs[i]) \subseteq Range(refs)
  <2>1. refs = FlattenSeq(rs)
    OBVIOUS
  <2> HIDE DEF rs
  <2> QED
    BY Zenon, <1>3, <2>1, FlattenIs
<1>5. met \in Seq(Obj) /\ Range(refs) \subseteq Range(met) /\ Len(met0) <= Len(met)
  BY Zenon, <1>4, AllNumberedIs
<1>6. ASSUME NEW i \in DOMAIN fs PROVE ts[i] \in Seq(Token) /\ Inner(ts[i], Len(met))
  <2>1. Range(Refs(fs[i], body[fs[i].k])) \subseteq Range(met)
    BY Zenon, <1>4, <1>5
  <2> QED
    BY <1>1, <1>5, <2>1, FieldTokensAre
<1>7. ts \in Seq(Seq(Token)) /\ DOMAIN ts = DOMAIN fs
  <2>1. ts \in [1 .. Len(fs) -> Seq(Token)]
    BY <1>1, <1>6
  <2> QED
    BY <1>1, <2>1
<1>8. x \in Seq(Token) /\ \A y \in Range(x) : \E i \in DOMAIN ts : y \in Range(ts[i])
  <2>1. x = FlattenSeq(ts)
    OBVIOUS
  <2> HIDE DEF ts
  <2> QED
    BY Zenon, <1>7, <2>1, FlattenIs
<1>9. Inner(x, Len(met))
  <2> HIDE DEF ts
  <2> QED
    BY Zenon, <1>6, <1>7, <1>8 DEF Inner
<1> QED
  BY <1>5, <1>8, <1>9

\* The stream grows by tokens within an object, or roots.
LEMMA InnerKeeps ==
  ASSUME PackTypes, \A p \in DOMAIN out : out[p].t = "ref" => out[p].v \in 0 .. Len(num) - 1,
         NEW m \in Nat, Len(num) <= m, NEW x \in Seq(Token), Inner(x, m)
  PROVE  /\ out \o x \in Seq(Token)
         /\ \A p \in DOMAIN (out \o x) : (out \o x)[p].t = "ref" => (out \o x)[p].v \in 0 .. m - 1
         /\ \A n : StartsIn(out \o x, n) = StartsIn(out, n)
<1>1. out \in Seq(Token) /\ Len(num) \in Nat
  BY DEF PackTypes
<1>2. out \o x \in Seq(Token) /\ Range(out \o x) = Range(out) \cup Range(x)
  BY <1>1, ConcatIs
<1>3. \A n : StartsIn(out \o x, n) = StartsIn(out, n)
  BY <1>1, InnerStarts
<1>4. ASSUME NEW p \in DOMAIN (out \o x), (out \o x)[p].t = "ref"
      PROVE  (out \o x)[p].v \in 0 .. m - 1
  <2>1. (out \o x)[p] \in Range(out) \/ (out \o x)[p] \in Range(x)
    BY <1>2 DEF Range
  <2>2. CASE (out \o x)[p] \in Range(x)
    BY <1>4, <2>2 DEF Inner
  <2>3. CASE (out \o x)[p] \in Range(out)
    <3>1. (out \o x)[p].v \in 0 .. Len(num) - 1
      BY Zenon, <1>4, <2>3 DEF Range
    <3> QED
      BY <1>1, <3>1
  <2> QED
    BY <2>1, <2>2, <2>3
<1> QED
  BY <1>2, <1>3, <1>4

\* Nothing is packed at first.
LEMMA PackInitInv ==
  ASSUME Init
  PROVE  PackInv
<1>1. /\ \A o \in Obj : IsObject(graph[o])
      /\ num = <<>> /\ names = <<>> /\ doing = Null /\ out = << Tok("function", 1, 1) >>
  BY DEF Init, PackInit
<1>0. IsFiniteSet(DOMAIN roots)
  <2>1. DOMAIN roots = {}
    BY DEF Init, PackInit
  <2> QED
    BY <2>1, FS_EmptySet
<1> DEFINE x == Tok("function", 1, 1)
<1>2. x \in Token /\ x.t = "function"
  BY DEF Token, Tok, Kinds
<1>3. out = << x >>
  BY <1>1
<1> HIDE DEF x
<1>4. out \in Seq(Token) /\ \A p \in DOMAIN out : out[p].t = "function"
  BY <1>2, <1>3
<1>5. PackTypes
  BY <1>0, <1>1, <1>4 DEF PackTypes
<1>6. \A n : StartsIn(out, n) = {}
  BY <1>4 DEF StartsIn
<1>7. Begun = 0
  BY <1>1 DEF Begun
<1> QED
  BY <1>4, <1>5, <1>6, <1>7 DEF PackInv

\* What a call of the program to pack an object writes.
LEMMA PackRootInv ==
  ASSUME PackInv, NEW o \in Obj, PackRoot(o), UNCHANGED graph
  PROVE  PackInv'
<1> DEFINE k == Cardinality(DOMAIN roots)
           met == Numbered(num, o)
           y == Tok("ref", k, Id(met, o))
<1>1. PackTypes /\ doing = Null /\ num' = met /\ out' = Append(out, y)
      /\ doing' = [i |-> Len(num), l |-> 0] /\ names' = names
  BY DEF PackRoot, PackInv, Start
<1>2. met \in Seq(Obj) /\ o \in Range(met) /\ Len(num) <= Len(met) /\ Len(num) \in Nat
      /\ Len(met) \in Nat
  BY <1>1, NumberedIs DEF PackTypes
<1>3. Id(met, o) \in 0 .. Len(met) - 1
  BY <1>2, IdIs
<1>4. y \in Token /\ y.t = "ref" /\ y.v = Id(met, o)
  <2>1. k \in Nat
    BY <1>1, FS_CardinalityType DEF PackTypes
  <2> QED
    BY <1>3, <2>1 DEF Token, Tok, Kinds
<1> HIDE DEF met, y
<1>5. << y >> \in Seq(Token) /\ Inner(<<y>>, Len(met))
  BY <1>3, <1>4, RangeOne DEF Inner
<1>6. out' = out \o << y >>
  BY <1>1, <1>4 DEF PackTypes
<1> DEFINE yy == << y >>
<1> HIDE DEF yy
<1>7. /\ out \o yy \in Seq(Token)
      /\ \A p \in DOMAIN (out \o yy) : (out \o yy)[p].t = "ref" => (out \o yy)[p].v \in 0 .. Len(met) - 1
      /\ \A n : StartsIn(out \o yy, n) = StartsIn(out, n)
  <2>1. yy \in Seq(Token) /\ Inner(yy, Len(met))
    BY <1>5 DEF yy
  <2> QED
    BY <1>1, <1>2, <2>1, InnerKeeps DEF PackInv
<1>8. out' = out \o yy
  BY <1>6 DEF yy
<1>9. doing' \in [i : Nat, l : Nat] /\ doing' # Null /\ doing'.i = Len(num) /\ doing'.l = 0
  BY <1>1, <1>2, MmPackAssumption
<1>10. IsFiniteSet(DOMAIN roots')
  <2>1. DOMAIN roots' = DOMAIN roots \cup {k}
    BY Zenon, UnderIs DEF PackRoot
  <2> HIDE DEF k
  <2> QED
    BY Zenon, <1>1, <2>1, FS_AddElement DEF PackTypes
<1>11. PackTypes'
  BY <1>1, <1>2, <1>7, <1>8, <1>9, <1>10 DEF PackTypes
<1>12. Begun' = Begun
  BY <1>1, <1>9 DEF Begun
<1> QED
  BY Zenon, <1>1, <1>7, <1>8, <1>11, <1>12 DEF PackInv

\* What a call of the program to pack a number writes.
LEMMA PackRootLeafInv ==
  ASSUME PackInv, NEW v \in Leaf, PackRootLeaf(v), UNCHANGED graph
  PROVE  PackInv'
<1> DEFINE k == Cardinality(DOMAIN roots)
           y == Tok("integer", k, v)
<1>1. PackTypes /\ doing = Null /\ num' = num /\ out' = Append(out, y)
      /\ doing' = Null /\ names' = names
  BY DEF PackRootLeaf, PackInv
<1>2. Len(num) \in Nat
  BY <1>1 DEF PackTypes
<1>3. y \in Token /\ y.t = "integer"
  <2>1. k \in Nat
    BY <1>1, FS_CardinalityType DEF PackTypes
  <2> QED
    BY <2>1 DEF Token, Tok, Kinds, Leaves
<1> HIDE DEF y
<1> DEFINE yy == << y >>
<1>4. yy \in Seq(Token) /\ Inner(yy, Len(num))
  BY <1>3, RangeOne DEF Inner
<1>5. out' = out \o yy
  BY <1>1, <1>3 DEF PackTypes
<1> HIDE DEF yy
<1>6. /\ out \o yy \in Seq(Token)
      /\ \A p \in DOMAIN (out \o yy) : (out \o yy)[p].t = "ref" => (out \o yy)[p].v \in 0 .. Len(num) - 1
      /\ \A n : StartsIn(out \o yy, n) = StartsIn(out, n)
  BY <1>1, <1>2, <1>4, InnerKeeps DEF PackInv
<1>7. IsFiniteSet(DOMAIN roots')
  <2>1. DOMAIN roots' = DOMAIN roots \cup {k}
    BY Zenon, UnderIs DEF PackRootLeaf
  <2> HIDE DEF k
  <2> QED
    BY Zenon, <1>1, <2>1, FS_AddElement DEF PackTypes
<1>8. PackTypes'
  BY <1>1, <1>2, <1>5, <1>6, <1>7 DEF PackTypes
<1>9. Begun' = Begun
  BY <1>1 DEF Begun
<1> QED
  BY Zenon, <1>1, <1>5, <1>6, <1>8, <1>9 DEF PackInv

\* The loop comes to an object: it begins in the stream.
LEMMA PackObjectInv ==
  ASSUME PackInv, PackObject, UNCHANGED graph
  PROVE  PackInv'
<1> DEFINE c == graph[Current].cls
           x == NameTokens(c)
           y == Tok("object", doing.i, Id(Named(c), c))
<1>1. /\ PackTypes /\ doing # Null /\ doing.i < Len(num) /\ doing.l = 0
      /\ num' = num /\ names' = Named(c) /\ doing' = [doing EXCEPT !.l = 1] /\ roots' = roots
      /\ out' = out \o x \o << y >>
  BY DEF PackObject, PackInv, Packing
<1>2. doing \in [i : Nat, l : Nat] /\ Len(num) \in Nat /\ out \in Seq(Token)
  BY <1>1 DEF PackTypes
<1>3. c \in Class
  <2>1. doing.i + 1 \in DOMAIN num /\ num \in Seq(Obj)
    BY <1>1, <1>2 DEF PackTypes
  <2>2. Current \in Obj
    BY <2>1 DEF Current
  <2> QED
    BY Zenon, <1>1, <2>2 DEF PackTypes, IsObject
<1> HIDE DEF c
<1>4. Named(c) \in Seq(Class) /\ Id(Named(c), c) \in Nat /\ x \in Seq(Token) /\ Inner(x, Len(num))
  BY <1>1, <1>2, <1>3, NameIs DEF PackTypes
<1> HIDE DEF x
<1> DEFINE o == out \o x
<1>5. /\ o \in Seq(Token)
      /\ \A p \in DOMAIN o : o[p].t = "ref" => o[p].v \in 0 .. Len(num) - 1
      /\ \A n : StartsIn(o, n) = StartsIn(out, n)
  <2>1. PackTypes /\ \A p \in DOMAIN out : out[p].t = "ref" => out[p].v \in 0 .. Len(num) - 1
    BY DEF PackInv
  <2>2. /\ out \o x \in Seq(Token)
        /\ \A p \in DOMAIN (out \o x) : (out \o x)[p].t = "ref" => (out \o x)[p].v \in 0 .. Len(num) - 1
        /\ \A n : StartsIn(out \o x, n) = StartsIn(out, n)
    BY <1>2, <1>4, <2>1, InnerKeeps
  <2> QED
    BY <2>2
<1>6. y \in Token /\ y.t = "object"
  BY <1>2, <1>4 DEF Token, Tok, Kinds
<1>7. out' = Append(o, y)
  <2> HIDE DEF y
  <2> QED
    BY <1>1, <1>5, <1>6
<1> HIDE DEF o
<1>8. \A n : StartsIn(Append(o, y), n)
               = IF n = doing.i THEN StartsIn(out, n) \cup {Len(o) + 1} ELSE StartsIn(out, n)
  BY <1>2, <1>4, <1>5, ObjectStarts
<1> HIDE DEF y
<1>9. Append(o, y) \in Seq(Token)
      /\ \A p \in DOMAIN Append(o, y) : Append(o, y)[p].t = "ref" => Append(o, y)[p].v \in 0 .. Len(num) - 1
  BY <1>5, <1>6
<1>10. doing' \in [i : Nat, l : Nat] /\ doing'.i = doing.i /\ doing'.l = 1 /\ doing' # Null
  <2>1. doing' \in [i : Nat, l : Nat] /\ doing'.i = doing.i /\ doing'.l = 1
    BY <1>1, <1>2
  <2> QED
    BY <2>1, MmPackAssumption
<1>11. PackTypes'
  BY <1>1, <1>4, <1>7, <1>9, <1>10 DEF PackTypes
<1>12. Begun = doing.i /\ Begun' = doing.i + 1
  BY <1>1, <1>10 DEF Begun
<1>13. \A n \in Nat : IF n < Begun' THEN \E p : StartsIn(out', n) = {p} ELSE StartsIn(out', n) = {}
  <2> DEFINE j == doing.i
             A(n) == StartsIn(out, n)
             D(n) == StartsIn(out', n)
  <2>1. \A n \in Nat : IF n < j THEN \E p : A(n) = {p} ELSE A(n) = {}
    BY Zenon, <1>12 DEF PackInv
  <2>2. \A n : D(n) = IF n = j THEN A(n) \cup {Len(o) + 1} ELSE A(n)
    BY <1>7, <1>8
  <2>3. j \in Nat /\ Begun' = j + 1
    BY <1>2, <1>12
  <2> HIDE DEF j, A, D
  <2>4. ASSUME NEW n \in Nat PROVE IF n < j + 1 THEN \E p : D(n) = {p} ELSE D(n) = {}
    <3>1. CASE n < j
      <4>1. n # j /\ n < j + 1
        BY <2>3, <3>1
      <4>2. PICK p : A(n) = {p}
        BY Zenon, <2>1, <3>1
      <4>3. D(n) = {p}
        BY <2>2, <4>1, <4>2
      <4> QED
        BY <4>1, <4>3
    <3>2. CASE n = j
      <4>1. ~(n < j) /\ n < j + 1
        BY <2>3, <3>2
      <4>2. A(n) = {}
        BY <2>1, <4>1
      <4>3. D(n) = {Len(o) + 1}
        BY <2>2, <3>2, <4>2
      <4> QED
        BY <4>1, <4>3
    <3>3. CASE n > j
      <4>1. n # j /\ ~(n < j) /\ ~(n < j + 1)
        BY <2>3, <3>3
      <4>2. A(n) = {}
        BY <2>1, <4>1
      <4> QED
        BY <2>2, <4>1, <4>2
    <3>4. n < j \/ n = j \/ n > j
      BY <2>3
    <3> QED
      BY Zenon, <3>1, <3>2, <3>3, <3>4
  <2> QED
    BY Zenon, <2>3, <2>4 DEF D
<1> QED
  BY Zenon, <1>1, <1>7, <1>9, <1>11, <1>13 DEF PackInv

\* A layer of an object is packed.
LEMMA PackLayerInv ==
  ASSUME PackInv, PackLayer, UNCHANGED graph
  PROVE  PackInv'
<1> DEFINE layer == CurrentLayers[doing.l]
           body == graph[Current].body[doing.l]
           fs == layer.fields
           refs == FlattenSeq([i \in DOMAIN fs |-> Refs(fs[i], body[fs[i].k])])
           met == AllNumbered(num, refs)
           x == FlattenSeq([i \in DOMAIN fs |-> FieldTokens(met, fs[i], body[fs[i].k])])
           z == NameTokens(layer.name)
           y == Tok("context", Id(Named(layer.name), layer.name), Null)
<1>0. PackTypes
  BY DEF PackInv
<1>1. /\ PackTypes /\ doing # Null /\ doing.i < Len(num) /\ doing.l \in DOMAIN CurrentLayers
      /\ doing' = [doing EXCEPT !.l = @ + 1] /\ roots' = roots
      /\ IF layer.pack
         THEN num' = met /\ names' = Named(layer.name) /\ out' = out \o z \o << y >> \o x
         ELSE num' = num /\ names' = names /\ out' = out
  BY ZenonT(60) DEF PackLayer, PackInv, Packing
<1>a. doing # Null /\ doing.i < Len(num)
  BY Zenon DEF PackLayer, Packing
<1>2. doing \in [i : Nat, l : Nat] /\ Len(num) \in Nat /\ out \in Seq(Token) /\ num \in Seq(Obj)
  BY <1>0, <1>a DEF PackTypes
<1>3. Current \in Obj
  <2>1. doing.i + 1 \in DOMAIN num
    BY <1>2, <1>a
  <2> QED
    BY <1>2, <2>1 DEF Current
<1>4. IsObject(graph[Current])
  BY SMTT(30), <1>0, <1>3 DEF PackTypes
<1>5. /\ layer \in Layer /\ layer.name \in Class /\ fs \in Seq(Fields) /\ doing.l # 0
      /\ \A i \in DOMAIN fs : IsValue(fs[i].t, body[fs[i].k])
  <2> DEFINE c == graph[Current].cls
  <2>1. c \in Class /\ doing.l \in DOMAIN Layers[c] /\ layer = Layers[c][doing.l]
        /\ doing.l \in DOMAIN graph[Current].body
    BY ZenonT(60), <1>1, <1>4 DEF IsObject, CurrentLayers
  <2>2. \A i \in DOMAIN fs : IsValue(fs[i].t, body[fs[i].k])
    BY Zenon, <1>4, <2>1 DEF IsObject, CurrentLayers
  <2>3. layer \in Layer /\ layer.name \in Class /\ fs \in Seq(Fields) /\ Layers[c] \in Seq(Layer)
    <3> HIDE DEF c
    <3> QED
      BY <2>1, LayerIs
  <2>4. doing.l # 0
    BY <2>1, <2>3
  <2> QED
    BY <2>2, <2>3, <2>4
<1> DEFINE name == layer.name
<1> HIDE DEF layer, body
<1>6. met \in Seq(Obj) /\ Len(num) <= Len(met) /\ x \in Seq(Token) /\ Inner(x, Len(met))
  <2> DEFINE ff == fs
  <2>1. ff \in Seq(Fields) /\ \A i \in DOMAIN ff : IsValue(ff[i].t, body[ff[i].k])
    BY <1>5
  <2> HIDE DEF ff
  <2> DEFINE rr == FlattenSeq([i \in DOMAIN ff |-> Refs(ff[i], body[ff[i].k])])
             mm == AllNumbered(num, rr)
             xx == FlattenSeq([i \in DOMAIN ff |-> FieldTokens(mm, ff[i], body[ff[i].k])])
  <2>2. mm \in Seq(Obj) /\ Len(num) <= Len(mm) /\ xx \in Seq(Token) /\ Inner(xx, Len(mm))
    <3> SUFFICES ASSUME NEW r, r = rr, NEW m, m = mm, NEW w, w = xx
                 PROVE  m \in Seq(Obj) /\ Len(num) <= Len(m) /\ w \in Seq(Token) /\ Inner(w, Len(m))
      OBVIOUS
    <3>1. r = FlattenSeq([i \in DOMAIN ff |-> Refs(ff[i], body[ff[i].k])])
          /\ m = AllNumbered(num, r)
          /\ w = FlattenSeq([i \in DOMAIN ff |-> FieldTokens(m, ff[i], body[ff[i].k])])
      OBVIOUS
    <3> HIDE DEF rr, mm, xx
    <3> QED
      BY Zenon, <1>2, <2>1, <3>1, LayerTokensAre
  <2> QED
    BY <2>2 DEF ff
<1> HIDE DEF refs, met, x, z, y, fs
<1>7. doing' \in [i : Nat, l : Nat] /\ doing'.i = doing.i /\ doing'.l # 0 /\ doing' # Null
  <2>1. doing' \in [i : Nat, l : Nat] /\ doing'.i = doing.i /\ doing'.l = doing.l + 1
    BY <1>1, <1>2
  <2>2. doing'.l # 0
    BY <1>2, <2>1
  <2> QED
    BY <2>1, <2>2, MmPackAssumption
<1>8. Begun' = Begun
  BY <1>1, <1>5, <1>7 DEF Begun
<1>9. CASE layer.pack
  <2>1. num' = met /\ names' = Named(name) /\ out' = ((out \o z) \o << y >>) \o x
    BY <1>1, <1>9
  <2>2. Named(name) \in Seq(Class) /\ Id(Named(name), name) \in Nat
        /\ z \in Seq(Token) /\ Inner(z, Len(met)) /\ Len(met) \in Nat
    <3>1. name \in Class /\ names \in Seq(Class) /\ Len(met) \in Nat
      BY <1>1, <1>5, <1>6 DEF PackTypes
    <3> HIDE DEF name
    <3>2. z = NameTokens(name)
      BY DEF z, name
    <3> QED
      BY <3>1, <3>2, NameIs
  <2>3. y \in Token /\ y.t = "context"
    BY <2>2 DEF y, name, Token, Tok, Kinds
  <2> DEFINE yy == << y >>
             w == (z \o yy) \o x
  <2>4. yy \in Seq(Token) /\ Range(yy) = {y}
    BY <2>3, RangeOne
  <2> HIDE DEF yy
  <2>5. z \o yy \in Seq(Token) /\ Range(z \o yy) = Range(z) \cup {y}
    BY <2>2, <2>4, ConcatIs
  <2>6. w \in Seq(Token) /\ Range(w) = (Range(z) \cup {y}) \cup Range(x)
    <3> DEFINE v == z \o yy
    <3>1. v \in Seq(Token) /\ Range(v) = Range(z) \cup {y}
      BY <2>5
    <3> HIDE DEF v
    <3>2. v \o x \in Seq(Token) /\ Range(v \o x) = Range(v) \cup Range(x)
      BY <1>6, <3>1, ConcatIs
    <3> QED
      BY <3>1, <3>2 DEF v
  <2>7. Inner(w, Len(met))
    BY <1>6, <2>2, <2>3, <2>6 DEF Inner
  <2>8. out' = out \o w
    <3>1. out' = ((out \o z) \o yy) \o x
      BY <2>1 DEF yy
    <3> DEFINE v == z \o yy
    <3>0. out \in Seq(Token) /\ z \in Seq(Token) /\ yy \in Seq(Token) /\ x \in Seq(Token)
          /\ v \in Seq(Token)
      BY <1>2, <1>6, <2>2, <2>4, <2>5
    <3>2. (out \o z) \o yy = out \o v
      <4>1. ASSUME NEW q \in Seq(Token), NEW r \in Seq(Token), NEW t \in Seq(Token)
            PROVE  (q \o r) \o t = q \o (r \o t)
        BY Regrouped
      <4> HIDE DEF v
      <4>2. (out \o z) \o yy = out \o (z \o yy)
        BY SMTT(30), <3>0, <4>1
      <4> QED
        BY <4>2 DEF v
    <3>3. (out \o v) \o x = out \o (v \o x)
      <4> HIDE DEF v
      <4> QED
        BY SMTT(30), <3>0, Regrouped
    <3> QED
      BY <3>1, <3>2, <3>3
  <2> HIDE DEF w
  <2>9. /\ out \o w \in Seq(Token)
        /\ \A p \in DOMAIN (out \o w) : (out \o w)[p].t = "ref" => (out \o w)[p].v \in 0 .. Len(met) - 1
        /\ \A n : StartsIn(out \o w, n) = StartsIn(out, n)
    <3>1. \A p \in DOMAIN out : out[p].t = "ref" => out[p].v \in 0 .. Len(num) - 1
      BY DEF PackInv
    <3> QED
      BY Zenon, <1>1, <1>6, <2>2, <2>6, <2>7, <3>1, InnerKeeps
  <2>10. doing.i <= Len(met) /\ doing.i < Len(met)
    BY <1>1, <1>2, <1>6, <2>2
  <2>11. PackTypes'
    BY Zenon, <1>1, <1>6, <1>7, <2>1, <2>2, <2>8, <2>9, <2>10 DEF PackTypes
  <2> QED
    BY Zenon, <1>8, <2>1, <2>8, <2>9, <2>11 DEF PackInv
<1>10. CASE ~layer.pack
  <2>1. num' = num /\ names' = names /\ out' = out
    BY <1>1, <1>10
  <2>2. PackTypes'
    BY <1>1, <1>2, <1>7, <2>1 DEF PackTypes
  <2> QED
    BY Zenon, <1>8, <2>1, <2>2 DEF PackInv
<1> QED
  BY <1>9, <1>10

\* The end of an object, and of the loop.
LEMMA PackEndInv ==
  ASSUME PackInv, PackEnd \/ PackDone, UNCHANGED graph
  PROVE  PackInv'
<1>1. PackTypes /\ doing # Null /\ num' = num /\ names' = names /\ roots' = roots
  BY DEF PackEnd, PackDone, Packing, PackInv
<1>2. doing \in [i : Nat, l : Nat] /\ Len(num) \in Nat /\ out \in Seq(Token)
  BY <1>1 DEF PackTypes
<1>3. CASE PackDone
  <2>1. doing.i = Len(num) /\ doing.l = 0 /\ doing' = Null /\ out' = out
    BY <1>1, <1>2, <1>3 DEF PackDone, PackTypes
  <2>2. PackTypes'
    BY <1>1, <2>1 DEF PackTypes
  <2>3. Begun' = Begun
    BY <1>1, <2>1 DEF Begun
  <2> QED
    BY Zenon, <1>1, <2>1, <2>2, <2>3 DEF PackInv
<1>4. CASE PackEnd
  <2> DEFINE y == Tok("object", doing.i, Null)
  <2>1. doing.i < Len(num) /\ doing' = [i |-> doing.i + 1, l |-> 0] /\ out' = Append(out, y)
        /\ doing.l # 0
    <3>1. doing.l > Len(CurrentLayers)
      BY <1>4 DEF PackEnd
    <3>2. Len(CurrentLayers) \in Nat
      <4>1. doing.i + 1 \in DOMAIN num
        BY <1>2, <1>4 DEF PackEnd, Packing
      <4>2. Current \in Obj
        BY <1>1, <4>1 DEF Current, PackTypes
      <4>3. graph[Current].cls \in Class
        BY Zenon, <1>1, <4>2 DEF PackTypes, IsObject
      <4> QED
        BY <4>3, MmPackAssumption DEF CurrentLayers
    <3> QED
      BY <1>2, <1>4, <3>1, <3>2 DEF PackEnd, Packing
  <2>2. y \in Token /\ y.t = "object" /\ y.v = Null
    BY <1>2 DEF Token, Tok, Kinds
  <2> HIDE DEF y
  <2> DEFINE yy == << y >>
  <2>3. yy \in Seq(Token) /\ Inner(yy, Len(num))
    BY <2>2, RangeOne DEF Inner
  <2>4. out' = out \o yy
    BY <1>2, <2>1, <2>2
  <2> HIDE DEF yy
  <2>5. /\ out \o yy \in Seq(Token)
        /\ \A p \in DOMAIN (out \o yy) : (out \o yy)[p].t = "ref" => (out \o yy)[p].v \in 0 .. Len(num) - 1
        /\ \A n : StartsIn(out \o yy, n) = StartsIn(out, n)
    BY <1>1, <1>2, <2>3, InnerKeeps DEF PackInv
  <2>6. doing' \in [i : Nat, l : Nat] /\ doing' # Null /\ doing'.i = doing.i + 1 /\ doing'.l = 0
    <3>1. doing.i + 1 \in Nat
      BY <1>2
    <3>2. doing' \in [i : Nat, l : Nat] /\ doing'.i = doing.i + 1 /\ doing'.l = 0
      BY <2>1, <3>1
    <3> QED
      BY <3>2, MmPackAssumption
  <2>7. PackTypes'
    BY <1>1, <1>2, <2>1, <2>4, <2>5, <2>6 DEF PackTypes
  <2>8. Begun' = Begun
    BY <1>1, <2>1, <2>6 DEF Begun
  <2> QED
    BY Zenon, <1>1, <2>4, <2>5, <2>7, <2>8 DEF PackInv
<1> QED
  BY <1>3, <1>4

\* The inductive invariant of the packer.
THEOREM PackerInvariance == Spec => []PackInv
<1>1. Init => PackInv
  BY PackInitInv
<1>2. PackInv /\ [Next]_vars => PackInv'
  <2> SUFFICES ASSUME PackInv, [Next]_vars PROVE PackInv'
    OBVIOUS
  <2>1. CASE UNCHANGED <<graph, packer>>
    BY Zenon, <2>1 DEF PackInv, PackTypes, Begun, packer
  <2>2. CASE Packs
    BY <2>2, PackRootInv, PackRootLeafInv, PackObjectInv, PackLayerInv, PackEndInv DEF Packs, Pack
  <2>3. CASE Parse
    BY <2>1, <2>3 DEF Parse, ParseStart, ParseToken, ParseEnd
  <2>4. CASE ReadStep
    BY <2>1, <2>4 DEF ReadStep
  <2>5. CASE UNCHANGED vars
    BY <2>1, <2>5 DEF vars
  <2> QED
    BY <2>2, <2>3, <2>4, <2>5 DEF Next
<1> QED
  BY <1>1, <1>2, PTL DEF Spec

\* Whenever the packer is not at work, each number it gave stands for one
\* object in the stream, and what the stream refers to is in it, for any graph
\* of objects and any number of roots that share parts of it.
THEOREM ObjectsAreWrittenOnce == Spec => []WrittenOnce
<1>1. PackInv => WrittenOnce
  <2> SUFFICES ASSUME PackInv, doing = Null PROVE WrittenOnce
    BY DEF WrittenOnce
  <2>1. Begun = Len(num) /\ Len(num) \in Nat
    BY DEF Begun, PackInv, PackTypes
  <2>2. ASSUME NEW n \in 0 .. Len(num) - 1 PROVE Cardinality(Starts(n)) = 1
    <3>1. n \in Nat /\ n < Begun
      BY <2>1
    <3>2. PICK p : StartsIn(out, n) = {p}
      BY Zenon, <3>1 DEF PackInv
    <3>3. Starts(n) = {p}
      BY <3>2 DEF Starts, StartsIn
    <3> QED
      BY Zenon, <3>3, FS_Singleton
  <2> QED
    BY <2>2 DEF WrittenOnce, PackInv
<1> QED
  BY <1>1, PackerInvariance, PTL

----------------------------------------------------------------------------
(* The objects the unpacker makes                                          *)

\* An object that is begun and not yet in the unpacker's map is the last one
\* made, and its call is about to begin a layer.
LastOK ==
  last # Null =>
    /\ calls # <<>> /\ made # <<>>
    /\ Frame.id = Len(made) /\ made[Len(made)].num = last /\ made[Len(made)].cls \in Class
    /\ Frame.l \in Nat /\ Frame.todo = {} /\ Frame.arr = Null

\* A list of objects that were made.
MadeSeq(s) ==
  IsSeq(s) /\ \A i \in DOMAIN s : s[i] = [cls |-> s[i].cls, num |-> s[i].num, got |-> s[i].got]

MadeOK ==
  /\ MadeSeq(made) /\ IsSeq(calls)
  /\ DOMAIN objects \subseteq Nat
  /\ mode # "read" => made = <<>> /\ calls = <<>> /\ last = Null
  /\ \A i \in DOMAIN made :
       /\ made[i].num \in DOMAIN objects
       /\ objects[made[i].num].t = "made" \/ (last # Null /\ i = Len(made))

TwinInv == LastOK /\ MadeOK /\ OneTwinEach

\* process() goes through the stream from its beginning.
PosOK == pos \in Nat \ {0}

\* The last call under way.
LEMMA LastIs ==
  ASSUME NEW s, IsSeq(s), s # <<>>
  PROVE  Last(s) = s[Len(s)] /\ Len(s) \in DOMAIN s /\ Len(s) \in Nat \ {0}
<1>1. s \in Seq(Range(s)) /\ Len(s) \in Nat /\ DOMAIN s = 1 .. Len(s)
  BY SeqPlaces DEF IsSeq
<1>2. Len(s) # 0
  BY <1>1
<1> QED
  BY <1>1, <1>2 DEF Last

\* No number is made twice as long as what is made keeps its numbers.
LEMMA SameTwins ==
  ASSUME OneTwinEach, DOMAIN made' = DOMAIN made, \A i \in DOMAIN made : made'[i].num = made[i].num
  PROVE  OneTwinEach'
BY DEF OneTwinEach

\* The objects s, and g is what the fields of one of them got.
Filled(s, id, g) == [s EXCEPT ![id].got = g]

\* An object has another field.
LEMMA GotMore ==
  ASSUME NEW s, MadeSeq(s), NEW id, NEW g, NEW t, t = Filled(s, id, g)
  PROVE  /\ MadeSeq(t) /\ DOMAIN t = DOMAIN s
         /\ \A i \in DOMAIN s : t[i].num = s[i].num /\ t[i].cls = s[i].cls
<1>1. DOMAIN t = DOMAIN s /\ t = [i \in DOMAIN s |-> t[i]]
  BY Zenon DEF Filled
<1>2. ASSUME NEW i \in DOMAIN s
      PROVE  /\ t[i] = [cls |-> t[i].cls, num |-> t[i].num, got |-> t[i].got]
             /\ t[i].num = s[i].num /\ t[i].cls = s[i].cls
  <2>1. s[i] = [cls |-> s[i].cls, num |-> s[i].num, got |-> s[i].got]
    BY DEF MadeSeq
  <2>2. CASE i = id
    <3>1. t[i] = [s[i] EXCEPT !.got = g]
      BY <2>2 DEF Filled
    <3> DEFINE a == s[i].cls
               b == s[i].num
               d == s[i].got
    <3>2. s[i] = [cls |-> a, num |-> b, got |-> d]
      BY <2>1
    <3> HIDE DEF a, b, d
    <3>3. t[i] = [cls |-> a, num |-> b, got |-> g]
      BY <3>1, <3>2
    <3>4. t[i].cls = a /\ t[i].num = b /\ t[i].got = g
      BY <3>3
    <3>5. t[i].num = s[i].num /\ t[i].cls = s[i].cls
      BY <3>4 DEF a, b
    <3> QED
      BY <3>3, <3>4, <3>5
  <2>3. CASE i # id
    <3>1. t[i] = s[i]
      BY <2>3 DEF Filled
    <3> QED
      BY <2>1, <3>1
  <2> QED
    BY <2>2, <2>3
<1>3. IsSeq(t)
  BY <1>1, SeqReplaced DEF MadeSeq
<1> QED
  BY Zenon, <1>1, <1>2, <1>3 DEF MadeSeq

\* What a call returns changes no number, and goes to a call that was under way.
LEMMA DeliverKeeps ==
  ASSUME MadeSeq(made), NEW cs, IsSeq(cs), NEW k, NEW r, Deliver(cs, k, r)
  PROVE  /\ MadeSeq(made') /\ DOMAIN made' = DOMAIN made
         /\ \A i \in DOMAIN made : made'[i].num = made[i].num /\ made'[i].cls = made[i].cls
         /\ IsSeq(calls')
<1> DEFINE f == Last(cs)
<1>1. CASE cs = <<>>
  BY <1>1 DEF Deliver
<1>2. CASE cs # <<>>
  <2>1. Len(cs) \in Nat /\ DOMAIN cs = 1 .. Len(cs)
    BY SeqPlaces
  <2>2. CASE f.arr = Null
    <3> DEFINE g == Under(made[f.id].got, <<f.l, k>>, r)
               t == cs[Len(cs)].todo \ {k}
    <3>1. made' = [made EXCEPT ![f.id].got = g] /\ calls' = [cs EXCEPT ![Len(cs)].todo = t]
      BY <1>2, <2>2 DEF Deliver
    <3> DEFINE id == f.id
    <3>2. made' = Filled(made, id, g)
      BY <3>1 DEF Filled
    <3> HIDE DEF g, t, f, id
    <3>3. /\ MadeSeq(made') /\ DOMAIN made' = DOMAIN made
          /\ \A i \in DOMAIN made : made'[i].num = made[i].num /\ made'[i].cls = made[i].cls
      BY <3>2, GotMore
    <3>4. DOMAIN calls' = DOMAIN cs /\ calls' = [i \in DOMAIN cs |-> calls'[i]]
      BY Zenon, <3>1
    <3> QED
      BY <3>3, <3>4, SeqReplaced
  <2>3. CASE f.arr # Null
    <3> DEFINE t == Append(cs[Len(cs)].arr.items, r)
    <3>1. made' = made /\ calls' = [cs EXCEPT ![Len(cs)].arr.items = t]
      BY <1>2, <2>3 DEF Deliver
    <3> HIDE DEF t, f
    <3>2. DOMAIN calls' = DOMAIN cs /\ calls' = [i \in DOMAIN cs |-> calls'[i]]
      BY Zenon, <3>1
    <3> QED
      BY <3>1, <3>2, SeqReplaced
  <2> QED
    BY <2>2, <2>3
<1> QED
  BY <1>1, <1>2

\* While no object waits to be put into the map, nothing of a call matters.
LEMMA QuietStep ==
  ASSUME TwinInv, mode = "read", mode' = "read", last = Null, last' = Null, objects' = objects,
         MadeSeq(made'), IsSeq(calls'), DOMAIN made' = DOMAIN made,
         \A i \in DOMAIN made : made'[i].num = made[i].num
  PROVE  TwinInv'
<1>1. LastOK'
  BY DEF LastOK
<1>2. MadeOK'
  BY DEF TwinInv, MadeOK
<1>3. OneTwinEach'
  BY SameTwins DEF TwinInv
<1> QED
  BY <1>1, <1>2, <1>3 DEF TwinInv

\* An object is put into the map in place of its properties.
LEMMA MetStep ==
  ASSUME TwinInv, mode = "read", mode' = "read", last # Null, last' = Null,
         objects' = Met(last, Frame.id),
         MadeSeq(made'), IsSeq(calls'), DOMAIN made' = DOMAIN made,
         \A i \in DOMAIN made : made'[i].num = made[i].num
  PROVE  TwinInv'
<1>1. LastOK'
  BY DEF LastOK
<1>2. /\ DOMAIN objects' = DOMAIN objects
      /\ last \in DOMAIN objects => objects'[last].t = "made"
      /\ \A n \in DOMAIN objects : n # last => objects'[n] = objects[n]
  BY DEF Met
<1>3. made # <<>> /\ made[Len(made)].num = last
  BY DEF TwinInv, LastOK
<1>4. ASSUME NEW i \in DOMAIN made
      PROVE  made[i].num \in DOMAIN objects' /\ objects'[made[i].num].t = "made"
  <2>1. made[i].num \in DOMAIN objects /\ (objects[made[i].num].t = "made" \/ i = Len(made))
    BY DEF TwinInv, MadeOK
  <2> QED
    BY <1>2, <1>3, <2>1
<1>5. MadeOK'
  <2>1. \A i \in DOMAIN made' : /\ made'[i].num \in DOMAIN objects'
                                /\ objects'[made'[i].num].t = "made"
    BY <1>4
  <2>2. DOMAIN objects' \subseteq Nat
    BY <1>2 DEF TwinInv, MadeOK
  <2> QED
    BY <2>1, <2>2 DEF MadeOK
<1>6. OneTwinEach'
  BY SameTwins DEF TwinInv
<1> QED
  BY <1>1, <1>5, <1>6 DEF TwinInv

\* As long as an object waits, its call neither asks for anything nor reads a list.
LEMMA WaitingAsksNothing ==
  ASSUME TwinInv, last # Null
  PROVE  Wanted = {} /\ calls # <<>> /\ Frame.arr = Null
BY DEF TwinInv, LastOK, Wanted

\* An object is begun: it was not made before.
LEMMA ReadNewTwin ==
  ASSUME TwinInv, mode = "read", mode' = "read", NEW k \in Wanted, ReadNew(k)
  PROVE  TwinInv'
<1>1. last = Null
  BY WaitingAsksNothing
<1>2. MadeSeq(made) /\ IsSeq(calls)
  BY DEF TwinInv, MadeOK
<1>3. CASE ~Known(k, "map")
  BY <1>1, <1>2, <1>3, QuietStep DEF ReadNew, reader
<1>4. CASE Known(k, "map")
  <2> DEFINE n == Entry(k).v
             map == objects[n].v
             c == box[map].cls
             x == [cls |-> c, num |-> n, got |-> Empty]
             y == [key |-> k, id |-> Len(made) + 1, map |-> map,
                   l |-> 0, todo |-> {}, arr |-> Null]
  <2>1. n \in DOMAIN objects /\ objects[n].t = "map" /\ n \in Nat
    BY <1>4 DEF Known, TwinInv, MadeOK
  <2>2. CASE c \notin Registered
    <3>1. Deliver(calls, k, Null) /\ last' = last /\ objects' = objects
      BY <1>4, <2>2 DEF ReadNew
    <3> QED
      BY <1>1, <1>2, <3>1, DeliverKeeps, QuietStep
  <2>3. CASE c \in Registered
    <3>1. /\ last' = n /\ made' = Append(made, x) /\ calls' = Append(calls, y) /\ objects' = objects
      BY <1>4, <2>3 DEF ReadNew
    <3>2. c \in Class
      BY <2>3, MmUnpackAssumption
    <3>3. x.num = n /\ x.cls = c /\ y.id = Len(made) + 1 /\ y.l = 0 /\ y.todo = {} /\ y.arr = Null
          /\ x = [cls |-> x.cls, num |-> x.num, got |-> x.got]
      OBVIOUS
    <3> HIDE DEF x, y, n, map, c
    <3>4. /\ IsSeq(made') /\ Len(made') = Len(made) + 1 /\ made'[Len(made) + 1] = x
          /\ \A i \in 1 .. Len(made) : made'[i] = made[i]
      BY <1>2, <3>1, SeqAppend DEF MadeSeq
    <3>5. IsSeq(calls') /\ Len(calls') = Len(calls) + 1 /\ calls'[Len(calls) + 1] = y
      BY <1>2, <3>1, SeqAppend
    <3>6. /\ Len(made) \in Nat /\ DOMAIN made = 1 .. Len(made)
          /\ DOMAIN made' = 1 .. Len(made) + 1 /\ Len(calls) \in Nat
      BY <1>2, <3>4, SeqPlaces DEF MadeSeq
    <3>7. made' # <<>> /\ calls' # <<>>
      BY <3>4, <3>5, <3>6
    <3>8. Last(calls') = y
      BY <3>5, <3>7, LastIs
    <3>9. LastOK'
      BY <3>1, <3>2, <3>3, <3>4, <3>7, <3>8 DEF LastOK, Frame
    <3>10. last' # Null
      BY <2>1, <3>1, MmPackAssumption
    <3>11. ASSUME NEW i \in DOMAIN made
           PROVE  made[i].num \in DOMAIN objects /\ objects[made[i].num].t = "made" /\ made[i].num # n
      BY <1>1, <2>1 DEF TwinInv, MadeOK
    <3>12. \A i \in DOMAIN made' : i \in DOMAIN made \/ i = Len(made')
      BY <3>4, <3>6
    <3>13. MadeOK'
      <4>1. \A i \in DOMAIN made' :
              /\ made'[i].num \in DOMAIN objects
              /\ objects[made'[i].num].t = "made" \/ i = Len(made')
        BY <2>1, <3>3, <3>4, <3>6, <3>11, <3>12
      <4>2. MadeSeq(made')
        BY <1>2, <3>3, <3>4, <3>6, <3>12 DEF MadeSeq
      <4> QED
        BY <3>1, <3>4, <3>5, <3>10, <4>1, <4>2 DEF MadeOK, TwinInv
    <3>14. OneTwinEach'
      BY <3>3, <3>4, <3>6, <3>11, <3>12 DEF OneTwinEach, TwinInv
    <3> QED
      BY <3>9, <3>13, <3>14 DEF TwinInv
  <2> QED
    BY <2>2, <2>3
<1> QED
  BY <1>3, <1>4

\* A layer of an object begins.
LEMMA NextLayerTwin ==
  ASSUME TwinInv, mode = "read", mode' = "read", NextLayer
  PROVE  TwinInv'
<1> DEFINE c == made[Frame.id].cls
           layer == LayersOf(Frame)[Frame.l + 1]
           t == {x.k : x \in Range(layer.fields)}
           n == Len(calls)
<1>1. /\ calls # <<>> /\ Frame.todo = {} /\ Frame.arr = Null
      /\ made' = made /\ Frame.l < Len(LayersOf(Frame))
      /\ calls' = [calls EXCEPT ![n].l = @ + 1, ![n].todo = t]
  BY DEF NextLayer, LayerDone
<1>2. MadeSeq(made) /\ IsSeq(calls)
  BY DEF TwinInv, MadeOK
<1>3. n \in Nat \ {0} /\ n \in DOMAIN calls /\ Frame = calls[n]
  BY <1>1, <1>2, LastIs DEF Frame
<1>4. DOMAIN calls' = DOMAIN calls /\ calls' = [i \in DOMAIN calls |-> calls'[i]]
  <2> HIDE DEF t
  <2> QED
    BY Zenon, <1>1
<1>5. IsSeq(calls') /\ Len(calls') = n
  BY <1>2, <1>4, SeqReplaced
<1>6. CASE last = Null
  <2>1. last' = Null /\ objects' = objects
    BY <1>6 DEF NextLayer
  <2> QED
    BY <1>1, <1>2, <1>5, <1>6, <2>1, QuietStep
<1>7. CASE last # Null /\ layer.init
  <2>1. last' = Null /\ objects' = Met(last, Frame.id)
    BY <1>7 DEF NextLayer
  <2> QED
    BY <1>1, <1>2, <1>5, <1>7, <2>1, MetStep
<1>8. CASE last # Null /\ ~layer.init
  <2>1. last' = last /\ objects' = objects
    BY <1>8 DEF NextLayer
  <2>2. /\ made # <<>> /\ Frame.id = Len(made) /\ made[Len(made)].num = last
        /\ made[Len(made)].cls \in Class /\ Frame.l \in Nat
    BY <1>8 DEF TwinInv, LastOK
  <2>3. t = {}
    <3>1. c \in Class /\ Layers[c] \in Seq(Layer) /\ Frame.l + 1 \in DOMAIN Layers[c]
          /\ layer = Layers[c][Frame.l + 1]
      <4>1. c \in Class
        BY <2>2
      <4>2. Layers[c] \in Seq(Layer)
        BY <4>1, MmPackAssumption
      <4>3. LayersOf(Frame) = Layers[c]
        BY DEF LayersOf
      <4> QED
        BY <1>1, <2>2, <4>1, <4>2, <4>3
    <3> HIDE DEF c, layer
    <3>2. layer.fields = <<>>
      BY <1>8, <3>1, MmUnpackAssumption
    <3> QED
      BY <3>2 DEF Range
  <2> HIDE DEF t, layer, c
  <2>4. calls'[n].l = calls[n].l + 1 /\ calls'[n].todo = t
        /\ calls'[n].id = calls[n].id /\ calls'[n].arr = calls[n].arr
    <3>1. calls'[n] = [[calls[n] EXCEPT !.l = @ + 1] EXCEPT !.todo = t]
      BY <1>1, <1>3
    <3> QED
      BY <3>1
  <2>5. calls' # <<>> /\ Last(calls') = calls'[n]
    <3>1. calls' # <<>>
      BY <1>3, <1>5
    <3> QED
      BY <1>5, <3>1, LastIs
  <2>6. LastOK'
    <3>1. /\ Frame' = calls'[n]
          /\ Frame'.id = Frame.id /\ Frame'.l = Frame.l + 1 /\ Frame'.todo = {} /\ Frame'.arr = Null
      BY Zenon, <1>1, <1>3, <2>3, <2>4, <2>5 DEF Frame
    <3>2. Frame'.l \in Nat
      BY <2>2, <3>1
    <3>3. Frame'.id = Len(made') /\ made'[Len(made')].num = last'
          /\ made'[Len(made')].cls \in Class /\ made' # <<>>
      BY <1>1, <2>1, <2>2, <3>1
    <3> QED
      BY <2>5, <3>1, <3>2, <3>3 DEF LastOK
  <2>7. MadeOK'
    BY <1>1, <1>5, <2>1 DEF TwinInv, MadeOK
  <2>8. OneTwinEach'
    BY <1>1 DEF OneTwinEach, TwinInv
  <2> QED
    BY <2>6, <2>7, <2>8 DEF TwinInv
<1> QED
  BY <1>6, <1>7, <1>8

\* All other calls of the program and of its initialisers.
LEMMA ReadTwin ==
  ASSUME TwinInv, ReadStep
  PROVE  TwinInv'
<1>1. mode = "read" /\ mode' = "read"
  BY Zenon DEF ReadStep, ReadLeaf, ReadNothing, ReadKnown, ReadNew, ReadArray, ReadArrayEnd, NextLayer,
         Finish, LayerDone, Asks, Reading
<1>2. MadeSeq(made) /\ IsSeq(calls)
  BY DEF TwinInv, MadeOK
<1>3. ASSUME NEW k \in Wanted, NEW t \in Leaves, ReadLeaf(k, t) PROVE TwinInv'
  BY <1>1, <1>2, <1>3, WaitingAsksNothing, DeliverKeeps, QuietStep DEF ReadLeaf
<1>4. ASSUME NEW k \in Wanted, ReadNothing(k) PROVE TwinInv'
  BY <1>1, <1>2, <1>4, WaitingAsksNothing, DeliverKeeps, QuietStep DEF ReadNothing
<1>5. ASSUME NEW k \in Wanted, ReadKnown(k) PROVE TwinInv'
  <2>1. last = Null /\ last' = last /\ objects' = objects
    BY <1>5, WaitingAsksNothing DEF ReadKnown
  <2>2. (made' = made /\ calls' = calls) \/ Deliver(calls, k, objects[Entry(k).v].v)
    BY <1>5 DEF ReadKnown
  <2> QED
    BY <1>1, <1>2, <2>1, <2>2, DeliverKeeps, QuietStep
<1>6. ASSUME NEW k \in Wanted, ReadNew(k) PROVE TwinInv'
  BY <1>1, <1>6, ReadNewTwin
<1>7. ASSUME NEW k \in Wanted, ReadArray(k) PROVE TwinInv'
  <2>1. last = Null /\ last' = last /\ objects' = objects /\ made' = made
    BY <1>7, WaitingAsksNothing DEF ReadArray
  <2> DEFINE a == [key |-> k, n |-> IF Entry(k).t = "array"
                                     THEN Cardinality(DOMAIN box[Entry(k).v].at) ELSE 0,
                   items |-> <<>>]
  <2>2. calls' = [calls EXCEPT ![Len(calls)].arr = a]
    BY <1>7 DEF ReadArray
  <2> HIDE DEF a
  <2>3. IsSeq(calls')
    <3>1. DOMAIN calls' = DOMAIN calls /\ calls' = [i \in DOMAIN calls |-> calls'[i]]
      BY Zenon, <2>2
    <3> QED
      BY <1>2, <3>1, SeqReplaced
  <2> QED
    BY <1>1, <1>2, <2>1, <2>3, QuietStep
<1>8. ASSUME ReadArrayEnd PROVE TwinInv'
  <2>1. last = Null /\ last' = last /\ objects' = objects
    BY <1>8, WaitingAsksNothing DEF ReadArrayEnd
  <2> DEFINE g == Under(made[Frame.id].got, <<Frame.l, Frame.arr.key>>, Frame.arr.items)
             n == Len(calls)
             t == calls[n].todo \ {Frame.arr.key}
  <2>2. made' = [made EXCEPT ![Frame.id].got = g]
        /\ calls' = [calls EXCEPT ![n].arr = Null, ![n].todo = t]
    BY <1>8 DEF ReadArrayEnd
  <2> HIDE DEF g, t
  <2>3. /\ MadeSeq(made') /\ DOMAIN made' = DOMAIN made
        /\ \A i \in DOMAIN made : made'[i].num = made[i].num
    <3> DEFINE id == Frame.id
    <3>1. made' = Filled(made, id, g)
      BY <2>2 DEF Filled
    <3> HIDE DEF id
    <3> QED
      BY <1>2, <3>1, GotMore
  <2>4. DOMAIN calls' = DOMAIN calls /\ calls' = [i \in DOMAIN calls |-> calls'[i]]
    BY Zenon, <2>2
  <2>5. IsSeq(calls')
    BY <1>2, <2>4, SeqReplaced
  <2> QED
    BY <1>1, <2>1, <2>3, <2>5, QuietStep
<1>9. ASSUME NextLayer PROVE TwinInv'
  BY <1>1, <1>9, NextLayerTwin
<1>10. ASSUME Finish PROVE TwinInv'
  <2>1. last' = Null /\ Deliver(Front(calls), Frame.key, Frame.id) /\ calls # <<>>
        /\ objects' = IF last = Null THEN objects ELSE Met(last, Frame.id)
    BY <1>10 DEF Finish, LayerDone
  <2>2. IsSeq(Front(calls))
    BY <1>2, <2>1, SeqFront
  <2>3. /\ MadeSeq(made') /\ DOMAIN made' = DOMAIN made
        /\ \A i \in DOMAIN made : made'[i].num = made[i].num
        /\ IsSeq(calls')
    BY <1>2, <2>1, <2>2, DeliverKeeps
  <2>4. CASE last = Null
    BY <1>1, <2>1, <2>3, <2>4, QuietStep
  <2>5. CASE last # Null
    BY <1>1, <2>1, <2>3, <2>5, MetStep
  <2> QED
    BY <2>4, <2>5
<1> QED
  BY <1>3, <1>4, <1>5, <1>6, <1>7, <1>8, <1>9, <1>10 DEF ReadStep

\* The stream is parsed: objects get their properties under their numbers.
LEMMA ParseTwin ==
  ASSUME TwinInv, PackInv, PosOK, Parse
  PROVE  TwinInv'
<1>1. made' = made /\ calls' = calls /\ last' = last /\ mode # "read"
  BY Zenon DEF Parse, ParseStart, ParseToken, ParseEnd, reader, ParseValue, ParseArray, ParseObject,
         ParseContext, ParseName, ParseVersion, At
<1>2. made = <<>> /\ calls = <<>> /\ last = Null
  BY <1>1 DEF TwinInv, MadeOK
<1>3. DOMAIN objects' \subseteq Nat
  <2>1. CASE ParseToken /\ ParseObject
    <3>1. out[pos] \in Token
      <4>1. pos <= Len(out) /\ out \in Seq(Token)
        BY <2>1 DEF ParseObject, At, PackInv, PackTypes
      <4>2. pos \in Nat \ {0}
        BY DEF PosOK
      <4> QED
        BY <4>1, <4>2
    <3>2. Key \in Nat
      BY <3>1 DEF Key, Token
    <3> DEFINE e == [t |-> "map", v |-> Len(box) + 1]
               n == Key
    <3>3. objects' = objects \/ objects' = Under(objects, n, e)
      BY <2>1 DEF ParseObject, Refuse
    <3> HIDE DEF e, n
    <3>4. DOMAIN objects' \subseteq DOMAIN objects \cup {n}
      BY <3>3 DEF Under
    <3>5. n \in Nat
      BY <3>2 DEF n
    <3> QED
      BY <3>4, <3>5 DEF TwinInv, MadeOK
  <2>2. CASE ~(ParseToken /\ ParseObject)
    <3>1. objects' = objects
      BY <2>2 DEF Parse, ParseStart, ParseToken, ParseEnd, ParseValue, ParseArray,
                  ParseContext, ParseName, ParseVersion, Refuse
    <3> QED
      BY <3>1 DEF TwinInv, MadeOK
  <2> QED
    BY <2>1, <2>2
<1>4. MadeSeq(made) /\ IsSeq(calls)
  BY DEF TwinInv, MadeOK
<1>5. DOMAIN made = {}
  BY <1>2
<1>6. MadeOK'
  BY <1>1, <1>2, <1>3, <1>4, <1>5 DEF MadeOK
<1>7. LastOK' /\ OneTwinEach'
  BY <1>1, <1>2, <1>5 DEF LastOK, OneTwinEach
<1> QED
  BY <1>6, <1>7 DEF TwinInv

\* What the objects made and the calls under way say of each other stays true.
THEOREM TwinInvariance == Spec => []TwinInv
<1>1. Init => TwinInv
  <2> SUFFICES ASSUME Init PROVE TwinInv
    OBVIOUS
  <2>1. made = <<>> /\ calls = <<>> /\ last = Null /\ objects = Empty /\ DOMAIN objects = {}
    BY DEF Init, UnpackInit, Empty
  <2>2. IsSeq(<<>>) /\ MadeSeq(made) /\ DOMAIN made = {}
    BY <2>1 DEF IsSeq, MadeSeq
  <2> QED
    BY <2>1, <2>2 DEF TwinInv, LastOK, MadeOK, OneTwinEach
<1>2. PackInv /\ PosOK /\ TwinInv /\ [Next]_vars => TwinInv'
  <2> SUFFICES ASSUME PackInv, PosOK, TwinInv, [Next]_vars PROVE TwinInv'
    OBVIOUS
  <2>1. CASE UNCHANGED <<mode, objects, reader>>
    BY <2>1 DEF TwinInv, LastOK, MadeOK, OneTwinEach, Frame, reader
  <2>2. CASE Packs
    BY <2>1, <2>2 DEF Packs
  <2>3. CASE Parse
    BY <2>3, ParseTwin
  <2>4. CASE ReadStep
    BY <2>4, ReadTwin
  <2>5. CASE UNCHANGED vars
    BY <2>1, <2>5 DEF vars
  <2> QED
    BY <2>2, <2>3, <2>4, <2>5 DEF Next
<1>4. Init => PosOK
  BY DEF Init, UnpackInit, PosOK
<1>5. PosOK /\ [Next]_vars => PosOK'
  <2> SUFFICES ASSUME PosOK, [Next]_vars PROVE PosOK'
    OBVIOUS
  <2>1. pos' = pos \/ pos' = pos + 1
    BY DEF Next, Packs, Parse, ParseStart, ParseToken, ParseEnd, ReadStep, parser, vars
  <2> QED
    BY <2>1 DEF PosOK
<1> QED
  BY <1>1, <1>2, <1>4, <1>5, PackerInvariance, PTL DEF Spec

\* An object that was packed once is made once, whoever meets it first and from
\* wherever in a cycle, for any graph, any classes and any depth of calls.
THEOREM TwinsAreUnique == Spec => []OneTwinEach
<1>1. TwinInv => OneTwinEach
  BY DEF TwinInv
<1> QED
  BY <1>1, TwinInvariance, PTL

----------------------------------------------------------------------------
(* Sequences of sequences                                                  *)

\* f has the first i sequences one after the other, for each i.
Partial(S, seqs, f) ==
  /\ f[0] = <<>> /\ FlattenSeq(seqs) = f[Len(seqs)]
  /\ \A i \in 0 .. Len(seqs) : f[i] \in Seq(S)
  /\ \A i \in 1 .. Len(seqs) : f[i] = f[i - 1] \o seqs[i]

\* All sequences of a sequence, one after the other, come about one by one.
LEMMA FlattenSteps ==
  ASSUME NEW S, NEW seqs \in Seq(Seq(S))
  PROVE  \E f : Partial(S, seqs, f)
<1> DEFINE n == Len(seqs)
           F(g) == g = [i \in 1 .. n |-> IF i = 1 THEN seqs[i] ELSE g[i - 1] \o seqs[i]]
           X == Seq(S)
           step == [k \in Nat |-> [h \in X |-> IF k + 1 \in 1 .. n THEN h \o seqs[k + 1] ELSE h]]
<1>1. n \in Nat /\ DOMAIN seqs = 1 .. n /\ \A i \in 1 .. n : seqs[i] \in Seq(S)
  OBVIOUS
<1>2. step \in [Nat -> [X -> X]]
  <2>1. ASSUME NEW k \in Nat, NEW h \in X
        PROVE  (IF k + 1 \in 1 .. n THEN h \o seqs[k + 1] ELSE h) \in X
    BY <1>1
  <2> QED
    BY <2>1
<1>3. <<>> \in X
  OBVIOUS
<1>4. Nats!ResultsByStep(X, <<>>, step) # {}
  <2> DEFINE e == <<>>
  <2>1. e \in X
    BY <1>3
  <2> HIDE DEF X, step, e
  <2>2. Nats!ResultsByStep(X, e, step) # {}
    BY Zenon, <1>2, <2>1, NatsAssumptions, Nats!Recurrence
  <2> QED
    BY <2>2 DEF e
<1>5. PICK r \in [Nat -> X] : r[0] = <<>> /\ \A k \in Nat : r[k + 1] = step[k][r[k]]
  BY Zenon, <1>4 DEF Nats!ResultsByStep
<1>6. ASSUME NEW i \in 1 .. n PROVE r[i] = r[i - 1] \o seqs[i]
  <2>1. i - 1 \in Nat /\ (i - 1) + 1 = i /\ i \in 1 .. n
    BY <1>1
  <2>2. r[(i - 1) + 1] = step[i - 1][r[i - 1]] /\ r[i - 1] \in X
    BY Zenon, <1>5, <2>1
  <2>3. step[i - 1][r[i - 1]] = r[i - 1] \o seqs[i]
    BY Zenon, <2>1, <2>2
  <2> QED
    BY Zenon, <2>1, <2>2, <2>3
<1>7. \A i \in 0 .. n : r[i] \in Seq(S)
  BY <1>1, <1>5
<1>8. FlattenSeq(seqs) = r[n]
  <2>1. CASE n = 0
    <3>1. FlattenSeq(seqs) = <<>>
      BY <1>1, <2>1 DEF FlattenSeq
    <3> QED
      BY <1>5, <2>1, <3>1
  <2>2. CASE n # 0
    <3>1. 1 \in 1 .. n /\ n \in 1 .. n
      BY <1>1, <2>2
    <3> DEFINE h == [i \in 1 .. n |-> r[i]]
    <3>2. ASSUME NEW i \in 1 .. n, i # 1 PROVE h[i] = h[i - 1] \o seqs[i]
      <4>1. i - 1 \in 1 .. n
        BY <1>1, <3>2
      <4> QED
        BY Zenon, <1>6, <4>1
    <3>3. h[1] = seqs[1]
      <4>1. r[1] = <<>> \o seqs[1] /\ seqs[1] \in Seq(S)
        <5>1. 1 - 1 = 0
          OBVIOUS
        <5> QED
          BY ZenonT(60), <1>1, <1>5, <1>6, <3>1, <5>1
      <4>2. <<>> \o seqs[1] = seqs[1]
        BY <4>1
      <4> QED
        BY <3>1, <4>1, <4>2
    <3>4. F(h)
      <4>1. \A i \in 1 .. n : h[i] = IF i = 1 THEN seqs[i] ELSE h[i - 1] \o seqs[i]
        BY Zenon, <3>2, <3>3
      <4>2. h = [i \in 1 .. n |-> h[i]]
        OBVIOUS
      <4> HIDE DEF h
      <4> QED
        BY Zenon, <4>1, <4>2
    <3> DEFINE f == CHOOSE g : F(g)
    <3>5. F(f)
      <4> HIDE DEF F, h
      <4> QED
        BY <3>4
    <3>6. FlattenSeq(seqs) = f[n]
      BY <2>2 DEF FlattenSeq
    <3> DEFINE T == {i \in Nat : i \in 1 .. n => f[i] = r[i]}
    <3>7. f[1] = seqs[1] /\ \A i \in 1 .. n : i # 1 => f[i] = f[i - 1] \o seqs[i]
      <4> HIDE DEF f
      <4> QED
        BY Zenon, <3>1, <3>5
    <3> HIDE DEF f, F
    <3>8. 0 \in T
      BY <1>1
    <3>9. ASSUME NEW i \in Nat, i \in T PROVE i + 1 \in T
      <4>1. CASE i + 1 = 1
        BY Zenon, <3>1, <3>3, <3>7, <4>1
      <4>2. CASE i + 1 # 1 /\ i + 1 \in 1 .. n
        <5>1. i \in 1 .. n /\ (i + 1) - 1 = i
          BY <1>1, <4>2
        <5>2. f[i + 1] = f[i] \o seqs[i + 1] /\ r[i + 1] = r[i] \o seqs[i + 1] /\ f[i] = r[i]
          BY Zenon, <1>6, <3>7, <3>9, <4>2, <5>1
        <5>3. f[i + 1] = r[i + 1]
          BY <5>2, Zenon
        <5> QED
          BY <5>3
      <4> QED
        BY <4>1, <4>2
    <3>10. Nat \subseteq T
      <4> HIDE DEF T
      <4> QED
        BY Zenon, <3>8, <3>9, NatsAssumptions, Nats!InductionOnSet
    <3> QED
      BY <1>1, <3>1, <3>6, <3>10
  <2> QED
    BY <2>1, <2>2
<1> QED
  BY Zenon, <1>5, <1>6, <1>7, <1>8 DEF Partial

\* One sequence more.
LEMMA FlattenMore ==
  ASSUME NEW S, NEW seqs \in Seq(Seq(S)), NEW x \in Seq(S)
  PROVE  /\ FlattenSeq(Append(seqs, x)) = FlattenSeq(seqs) \o x
         /\ FlattenSeq(seqs) \in Seq(S)
<1> DEFINE n == Len(seqs)
           more == Append(seqs, x)
<1>1. n \in Nat /\ Len(more) = n + 1 /\ more[n + 1] = x /\ more \in Seq(Seq(S))
      /\ \A i \in 1 .. n : more[i] = seqs[i]
  OBVIOUS
<1>2. PICK f : /\ f[0] = <<>> /\ FlattenSeq(seqs) = f[n]
               /\ \A i \in 0 .. n : f[i] \in Seq(S)
               /\ \A i \in 1 .. n : f[i] = f[i - 1] \o seqs[i]
  BY Zenon, FlattenSteps DEF Partial
<1> HIDE DEF more
<1>3. PICK g : /\ g[0] = <<>> /\ FlattenSeq(more) = g[n + 1]
               /\ \A i \in 1 .. n + 1 : g[i] = g[i - 1] \o more[i]
  <2> DEFINE m == n + 1
  <2>1. Len(more) = m
    BY <1>1
  <2> HIDE DEF m
  <2>2. \E g : /\ g[0] = <<>> /\ FlattenSeq(more) = g[m]
               /\ \A i \in 1 .. m : g[i] = g[i - 1] \o more[i]
    <3>1. \E g : /\ g[0] = <<>> /\ FlattenSeq(more) = g[Len(more)]
                 /\ \A i \in 0 .. Len(more) : g[i] \in Seq(S)
                 /\ \A i \in 1 .. Len(more) : g[i] = g[i - 1] \o more[i]
      BY Zenon, <1>1, FlattenSteps DEF Partial
    <3> QED
      BY Zenon, <2>1, <3>1
  <2> QED
    BY Zenon, <2>2 DEF m
<1> DEFINE T == {i \in Nat : i \in 0 .. n => g[i] = f[i]}
<1>4. 0 \in T
  BY <1>2, <1>3
<1>5. ASSUME NEW i \in Nat, i \in T PROVE i + 1 \in T
  <2>1. CASE i + 1 \in 0 .. n
    <3>1. i \in 0 .. n /\ i + 1 \in 1 .. n /\ i + 1 \in 1 .. n + 1 /\ (i + 1) - 1 = i
      BY <1>1, <2>1
    <3>2. g[i + 1] = g[i] \o more[i + 1] /\ f[i + 1] = f[i] \o seqs[i + 1] /\ g[i] = f[i]
      BY Zenon, <1>2, <1>3, <1>5, <3>1
    <3>3. more[i + 1] = seqs[i + 1]
      BY <1>1, <3>1
    <3>4. g[i + 1] = f[i + 1]
      BY <3>2, <3>3, Zenon
    <3> QED
      BY <3>4
  <2> QED
    BY <2>1
<1>6. Nat \subseteq T
  <2> HIDE DEF T
  <2> QED
    BY Zenon, <1>4, <1>5, NatsAssumptions, Nats!InductionOnSet
<1>7. g[n] = f[n] /\ g[n + 1] = g[n] \o more[n + 1]
  <2>1. n \in T /\ n \in 0 .. n /\ n + 1 \in 1 .. n + 1 /\ (n + 1) - 1 = n
    BY <1>1, <1>6
  <2> QED
    BY Zenon, <1>3, <2>1
<1>8. f[n] \in Seq(S)
  BY <1>1, <1>2
<1> QED
  BY <1>1, <1>2, <1>3, <1>7, <1>8 DEF more

----------------------------------------------------------------------------
(* process(), from token to token                                          *)

\* What process() works on: s is a record of current, db, box, stack, objects.
Start0 == [current |-> Null, db |-> Empty, box |-> <<NewBox("roots", Null)>>,
           stack |-> << 1 >>, objects |-> Empty]

ReadsValue(x, s, t) ==
  /\ x.t \in Leaves \cup {"ref"}
  /\ t.box = [s.box EXCEPT ![Last(s.stack)] = Put(s.box[Last(s.stack)], x.k, [t |-> x.t, v |-> x.v])]
  /\ t.current = s.current /\ t.db = s.db /\ t.stack = s.stack /\ t.objects = s.objects

ReadsArray(x, s, t) ==
  /\ x.t = "array"
  /\ IF x.v > 0
     THEN /\ t.box = Append([s.box EXCEPT ![Last(s.stack)] =
                               Put(s.box[Last(s.stack)], x.k, [t |-> "array", v |-> Len(s.box) + 1])],
                            NewBox("list", Null))
          /\ t.stack = Append(s.stack, Len(s.box) + 1)
     ELSE t.box = s.box /\ t.stack = Front(s.stack)
  /\ t.current = s.current /\ t.db = s.db /\ t.objects = s.objects

ReadsBegin(x, s, t) ==
  /\ x.t = "object" /\ s.current = Null /\ x.v \in DOMAIN s.db
  /\ t.current = [num |-> x.k, box |-> Len(s.box) + 1]
  /\ t.box = Append(s.box, NewBox("object", s.db[x.v]))
  /\ t.stack = Append(s.stack, Len(s.box) + 1)
  /\ t.objects = Under(s.objects, x.k, [t |-> "map", v |-> Len(s.box) + 1])
  /\ t.db = s.db

ReadsEnd(x, s, t) ==
  /\ x.t = "object" /\ s.current # Null /\ s.current.num = x.k
  /\ s.current.box \in Range(s.stack)
  /\ t.current = Null /\ t.stack = Front(DownTo(s.stack, s.current.box))
  /\ t.db = s.db /\ t.box = s.box /\ t.objects = s.objects

ReadsContext(x, s, t) ==
  /\ x.t = "context" /\ s.current # Null /\ x.k \in DOMAIN s.db
  /\ s.current.box \in Range(s.stack)
  /\ LET rest == DownTo(s.stack, s.current.box)
     IN  /\ t.box = Append([s.box EXCEPT ![Last(rest)].ctx = Under(s.box[Last(rest)].ctx, s.db[x.k], Len(s.box) + 1)],
                           NewBox("context", Null))
         /\ t.stack = Append(rest, Len(s.box) + 1)
  /\ t.current = s.current /\ t.db = s.db /\ t.objects = s.objects

ReadsName(x, s, t) ==
  /\ x.t = "name" /\ x.k \notin DOMAIN s.db /\ x.k \in 0 .. Cardinality(Class) - 1
  /\ t.db = Under(s.db, x.k, x.v)
  /\ t.current = s.current /\ t.box = s.box /\ t.stack = s.stack /\ t.objects = s.objects

ReadsVersion(x, s, t) ==
  /\ x.t = "function"
  /\ t.current = s.current /\ t.db = s.db /\ t.box = s.box /\ t.stack = s.stack
  /\ t.objects = s.objects

\* Token x takes process() from s to t.
Reads(x, s, t) ==
  \/ ReadsValue(x, s, t) \/ ReadsArray(x, s, t) \/ ReadsBegin(x, s, t) \/ ReadsEnd(x, s, t)
  \/ ReadsContext(x, s, t) \/ ReadsName(x, s, t) \/ ReadsVersion(x, s, t)

\* The states on the way from s to t, by tokens xs.
Way(s, xs, t, f) ==
  /\ f[0] = s /\ f[Len(xs)] = t
  /\ \A i \in 1 .. Len(xs) : Reads(xs[i], f[i - 1], f[i])

Runs(s, xs, t) == \E f : Way(s, xs, t, f)

\* No token, no step.
LEMMA RunNone ==
  ASSUME NEW s
  PROVE  Runs(s, <<>>, s)
<1> DEFINE f == [i \in 0 .. 0 |-> s]
           e == <<>>
<1>1. f[0] = s /\ Len(e) = 0 /\ 1 .. 0 = {}
  OBVIOUS
<1> HIDE DEF f, e
<1>2. Way(s, e, s, f)
  BY <1>1 DEF Way
<1> QED
  BY <1>2 DEF Runs, e

\* One token, one step.
LEMMA RunOne ==
  ASSUME NEW s, NEW t, NEW x, Reads(x, s, t)
  PROVE  Runs(s, <<x>>, t)
<1> DEFINE f == [i \in 0 .. 1 |-> IF i = 0 THEN s ELSE t]
           e == <<x>>
<1>1. f[0] = s /\ f[1] = t /\ Len(e) = 1 /\ e[1] = x
  OBVIOUS
<1> HIDE DEF f, e
<1>2. ASSUME NEW i \in 1 .. 1 PROVE Reads(e[i], f[i - 1], f[i])
  <2>1. i = 1 /\ i - 1 = 0
    OBVIOUS
  <2> QED
    BY <1>1, <2>1
<1>3. Way(s, e, t, f)
  BY <1>1, <1>2 DEF Way
<1> QED
  BY <1>3 DEF Runs, e

\* One way after the other.
LEMMA RunBoth ==
  ASSUME NEW s, NEW t, NEW u, NEW xs \in Seq(Token), NEW ys \in Seq(Token), Runs(s, xs, t), Runs(t, ys, u)
  PROVE  Runs(s, xs \o ys, u)
<1>1. PICK f : Way(s, xs, t, f)
  BY DEF Runs
<1>2. PICK g : Way(t, ys, u, g)
  BY DEF Runs
<1> DEFINE m == Len(xs)
           n == Len(ys)
           zs == xs \o ys
           h == [i \in 0 .. m + n |-> IF i <= m THEN f[i] ELSE g[i - m]]
<1>3. m \in Nat /\ n \in Nat /\ Len(zs) = m + n /\ (\A i \in 1 .. m : zs[i] = xs[i])
      /\ \A i \in 1 .. n : zs[m + i] = ys[i]
  BY ConcatIs
<1>4. f[0] = s /\ f[m] = t /\ \A i \in 1 .. m : Reads(xs[i], f[i - 1], f[i])
  BY <1>1 DEF Way
<1>5. g[0] = t /\ g[n] = u /\ \A i \in 1 .. n : Reads(ys[i], g[i - 1], g[i])
  BY <1>2 DEF Way
<1> HIDE DEF m, n, zs
<1>6. \A i \in 0 .. m + n : h[i] = IF i <= m THEN f[i] ELSE g[i - m]
  OBVIOUS
<1> HIDE DEF h
<1>7. h[0] = s
  BY <1>3, <1>4, <1>6
<1>8. \A i \in 0 .. n : h[m + i] = g[i]
  <2>1. ASSUME NEW i \in 0 .. n PROVE h[m + i] = g[i]
    <3>1. CASE i = 0
      <4>1. m + i = m /\ m \in 0 .. m + n
        BY <1>3, <3>1
      <4> QED
        BY <1>3, <1>4, <1>5, <1>6, <3>1, <4>1
    <3>2. CASE i # 0
      <4>1. m + i \in 0 .. m + n /\ ~(m + i <= m) /\ (m + i) - m = i
        BY <1>3, <3>2
      <4> QED
        BY <1>6, <4>1
    <3> QED
      BY <3>1, <3>2
  <2> QED
    BY <2>1
<1>9. h[m + n] = u
  BY <1>3, <1>5, <1>8
<1>10. ASSUME NEW i \in 1 .. m + n PROVE Reads(zs[i], h[i - 1], h[i])
  <2>1. CASE i <= m
    <3>1. i \in 1 .. m /\ i - 1 \in 0 .. m + n /\ i - 1 <= m /\ i \in 0 .. m + n
      BY <1>3, <2>1
    <3> QED
      BY <1>3, <1>4, <1>6, <2>1, <3>1
  <2>2. CASE i > m
    <3> DEFINE j == i - m
    <3>1. j \in 1 .. n /\ m + j = i /\ j \in 0 .. n /\ j - 1 \in 0 .. n /\ m + (j - 1) = i - 1
      BY <1>3, <2>2
    <3> HIDE DEF j
    <3>2. zs[i] = ys[j] /\ h[i] = g[j] /\ h[i - 1] = g[j - 1]
      BY Zenon, <1>3, <1>8, <3>1
    <3> QED
      BY <1>5, <3>1, <3>2
  <2> QED
    BY <1>3, <2>1, <2>2
<1>11. Way(s, zs, u, h)
  BY <1>3, <1>7, <1>9, <1>10 DEF Way
<1> QED
  BY <1>11 DEF Runs, zs

----------------------------------------------------------------------------
(* What is in the boxes                                                    *)

\* A reference to an object.
Stands(met, e, o) == e.t = "ref" /\ e.v \in 0 .. Len(met) - 1 /\ met[e.v + 1] = o

\* A list of references to the objects v.
ListOK(b, met, c, v) ==
  /\ c \in DOMAIN b /\ b[c].kind = "list" /\ DOMAIN b[c].at = 0 .. Len(v) - 1
  /\ \A j \in 1 .. Len(v) : Stands(met, b[c].at[j - 1], v[j])

\* What a box has under the key of field f, whose value is v.
EntryOK(b, met, at, f, v) ==
  /\ f.t = "ref" /\ v = Null => f.k \notin DOMAIN at
  /\ f.t = "ref" /\ v # Null => f.k \in DOMAIN at /\ Stands(met, at[f.k], v)
  /\ f.t = "array" => f.k \in DOMAIN at /\ at[f.k].t = "array" /\ ListOK(b, met, at[f.k].v, v)
  /\ f.t \in Leaves => f.k \in DOMAIN at /\ at[f.k] = [t |-> f.t, v |-> v]

\* The context of a layer with these fields.
ContextOK(b, met, c, fs, body) ==
  /\ c \in DOMAIN b /\ b[c].kind = "context"
  /\ \A i \in DOMAIN fs : EntryOK(b, met, b[c].at, fs[i], body[fs[i].k])

\* The properties of object x of the source, of its first n layers.
ObjectOK(b, met, m, x, n) ==
  /\ m \in DOMAIN b /\ b[m].kind = "object" /\ b[m].cls = x.cls
  /\ \A name \in DOMAIN b[m].ctx : b[m].ctx[name] \in DOMAIN b /\ b[b[m].ctx[name]].kind = "context"
  /\ \A l \in DOMAIN Layers[x.cls] :
       LET layer == Layers[x.cls][l] IN
       l <= n /\ layer.pack =>
         layer.name \in DOMAIN b[m].ctx /\ ContextOK(b, met, b[m].ctx[layer.name], layer.fields, x.body[l])

\* A reference stays one as more objects are met.
More(met, more) ==
  /\ met \in Seq(Obj) /\ more \in Seq(Obj) /\ Len(met) <= Len(more)
  /\ \A i \in 1 .. Len(met) : more[i] = met[i]

\* A reference stands for the same object when more have been numbered.
LEMMA StandsStill ==
  ASSUME NEW met, NEW more, More(met, more), NEW e, NEW o, Stands(met, e, o)
  PROVE  Stands(more, e, o)
<1>1. e.v \in 0 .. Len(met) - 1 /\ Len(met) \in Nat /\ Len(more) \in Nat /\ Len(met) <= Len(more)
  BY DEF Stands, More
<1>2. e.v + 1 \in 1 .. Len(met) /\ e.v \in 0 .. Len(more) - 1
  BY <1>1
<1> QED
  BY <1>2 DEF Stands, More

\* The lists of b are as they were in d.
ListsStay(b, d) == \A j \in DOMAIN b : b[j].kind = "list" => j \in DOMAIN d /\ d[j] = b[j]

\* What is in a list or context stays as long as lists stay.
LEMMA EntryStays ==
  ASSUME NEW met, NEW more, More(met, more), NEW b, NEW d, ListsStay(b, d),
         NEW at, NEW f, NEW v, EntryOK(b, met, at, f, v)
  PROVE  EntryOK(d, more, at, f, v)
<1>1. ASSUME NEW c, ListOK(b, met, c, v) PROVE ListOK(d, more, c, v)
  <2>1. c \in DOMAIN d /\ d[c] = b[c]
    BY <1>1 DEF ListOK, ListsStay
  <2>2. \A j \in 1 .. Len(v) : Stands(more, b[c].at[j - 1], v[j])
    BY <1>1, StandsStill DEF ListOK
  <2> QED
    BY <1>1, <2>1, <2>2 DEF ListOK
<1>2. ASSUME NEW e, Stands(met, e, v) PROVE Stands(more, e, v)
  BY <1>2, StandsStill
<1> QED
  BY <1>1, <1>2 DEF EntryOK

\* So do lists and contexts, and the box m.
OthersStay(b, d, m) ==
  \A j \in DOMAIN b : j = m \/ b[j].kind \in {"list", "context"} => j \in DOMAIN d /\ d[j] = b[j]

\* So do the properties of an object, if its own box stays.
LEMMA ObjectStays ==
  ASSUME NEW met, NEW more, More(met, more), NEW b, NEW d, NEW m, OthersStay(b, d, m),
         NEW o, NEW n, ObjectOK(b, met, m, o, n)
  PROVE  ObjectOK(d, more, m, o, n)
<1>1. ListsStay(b, d) /\ \A j \in DOMAIN b : j = m \/ b[j].kind = "context" => j \in DOMAIN d /\ d[j] = b[j]
  BY DEF ListsStay, OthersStay
<1>2. ASSUME NEW c, NEW fs, NEW body, ContextOK(b, met, c, fs, body) PROVE ContextOK(d, more, c, fs, body)
  <2>1. c \in DOMAIN d /\ d[c] = b[c] /\ b[c].kind = "context"
    BY <1>1, <1>2 DEF ContextOK
  <2>2. \A i \in DOMAIN fs : EntryOK(b, met, b[c].at, fs[i], body[fs[i].k])
    BY <1>2 DEF ContextOK
  <2>3. \A i \in DOMAIN fs : EntryOK(d, more, b[c].at, fs[i], body[fs[i].k])
    BY <1>1, <2>2, EntryStays
  <2> QED
    BY <2>1, <2>3 DEF ContextOK
<1>3. m \in DOMAIN d /\ d[m] = b[m]
  BY <1>1 DEF ObjectOK
<1>4. \A x \in DOMAIN b[m].ctx : b[m].ctx[x] \in DOMAIN d /\ d[b[m].ctx[x]].kind = "context"
  BY <1>1 DEF ObjectOK
<1> QED
  BY <1>2, <1>3, <1>4 DEF ObjectOK

IsBox(x) == x = [kind |-> x.kind, cls |-> x.cls, ctx |-> x.ctx, at |-> x.at]

BoxSeq(b) == IsSeq(b) /\ \A j \in DOMAIN b : IsBox(b[j])

\* From b to d only box c has got values, and new boxes have come.
Kept(b, c, d) ==
  /\ BoxSeq(d) /\ Len(b) <= Len(d)
  /\ \A j \in DOMAIN b : j # c => d[j] = b[j]
  /\ d[c].kind = b[c].kind /\ d[c].cls = b[c].cls /\ d[c].ctx = b[c].ctx

\* Nothing but the boxes has changed.
SameElse(s, t) ==
  t.current = s.current /\ t.db = s.db /\ t.stack = s.stack /\ t.objects = s.objects

\* The key under which a value of key k gets into box c.
KeyIn(b, c, k) == IF b[c].kind = "list" THEN Cardinality(DOMAIN b[c].at) ELSE k

\* The boxes with e entered under k in box c.
WithEntry(b, c, k, e) == [b EXCEPT ![c] = Put(b[c], k, e)]

\* A step that only enters a value takes another.
LEMMA KeptTwice ==
  ASSUME NEW b, BoxSeq(b), NEW c \in DOMAIN b, NEW d, NEW e, Kept(b, c, d), Kept(d, c, e)
  PROVE  Kept(b, c, e)
<1>1. Len(b) \in Nat /\ DOMAIN b = 1 .. Len(b)
  BY SeqPlaces DEF BoxSeq
<1>2. Len(d) \in Nat /\ DOMAIN d = 1 .. Len(d) /\ Len(b) <= Len(d) /\ BoxSeq(e) /\ Len(d) <= Len(e)
  BY SeqPlaces DEF BoxSeq, Kept
<1>3. Len(e) \in Nat
  BY <1>2, SeqPlaces DEF BoxSeq
<1>4. DOMAIN b \subseteq DOMAIN d /\ Len(b) <= Len(e)
  BY <1>1, <1>2, <1>3
<1> QED
  BY <1>2, <1>4 DEF Kept

\* A value enters a box.
LEMMA Enters ==
  ASSUME NEW b, BoxSeq(b), NEW c \in DOMAIN b, NEW k, NEW e,
         NEW d, d = WithEntry(b, c, k, e)
  PROVE  /\ Kept(b, c, d) /\ Len(d) = Len(b) /\ DOMAIN d = DOMAIN b
         /\ d[c].at = Under(b[c].at, KeyIn(b, c, k), e)
<1> DEFINE w == Under(b[c].at, IF b[c].kind = "list" THEN Cardinality(DOMAIN b[c].at) ELSE k, e)
           kind == b[c].kind
           cls == b[c].cls
           ctx == b[c].ctx
           at == b[c].at
<1>1. b[c] = [kind |-> kind, cls |-> cls, ctx |-> ctx, at |-> at]
  BY DEF BoxSeq, IsBox
<1>2. Put(b[c], k, e) = [b[c] EXCEPT !.at = w]
  BY DEF Put
<1> HIDE DEF w
<1>3. Put(b[c], k, e) = [kind |-> kind, cls |-> cls, ctx |-> ctx, at |-> w]
  <2> HIDE DEF kind, cls, ctx, at
  <2> QED
    BY <1>1, <1>2
<1>4. /\ DOMAIN d = DOMAIN b /\ d = [j \in DOMAIN b |-> d[j]]
      /\ d[c] = [kind |-> kind, cls |-> cls, ctx |-> ctx, at |-> w]
      /\ \A j \in DOMAIN b : j # c => d[j] = b[j]
  <2> HIDE DEF kind, cls, ctx, at
  <2> QED
    BY Zenon, <1>3 DEF WithEntry
<1>5. IsSeq(d) /\ Len(d) = Len(b)
  BY <1>4, SeqReplaced DEF BoxSeq
<1>6. d[c].kind = kind /\ d[c].cls = cls /\ d[c].ctx = ctx /\ d[c].at = w
  <2> HIDE DEF kind, cls, ctx, at
  <2> QED
    BY <1>4
<1>7. IsBox(d[c])
  <2> HIDE DEF kind, cls, ctx, at
  <2> QED
    BY <1>4, <1>6 DEF IsBox
<1>8. BoxSeq(d)
  BY Zenon, <1>4, <1>5, <1>7 DEF BoxSeq
<1>9. Len(b) \in Nat
  BY SeqPlaces DEF BoxSeq
<1>10. Kept(b, c, d)
  BY <1>4, <1>5, <1>6, <1>8, <1>9 DEF Kept
<1> QED
  BY <1>4, <1>5, <1>6, <1>10 DEF w, KeyIn

\* A number, data or a reference enters the last box of the stack.
LEMMA RunValue ==
  ASSUME NEW s, BoxSeq(s.box), NEW c \in DOMAIN s.box, Last(s.stack) = c,
         NEW x, x.t \in Leaves \cup {"ref"}
  PROVE  \E t : /\ Runs(s, <<x>>, t) /\ SameElse(s, t) /\ Kept(s.box, c, t.box)
                /\ Len(t.box) = Len(s.box)
                /\ t.box[c].at = Under(s.box[c].at, KeyIn(s.box, c, x.k), [t |-> x.t, v |-> x.v])
<1> DEFINE e == [t |-> x.t, v |-> x.v]
           d == WithEntry(s.box, c, x.k, e)
           t == [current |-> s.current, db |-> s.db, box |-> d, stack |-> s.stack, objects |-> s.objects]
<1>1. t.box = d /\ SameElse(s, t)
  BY DEF SameElse
<1>2. ReadsValue(x, s, t)
  BY <1>1 DEF ReadsValue, SameElse, WithEntry
<1> HIDE DEF t, e
<1>3. Runs(s, <<x>>, t)
  BY <1>2, RunOne DEF Reads
<1>4. \E u : u = d
  OBVIOUS
<1>5. /\ Kept(s.box, c, d) /\ Len(d) = Len(s.box)
      /\ d[c].at = Under(s.box[c].at, KeyIn(s.box, c, x.k), e)
  <2>1. PICK u : u = d
    BY <1>4
  <2>2. PICK b : b = s.box
    OBVIOUS
  <2>3. PICK k : k = x.k
    OBVIOUS
  <2> HIDE DEF d
  <2>4. BoxSeq(b) /\ c \in DOMAIN b /\ u = WithEntry(b, c, k, e)
    BY <2>1, <2>2, <2>3 DEF d
  <2>5. /\ Kept(b, c, u) /\ Len(u) = Len(b)
        /\ u[c].at = Under(b[c].at, KeyIn(b, c, k), e)
    BY <2>4, Enters
  <2> QED
    BY <2>1, <2>2, <2>3, <2>5
<1> HIDE DEF d
<1> QED
  BY <1>1, <1>3, <1>5 DEF e

\* The boxes with a new one.
WithBox(b, kind, cls) == Append(b, NewBox(kind, cls))

\* A new box is the last, and empty.
LEMMA NewBoxIs ==
  ASSUME NEW b, BoxSeq(b), NEW kind, NEW cls, NEW d, d = WithBox(b, kind, cls)
  PROVE  /\ BoxSeq(d) /\ Len(d) = Len(b) + 1 /\ Len(b) \in Nat /\ DOMAIN b = 1 .. Len(b)
         /\ \A j \in DOMAIN b : d[j] = b[j]
         /\ Len(b) + 1 \in DOMAIN d /\ Len(b) + 1 \notin DOMAIN b
         /\ d[Len(b) + 1].kind = kind /\ d[Len(b) + 1].cls = cls
         /\ d[Len(b) + 1].ctx = Empty /\ d[Len(b) + 1].at = Empty
<1> DEFINE x == NewBox(kind, cls)
<1>1. x.kind = kind /\ x.cls = cls /\ x.ctx = Empty /\ x.at = Empty /\ IsBox(x)
  BY DEF NewBox, IsBox
<1>2. IsSeq(b) /\ Len(b) \in Nat /\ DOMAIN b = 1 .. Len(b)
  BY SeqPlaces DEF BoxSeq
<1>3. d = Append(b, x)
  BY DEF WithBox
<1> HIDE DEF x
<1>4. IsSeq(d) /\ Len(d) = Len(b) + 1 /\ d[Len(b) + 1] = x /\ \A i \in 1 .. Len(b) : d[i] = b[i]
  BY <1>2, <1>3, SeqAppend
<1>5. DOMAIN d = 1 .. Len(b) + 1
  BY <1>2, <1>4, SeqPlaces
<1>6. Len(b) + 1 \in DOMAIN d /\ Len(b) + 1 \notin DOMAIN b
  BY <1>2, <1>5
<1>7. \A j \in DOMAIN d : j \in DOMAIN b \/ j = Len(b) + 1
  BY <1>2, <1>5
<1>8. BoxSeq(d)
  BY <1>1, <1>2, <1>4, <1>7 DEF BoxSeq
<1> QED
  BY <1>1, <1>2, <1>4, <1>6, <1>8

\* A stack with another box.
LEMMA StackMore ==
  ASSUME NEW s, IsSeq(s), NEW c, NEW u, u = Append(s, c)
  PROVE  IsSeq(u) /\ u # <<>> /\ Last(u) = c /\ Front(u) = s
<1>1. s \in Seq(Range(s) \cup {c}) /\ Len(s) \in Nat
  BY SeqPlaces DEF IsSeq
<1>2. IsSeq(u) /\ Len(u) = Len(s) + 1 /\ u[Len(s) + 1] = c
  BY SeqAppend
<1>3. u # <<>>
  BY <1>1, <1>2
<1>4. Front(u) = s
  <2>1. u = Append(s, c) /\ Len(u) - 1 = Len(s)
    BY <1>1, <1>2
  <2>2. SubSeq(Append(s, c), 1, Len(s)) = s
    <3> DEFINE S == Range(s) \cup {c}
    <3> HIDE DEF S
    <3>1. s \in Seq(S) /\ c \in S
      BY <1>1 DEF S
    <3>2. Append(s, c) \in Seq(S) /\ Len(Append(s, c)) = Len(s) + 1
          /\ \A i \in 1 .. Len(s) : Append(s, c)[i] = s[i]
      BY <3>1
    <3>3. SubSeq(Append(s, c), 1, Len(s)) = [i \in 1 .. Len(s) |-> Append(s, c)[i]]
      BY <1>1, <3>2
    <3>4. s = [i \in 1 .. Len(s) |-> s[i]]
      BY <3>1
    <3> QED
      BY <3>2, <3>3, <3>4
  <2> QED
    BY <2>1, <2>2 DEF Front
<1> QED
  BY <1>2, <1>3, <1>4 DEF Last

----------------------------------------------------------------------------
(* The tokens of a list                                                    *)

\* A prefix of a sequence and the next one.
LEMMA PrefixMore ==
  ASSUME NEW S, NEW xs \in Seq(S)
  PROVE  /\ SubSeq(xs, 1, 0) = <<>> /\ SubSeq(xs, 1, Len(xs)) = xs
         /\ \A i \in 0 .. Len(xs) : SubSeq(xs, 1, i) \in Seq(S)
         /\ \A i \in 0 .. Len(xs) - 1 :
              <<xs[i + 1]>> \in Seq(S) /\ SubSeq(xs, 1, i + 1) = SubSeq(xs, 1, i) \o <<xs[i + 1]>>
<1>1. Len(xs) \in Nat /\ xs \in [1 .. Len(xs) -> S]
  OBVIOUS
<1>2. SubSeq(xs, 1, 0) = <<>>
  OBVIOUS
<1>3. SubSeq(xs, 1, Len(xs)) = xs
  OBVIOUS
<1>4. ASSUME NEW i \in 0 .. Len(xs) PROVE SubSeq(xs, 1, i) \in Seq(S) /\ SubSeq(xs, 1, i) = [j \in 1 .. i |-> xs[j]]
  BY <1>1
<1>5. ASSUME NEW i \in 0 .. Len(xs) - 1
      PROVE  <<xs[i + 1]>> \in Seq(S) /\ SubSeq(xs, 1, i + 1) = SubSeq(xs, 1, i) \o <<xs[i + 1]>>
  <2> DEFINE p == SubSeq(xs, 1, i)
             q == SubSeq(xs, 1, i + 1)
             x == xs[i + 1]
             y == <<x>>
  <2>1. i \in 0 .. Len(xs) /\ i + 1 \in 0 .. Len(xs) /\ i + 1 \in 1 .. Len(xs) /\ i \in Nat
    BY <1>1
  <2>2. p \in Seq(S) /\ q \in Seq(S) /\ x \in S
    BY <1>1, <1>4, <2>1
  <2>3. p = [j \in 1 .. i |-> xs[j]] /\ q = [j \in 1 .. i + 1 |-> xs[j]]
    BY <1>4, <2>1
  <2>4. Len(p) = i /\ Len(q) = i + 1
    BY <2>1, <2>2, <2>3
  <2>5. y \in Seq(S) /\ Len(y) = 1 /\ y[1] = x
    BY <2>2
  <2> HIDE DEF y
  <2>6. p \o y \in Seq(S) /\ Len(p \o y) = i + 1 /\ (\A j \in 1 .. i : (p \o y)[j] = p[j]) /\ (p \o y)[i + 1] = x
    <3> HIDE DEF p
    <3>1. /\ p \o y \in Seq(S) /\ Len(p \o y) = Len(p) + Len(y)
          /\ (\A j \in 1 .. Len(p) : (p \o y)[j] = p[j])
          /\ \A j \in 1 .. Len(y) : (p \o y)[Len(p) + j] = y[j]
      <4>1. p \in Seq(S) /\ y \in Seq(S)
        BY <2>2, <2>5
      <4> QED
        BY <4>1, ConcatIs
    <3> QED
      BY <2>4, <2>5, <3>1
  <2>7. \A j \in 1 .. i + 1 : (p \o y)[j] = q[j]
    <3>1. ASSUME NEW j \in 1 .. i PROVE (p \o y)[j] = q[j]
      BY <2>1, <2>3, <2>6
    <3>2. (p \o y)[i + 1] = q[i + 1]
      BY <2>1, <2>3, <2>6
    <3>3. \A j \in 1 .. i + 1 : j \in 1 .. i \/ j = i + 1
      BY <2>1
    <3> QED
      BY Zenon, <3>1, <3>2, <3>3
  <2>8. p \o y = q
    <3> HIDE DEF p, q
    <3> QED
      BY <2>2, <2>4, <2>6, <2>7
  <2> QED
    BY <2>5, <2>8 DEF y
<1> QED
  BY <1>2, <1>3, <1>4, <1>5

\* References get into a list one after the other.
Items(met, v) == [i \in DOMAIN v |-> Tok("ref", 0, Id(met, v[i]))]

\* The references of an array, one token for each item.
LEMMA ItemsAre ==
  ASSUME NEW met \in Seq(Obj), NEW v \in Seq(Obj), Range(v) \subseteq Range(met)
  PROVE  /\ Items(met, v) \in Seq(Token) /\ Len(Items(met, v)) = Len(v)
         /\ \A i \in 1 .. Len(v) : /\ Items(met, v)[i] = Tok("ref", 0, Id(met, v[i]))
                                   /\ Id(met, v[i]) \in 0 .. Len(met) - 1 /\ met[Id(met, v[i]) + 1] = v[i]
<1>1. Len(v) \in Nat /\ DOMAIN v = 1 .. Len(v)
  OBVIOUS
<1>2. ASSUME NEW i \in 1 .. Len(v)
      PROVE  /\ Id(met, v[i]) \in 0 .. Len(met) - 1 /\ met[Id(met, v[i]) + 1] = v[i]
             /\ Tok("ref", 0, Id(met, v[i])) \in Token
  <2>1. v[i] \in Range(met)
    BY Zenon, <1>1 DEF Range
  <2>2. Id(met, v[i]) \in 0 .. Len(met) - 1 /\ met[Id(met, v[i]) + 1] = v[i]
    BY <2>1, IdIs
  <2>3. Id(met, v[i]) \in Nat
    BY <2>2
  <2> QED
    BY <2>2, <2>3 DEF Tok, Token, Kinds
<1>3. Items(met, v) \in [1 .. Len(v) -> Token]
  BY <1>1, <1>2 DEF Items
<1>4. Items(met, v) \in Seq(Token) /\ Len(Items(met, v)) = Len(v)
  BY <1>1, <1>3
<1> QED
  BY <1>1, <1>2, <1>4 DEF Items

\* They fill the list that is on the stack, in their order.
LEMMA RunItems ==
  ASSUME NEW met \in Seq(Obj), NEW v \in Seq(Obj), Range(v) \subseteq Range(met),
         NEW s, BoxSeq(s.box), NEW c \in DOMAIN s.box, Last(s.stack) = c,
         s.box[c].kind = "list", DOMAIN s.box[c].at = {}
  PROVE  \E t : /\ Runs(s, Items(met, v), t) /\ SameElse(s, t) /\ Kept(s.box, c, t.box)
                /\ Len(t.box) = Len(s.box) /\ ListOK(t.box, met, c, v)
<1> DEFINE xs == Items(met, v)
           n == Len(v)
           Done(i, t) == /\ Runs(s, SubSeq(xs, 1, i), t) /\ SameElse(s, t) /\ Kept(s.box, c, t.box)
                         /\ Len(t.box) = Len(s.box) /\ DOMAIN t.box[c].at = 0 .. i - 1
                         /\ \A j \in 1 .. i : Stands(met, t.box[c].at[j - 1], v[j])
           T == {i \in Nat : i \in 0 .. n => \E t : Done(i, t)}
<1>1. n \in Nat /\ xs \in Seq(Token) /\ Len(xs) = n
  BY ItemsAre
<1>2. /\ SubSeq(xs, 1, 0) = <<>> /\ SubSeq(xs, 1, n) = xs
      /\ \A i \in 0 .. n : SubSeq(xs, 1, i) \in Seq(Token)
      /\ \A i \in 0 .. n - 1 :
           <<xs[i + 1]>> \in Seq(Token) /\ SubSeq(xs, 1, i + 1) = SubSeq(xs, 1, i) \o <<xs[i + 1]>>
  <2> HIDE DEF xs, n
  <2> QED
    BY Zenon, <1>1, PrefixMore
<1>3. \A i \in 1 .. n : /\ xs[i] = Tok("ref", 0, Id(met, v[i]))
                        /\ Id(met, v[i]) \in 0 .. Len(met) - 1 /\ met[Id(met, v[i]) + 1] = v[i]
  BY Zenon, ItemsAre
<1> HIDE DEF xs
<1>4. 0 \in T
  <2>1. Runs(s, SubSeq(xs, 1, 0), s)
    BY Zenon, <1>2, RunNone
  <2>2. SameElse(s, s)
    BY DEF SameElse
  <2>3. Kept(s.box, c, s.box)
    <3>1. Len(s.box) \in Nat
      BY SeqPlaces DEF BoxSeq
    <3> QED
      BY <3>1 DEF Kept
  <2>4. 0 .. 0 - 1 = {} /\ 1 .. 0 = {}
    OBVIOUS
  <2>5. Done(0, s)
    BY <2>1, <2>2, <2>3, <2>4
  <2> HIDE DEF Done
  <2> QED
    BY <2>5
<1>5. ASSUME NEW i \in Nat, i \in T PROVE i + 1 \in T
  <2> HIDE DEF Done
  <2> SUFFICES ASSUME i + 1 \in 0 .. n PROVE \E t : Done(i + 1, t)
    OBVIOUS
  <2>1. i \in 0 .. n /\ i \in 0 .. n - 1 /\ i + 1 \in 1 .. n
    BY <1>1
  <2>2. PICK t : Done(i, t)
    BY <1>5, <2>1
  <2>3. /\ Runs(s, SubSeq(xs, 1, i), t) /\ SameElse(s, t) /\ Kept(s.box, c, t.box)
        /\ Len(t.box) = Len(s.box) /\ DOMAIN t.box[c].at = 0 .. i - 1
        /\ \A j \in 1 .. i : Stands(met, t.box[c].at[j - 1], v[j])
    BY <2>2 DEF Done
  <2> DEFINE x == xs[i + 1]
             e == [t |-> x.t, v |-> x.v]
  <2>4. x.t = "ref" /\ Stands(met, e, v[i + 1])
    <3>1. x = Tok("ref", 0, Id(met, v[i + 1]))
      BY <1>3, <2>1
    <3>2. x.t = "ref" /\ x.v = Id(met, v[i + 1])
      BY <3>1 DEF Tok
    <3> HIDE DEF x
    <3> QED
      BY <1>3, <2>1, <3>2 DEF Stands
  <2>5. BoxSeq(t.box) /\ c \in DOMAIN t.box /\ Last(t.stack) = c /\ t.box[c].kind = "list"
    <3>1. DOMAIN t.box = DOMAIN s.box
      BY <2>3, SeqPlaces DEF Kept, BoxSeq
    <3> QED
      BY <2>3, <3>1 DEF Kept, SameElse
  <2>6. KeyIn(t.box, c, x.k) = i
    <3>1. Cardinality(0 .. i - 1) = i
      <4>1. CASE i = 0
        BY <4>1, FS_EmptySet
      <4>2. CASE i # 0
        BY <4>2, FS_Interval
      <4> QED
        BY <4>1, <4>2
    <3> QED
      BY <2>3, <2>5, <3>1 DEF KeyIn
  <2> HIDE DEF x
  <2>7. PICK u : /\ Runs(t, <<x>>, u) /\ SameElse(t, u) /\ Kept(t.box, c, u.box)
                 /\ Len(u.box) = Len(t.box)
                 /\ u.box[c].at = Under(t.box[c].at, KeyIn(t.box, c, x.k), e)
    BY ZenonT(60), <2>4, <2>5, RunValue
  <2>8. Runs(s, SubSeq(xs, 1, i + 1), u)
    <3>1. SubSeq(xs, 1, i + 1) = SubSeq(xs, 1, i) \o <<x>> /\ SubSeq(xs, 1, i) \in Seq(Token) /\ <<x>> \in Seq(Token)
      BY <1>2, <2>1 DEF x
    <3> QED
      BY Zenon, <2>3, <2>7, <3>1, RunBoth
  <2>9. SameElse(s, u)
    BY <2>3, <2>7 DEF SameElse
  <2>10. Kept(s.box, c, u.box)
    BY <2>3, <2>7, KeptTwice
  <2>11. /\ DOMAIN u.box[c].at = (0 .. i - 1) \cup {i} /\ u.box[c].at[i] = e
         /\ \A j \in 0 .. i - 1 : u.box[c].at[j] = t.box[c].at[j]
    <3>1. \A j \in 0 .. i - 1 : j # i
      OBVIOUS
    <3>2. PICK w : w = t.box[c].at
      OBVIOUS
    <3> HIDE DEF e
    <3>3. u.box[c].at = Under(w, i, e) /\ DOMAIN w = 0 .. i - 1
      BY <2>3, <2>6, <2>7, <3>2
    <3>4. /\ DOMAIN Under(w, i, e) = DOMAIN w \cup {i} /\ Under(w, i, e)[i] = e
          /\ \A j \in DOMAIN w : j # i => Under(w, i, e)[j] = w[j]
      BY DEF Under
    <3> QED
      BY <3>1, <3>2, <3>3, <3>4
  <2>12. (0 .. i - 1) \cup {i} = 0 .. (i + 1) - 1
    OBVIOUS
  <2>13. ASSUME NEW j \in 1 .. i + 1 PROVE Stands(met, u.box[c].at[j - 1], v[j])
    <3>1. CASE j = i + 1
      <4>1. j - 1 = i
        BY <3>1
      <4> QED
        BY <2>4, <2>11, <3>1, <4>1
    <3>2. CASE j # i + 1
      <4>1. j \in 1 .. i /\ j - 1 \in 0 .. i - 1
        BY <3>2
      <4> QED
        BY <2>3, <2>11, <4>1
    <3> QED
      BY <3>1, <3>2
  <2>14. Done(i + 1, u)
    BY Zenon, <2>3, <2>7, <2>8, <2>9, <2>10, <2>11, <2>12, <2>13 DEF Done
  <2> QED
    BY <2>14
<1>6. Nat \subseteq T
  <2> HIDE DEF T
  <2> QED
    BY <1>4, <1>5, NatsAssumptions, Nats!InductionOnSet
<1>7. \E t : Done(n, t)
  <2> HIDE DEF Done
  <2> QED
    BY <1>1, <1>6
<1>8. PICK t : Done(n, t)
  BY <1>7
<1>9. ListOK(t.box, met, c, v)
  <2>1. DOMAIN t.box = DOMAIN s.box
    BY <1>8, SeqPlaces DEF Kept, BoxSeq
  <2> QED
    BY <1>8, <2>1 DEF ListOK, Kept
<1> QED
  BY Zenon, <1>2, <1>8, <1>9 DEF xs

----------------------------------------------------------------------------
(* The tokens of a field                                                   *)

\* An array begins: its list is entered in c under its key, and is on the stack.
ArrayBegun(s, t, c, k) ==
  /\ t.current = s.current /\ t.db = s.db /\ t.objects = s.objects
  /\ t.stack = Append(s.stack, Len(s.box) + 1)
  /\ Kept(s.box, c, t.box) /\ Len(s.box) + 1 \in DOMAIN t.box /\ Len(s.box) + 1 \notin DOMAIN s.box
  /\ t.box[c].at = Under(s.box[c].at, k, [t |-> "array", v |-> Len(s.box) + 1])
  /\ t.box[Len(s.box) + 1].kind = "list" /\ t.box[Len(s.box) + 1].at = Empty

\* The tag an array begins with makes its list and pushes it.
LEMMA RunArrayBegin ==
  ASSUME NEW s, BoxSeq(s.box), IsSeq(s.stack), NEW c \in DOMAIN s.box, Last(s.stack) = c,
         s.box[c].kind = "context", NEW k, NEW n \in Nat
  PROVE  \E t : Runs(s, <<Tok("array", k, n + 1)>>, t) /\ ArrayBegun(s, t, c, k)
<1> DEFINE list == Len(s.box) + 1
           e == [t |-> "array", v |-> list]
           x == Tok("array", k, n + 1)
<1>1. PICK b : b = s.box
  OBVIOUS
<1>2. PICK d : d = WithEntry(b, c, k, e)
  OBVIOUS
<1>3. KeyIn(b, c, k) = k
  BY <1>1 DEF KeyIn
<1>4. Kept(b, c, d) /\ Len(d) = Len(b) /\ DOMAIN d = DOMAIN b /\ d[c].at = Under(b[c].at, KeyIn(b, c, k), e)
  <2> HIDE DEF e
  <2> QED
    BY <1>1, <1>2, Enters
<1>5. PICK g : g = WithBox(d, "list", Null)
  OBVIOUS
<1>6. /\ BoxSeq(g) /\ Len(g) = Len(d) + 1 /\ Len(d) \in Nat /\ DOMAIN d = 1 .. Len(d)
      /\ \A j \in DOMAIN d : g[j] = d[j]
      /\ Len(d) + 1 \in DOMAIN g /\ Len(d) + 1 \notin DOMAIN d
      /\ g[Len(d) + 1].kind = "list" /\ g[Len(d) + 1].at = Empty
  <2>1. BoxSeq(d)
    BY <1>4 DEF Kept
  <2> QED
    BY <1>5, <2>1, NewBoxIs
<1>7. PICK t : t = [current |-> s.current, db |-> s.db, box |-> g, stack |-> Append(s.stack, list),
                    objects |-> s.objects]
  BY Zenon
<1>8. /\ t.current = s.current /\ t.db = s.db /\ t.objects = s.objects
      /\ t.box = g /\ t.stack = Append(s.stack, list)
  BY <1>7
<1>9. x.t = "array" /\ x.k = k /\ x.v = n + 1 /\ x.v > 0
  BY DEF Tok
<1>10. ReadsArray(x, s, t)
  <2> HIDE DEF x
  <2> QED
    BY <1>1, <1>2, <1>5, <1>8, <1>9 DEF ReadsArray, WithEntry, WithBox
<1>11. Runs(s, <<x>>, t)
  <2> HIDE DEF x
  <2>1. Reads(x, s, t)
    BY <1>10 DEF Reads
  <2> QED
    BY <2>1, RunOne
<1>12. Kept(b, c, g)
  <2>1. \A j \in DOMAIN b : j # c => g[j] = b[j]
    BY <1>4, <1>6 DEF Kept
  <2>2. g[c].kind = b[c].kind /\ g[c].cls = b[c].cls /\ g[c].ctx = b[c].ctx
    BY <1>1, <1>4, <1>6 DEF Kept
  <2> QED
    BY <1>4, <1>6, <2>1, <2>2 DEF Kept
<1>13. g[c].at = Under(b[c].at, k, e)
  BY <1>1, <1>3, <1>4, <1>6
<1> QED
  BY Zenon, <1>1, <1>4, <1>6, <1>8, <1>11, <1>12, <1>13 DEF x, ArrayBegun

\* It ends.
LEMMA RunArrayEnd ==
  ASSUME NEW s, NEW k
  PROVE  \E t : /\ Runs(s, <<Tok("array", k, 0)>>, t)
                /\ t.current = s.current /\ t.db = s.db /\ t.objects = s.objects /\ t.box = s.box
                /\ t.stack = Front(s.stack)
<1> DEFINE x == Tok("array", k, 0)
<1>1. PICK t : t = [current |-> s.current, db |-> s.db, box |-> s.box, stack |-> Front(s.stack),
                    objects |-> s.objects]
  BY Zenon
<1>2. /\ t.current = s.current /\ t.db = s.db /\ t.objects = s.objects
      /\ t.box = s.box /\ t.stack = Front(s.stack)
  BY <1>1
<1>3. x.t = "array" /\ x.v = 0 /\ ~(x.v > 0)
  BY DEF Tok
<1>4. Runs(s, <<x>>, t)
  <2> HIDE DEF x
  <2>1. ReadsArray(x, s, t)
    BY <1>2, <1>3 DEF ReadsArray
  <2>2. Reads(x, s, t)
    BY <2>1 DEF Reads
  <2> QED
    BY <2>2, RunOne
<1> QED
  BY <1>2, <1>4 DEF x

\* What a run of the tokens of a field with this key leaves of a context.
FieldRun(s, xs, t, c, met, f, v) ==
  /\ Runs(s, xs, t) /\ SameElse(s, t) /\ Kept(s.box, c, t.box)
  /\ EntryOK(t.box, met, t.box[c].at, f, v)
  /\ DOMAIN t.box[c].at \subseteq DOMAIN s.box[c].at \cup {f.k}
  /\ \A j \in DOMAIN s.box[c].at : j # f.k => j \in DOMAIN t.box[c].at /\ t.box[c].at[j] = s.box[c].at[j]

\* An array leaves its list under the key of the field, and the stack as it was.
LEMMA RunArray ==
  ASSUME NEW met \in Seq(Obj), NEW f \in Fields, f.t = "array", NEW v \in Seq(Obj), Range(v) \subseteq Range(met),
         NEW s, BoxSeq(s.box), IsSeq(s.stack), NEW c \in DOMAIN s.box, Last(s.stack) = c,
         s.box[c].kind = "context"
  PROVE  \E t : FieldRun(s, FieldTokens(met, f, v), t, c, met, f, v)
<1> DEFINE k == f.k
           list == Len(s.box) + 1
           n == Len(v)
           first == <<Tok("array", k, n + 1)>>
           items == Items(met, v)
           end == <<Tok("array", k, 0)>>
<1>1. k \in Nat /\ n \in Nat
  BY DEF Fields
<1>2. FieldTokens(met, f, v) = first \o items \o end
  BY DEF FieldTokens, Items
<1>3. first \in Seq(Token) /\ end \in Seq(Token) /\ items \in Seq(Token)
  <2>1. Tok("array", k, n + 1) \in Token /\ Tok("array", k, 0) \in Token
    BY <1>1 DEF Tok, Token, Kinds
  <2>2. items \in Seq(Token)
    BY ItemsAre
  <2> HIDE DEF items
  <2> QED
    BY <2>1, <2>2
<1> HIDE DEF items, end
<1>4. PICK t1 : /\ Runs(s, first, t1)
                /\ t1.current = s.current /\ t1.db = s.db /\ t1.objects = s.objects
                /\ t1.stack = Append(s.stack, list)
                /\ Kept(s.box, c, t1.box) /\ list \in DOMAIN t1.box /\ list \notin DOMAIN s.box
                /\ t1.box[c].at = Under(s.box[c].at, k, [t |-> "array", v |-> list])
                /\ t1.box[list].kind = "list" /\ t1.box[list].at = Empty
  <2>1. \E t : Runs(s, <<Tok("array", k, n + 1)>>, t) /\ ArrayBegun(s, t, c, k)
    <3> HIDE DEF k, n
    <3> QED
      BY Zenon, <1>1, RunArrayBegin
  <2> QED
    BY <2>1 DEF ArrayBegun
<1> HIDE DEF first, list, n
<1>5. IsSeq(t1.stack) /\ Last(t1.stack) = list /\ Front(t1.stack) = s.stack
  <2>1. PICK p : p = s.stack
    OBVIOUS
  <2>2. PICK u : u = t1.stack
    OBVIOUS
  <2>3. IsSeq(p) /\ u = Append(p, list)
    BY <1>4, <2>1, <2>2
  <2>4. IsSeq(u) /\ Last(u) = list /\ Front(u) = p
    BY Zenon, <2>3, StackMore
  <2> QED
    BY <2>1, <2>2, <2>4
<1>6. BoxSeq(t1.box) /\ DOMAIN t1.box[list].at = {}
  <2>1. BoxSeq(t1.box) /\ t1.box[list].at = Empty
    BY <1>4 DEF Kept
  <2>2. DOMAIN Empty = {}
    BY DEF Empty
  <2> QED
    BY <2>1, <2>2
<1>7. PICK t2 : /\ Runs(t1, items, t2) /\ SameElse(t1, t2) /\ Kept(t1.box, list, t2.box)
                /\ Len(t2.box) = Len(t1.box) /\ ListOK(t2.box, met, list, v)
  BY Zenon, <1>4, <1>5, <1>6, RunItems DEF items
<1>8. PICK t3 : /\ Runs(t2, end, t3)
                /\ t3.current = t2.current /\ t3.db = t2.db /\ t3.objects = t2.objects /\ t3.box = t2.box
                /\ t3.stack = Front(t2.stack)
  BY RunArrayEnd DEF end
<1>9. Runs(s, FieldTokens(met, f, v), t3)
  <2>1. Runs(s, first, t1) /\ Runs(t1, items, t2) /\ Runs(t2, end, t3)
    BY <1>4, <1>7, <1>8
  <2>2. Runs(s, first \o items, t2)
    BY <1>3, <2>1, RunBoth
  <2>3. first \o items \in Seq(Token)
    BY <1>3, ConcatIs
  <2>4. Runs(s, (first \o items) \o end, t3)
    BY Zenon, <1>3, <2>1, <2>2, <2>3, RunBoth
  <2> QED
    BY <1>2, <2>4
<1>10. SameElse(s, t3)
  BY <1>4, <1>5, <1>7, <1>8 DEF SameElse
<1>11. DOMAIN s.box \subseteq DOMAIN t1.box /\ Len(s.box) \in Nat /\ Len(t1.box) \in Nat /\ Len(s.box) <= Len(t1.box)
  <2>1. Len(s.box) \in Nat /\ DOMAIN s.box = 1 .. Len(s.box)
    BY SeqPlaces DEF BoxSeq
  <2>2. Len(t1.box) \in Nat /\ DOMAIN t1.box = 1 .. Len(t1.box)
    BY <1>6, SeqPlaces DEF BoxSeq
  <2> QED
    BY <1>4, <2>1, <2>2 DEF Kept
<1>12. t2.box[c] = t1.box[c] /\ c # list
  BY <1>4, <1>7, <1>11 DEF Kept
<1>13. Kept(s.box, c, t3.box)
  <2>1. \A j \in DOMAIN s.box : j # c => t2.box[j] = s.box[j]
    BY <1>4, <1>7, <1>11 DEF Kept
  <2>2. BoxSeq(t2.box) /\ Len(s.box) <= Len(t2.box)
    BY <1>7, <1>11 DEF Kept
  <2>3. /\ t2.box[c].kind = s.box[c].kind /\ t2.box[c].cls = s.box[c].cls
        /\ t2.box[c].ctx = s.box[c].ctx
    BY <1>4, <1>12 DEF Kept
  <2> QED
    BY <1>8, <2>1, <2>2, <2>3 DEF Kept
<1>14. PICK w : w = s.box[c].at
  OBVIOUS
<1>15. PICK a : a = t3.box[c].at
  OBVIOUS
<1> DEFINE e == [t |-> "array", v |-> list]
<1>16. a = Under(w, k, e)
  BY <1>4, <1>8, <1>12, <1>14, <1>15
<1>17. DOMAIN a = DOMAIN w \cup {k} /\ a[k] = e /\ \A j \in DOMAIN w : j # k => a[j] = w[j]
  <2> HIDE DEF e, k
  <2> QED
    BY <1>16 DEF Under
<1>18. EntryOK(t3.box, met, a, f, v)
  <2>1. ListOK(t3.box, met, list, v)
    BY <1>7, <1>8
  <2>2. k \in DOMAIN a /\ a[k].t = "array" /\ a[k].v = list
    BY <1>17
  <2> QED
    BY <2>1, <2>2 DEF EntryOK, Leaves
<1> QED
  BY <1>9, <1>10, <1>13, <1>14, <1>15, <1>17, <1>18 DEF FieldRun

\* So do the tokens of any field.
LEMMA RunField ==
  ASSUME NEW met \in Seq(Obj), NEW f \in Fields, NEW v, IsValue(f.t, v), Range(Refs(f, v)) \subseteq Range(met),
         NEW s, BoxSeq(s.box), IsSeq(s.stack), NEW c \in DOMAIN s.box, Last(s.stack) = c,
         s.box[c].kind = "context", f.k \notin DOMAIN s.box[c].at
  PROVE  \E t : FieldRun(s, FieldTokens(met, f, v), t, c, met, f, v)
<1>1. f.t \in Leaves \cup {"ref", "array"} /\ f.k \in Nat
  BY DEF Fields
<1>2. CASE f.t = "array"
  <2>1. v \in Seq(Obj) /\ Refs(f, v) = v
    BY <1>2 DEF IsValue, Refs
  <2> QED
    BY <1>2, <2>1, RunArray
<1>3. CASE f.t = "ref" /\ v = Null
  <2>1. FieldTokens(met, f, v) = <<>>
    BY <1>3 DEF FieldTokens
  <2>2. Runs(s, FieldTokens(met, f, v), s)
    BY <2>1, RunNone
  <2>3. SameElse(s, s)
    BY DEF SameElse
  <2>4. Kept(s.box, c, s.box)
    <3>1. Len(s.box) \in Nat
      BY SeqPlaces DEF BoxSeq
    <3> QED
      BY <3>1 DEF Kept
  <2>5. EntryOK(s.box, met, s.box[c].at, f, v)
    BY <1>3 DEF EntryOK, Leaves
  <2> QED
    BY <2>2, <2>3, <2>4, <2>5 DEF FieldRun
<1>4. CASE (f.t = "ref" /\ v # Null) \/ f.t \in Leaves
  <2> DEFINE r == IF f.t = "ref" THEN Id(met, v) ELSE v
             x == Tok(f.t, f.k, r)
             e == [t |-> x.t, v |-> x.v]
  <2>1. FieldTokens(met, f, v) = <<x>>
    BY <1>4 DEF FieldTokens, Leaves
  <2>2. x.t = f.t /\ x.k = f.k /\ x.v = r
    BY DEF Tok
  <2>3. f.t = "ref" => Stands(met, e, v)
    <3>1. SUFFICES ASSUME f.t = "ref" PROVE Stands(met, e, v)
      OBVIOUS
    <3>2. v \in Obj /\ v # Null
      BY <1>4, <3>1 DEF IsValue, Leaves
    <3>3. v \in Range(met)
      <4>1. Refs(f, v) = <<v>>
        BY <3>1, <3>2 DEF Refs
      <4> QED
        BY <4>1, RangeOne
    <3>4. Id(met, v) \in 0 .. Len(met) - 1 /\ met[Id(met, v) + 1] = v
      BY <3>3, IdIs
    <3>5. e.t = "ref" /\ e.v = Id(met, v)
      BY <2>2, <3>1
    <3> HIDE DEF e
    <3> QED
      BY <3>4, <3>5 DEF Stands
  <2>4. f.t \in Leaves => e = [t |-> f.t, v |-> v]
    BY <2>2 DEF Leaves
  <2> HIDE DEF x
  <2>5. x.t \in Leaves \cup {"ref"}
    BY <1>4, <2>2
  <2>6. PICK t : /\ Runs(s, <<x>>, t) /\ SameElse(s, t) /\ Kept(s.box, c, t.box)
                 /\ Len(t.box) = Len(s.box)
                 /\ t.box[c].at = Under(s.box[c].at, KeyIn(s.box, c, x.k), [t |-> x.t, v |-> x.v])
    BY <2>5, RunValue
  <2>7. KeyIn(s.box, c, x.k) = f.k
    BY <2>2 DEF KeyIn
  <2> HIDE DEF e
  <2>8. PICK w : w = s.box[c].at
    OBVIOUS
  <2>9. PICK a : a = t.box[c].at
    OBVIOUS
  <2>10. a = Under(w, f.k, e)
    BY <2>6, <2>7, <2>8, <2>9 DEF e
  <2>11. DOMAIN a = DOMAIN w \cup {f.k} /\ a[f.k] = e /\ \A j \in DOMAIN w : j # f.k => a[j] = w[j]
    BY <2>10 DEF Under
  <2>12. EntryOK(t.box, met, a, f, v)
    <3>1. CASE f.t = "ref"
      BY <1>4, <2>3, <2>11, <3>1 DEF EntryOK, Leaves
    <3>2. CASE f.t \in Leaves
      BY <2>4, <2>11, <3>2 DEF EntryOK, Leaves
    <3> QED
      BY <1>4, <3>1, <3>2
  <2> QED
    BY <2>1, <2>6, <2>8, <2>9, <2>11, <2>12 DEF FieldRun
<1> QED
  BY <1>1, <1>2, <1>3, <1>4

----------------------------------------------------------------------------
(* The tokens of a layer                                                   *)

\* What an entry is does not depend on the other keys.
LEMMA EntrySame ==
  ASSUME NEW b, NEW met, NEW at, NEW to, NEW f, NEW v, EntryOK(b, met, at, f, v),
         f.k \in DOMAIN at => f.k \in DOMAIN to /\ to[f.k] = at[f.k],
         f.k \in DOMAIN to => f.k \in DOMAIN at
  PROVE  EntryOK(b, met, to, f, v)
BY DEF EntryOK

FieldsRun(s, xs, t, c, met, fs, body) ==
  /\ Runs(s, xs, t) /\ SameElse(s, t) /\ Kept(s.box, c, t.box)
  /\ ContextOK(t.box, met, c, fs, body)

\* The fields of a layer leave its context with all of them.
LEMMA RunFields ==
  ASSUME NEW met \in Seq(Obj), NEW fs \in Seq(Fields),
         \A i, j \in DOMAIN fs : fs[i].k = fs[j].k => i = j,
         NEW body, \A i \in DOMAIN fs : IsValue(fs[i].t, body[fs[i].k]),
         \A i \in DOMAIN fs : Range(Refs(fs[i], body[fs[i].k])) \subseteq Range(met),
         NEW s, BoxSeq(s.box), IsSeq(s.stack), NEW c \in DOMAIN s.box, Last(s.stack) = c,
         s.box[c].kind = "context", DOMAIN s.box[c].at = {}
  PROVE  LET xs == FlattenSeq([i \in DOMAIN fs |-> FieldTokens(met, fs[i], body[fs[i].k])])
         IN  xs \in Seq(Token) /\ \E t : FieldsRun(s, xs, t, c, met, fs, body)
<1> DEFINE seqs == [i \in DOMAIN fs |-> FieldTokens(met, fs[i], body[fs[i].k])]
           n == Len(fs)
<1>1. n \in Nat /\ DOMAIN fs = 1 .. n /\ \A i \in 1 .. n : fs[i] \in Fields
  OBVIOUS
<1>2. \A i \in 1 .. n : FieldTokens(met, fs[i], body[fs[i].k]) \in Seq(Token)
  <2>1. ASSUME NEW i \in 1 .. n PROVE FieldTokens(met, fs[i], body[fs[i].k]) \in Seq(Token)
    <3>1. i \in DOMAIN fs /\ fs[i] \in Fields
      BY <1>1
    <3>2. IsValue(fs[i].t, body[fs[i].k]) /\ Range(Refs(fs[i], body[fs[i].k])) \subseteq Range(met)
      BY <3>1
    <3> QED
      BY <3>1, <3>2, FieldTokensAre
  <2> QED
    BY <2>1
<1>3. seqs \in Seq(Seq(Token)) /\ Len(seqs) = n /\ \A i \in 1 .. n : seqs[i] = FieldTokens(met, fs[i], body[fs[i].k])
  <2>1. seqs \in [1 .. n -> Seq(Token)]
    BY <1>1, <1>2
  <2> QED
    BY <1>1, <2>1
<1> HIDE DEF seqs, n
<1>4. PICK f : /\ f[0] = <<>> /\ FlattenSeq(seqs) = f[Len(seqs)]
               /\ \A i \in 0 .. Len(seqs) : f[i] \in Seq(Token)
               /\ \A i \in 1 .. Len(seqs) : f[i] = f[i - 1] \o seqs[i]
  <2>1. \E f : Partial(Token, seqs, f)
    BY <1>3, FlattenSteps
  <2> QED
    BY Zenon, <2>1 DEF Partial
<1> DEFINE Done(i, t) ==
             /\ Runs(s, f[i], t) /\ SameElse(s, t) /\ Kept(s.box, c, t.box)
             /\ \A j \in 1 .. i : EntryOK(t.box, met, t.box[c].at, fs[j], body[fs[j].k])
             /\ DOMAIN t.box[c].at \subseteq {fs[j].k : j \in 1 .. i}
           T == {i \in Nat : i \in 0 .. n => \E t : Done(i, t)}
<1>5. 0 \in T
  <2>1. Runs(s, f[0], s)
    BY <1>4, RunNone
  <2>2. SameElse(s, s)
    BY DEF SameElse
  <2>3. Kept(s.box, c, s.box)
    <3>1. Len(s.box) \in Nat
      BY SeqPlaces DEF BoxSeq
    <3> QED
      BY <3>1 DEF Kept
  <2>4. \A j \in 1 .. 0 : FALSE
    OBVIOUS
  <2>5. Done(0, s)
    BY <2>1, <2>2, <2>3, <2>4
  <2> HIDE DEF Done
  <2> QED
    BY <2>5
<1>6. ASSUME NEW i \in Nat, i \in T PROVE i + 1 \in T
  <2> HIDE DEF Done
  <2> SUFFICES ASSUME i + 1 \in 0 .. n PROVE \E t : Done(i + 1, t)
    OBVIOUS
  <2>1. i \in 0 .. n /\ i + 1 \in 1 .. n /\ (i + 1) - 1 = i
    BY <1>1
  <2>2. PICK t : Done(i, t)
    BY <1>6, <2>1
  <2>3. /\ Runs(s, f[i], t) /\ SameElse(s, t) /\ Kept(s.box, c, t.box)
        /\ \A j \in 1 .. i : EntryOK(t.box, met, t.box[c].at, fs[j], body[fs[j].k])
        /\ DOMAIN t.box[c].at \subseteq {fs[j].k : j \in 1 .. i}
    BY <2>2 DEF Done
  <2> DEFINE g == fs[i + 1]
             v == body[g.k]
             xs == seqs[i + 1]
  <2>4. g \in Fields /\ IsValue(g.t, v) /\ Range(Refs(g, v)) \subseteq Range(met) /\ xs = FieldTokens(met, g, v)
        /\ xs \in Seq(Token)
    BY Zenon, <1>1, <1>2, <1>3, <2>1
  <2>5. BoxSeq(t.box) /\ c \in DOMAIN t.box /\ Last(t.stack) = c /\ IsSeq(t.stack) /\ t.box[c].kind = "context"
    <3>1. DOMAIN s.box \subseteq DOMAIN t.box
      <4>1. DOMAIN s.box = 1 .. Len(s.box) /\ Len(s.box) \in Nat
        BY SeqPlaces DEF BoxSeq
      <4>2. DOMAIN t.box = 1 .. Len(t.box) /\ Len(t.box) \in Nat /\ Len(s.box) <= Len(t.box)
        BY <2>3, SeqPlaces DEF BoxSeq, Kept
      <4> QED
        BY <4>1, <4>2
    <3> QED
      BY <2>3, <3>1 DEF Kept, SameElse
  <2>6. ASSUME NEW j \in 1 .. i PROVE fs[j].k # g.k
    <3>1. j \in DOMAIN fs /\ i + 1 \in DOMAIN fs /\ j # i + 1
      BY <1>1, <2>1
    <3> QED
      BY <3>1
  <2>7. g.k \notin DOMAIN t.box[c].at
    BY <2>3, <2>6
  <2> HIDE DEF g, v, xs
  <2>8. PICK u : FieldRun(t, FieldTokens(met, g, v), u, c, met, g, v)
    BY Zenon, <2>4, <2>5, <2>7, RunField
  <2>9. /\ Runs(t, xs, u) /\ SameElse(t, u) /\ Kept(t.box, c, u.box)
        /\ EntryOK(u.box, met, u.box[c].at, g, v)
        /\ DOMAIN u.box[c].at \subseteq DOMAIN t.box[c].at \cup {g.k}
        /\ \A j \in DOMAIN t.box[c].at : j # g.k => j \in DOMAIN u.box[c].at /\ u.box[c].at[j] = t.box[c].at[j]
    BY <2>4, <2>8 DEF FieldRun
  <2>10. Runs(s, f[i + 1], u)
    <3>1. f[i + 1] = f[i] \o xs /\ f[i] \in Seq(Token)
      BY Zenon, <1>3, <1>4, <2>1 DEF xs
    <3> QED
      BY <2>3, <2>4, <2>9, <3>1, RunBoth
  <2>11. SameElse(s, u)
    BY <2>3, <2>9 DEF SameElse
  <2>12. Kept(s.box, c, u.box)
    BY <2>3, <2>9, KeptTwice
  <2>13. ListsStay(t.box, u.box)
    <3>1. DOMAIN t.box = 1 .. Len(t.box) /\ Len(t.box) \in Nat
      BY <2>5, SeqPlaces DEF BoxSeq
    <3>2. DOMAIN u.box = 1 .. Len(u.box) /\ Len(u.box) \in Nat /\ Len(t.box) <= Len(u.box)
      BY <2>9, SeqPlaces DEF BoxSeq, Kept
    <3>3. \A j \in DOMAIN t.box : j \in DOMAIN u.box /\ (j # c => u.box[j] = t.box[j])
      BY <2>9, <3>1, <3>2 DEF Kept
    <3> QED
      BY <2>5, <3>3 DEF ListsStay
  <2>14. More(met, met)
    <3>1. Len(met) \in Nat
      OBVIOUS
    <3> QED
      BY <3>1 DEF More
  <2>15. ASSUME NEW j \in 1 .. i PROVE EntryOK(u.box, met, u.box[c].at, fs[j], body[fs[j].k])
    <3>1. EntryOK(t.box, met, t.box[c].at, fs[j], body[fs[j].k])
      BY <2>3
    <3>2. EntryOK(u.box, met, t.box[c].at, fs[j], body[fs[j].k])
      BY <2>13, <2>14, <3>1, EntryStays
    <3>3. /\ fs[j].k \in DOMAIN t.box[c].at => fs[j].k \in DOMAIN u.box[c].at /\ u.box[c].at[fs[j].k] = t.box[c].at[fs[j].k]
          /\ fs[j].k \in DOMAIN u.box[c].at => fs[j].k \in DOMAIN t.box[c].at
      BY <2>6, <2>9
    <3> QED
      BY <3>2, <3>3, EntrySame
  <2>16. \A j \in 1 .. i + 1 : j \in 1 .. i \/ j = i + 1
    OBVIOUS
  <2>17. \A j \in 1 .. i + 1 : EntryOK(u.box, met, u.box[c].at, fs[j], body[fs[j].k])
    BY <2>9, <2>15, <2>16 DEF g, v
  <2>18. DOMAIN u.box[c].at \subseteq {fs[j].k : j \in 1 .. i + 1}
    <3>1. g.k \in {fs[j].k : j \in 1 .. i + 1}
      BY DEF g
    <3>2. {fs[j].k : j \in 1 .. i} \subseteq {fs[j].k : j \in 1 .. i + 1}
      OBVIOUS
    <3> QED
      BY <2>3, <2>9, <3>1, <3>2
  <2>19. Done(i + 1, u)
    BY <2>10, <2>11, <2>12, <2>17, <2>18 DEF Done
  <2> QED
    BY <2>19
<1>7. Nat \subseteq T
  <2> HIDE DEF T
  <2> QED
    BY Zenon, <1>5, <1>6, NatsAssumptions, Nats!InductionOnSet
<1>8. \E t : Done(n, t)
  <2> HIDE DEF Done
  <2> QED
    BY <1>1, <1>7
<1>9. PICK t : Done(n, t)
  BY <1>8
<1>10. FlattenSeq(seqs) \in Seq(Token) /\ FlattenSeq(seqs) = f[n]
  BY <1>1, <1>3, <1>4
<1>11. ContextOK(t.box, met, c, fs, body)
  <2>1. c \in DOMAIN t.box
    <3>1. DOMAIN s.box = 1 .. Len(s.box) /\ Len(s.box) \in Nat
      BY SeqPlaces DEF BoxSeq
    <3>2. DOMAIN t.box = 1 .. Len(t.box) /\ Len(t.box) \in Nat /\ Len(s.box) <= Len(t.box)
      BY <1>9, SeqPlaces DEF BoxSeq, Kept
    <3> QED
      BY <3>1, <3>2
  <2> QED
    BY <1>1, <1>9, <2>1 DEF ContextOK, Kept
<1>12. FieldsRun(s, FlattenSeq(seqs), t, c, met, fs, body)
  BY <1>9, <1>10, <1>11 DEF FieldsRun
<1> QED
  BY Zenon, <1>10, <1>12 DEF seqs

\* The names process() has read are those of nm.
DbIs(ids, nm) == DOMAIN ids = 0 .. Len(nm) - 1 /\ \A i \in 1 .. Len(nm) : ids[i - 1] = nm[i]

\* The classes that have been named are no more than there are.
LEMMA NotMoreNames ==
  ASSUME NEW nm \in Seq(Class), Distinct(nm)
  PROVE  Len(nm) <= Cardinality(Class) /\ Cardinality(Class) \in Nat
<1>1. IsFiniteSet(Class)
  BY MmPackAssumption
<1>2. Cardinality(Class) \in Nat
  BY <1>1, FS_CardinalityType
<1>3. Len(nm) \in Nat /\ nm \in [1 .. Len(nm) -> Class] /\ DOMAIN nm = 1 .. Len(nm)
  OBVIOUS
<1> DEFINE S == 1 .. Len(nm)
<1>4. nm \in Injection(S, Class)
  BY <1>3 DEF Distinct, Injection, IsInjective
<1>5. Cardinality(S) <= Cardinality(Class)
  <2> HIDE DEF S
  <2> QED
    BY <1>1, <1>4, FS_Injection
<1>6. Cardinality(S) = Len(nm)
  <2>1. CASE Len(nm) = 0
    <3>1. S = {}
      BY <2>1
    <3> HIDE DEF S
    <3> QED
      BY <2>1, <3>1, FS_EmptySet
  <2>2. CASE Len(nm) # 0
    BY <1>3, <2>2, FS_Interval
  <2> QED
    BY <2>1, <2>2
<1> QED
  BY <1>2, <1>5, <1>6

\* A name that is new is read.
NameRun(s, t, n) ==
  /\ Runs(s, NameTokens(n), t) /\ DbIs(t.db, Named(n))
  /\ t.current = s.current /\ t.box = s.box /\ t.stack = s.stack /\ t.objects = s.objects

\* A name in the stream gets the number the packer gave it.
LEMMA RunName ==
  ASSUME names \in Seq(Class), Distinct(names), NEW n \in Class, NEW s, DbIs(s.db, names)
  PROVE  /\ Distinct(Named(n)) /\ Named(n) \in Seq(Class) /\ Id(Named(n), n) \in 0 .. Len(Named(n)) - 1
         /\ Named(n)[Id(Named(n), n) + 1] = n
         /\ NameTokens(n) \in Seq(Token) /\ \E t : NameRun(s, t, n)
<1>1. Named(n) \in Seq(Class) /\ n \in Range(Named(n)) /\ NameTokens(n) \in Seq(Token)
  <2>1. 0 \in Nat
    OBVIOUS
  <2> QED
    BY <2>1, NameIs
<1>2. Id(Named(n), n) \in 0 .. Len(Named(n)) - 1 /\ Named(n)[Id(Named(n), n) + 1] = n
  BY <1>1, IdIs
<1>3. CASE n \in Range(names)
  <2>1. Named(n) = names /\ NameTokens(n) = <<>>
    BY <1>3 DEF Named, NameTokens
  <2>2. NameRun(s, s, n)
    BY <2>1, RunNone DEF NameRun
  <2> QED
    BY <1>1, <1>2, <2>1, <2>2
<1>4. CASE n \notin Range(names)
  <2> DEFINE x == Tok("name", Len(names), n)
             nm == Named(n)
             m == Len(names)
  <2>1. nm = Append(names, n) /\ NameTokens(n) = <<x>>
    BY <1>4 DEF Named, NameTokens
  <2>2. m \in Nat /\ Len(nm) = m + 1 /\ nm[m + 1] = n /\ DOMAIN nm = 1 .. m + 1 /\ DOMAIN names = 1 .. m
        /\ \A i \in 1 .. m : nm[i] = names[i]
    BY <2>1
  <2>3. \A i \in 1 .. m : names[i] # n
    BY <1>4, <2>2 DEF Range
  <2>4. Distinct(nm)
    <3> HIDE DEF nm, m
    <3>1. \A i \in 1 .. m + 1 : i \in 1 .. m \/ i = m + 1
      BY <2>2
    <3> QED
      BY <2>2, <2>3, <3>1 DEF Distinct
  <2>5. m \in 0 .. Cardinality(Class) - 1
    <3>1. Len(nm) <= Cardinality(Class) /\ Cardinality(Class) \in Nat
      BY <1>1, <2>4, NotMoreNames
    <3> QED
      BY <2>2, <3>1
  <2>6. PICK ids : ids = Under(s.db, m, n)
    OBVIOUS
  <2>7. PICK t : t = [current |-> s.current, db |-> ids, box |-> s.box, stack |-> s.stack, objects |-> s.objects]
    BY Zenon
  <2>8. /\ t.current = s.current /\ t.box = s.box /\ t.stack = s.stack /\ t.objects = s.objects /\ t.db = ids
    BY <2>7
  <2>9. x.t = "name" /\ x.k = m /\ x.v = n
    BY DEF Tok
  <2>10. m \notin DOMAIN s.db /\ DOMAIN s.db = 0 .. m - 1
    BY <2>2 DEF DbIs
  <2>11. Runs(s, <<x>>, t)
    <3> HIDE DEF x, m
    <3>1. ReadsName(x, s, t)
      BY <2>5, <2>6, <2>8, <2>9, <2>10 DEF ReadsName
    <3>2. Reads(x, s, t)
      BY <3>1 DEF Reads
    <3> QED
      BY <3>2, RunOne
  <2>12. DbIs(ids, nm)
    <3>1. PICK a : a = s.db
      OBVIOUS
    <3>2. DOMAIN ids = DOMAIN a \cup {m} /\ ids[m] = n /\ \A i \in DOMAIN a : i # m => ids[i] = a[i]
      BY <2>6, <3>1 DEF Under
    <3>3. DOMAIN ids = 0 .. (m + 1) - 1
      BY <2>2, <2>10, <3>1, <3>2
    <3>4. ASSUME NEW i \in 1 .. m + 1 PROVE ids[i - 1] = nm[i]
      <4>1. CASE i = m + 1
        BY <2>2, <3>2, <4>1
      <4>2. CASE i # m + 1
        <5>1. i \in 1 .. m /\ i - 1 \in 0 .. m - 1 /\ i - 1 # m
          BY <2>2, <4>2
        <5>2. a[i - 1] = names[i]
          BY <3>1, <5>1 DEF DbIs
        <5> QED
          BY <2>2, <2>10, <3>1, <3>2, <5>1, <5>2
      <4> QED
        BY <4>1, <4>2
    <3> QED
      BY <2>2, <3>3, <3>4 DEF DbIs
  <2>13. NameRun(s, t, n)
    BY <2>1, <2>8, <2>11, <2>12 DEF NameRun
  <2> QED
    BY <1>1, <1>2, <2>4, <2>13
<1> QED
  BY <1>3, <1>4

----------------------------------------------------------------------------
(* Objects and contexts on the stack                                       *)

\* On the stack are the roots, the object m and maybe a context of it.
StackAt(s, m) ==
  s.stack = <<1, m>> \/ \E c \in Nat : c # m /\ s.stack = <<1, m, c>>

\* Sequences of the same elements are the same.
LEMMA SameSeq ==
  ASSUME NEW S, NEW s \in Seq(S), NEW t \in Seq(S), Len(s) = Len(t), \A i \in 1 .. Len(s) : s[i] = t[i]
  PROVE  s = t
OBVIOUS

\* A sequence with one more element.
LEMMA AppendIs ==
  ASSUME NEW S, NEW s \in Seq(S), NEW x \in S
  PROVE  /\ Append(s, x) \in Seq(S) /\ Len(Append(s, x)) = Len(s) + 1 /\ Append(s, x)[Len(s) + 1] = x
         /\ \A i \in 1 .. Len(s) : Append(s, x)[i] = s[i]
OBVIOUS

\* The stack of an object, and that of a context of it.
LEMMA Pair ==
  ASSUME NEW m \in Nat
  PROVE  /\ <<1, m>> \in Seq(Nat) /\ <<1, m>> # <<>> /\ Len(<<1, m>>) = 2 /\ <<1, m>>[1] = 1 /\ <<1, m>>[2] = m
         /\ Last(<<1, m>>) = m /\ Front(<<1, m>>) = << 1 >> /\ Append(<< 1 >>, m) = <<1, m>>
<1> DEFINE z == <<1, m>>
           y == << 1 >>
<1>1. Len(z) = 2 /\ z[1] = 1 /\ z[2] = m /\ z \in Seq(Nat) /\ y \in Seq(Nat) /\ Len(y) = 1 /\ y[1] = 1
  OBVIOUS
<1> HIDE DEF z, y
<1>2. z # <<>> /\ Last(z) = m
  BY SMTT(30), <1>1 DEF Last
<1>3. Front(z) = y
  <2>1. Front(z) \in Seq(Nat) /\ Len(Front(z)) = 1 /\ Front(z)[1] = 1
    <3>1. Len(z) - 1 = 1
      BY <1>1
    <3>2. SubSeq(z, 1, 1) \in Seq(Nat) /\ Len(SubSeq(z, 1, 1)) = 1 /\ SubSeq(z, 1, 1)[1] = z[1]
      BY <1>1
    <3> QED
      BY <1>1, <3>1, <3>2 DEF Front
  <2> QED
    BY <1>1, <2>1
<1>4. Append(y, m) = z
  <2>1. Append(y, m) \in Seq(Nat) /\ Len(Append(y, m)) = 2 /\ Append(y, m)[1] = 1 /\ Append(y, m)[2] = m
    <3>1. /\ Append(y, m) \in Seq(Nat) /\ Len(Append(y, m)) = Len(y) + 1 /\ Append(y, m)[Len(y) + 1] = m
          /\ \A i \in 1 .. Len(y) : Append(y, m)[i] = y[i]
      <4>1. PICK S : S = Nat
        BY Zenon
      <4>2. y \in Seq(S) /\ m \in S
        BY <1>1, <4>1
      <4>3. /\ Append(y, m) \in Seq(S) /\ Len(Append(y, m)) = Len(y) + 1 /\ Append(y, m)[Len(y) + 1] = m
            /\ \A i \in 1 .. Len(y) : Append(y, m)[i] = y[i]
        BY <4>2, AppendIs
      <4> QED
        BY <4>1, <4>3
    <3> QED
      BY <1>1, <3>1
  <2>2. \A i \in 1 .. 2 : i = 1 \/ i = 2
    OBVIOUS
  <2>3. \A i \in 1 .. 2 : Append(y, m)[i] = z[i]
    BY <1>1, <2>1, <2>2
  <2> QED
    BY <1>1, <2>1, <2>3, SameSeq
<1> QED
  BY <1>1, <1>2, <1>3, <1>4 DEF y, z

\* The stack while the context of an object is filled.
LEMMA Triple ==
  ASSUME NEW m \in Nat, NEW c \in Nat
  PROVE  /\ <<1, m, c>> \in Seq(Nat) /\ Len(<<1, m, c>>) = 3
         /\ <<1, m, c>>[1] = 1 /\ <<1, m, c>>[2] = m /\ <<1, m, c>>[3] = c
         /\ Last(<<1, m, c>>) = c /\ Append(<<1, m>>, c) = <<1, m, c>>
         /\ SubSeq(<<1, m, c>>, 1, 2) = <<1, m>>
<1> DEFINE z == <<1, m, c>>
           y == <<1, m>>
<1>1. Len(z) = 3 /\ z[1] = 1 /\ z[2] = m /\ z[3] = c /\ z \in Seq(Nat)
  OBVIOUS
<1>2. Len(y) = 2 /\ y[1] = 1 /\ y[2] = m /\ y \in Seq(Nat)
  OBVIOUS
<1> HIDE DEF z, y
<1>3. Last(z) = c
  BY <1>1 DEF Last
<1>4. Append(y, c) = z
  <2>1. Append(y, c) \in Seq(Nat) /\ Len(Append(y, c)) = 3 /\ Append(y, c)[3] = c
        /\ Append(y, c)[1] = 1 /\ Append(y, c)[2] = m
    <3>1. /\ Append(y, c) \in Seq(Nat) /\ Len(Append(y, c)) = Len(y) + 1 /\ Append(y, c)[Len(y) + 1] = c
          /\ \A i \in 1 .. Len(y) : Append(y, c)[i] = y[i]
      <4>1. PICK S : S = Nat
        BY Zenon
      <4>2. y \in Seq(S) /\ c \in S
        BY <1>2, <4>1
      <4>3. /\ Append(y, c) \in Seq(S) /\ Len(Append(y, c)) = Len(y) + 1 /\ Append(y, c)[Len(y) + 1] = c
            /\ \A i \in 1 .. Len(y) : Append(y, c)[i] = y[i]
        BY <4>2, AppendIs
      <4> QED
        BY <4>1, <4>3
    <3>2. 1 \in 1 .. 2 /\ 2 \in 1 .. 2
      OBVIOUS
    <3> QED
      BY <1>2, <3>1, <3>2
  <2>2. \A i \in 1 .. 3 : i = 1 \/ i = 2 \/ i = 3
    OBVIOUS
  <2>3. \A i \in 1 .. 3 : Append(y, c)[i] = z[i]
    BY <1>1, <2>1, <2>2
  <2> QED
    BY Zenon, <1>1, <2>1, <2>3, SameSeq
<1>5. SubSeq(z, 1, 2) = y
  <2>1. SubSeq(z, 1, 2) \in Seq(Nat) /\ Len(SubSeq(z, 1, 2)) = 2 /\ SubSeq(z, 1, 2)[1] = 1 /\ SubSeq(z, 1, 2)[2] = m
    BY <1>1
  <2>2. \A i \in 1 .. 2 : i = 1 \/ i = 2
    OBVIOUS
  <2>3. \A i \in 1 .. 2 : SubSeq(z, 1, 2)[i] = y[i]
    BY <1>2, <2>1, <2>2
  <2> QED
    BY <1>2, <2>1, <2>3, SameSeq
<1> QED
  BY <1>1, <1>3, <1>4, <1>5 DEF y, z

\* What comes after the object is popped.
LEMMA Down ==
  ASSUME NEW s, NEW m \in Nat, m # 1, StackAt(s, m)
  PROVE  DownTo(s.stack, m) = <<1, m>> /\ m \in Range(s.stack)
<1>1. PICK z : z = s.stack
  OBVIOUS
<1>2. z \in Seq(Nat) /\ z[2] = m /\ SubSeq(z, 1, 2) = <<1, m>> /\ 2 \in DOMAIN z
      /\ \A i \in DOMAIN z : z[i] = m => i = 2
  <2>1. CASE z = <<1, m>>
    <3>1. z \in Seq(Nat) /\ Len(z) = 2 /\ z[1] = 1 /\ z[2] = m
      BY <2>1, Pair
    <3>2. SubSeq(z, 1, 2) = z
      BY <3>1
    <3>3. DOMAIN z = 1 .. 2
      BY <3>1
    <3>4. \A i \in 1 .. 2 : i = 1 \/ i = 2
      OBVIOUS
    <3> QED
      BY <2>1, <3>1, <3>2, <3>3, <3>4
  <2>2. ASSUME NEW c \in Nat, c # m, z = <<1, m, c>>
        PROVE  z \in Seq(Nat) /\ z[2] = m /\ SubSeq(z, 1, 2) = <<1, m>> /\ 2 \in DOMAIN z
               /\ \A i \in DOMAIN z : z[i] = m => i = 2
    <3>1. z \in Seq(Nat) /\ Len(z) = 3 /\ z[1] = 1 /\ z[2] = m /\ z[3] = c /\ SubSeq(z, 1, 2) = <<1, m>>
      BY Zenon, <2>2, Triple
    <3>2. DOMAIN z = 1 .. 3
      BY <3>1
    <3>3. \A i \in 1 .. 3 : i = 1 \/ i = 2 \/ i = 3
      OBVIOUS
    <3> QED
      BY <2>2, <3>1, <3>2, <3>3
  <2> QED
    BY <1>1, <2>1, <2>2 DEF StackAt
<1>3. (CHOOSE i \in DOMAIN z : z[i] = m) = 2
  BY <1>2
<1>4. DownTo(z, m) = <<1, m>>
  BY <1>2, <1>3 DEF DownTo
<1>5. m \in Range(z)
  BY <1>2 DEF Range
<1> QED
  BY <1>1, <1>4, <1>5

\* The object at work, and what is on the stack of it.
OnObject(s, m) ==
  /\ BoxSeq(s.box) /\ m \in DOMAIN s.box /\ m # 1 /\ StackAt(s, m)
  /\ s.current # Null /\ s.current.box = m

\* From s to t a context c has come to the object m, under a name.
ContextNew(s, t, m, n, c) ==
  /\ t.current = s.current /\ t.objects = s.objects
  /\ t.stack = <<1, m, c>> /\ c \in Nat /\ c # 1 /\ c # m
  /\ BoxSeq(t.box) /\ c \notin DOMAIN s.box /\ c \in DOMAIN t.box
  /\ \A j \in DOMAIN s.box : j \in DOMAIN t.box /\ (j # m => t.box[j] = s.box[j])
  /\ t.box[m].kind = s.box[m].kind /\ t.box[m].cls = s.box[m].cls /\ t.box[m].at = s.box[m].at
  /\ t.box[m].ctx = Under(s.box[m].ctx, n, c) /\ t.box[c].kind = "context"

\* The tag of a context makes it, in place of the one before.
LEMMA RunContext ==
  ASSUME NEW s, NEW m, OnObject(s, m), NEW k, k \in DOMAIN s.db
  PROVE  \E t, c : /\ Runs(s, <<Tok("context", k, Null)>>, t) /\ t.db = s.db
                   /\ ContextNew(s, t, m, s.db[k], c) /\ t.box[c].at = Empty
<1> DEFINE x == Tok("context", k, Null)
           n == s.db[k]
<1>1. PICK b : b = s.box
  OBVIOUS
<1>2. BoxSeq(b) /\ m \in DOMAIN b /\ m # 1 /\ DOMAIN b = 1 .. Len(b) /\ Len(b) \in Nat /\ m \in Nat
  <2>1. BoxSeq(b) /\ m \in DOMAIN b /\ m # 1
    BY <1>1 DEF OnObject
  <2>2. DOMAIN b = 1 .. Len(b) /\ Len(b) \in Nat
    BY <2>1, SeqPlaces DEF BoxSeq
  <2> QED
    BY <2>1, <2>2
<1>3. DownTo(s.stack, m) = <<1, m>> /\ m \in Range(s.stack)
  BY <1>2, Down DEF OnObject
<1> DEFINE c == Len(b) + 1
           w == Under(b[m].ctx, n, c)
<1>4. PICK d : d = [b EXCEPT ![m].ctx = w]
  BY Zenon
<1>5. b[m] = [kind |-> b[m].kind, cls |-> b[m].cls, ctx |-> b[m].ctx, at |-> b[m].at]
  BY <1>2 DEF BoxSeq, IsBox
<1> HIDE DEF w
<1>6. /\ DOMAIN d = DOMAIN b /\ d = [j \in DOMAIN b |-> d[j]]
      /\ d[m] = [b[m] EXCEPT !.ctx = w]
      /\ \A j \in DOMAIN b : j # m => d[j] = b[j]
  BY Zenon, <1>2, <1>4
<1>7. d[m] = [kind |-> b[m].kind, cls |-> b[m].cls, ctx |-> w, at |-> b[m].at]
  <2>1. PICK kind, cls, ctx, at : b[m] = [kind |-> kind, cls |-> cls, ctx |-> ctx, at |-> at]
    BY Zenon, <1>5
  <2>2. d[m] = [kind |-> kind, cls |-> cls, ctx |-> w, at |-> at]
    BY <1>6, <2>1
  <2>3. b[m].kind = kind /\ b[m].cls = cls /\ b[m].at = at
    BY <2>1
  <2> QED
    BY <2>2, <2>3
<1>8. d[m].kind = b[m].kind /\ d[m].cls = b[m].cls /\ d[m].ctx = w /\ d[m].at = b[m].at
  BY <1>7
<1>9. BoxSeq(d) /\ Len(d) = Len(b)
  <2>1. IsSeq(d) /\ Len(d) = Len(b)
    BY <1>2, <1>6, SeqReplaced DEF BoxSeq
  <2>2. IsBox(d[m])
    BY <1>7, <1>8 DEF IsBox
  <2> QED
    BY <1>2, <1>6, <2>1, <2>2 DEF BoxSeq
<1>10. PICK g : g = WithBox(d, "context", Null)
  OBVIOUS
<1>11. /\ BoxSeq(g) /\ Len(g) = Len(d) + 1 /\ DOMAIN d = 1 .. Len(d)
       /\ \A j \in DOMAIN d : g[j] = d[j]
       /\ Len(d) + 1 \in DOMAIN g /\ Len(d) + 1 \notin DOMAIN d
       /\ g[Len(d) + 1].kind = "context" /\ g[Len(d) + 1].at = Empty
  BY <1>9, <1>10, NewBoxIs
<1>12. DOMAIN g = 1 .. Len(b) + 1
  <2>1. DOMAIN g = 1 .. Len(g)
    BY <1>11, SeqPlaces DEF BoxSeq
  <2> QED
    BY <1>9, <1>11, <2>1
<1>13. c \in Nat /\ c \in DOMAIN g /\ c \notin DOMAIN b /\ c # m /\ c # 1
       /\ \A j \in DOMAIN b : j \in DOMAIN g
  BY <1>2, <1>12
<1>14. Last(<<1, m>>) = m /\ Append(<<1, m>>, c) = <<1, m, c>>
  BY Zenon, <1>2, <1>13, Pair, Triple
<1>15. PICK st : st = Append(<<1, m>>, c)
  BY Zenon
<1>16. PICK t : t = [current |-> s.current, db |-> s.db, box |-> g, stack |-> st, objects |-> s.objects]
  BY Zenon
<1>17. t.current = s.current /\ t.db = s.db /\ t.objects = s.objects /\ t.box = g /\ t.stack = st
  BY <1>16
<1>18. x.t = "context" /\ x.k = k
  BY DEF Tok
<1>19. Runs(s, <<x>>, t)
  <2> HIDE DEF x
  <2>1. s.current # Null /\ s.current.box = m
    BY DEF OnObject
  <2>2. DownTo(s.stack, s.current.box) = <<1, m>> /\ Last(DownTo(s.stack, s.current.box)) = m
        /\ s.current.box \in Range(s.stack)
    BY <1>3, <1>14, <2>1
  <2>3. t.box = Append([s.box EXCEPT ![m].ctx = Under(s.box[m].ctx, s.db[x.k], Len(s.box) + 1)], NewBox("context", Null))
    BY <1>1, <1>4, <1>10, <1>17, <1>18 DEF w, WithBox
  <2>4. t.stack = Append(DownTo(s.stack, s.current.box), Len(s.box) + 1)
    BY <1>1, <1>15, <1>17, <2>2
  <2>5. ReadsContext(x, s, t)
    BY Zenon, <1>17, <1>18, <2>1, <2>2, <2>3, <2>4 DEF ReadsContext
  <2>6. Reads(x, s, t)
    BY <2>5 DEF Reads
  <2> QED
    BY <2>6, RunOne
<1>20. ContextNew(s, t, m, n, c)
  <2>1. t.stack = <<1, m, c>>
    BY <1>14, <1>15, <1>17
  <2>2. \A j \in DOMAIN b : j # m => g[j] = b[j]
    BY <1>6, <1>11
  <2>3. g[m].kind = b[m].kind /\ g[m].cls = b[m].cls /\ g[m].at = b[m].at /\ g[m].ctx = Under(b[m].ctx, n, c)
    BY <1>2, <1>6, <1>8, <1>11 DEF w
  <2>4. g[c].kind = "context"
    BY <1>9, <1>11
  <2> QED
    BY <1>1, <1>11, <1>13, <1>17, <2>1, <2>2, <2>3, <2>4 DEF ContextNew
<1>21. t.box[c].at = Empty
  BY <1>9, <1>11, <1>17
<1> QED
  BY <1>17, <1>19, <1>20, <1>21 DEF x

\* A layer: maybe its name, its context and its fields.
LayerTokens(met, n, fs, body) ==
  NameTokens(n) \o <<Tok("context", Id(Named(n), n), Null)>>
    \o FlattenSeq([i \in DOMAIN fs |-> FieldTokens(met, fs[i], body[fs[i].k])])

LayerRun(s, t, m, met, n, fs, body) ==
  /\ Runs(s, LayerTokens(met, n, fs, body), t) /\ DbIs(t.db, Named(n))
  /\ \E c : ContextNew(s, t, m, n, c) /\ ContextOK(t.box, met, c, fs, body)

\* The tokens of a layer make its context and fill it.
LEMMA RunLayer ==
  ASSUME names \in Seq(Class), Distinct(names), NEW n \in Class,
         NEW met \in Seq(Obj), NEW fs \in Seq(Fields),
         \A i, j \in DOMAIN fs : fs[i].k = fs[j].k => i = j,
         NEW body, \A i \in DOMAIN fs : IsValue(fs[i].t, body[fs[i].k]),
         \A i \in DOMAIN fs : Range(Refs(fs[i], body[fs[i].k])) \subseteq Range(met),
         NEW s, NEW m, OnObject(s, m), DbIs(s.db, names)
  PROVE  LayerTokens(met, n, fs, body) \in Seq(Token) /\ \E t : LayerRun(s, t, m, met, n, fs, body)
<1> DEFINE k == Id(Named(n), n)
           x == Tok("context", k, Null)
           ys == NameTokens(n)
           zs == FlattenSeq([i \in DOMAIN fs |-> FieldTokens(met, fs[i], body[fs[i].k])])
<1>1. /\ Distinct(Named(n)) /\ Named(n) \in Seq(Class) /\ k \in 0 .. Len(Named(n)) - 1
      /\ Named(n)[k + 1] = n
      /\ ys \in Seq(Token) /\ \E t : NameRun(s, t, n)
  BY RunName
<1> HIDE DEF k, ys, zs
<1>2. PICK t1 : NameRun(s, t1, n)
  BY <1>1
<1>3. /\ Runs(s, ys, t1) /\ DbIs(t1.db, Named(n))
      /\ t1.current = s.current /\ t1.box = s.box /\ t1.stack = s.stack /\ t1.objects = s.objects
  BY <1>2 DEF NameRun, ys
<1>4. OnObject(t1, m)
  BY <1>3 DEF OnObject, StackAt
<1>5. k \in DOMAIN t1.db /\ t1.db[k] = n
  <2>1. k + 1 \in 1 .. Len(Named(n)) /\ (k + 1) - 1 = k
    BY <1>1
  <2>2. t1.db[(k + 1) - 1] = n
    BY Zenon, <1>1, <1>3, <2>1 DEF DbIs
  <2> QED
    BY <1>1, <1>3, <2>1, <2>2 DEF DbIs
<1>6. PICK t2, c : /\ Runs(t1, <<x>>, t2) /\ t2.db = t1.db
                   /\ ContextNew(t1, t2, m, t1.db[k], c) /\ t2.box[c].at = Empty
  BY <1>4, <1>5, RunContext
<1>7. ContextNew(t1, t2, m, n, c)
  BY <1>5, <1>6
<1>8. BoxSeq(t2.box) /\ IsSeq(t2.stack) /\ c \in DOMAIN t2.box /\ Last(t2.stack) = c
      /\ t2.box[c].kind = "context" /\ DOMAIN t2.box[c].at = {}
  <2>1. m \in Nat
    <3>1. DOMAIN s.box = 1 .. Len(s.box) /\ Len(s.box) \in Nat /\ m \in DOMAIN s.box
      BY SeqPlaces DEF BoxSeq, OnObject
    <3> QED
      BY <3>1
  <2>2. c \in Nat /\ t2.stack = <<1, m, c>>
    BY <1>7 DEF ContextNew
  <2>3. <<1, m, c>> \in Seq(Nat) /\ Last(<<1, m, c>>) = c
    BY Zenon, <2>1, <2>2, Triple
  <2>4. IsSeq(<<1, m, c>>)
    BY Zenon, <2>3, SeqIs
  <2>5. DOMAIN Empty = {}
    BY DEF Empty
  <2> QED
    BY <1>6, <1>7, <2>2, <2>3, <2>4, <2>5 DEF ContextNew
<1>9. zs \in Seq(Token) /\ \E t : FieldsRun(t2, zs, t, c, met, fs, body)
  BY ZenonT(60), <1>8, RunFields DEF zs
<1>10. PICK t3 : FieldsRun(t2, zs, t3, c, met, fs, body)
  BY <1>9
<1>11. /\ Runs(t2, zs, t3) /\ SameElse(t2, t3) /\ Kept(t2.box, c, t3.box)
       /\ ContextOK(t3.box, met, c, fs, body)
  BY <1>10 DEF FieldsRun
<1>12. x \in Token
  <2>1. k \in Nat
    BY <1>1
  <2> QED
    BY <2>1 DEF Tok, Token, Kinds
<1> HIDE DEF x
<1>13. <<x>> \in Seq(Token)
  BY <1>12
<1>14. PICK xs : xs = <<x>>
  BY Zenon
<1>15. Runs(s, (ys \o xs) \o zs, t3) /\ (ys \o xs) \o zs \in Seq(Token)
  <2>1. xs \in Seq(Token) /\ Runs(t1, xs, t2)
    BY <1>6, <1>13, <1>14
  <2>2. Runs(s, ys \o xs, t2)
    BY <1>1, <1>3, <2>1, RunBoth
  <2>3. ys \o xs \in Seq(Token)
    BY <1>1, <2>1, ConcatIs
  <2>4. (ys \o xs) \o zs \in Seq(Token)
    BY <1>9, <2>3, ConcatIs
  <2> QED
    BY Zenon, <1>9, <1>11, <2>2, <2>3, <2>4, RunBoth
<1>16. LayerTokens(met, n, fs, body) = (ys \o xs) \o zs
  BY <1>14 DEF LayerTokens, ys, zs, x, k
<1>17. ContextNew(s, t3, m, n, c)
  <2>1. /\ BoxSeq(t3.box)
        /\ \A j \in DOMAIN t2.box : j \in DOMAIN t3.box /\ (j # c => t3.box[j] = t2.box[j])
    <3>1. DOMAIN t2.box = 1 .. Len(t2.box) /\ Len(t2.box) \in Nat
      BY <1>8, SeqPlaces DEF BoxSeq
    <3>2. BoxSeq(t3.box) /\ Len(t2.box) <= Len(t3.box) /\ \A j \in DOMAIN t2.box : j # c => t3.box[j] = t2.box[j]
      BY <1>11 DEF Kept
    <3>3. DOMAIN t3.box = 1 .. Len(t3.box) /\ Len(t3.box) \in Nat
      BY <3>2, SeqPlaces DEF BoxSeq
    <3> QED
      BY <3>1, <3>2, <3>3
  <2>2. m \in DOMAIN s.box
    BY DEF OnObject
  <2>3. /\ t2.current = s.current /\ t2.objects = s.objects
        /\ t2.stack = <<1, m, c>> /\ c \in Nat /\ c # 1 /\ c # m
        /\ c \notin DOMAIN s.box /\ c \in DOMAIN t2.box
        /\ \A j \in DOMAIN s.box : j \in DOMAIN t2.box /\ (j # m => t2.box[j] = s.box[j])
        /\ t2.box[m].kind = s.box[m].kind /\ t2.box[m].cls = s.box[m].cls /\ t2.box[m].at = s.box[m].at
        /\ t2.box[m].ctx = Under(s.box[m].ctx, n, c)
    BY <1>3, <1>7 DEF ContextNew
  <2>4. t3.box[m] = t2.box[m]
    BY <2>1, <2>2, <2>3
  <2>5. \A j \in DOMAIN s.box : j \in DOMAIN t3.box /\ (j # m => t3.box[j] = s.box[j])
    BY <2>1, <2>3
  <2>6. t3.box[c].kind = "context" /\ c \in DOMAIN t3.box
    BY <1>11 DEF ContextOK
  <2>7. t3.current = t2.current /\ t3.objects = t2.objects /\ t3.stack = t2.stack
    BY <1>11 DEF SameElse
  <2> QED
    BY <2>1, <2>3, <2>4, <2>5, <2>6, <2>7 DEF ContextNew
<1>18. DbIs(t3.db, Named(n))
  BY <1>3, <1>6, <1>11 DEF SameElse
<1>19. LayerRun(s, t3, m, met, n, fs, body)
  BY <1>11, <1>15, <1>16, <1>17, <1>18 DEF LayerRun
<1> QED
  BY <1>15, <1>16, <1>19

\* From s to t an object has begun: its number is k, its class cls, its box m.
ObjectBegun(s, t, k, cls, m) ==
  /\ t.current = [num |-> k, box |-> m] /\ t.stack = <<1, m>>
  /\ t.objects = Under(s.objects, k, [t |-> "map", v |-> m])
  /\ BoxSeq(t.box) /\ m \in Nat /\ m \notin DOMAIN s.box /\ m \in DOMAIN t.box
  /\ \A j \in DOMAIN s.box : j \in DOMAIN t.box /\ t.box[j] = s.box[j]
  /\ t.box[m].kind = "object" /\ t.box[m].cls = cls /\ t.box[m].ctx = Empty

BeginTokens(k, cls) == NameTokens(cls) \o <<Tok("object", k, Id(Named(cls), cls))>>

\* The tag an object begins with makes its map, under its number.
LEMMA RunBegin ==
  ASSUME names \in Seq(Class), Distinct(names), NEW cls \in Class, NEW k \in Nat,
         NEW s, BoxSeq(s.box), s.current = Null, s.stack = << 1 >>, DbIs(s.db, names)
  PROVE  /\ BeginTokens(k, cls) \in Seq(Token)
         /\ \E t, m : Runs(s, BeginTokens(k, cls), t) /\ ObjectBegun(s, t, k, cls, m) /\ DbIs(t.db, Named(cls))
<1> DEFINE i == Id(Named(cls), cls)
           x == Tok("object", k, i)
           ys == NameTokens(cls)
<1>1. /\ Named(cls) \in Seq(Class) /\ i \in 0 .. Len(Named(cls)) - 1
      /\ Named(cls)[i + 1] = cls
      /\ ys \in Seq(Token) /\ \E t : NameRun(s, t, cls)
  BY RunName
<1> HIDE DEF i, ys
<1>2. PICK t1 : NameRun(s, t1, cls)
  BY <1>1
<1>3. /\ Runs(s, ys, t1) /\ DbIs(t1.db, Named(cls))
      /\ t1.current = s.current /\ t1.box = s.box /\ t1.stack = s.stack /\ t1.objects = s.objects
  BY <1>2 DEF NameRun, ys
<1>4. i \in DOMAIN t1.db /\ t1.db[i] = cls
  <2>1. i + 1 \in 1 .. Len(Named(cls)) /\ (i + 1) - 1 = i
    BY <1>1
  <2>2. t1.db[(i + 1) - 1] = cls
    BY <1>1, <1>3, <2>1 DEF DbIs
  <2> QED
    BY <1>1, <1>3, <2>1, <2>2 DEF DbIs
<1>5. PICK b : b = s.box
  OBVIOUS
<1>6. PICK g : g = WithBox(b, "object", cls)
  OBVIOUS
<1>7. /\ BoxSeq(g) /\ Len(b) \in Nat /\ DOMAIN b = 1 .. Len(b)
      /\ \A j \in DOMAIN b : g[j] = b[j]
      /\ Len(b) + 1 \in DOMAIN g /\ Len(b) + 1 \notin DOMAIN b /\ Len(g) = Len(b) + 1
      /\ g[Len(b) + 1].kind = "object" /\ g[Len(b) + 1].cls = cls
      /\ g[Len(b) + 1].ctx = Empty
  <2>1. BoxSeq(b)
    BY <1>5
  <2> QED
    BY <1>6, <2>1, NewBoxIs
<1> DEFINE m == Len(b) + 1
<1>8. PICK st : st = Append(<< 1 >>, m)
  BY Zenon
<1>9. st = <<1, m>>
  <2>1. m \in Nat
    BY <1>7
  <2> QED
    BY Zenon, <1>8, <2>1, Pair
<1>10. PICK t : t = [current |-> [num |-> k, box |-> m], db |-> t1.db, box |-> g, stack |-> st,
                     objects |-> Under(t1.objects, k, [t |-> "map", v |-> m])]
  BY Zenon
<1>11. /\ t.current = [num |-> k, box |-> m] /\ t.db = t1.db /\ t.box = g /\ t.stack = st
       /\ t.objects = Under(t1.objects, k, [t |-> "map", v |-> m])
  BY <1>10
<1>12. x.t = "object" /\ x.k = k /\ x.v = i
  BY DEF Tok
<1>13. x \in Token
  <2>1. i \in Nat
    BY <1>1
  <2> QED
    BY <2>1 DEF Tok, Token, Kinds
<1> HIDE DEF x
<1>14. Runs(t1, <<x>>, t)
  <2>1. ReadsBegin(x, t1, t)
    BY <1>3, <1>4, <1>5, <1>6, <1>8, <1>11, <1>12 DEF ReadsBegin, WithBox
  <2>2. Reads(x, t1, t)
    BY <2>1 DEF Reads
  <2> QED
    BY <2>2, RunOne
<1>15. PICK xs : xs = <<x>>
  BY Zenon
<1>16. Runs(s, ys \o xs, t) /\ ys \o xs \in Seq(Token)
  <2>1. xs \in Seq(Token)
    BY <1>13, <1>15
  <2> QED
    BY Zenon, <1>1, <1>3, <1>14, <1>15, <2>1, RunBoth, ConcatIs
<1>17. ObjectBegun(s, t, k, cls, m)
  <2>1. DOMAIN g = 1 .. Len(g)
    BY <1>7, SeqPlaces DEF BoxSeq
  <2>2. \A j \in DOMAIN b : j \in DOMAIN g
    BY <1>7, <2>1
  <2>3. m \in Nat
    BY <1>7
  <2> QED
    BY <1>3, <1>5, <1>7, <1>9, <1>11, <2>2, <2>3 DEF ObjectBegun
<1>18. BeginTokens(k, cls) = ys \o xs
  BY <1>15 DEF BeginTokens, ys, x, i
<1> QED
  BY <1>3, <1>11, <1>16, <1>17, <1>18

\* An object ends.
LEMMA RunEnd ==
  ASSUME NEW s, NEW m, OnObject(s, m), NEW k, s.current.num = k
  PROVE  \E t : /\ Runs(s, <<Tok("object", k, Null)>>, t)
                /\ t.current = Null /\ t.stack = << 1 >>
                /\ t.db = s.db /\ t.box = s.box /\ t.objects = s.objects
<1> DEFINE x == Tok("object", k, Null)
<1>1. m \in Nat /\ m # 1
  <2>1. DOMAIN s.box = 1 .. Len(s.box) /\ Len(s.box) \in Nat
    BY SeqPlaces DEF BoxSeq, OnObject
  <2> QED
    BY <2>1 DEF OnObject
<1>2. DownTo(s.stack, m) = <<1, m>> /\ m \in Range(s.stack)
  BY <1>1, Down DEF OnObject
<1>3. PICK t : t = [current |-> Null, db |-> s.db, box |-> s.box, stack |-> << 1 >>, objects |-> s.objects]
  BY Zenon
<1>4. t.current = Null /\ t.db = s.db /\ t.box = s.box /\ t.stack = << 1 >> /\ t.objects = s.objects
  BY <1>3
<1>5. x.t = "object" /\ x.k = k
  BY DEF Tok
<1>6. Runs(s, <<x>>, t)
  <2> HIDE DEF x
  <2>1. s.current # Null /\ s.current.box = m
    BY DEF OnObject
  <2>2. Front(DownTo(s.stack, s.current.box)) = << 1 >> /\ s.current.box \in Range(s.stack)
    BY <1>1, <1>2, <2>1, Pair
  <2>3. ReadsEnd(x, s, t)
    BY <1>4, <1>5, <2>1, <2>2 DEF ReadsEnd
  <2>4. Reads(x, s, t)
    BY <2>3 DEF Reads
  <2> QED
    BY <2>4, RunOne
<1> QED
  BY <1>4, <1>6 DEF x

----------------------------------------------------------------------------
(* What process() has when it comes to the end of the stream               *)

\* How many objects have begun, and how far the n-th has come.
Count(d, met) == IF d = Null THEN Len(met) ELSE IF d.l = 0 THEN d.i ELSE d.i + 1
Far(gr, d, met, n) == IF d # Null /\ n = d.i THEN d.l - 1 ELSE Len(Layers[gr[met[n + 1]].cls])

ObjectAt(gr, b, met, obs, n, l) ==
  obs[n] = [t |-> "map", v |-> obs[n].v] /\ ObjectOK(b, met, obs[n].v, gr[met[n + 1]], l)

\* Each number has the properties of its object, and no two the same.
ShowsObjects(gr, b, obs, met, d) ==
  /\ DOMAIN obs = 0 .. Count(d, met) - 1
  /\ \A n \in 0 .. Count(d, met) - 1 : ObjectAt(gr, b, met, obs, n, Far(gr, d, met, n))
  /\ \A n, m \in 0 .. Count(d, met) - 1 : obs[n].v = obs[m].v => n = m

RootOK(met, e, r) ==
  IF r.t = "ref" THEN Stands(met, e, r.v) ELSE e = [t |-> r.t, v |-> r.v]

ShowsRoots(b, met, rs) ==
  /\ BoxSeq(b) /\ 1 \in DOMAIN b /\ b[1].kind = "roots"
  /\ DOMAIN b[1].at = DOMAIN rs
  /\ \A k \in DOMAIN rs : RootOK(met, b[1].at[k], rs[k])

ShowsWork(s, d) ==
  IF d # Null /\ d.l # 0
  THEN /\ d.i \in DOMAIN s.objects /\ s.current = [num |-> d.i, box |-> s.objects[d.i].v]
       /\ OnObject(s, s.objects[d.i].v)
  ELSE s.current = Null /\ s.stack = << 1 >>

Shows(gr, s, nm, met, d, rs) ==
  /\ DbIs(s.db, nm) /\ ShowsObjects(gr, s.box, s.objects, met, d) /\ ShowsRoots(s.box, met, rs) /\ ShowsWork(s, d)

ShowInv == Distinct(names) /\ \E s : Runs(Start0, out, s) /\ Shows(graph, s, names, num, doing, roots)

\* Boxes but that of the roots have not changed.
RestStays(b, g) == \A j \in DOMAIN b : b[j].kind # "roots" => j \in DOMAIN g /\ g[j] = b[j]

\* The objects stay as the roots come.
LEMMA ObjectsStay ==
  ASSUME NEW gr, NEW b, NEW obs, NEW met, NEW d, ShowsObjects(gr, b, obs, met, d),
         NEW more, More(met, more), NEW g, RestStays(b, g),
         NEW e, Count(e, more) = Count(d, met), Count(d, met) \in 0 .. Len(met),
         \A n \in 0 .. Count(d, met) - 1 : Far(gr, e, more, n) = Far(gr, d, met, n)
  PROVE  ShowsObjects(gr, g, obs, more, e)
<1>1. ASSUME NEW n \in 0 .. Count(d, met) - 1 PROVE ObjectAt(gr, g, more, obs, n, Far(gr, e, more, n))
  <2>1. ObjectAt(gr, b, met, obs, n, Far(gr, d, met, n)) /\ Far(gr, e, more, n) = Far(gr, d, met, n)
    BY DEF ShowsObjects
  <2>2. PICK m : m = obs[n].v
    OBVIOUS
  <2>3. PICK l : l = Far(gr, d, met, n)
    OBVIOUS
  <2>4. PICK o : o = gr[met[n + 1]]
    OBVIOUS
  <2>5. gr[more[n + 1]] = o
    <3>1. n + 1 \in 1 .. Len(met)
      <4>1. Len(met) \in Nat
        BY DEF More
      <4> QED
        BY <4>1
    <3> QED
      BY <2>4, <3>1 DEF More
  <2>6. ObjectOK(b, met, m, o, l)
    BY <2>1, <2>2, <2>3, <2>4 DEF ObjectAt
  <2>7. OthersStay(b, g, m)
    <3>1. m \in DOMAIN b /\ b[m].kind = "object"
      BY <2>6 DEF ObjectOK
    <3> QED
      BY <3>1 DEF OthersStay, RestStays
  <2>8. ObjectOK(g, more, m, o, l)
    BY <2>6, <2>7, ObjectStays
  <2> QED
    BY <2>1, <2>2, <2>3, <2>5, <2>8 DEF ObjectAt
<1> QED
  BY <1>1 DEF ShowsObjects

\* A root comes.
LEMMA RootsMore ==
  ASSUME NEW b, NEW met, NEW rs, ShowsRoots(b, met, rs), NEW more, More(met, more),
         NEW g, Kept(b, 1, g), NEW k, NEW e, g[1].at = Under(b[1].at, k, e),
         NEW r, RootOK(more, e, r)
  PROVE  ShowsRoots(g, more, Under(rs, k, r)) /\ RestStays(b, g)
<1>1. BoxSeq(b) /\ BoxSeq(g) /\ 1 \in DOMAIN b /\ b[1].kind = "roots" /\ g[1].kind = "roots"
      /\ DOMAIN b = 1 .. Len(b) /\ DOMAIN g = 1 .. Len(g) /\ Len(b) \in Nat /\ Len(g) \in Nat /\ Len(b) <= Len(g)
  <2>1. BoxSeq(b) /\ BoxSeq(g) /\ Len(b) <= Len(g) /\ 1 \in DOMAIN b /\ b[1].kind = "roots" /\ g[1].kind = "roots"
    BY DEF ShowsRoots, Kept
  <2> QED
    BY <2>1, SeqPlaces DEF BoxSeq
<1>2. \A j \in DOMAIN b : j \in DOMAIN g /\ (j # 1 => g[j] = b[j])
  BY <1>1 DEF Kept
<1>3. RestStays(b, g)
  BY <1>1, <1>2 DEF RestStays
<1>4. PICK w : w = b[1].at
  OBVIOUS
<1>5. PICK a : a = g[1].at
  OBVIOUS
<1>6. DOMAIN a = DOMAIN w \cup {k} /\ a[k] = e /\ \A j \in DOMAIN w : j # k => a[j] = w[j]
  <2>1. a = Under(w, k, e)
    BY <1>4, <1>5
  <2> QED
    BY <2>1 DEF Under
<1>7. PICK q : q = Under(rs, k, r)
  OBVIOUS
<1>8. DOMAIN q = DOMAIN rs \cup {k} /\ q[k] = r /\ \A j \in DOMAIN rs : j # k => q[j] = rs[j]
  BY <1>7 DEF Under
<1>9. DOMAIN w = DOMAIN rs /\ \A j \in DOMAIN rs : RootOK(met, w[j], rs[j])
  BY <1>4 DEF ShowsRoots
<1>10. ASSUME NEW j \in DOMAIN q PROVE RootOK(more, a[j], q[j])
  <2>1. CASE j = k
    BY <1>6, <1>8, <2>1
  <2>2. CASE j # k
    <3>1. j \in DOMAIN rs /\ a[j] = w[j] /\ q[j] = rs[j]
      BY <1>6, <1>8, <1>9, <2>2
    <3>2. RootOK(met, a[j], q[j])
      BY <1>9, <3>1
    <3>3. PICK f : f = a[j]
      OBVIOUS
    <3>4. PICK y : y = q[j]
      OBVIOUS
    <3>5. Stands(met, f, y.v) => Stands(more, f, y.v)
      <4>1. PICK z : z = y.v
        OBVIOUS
      <4>2. Stands(met, f, z) => Stands(more, f, z)
        BY StandsStill
      <4> QED
        BY <4>1, <4>2
    <3> QED
      BY <3>2, <3>3, <3>4, <3>5 DEF RootOK
  <2> QED
    BY <2>1, <2>2
<1>11. ShowsRoots(g, more, q)
  BY <1>1, <1>2, <1>5, <1>6, <1>8, <1>9, <1>10 DEF ShowsRoots
<1> QED
  BY <1>3, <1>7, <1>11

\* The next step of the packer, seen from process().
LEMMA ShowInvNext ==
  ASSUME UNCHANGED graph, Distinct(names'), NEW t, Runs(Start0, out', t),
         Shows(graph, t, names', num', doing', roots')
  PROVE  ShowInv'
BY DEF ShowInv

\* At first process() has no object and no root.
LEMMA ShowInit ==
  ASSUME Init
  PROVE  ShowInv
<1>1. /\ num = <<>> /\ names = <<>> /\ doing = Null /\ out = << Tok("function", 1, 1) >> /\ roots = <<>>
  BY DEF Init, PackInit
<1> DEFINE x == Tok("function", 1, 1)
           z == <<NewBox("roots", Null)>>
<1>2. PICK s : s = Start0
  OBVIOUS
<1>3. s.current = Null /\ s.db = Empty /\ s.box = z /\ s.stack = << 1 >> /\ s.objects = Empty
  BY <1>2 DEF Start0
<1>4. x.t = "function"
  BY DEF Tok
<1>5. Runs(Start0, out, s)
  <2> HIDE DEF x
  <2>1. ReadsVersion(x, s, s)
    BY <1>4 DEF ReadsVersion
  <2>2. Reads(x, s, s)
    BY <2>1 DEF Reads
  <2>3. Runs(s, <<x>>, s)
    BY <2>2, RunOne
  <2> QED
    BY <1>1, <1>2, <2>3 DEF x
<1>6. DOMAIN Empty = {}
  BY DEF Empty
<1>7. BoxSeq(z) /\ 1 \in DOMAIN z /\ z[1].kind = "roots" /\ z[1].at = Empty
  <2> DEFINE y == NewBox("roots", Null)
  <2>1. y.kind = "roots" /\ y.at = Empty /\ IsBox(y)
    BY DEF NewBox, IsBox
  <2>2. z = <<y>>
    OBVIOUS
  <2> HIDE DEF y, z
  <2>3. z \in Seq({y}) /\ Len(z) = 1 /\ DOMAIN z = 1 .. 1 /\ z[1] = y
    BY <2>2
  <2>4. IsSeq(z)
    BY <2>3, SeqIs
  <2>5. \A j \in DOMAIN z : j = 1
    BY <2>3
  <2> QED
    BY <2>1, <2>3, <2>4, <2>5 DEF BoxSeq
<1> HIDE DEF z
<1>8. PICK nil : nil = <<>>
  OBVIOUS
<1>9. Len(nil) = 0 /\ DOMAIN nil = {} /\ 0 .. 0 - 1 = {} /\ 1 .. 0 = {}
  BY <1>8
<1>10. DbIs(s.db, names)
  <2>1. names = nil
    BY <1>1, <1>8
  <2> QED
    BY <1>3, <1>6, <1>9, <2>1 DEF DbIs
<1>11. ShowsObjects(graph, s.box, s.objects, num, doing)
  <2>1. Count(doing, num) = 0
    BY <1>1, <1>8, <1>9 DEF Count
  <2> QED
    BY <1>3, <1>6, <1>9, <2>1 DEF ShowsObjects
<1>12. ShowsRoots(s.box, num, roots)
  <2>1. roots = nil
    BY <1>1, <1>8
  <2> QED
    BY <1>3, <1>6, <1>7, <1>9, <2>1 DEF ShowsRoots
<1>13. ShowsWork(s, doing)
  BY <1>1, <1>3 DEF ShowsWork
<1>14. Distinct(names)
  <2>1. names = nil
    BY <1>1, <1>8
  <2> QED
    BY <1>9, <2>1 DEF Distinct
<1> QED
  BY <1>5, <1>10, <1>11, <1>12, <1>13, <1>14 DEF ShowInv, Shows

\* The next tokens of the stream.
LEMMA RunOn ==
  ASSUME PackTypes, NEW s, Runs(Start0, out, s), NEW xs \in Seq(Token), NEW t, Runs(s, xs, t)
  PROVE  Runs(Start0, out \o xs, t)
<1>1. out \in Seq(Token)
  BY DEF PackTypes
<1> QED
  BY <1>1, RunBoth

\* What the program packs gets into the box of the roots.
LEMMA ShowRootStep ==
  ASSUME PackTypes, ShowInv, doing = Null, NEW x \in Token, x.t \in Leaves \cup {"ref"},
         NEW more, More(num, more), NEW r, RootOK(more, [t |-> x.t, v |-> x.v], r),
         (doing' = Null /\ more = num) \/ doing' = [i |-> Len(num), l |-> 0],
         out' = Append(out, x), num' = more, names' = names, roots' = Under(roots, x.k, r), graph' = graph
  PROVE  ShowInv'
<1>1. PICK s : Runs(Start0, out, s) /\ Shows(graph, s, names, num, doing, roots)
  BY DEF ShowInv
<1>2. /\ DbIs(s.db, names) /\ ShowsObjects(graph, s.box, s.objects, num, doing)
      /\ ShowsRoots(s.box, num, roots) /\ s.current = Null /\ s.stack = << 1 >>
  BY <1>1 DEF Shows, ShowsWork
<1>3. BoxSeq(s.box) /\ 1 \in DOMAIN s.box /\ s.box[1].kind = "roots"
  BY <1>2 DEF ShowsRoots
<1>4. Last(s.stack) = 1
  BY <1>2 DEF Last
<1> DEFINE e == [t |-> x.t, v |-> x.v]
<1>5. PICK t : /\ Runs(s, <<x>>, t) /\ SameElse(s, t) /\ Kept(s.box, 1, t.box)
               /\ t.box[1].at = Under(s.box[1].at, KeyIn(s.box, 1, x.k), e)
  BY <1>3, <1>4, RunValue
<1>6. KeyIn(s.box, 1, x.k) = x.k
  BY <1>3 DEF KeyIn
<1> HIDE DEF e
<1>7. ShowsRoots(t.box, more, Under(roots, x.k, r)) /\ RestStays(s.box, t.box)
  <2>1. PICK b : b = s.box
    OBVIOUS
  <2>2. PICK g : g = t.box
    OBVIOUS
  <2>3. PICK k : k = x.k
    OBVIOUS
  <2>4. /\ ShowsRoots(b, num, roots) /\ Kept(b, 1, g) /\ g[1].at = Under(b[1].at, k, e) /\ RootOK(more, e, r)
    BY <1>2, <1>5, <1>6, <2>1, <2>2, <2>3 DEF e
  <2>5. ShowsRoots(g, more, Under(roots, k, r)) /\ RestStays(b, g)
    BY <2>4, RootsMore
  <2> QED
    BY <2>1, <2>2, <2>3, <2>5
<1>8. Len(num) \in Nat /\ Count(doing, num) = Len(num) /\ Len(more) \in Nat /\ Len(num) <= Len(more)
  BY DEF More, Count
<1>9. \/ doing' = Null /\ more = num
      \/ doing' # Null /\ doing'.i = Len(num) /\ doing'.l = 0
  <2>1. ASSUME doing' = [i |-> Len(num), l |-> 0] PROVE doing' # Null /\ doing'.i = Len(num) /\ doing'.l = 0
    <3>1. doing' \in [i : Nat, l : Nat] /\ doing'.i = Len(num) /\ doing'.l = 0
      BY <1>8, <2>1
    <3>2. doing' # Null
      BY <3>1, MmPackAssumption
    <3> QED
      BY <3>1, <3>2
  <2> QED
    BY <2>1
<1>10. Count(doing', more) = Len(num)
  <2>1. PICK d : d = doing'
    OBVIOUS
  <2>2. \/ d = Null /\ more = num
        \/ d # Null /\ d.i = Len(num) /\ d.l = 0
    BY <1>9, <2>1
  <2>3. Count(d, more) = Len(num)
    BY <1>8, <2>2 DEF Count
  <2> QED
    BY <2>1, <2>3
<1>11. \A n \in 0 .. Len(num) - 1 : Far(graph, doing', more, n) = Far(graph, doing, num, n)
  <2>1. ASSUME NEW n \in 0 .. Len(num) - 1 PROVE Far(graph, doing', more, n) = Far(graph, doing, num, n)
    <3>1. n # Len(num) /\ n + 1 \in 1 .. Len(num)
      BY <1>8
    <3>2. more[n + 1] = num[n + 1]
      BY <3>1 DEF More
    <3> QED
      BY <1>9, <3>1, <3>2 DEF Far
  <2> QED
    BY <2>1
<1>12. ShowsObjects(graph, t.box, s.objects, more, doing')
  <2>1. PICK b : b = s.box
    OBVIOUS
  <2>2. PICK g : g = t.box
    OBVIOUS
  <2>3. PICK d : d = doing'
    OBVIOUS
  <2>4. /\ ShowsObjects(graph, b, s.objects, num, doing) /\ RestStays(b, g)
        /\ Count(d, more) = Count(doing, num) /\ Count(doing, num) \in 0 .. Len(num)
        /\ \A n \in 0 .. Count(doing, num) - 1 : Far(graph, d, more, n) = Far(graph, doing, num, n)
    BY <1>2, <1>7, <1>8, <1>10, <1>11, <2>1, <2>2, <2>3
  <2>5. ShowsObjects(graph, g, s.objects, more, d)
    BY <2>4, ObjectsStay
  <2> QED
    BY <2>2, <2>3, <2>5
<1>13. ShowsWork(t, doing')
  BY <1>2, <1>5, <1>9 DEF ShowsWork, SameElse
<1>14. Shows(graph, t, names, more, doing', Under(roots, x.k, r))
  BY <1>2, <1>5, <1>7, <1>12, <1>13 DEF Shows, SameElse
<1>15. Runs(Start0, out', t)
  <2>1. PICK xs : xs = <<x>>
    BY Zenon
  <2>2. xs \in Seq(Token)
    BY <2>1
  <2>3. Runs(Start0, out \o xs, t)
    BY Zenon, <1>1, <1>5, <2>1, <2>2, RunOn
  <2>4. out' = out \o <<x>>
    <3>1. out \in Seq(Token)
      BY DEF PackTypes
    <3> QED
      BY <3>1
  <2> QED
    BY <2>1, <2>3, <2>4
<1>16. Distinct(names')
  BY DEF ShowInv
<1> QED
  BY <1>14, <1>15, <1>16, ShowInvNext

\* A reference that the program packs is in the box of the roots.
LEMMA ShowRoot ==
  ASSUME PackInv, ShowInv, NEW o \in Obj, PackRoot(o), graph' = graph
  PROVE  ShowInv'
<1> DEFINE k == Cardinality(DOMAIN roots)
           met == Numbered(num, o)
           x == Tok("ref", k, Id(met, o))
           r == [t |-> "ref", v |-> o]
<1>1. PackTypes /\ doing = Null /\ num' = met /\ out' = Append(out, x) /\ roots' = Under(roots, k, r)
      /\ doing' = [i |-> Len(num), l |-> 0] /\ names' = names
  BY DEF PackRoot, PackInv, Start
<1>2. met \in Seq(Obj) /\ o \in Range(met) /\ Len(num) <= Len(met) /\ num \in Seq(Obj)
      /\ \A i \in 1 .. Len(num) : met[i] = num[i]
  BY Zenon, <1>1, NumberedIs DEF PackTypes
<1>3. Id(met, o) \in 0 .. Len(met) - 1 /\ met[Id(met, o) + 1] = o
  BY <1>2, IdIs
<1>4. x \in Token /\ x.t = "ref" /\ x.k = k /\ x.v = Id(met, o)
  <2>1. k \in Nat
    BY <1>1, FS_CardinalityType DEF PackTypes
  <2>2. Id(met, o) \in Nat
    BY <1>3
  <2> HIDE DEF k, met
  <2> QED
    BY <2>1, <2>2 DEF Tok, Token, Kinds
<1>5. More(num, met)
  BY <1>2 DEF More
<1>6. RootOK(met, [t |-> x.t, v |-> x.v], r)
  <2>1. PICK e : e = [t |-> x.t, v |-> x.v]
    BY Zenon
  <2>2. e.t = "ref" /\ e.v = Id(met, o)
    BY <1>4, <2>1
  <2>3. Stands(met, e, o)
    BY <1>3, <2>2 DEF Stands
  <2> QED
    BY <2>1, <2>3 DEF RootOK
<1> HIDE DEF k, met, x, r
<1>7. roots' = Under(roots, x.k, r)
  BY <1>1, <1>4
<1> QED
  BY <1>1, <1>4, <1>5, <1>6, <1>7, ShowRootStep

\* So is a number that the program packs.
LEMMA ShowRootLeaf ==
  ASSUME PackInv, ShowInv, NEW v \in Leaf, PackRootLeaf(v), graph' = graph
  PROVE  ShowInv'
<1> DEFINE k == Cardinality(DOMAIN roots)
           x == Tok("integer", k, v)
           r == [t |-> "integer", v |-> v]
<1>1. PackTypes /\ doing = Null /\ num' = num /\ out' = Append(out, x) /\ roots' = Under(roots, k, r)
      /\ doing' = Null /\ names' = names
  BY DEF PackRootLeaf, PackInv
<1>2. num \in Seq(Obj) /\ Len(num) \in Nat
  BY <1>1 DEF PackTypes
<1>4. x \in Token /\ x.t = "integer" /\ x.k = k /\ x.v = v
  <2>1. k \in Nat
    BY <1>1, FS_CardinalityType DEF PackTypes
  <2> HIDE DEF k
  <2> QED
    BY <2>1 DEF Tok, Token, Kinds, Leaves
<1>5. More(num, num)
  BY <1>2 DEF More
<1>6. RootOK(num, [t |-> x.t, v |-> x.v], r)
  BY <1>4 DEF RootOK
<1> HIDE DEF k, x, r
<1>7. roots' = Under(roots, x.k, r) /\ x.t \in Leaves
  BY <1>1, <1>4 DEF Leaves
<1> QED
  BY <1>1, <1>4, <1>5, <1>6, <1>7, ShowRootStep

\* The roots stay as objects come.
LEMMA RootsStay ==
  ASSUME NEW b, NEW met, NEW rs, ShowsRoots(b, met, rs), NEW more, More(met, more),
         NEW g, BoxSeq(g), 1 \in DOMAIN g, g[1] = b[1]
  PROVE  ShowsRoots(g, more, rs)
<1>1. /\ b[1].kind = "roots" /\ DOMAIN b[1].at = DOMAIN rs
      /\ \A k \in DOMAIN rs : RootOK(met, b[1].at[k], rs[k])
  BY DEF ShowsRoots
<1>2. ASSUME NEW k \in DOMAIN rs PROVE RootOK(more, b[1].at[k], rs[k])
  <2>1. PICK f : f = b[1].at[k]
    OBVIOUS
  <2>2. PICK y : y = rs[k]
    OBVIOUS
  <2>3. PICK z : z = y.v
    OBVIOUS
  <2>4. RootOK(met, f, y)
    BY <1>1, <2>1, <2>2
  <2>5. Stands(met, f, z) => Stands(more, f, z)
    BY StandsStill
  <2> QED
    BY <2>1, <2>2, <2>3, <2>4, <2>5 DEF RootOK
<1> QED
  BY <1>1, <1>2 DEF ShowsRoots

\* A context stays.
LEMMA ContextStays ==
  ASSUME NEW met, NEW more, More(met, more), NEW b, NEW d, ListsStay(b, d),
         NEW c, c \in DOMAIN d, d[c] = b[c], NEW fs, NEW body, ContextOK(b, met, c, fs, body)
  PROVE  ContextOK(d, more, c, fs, body)
<1>1. \A i \in DOMAIN fs : EntryOK(b, met, b[c].at, fs[i], body[fs[i].k])
  BY DEF ContextOK
<1>2. \A i \in DOMAIN fs : EntryOK(d, more, b[c].at, fs[i], body[fs[i].k])
  BY <1>1, EntryStays
<1> QED
  BY <1>2 DEF ContextOK

\* The next layer of an object has come.
LEMMA ObjectGrows ==
  ASSUME NEW met, NEW more, More(met, more), NEW s, NEW t, NEW m, NEW x, x.cls \in Class,
         NEW l \in DOMAIN Layers[x.cls], ObjectOK(s.box, met, m, x, l - 1),
         NEW c, ContextNew(s, t, m, Layers[x.cls][l].name, c),
         ContextOK(t.box, more, c, Layers[x.cls][l].fields, x.body[l])
  PROVE  ObjectOK(t.box, more, m, x, l)
<1> DEFINE name == Layers[x.cls][l].name
           ls == Layers[x.cls]
<1>1. PICK b : b = s.box
  OBVIOUS
<1>2. PICK g : g = t.box
  BY SMTT(30)
<1>3. /\ m \in DOMAIN b /\ b[m].kind = "object" /\ b[m].cls = x.cls
      /\ \A n \in DOMAIN b[m].ctx : b[m].ctx[n] \in DOMAIN b /\ b[b[m].ctx[n]].kind = "context"
      /\ \A i \in DOMAIN ls :
           i <= l - 1 /\ ls[i].pack =>
             ls[i].name \in DOMAIN b[m].ctx /\ ContextOK(b, met, b[m].ctx[ls[i].name], ls[i].fields, x.body[i])
  BY <1>1 DEF ObjectOK
<1>4. /\ c \notin DOMAIN b /\ c \in DOMAIN g
      /\ \A j \in DOMAIN b : j \in DOMAIN g /\ (j # m => g[j] = b[j])
      /\ g[m].kind = b[m].kind /\ g[m].cls = b[m].cls
      /\ g[m].ctx = Under(b[m].ctx, name, c) /\ g[c].kind = "context"
  BY <1>1, <1>2 DEF ContextNew
<1>5. PICK w : w = b[m].ctx
  OBVIOUS
<1>6. PICK a : a = g[m].ctx
  OBVIOUS
<1>7. DOMAIN a = DOMAIN w \cup {name} /\ a[name] = c /\ \A n \in DOMAIN w : n # name => a[n] = w[n]
  <2>1. PICK q : q = name
    OBVIOUS
  <2>2. a = Under(w, q, c)
    BY <1>4, <1>5, <1>6, <2>1
  <2>3. DOMAIN a = DOMAIN w \cup {q} /\ a[q] = c /\ \A n \in DOMAIN w : n # q => a[n] = w[n]
    BY <2>2 DEF Under
  <2> QED
    BY <2>1, <2>3
<1>8. ASSUME NEW n \in DOMAIN a PROVE a[n] \in DOMAIN g /\ g[a[n]].kind = "context"
  <2>1. CASE n = name
    BY <1>4, <1>7, <2>1
  <2>2. CASE n # name
    <3>1. n \in DOMAIN w /\ a[n] = w[n]
      BY <1>7, <2>2
    <3>2. w[n] \in DOMAIN b /\ b[w[n]].kind = "context"
      BY <1>3, <1>5, <3>1
    <3>3. w[n] # m
      BY <1>3, <3>2
    <3> QED
      BY <1>4, <3>1, <3>2, <3>3
  <2> QED
    BY <2>1, <2>2
<1>9. ListsStay(b, g)
  BY <1>3, <1>4 DEF ListsStay
<1>10. l \in Nat /\ DOMAIN ls \subseteq Nat
  <2>1. ls \in Seq(Layer)
    BY MmPackAssumption
  <2>2. DOMAIN ls = 1 .. Len(ls) /\ Len(ls) \in Nat
    <3> HIDE DEF ls
    <3> QED
      BY <2>1
  <2> QED
    BY <2>2
<1>11. \A i \in DOMAIN ls : ls[i].name = name => i = l
  BY MmPackAssumption
<1>12. ASSUME NEW i \in DOMAIN ls, i <= l, ls[i].pack
       PROVE  ls[i].name \in DOMAIN a /\ ContextOK(g, more, a[ls[i].name], ls[i].fields, x.body[i])
  <2>1. CASE i = l
    BY <1>2, <1>7, <2>1
  <2>2. CASE i # l
    <3>1. i <= l - 1
      BY <1>10, <1>12, <2>2
    <3>2. PICK n : n = ls[i].name
      OBVIOUS
    <3>3. n # name
      BY <1>11, <2>2, <3>2
    <3>4. n \in DOMAIN w /\ ContextOK(b, met, w[n], ls[i].fields, x.body[i])
      BY <1>3, <1>5, <1>12, <3>1, <3>2
    <3>5. n \in DOMAIN a /\ a[n] = w[n]
      BY <1>7, <3>3, <3>4
    <3>6. w[n] \in DOMAIN g /\ g[w[n]] = b[w[n]]
      <4>1. w[n] \in DOMAIN b /\ b[w[n]].kind = "context"
        BY <3>4 DEF ContextOK
      <4>2. w[n] # m
        BY <1>3, <4>1
      <4> QED
        BY <1>4, <4>1, <4>2
    <3>7. PICK cc : cc = w[n]
      OBVIOUS
    <3>8. PICK fs : fs = ls[i].fields
      OBVIOUS
    <3>9. PICK body : body = x.body[i]
      OBVIOUS
    <3>10. ContextOK(b, met, cc, fs, body) /\ cc \in DOMAIN g /\ g[cc] = b[cc]
      BY <3>4, <3>6, <3>7, <3>8, <3>9
    <3>11. ContextOK(g, more, cc, fs, body)
      BY <1>9, <3>10, ContextStays
    <3> QED
      BY <3>2, <3>5, <3>7, <3>8, <3>9, <3>11
  <2> QED
    BY <2>1, <2>2
<1>13. ObjectOK(g, more, m, x, l)
  BY ZenonT(60), <1>3, <1>4, <1>6, <1>8, <1>12 DEF ObjectOK
<1> QED
  BY <1>2, <1>13

\* The object the packer is at.
LEMMA AtWork ==
  ASSUME PackTypes, doing # Null, doing.i < Len(num)
  PROVE  /\ doing \in [i : Nat, l : Nat] /\ doing.i \in Nat /\ doing.l \in Nat
         /\ num \in Seq(Obj) /\ Len(num) \in Nat /\ doing.i + 1 \in 1 .. Len(num)
         /\ Current = num[doing.i + 1] /\ Current \in Obj /\ IsObject(graph[Current])
         /\ graph[Current].cls \in Class /\ names \in Seq(Class)
<1>1. doing \in [i : Nat, l : Nat] /\ num \in Seq(Obj) /\ Len(num) \in Nat /\ names \in Seq(Class)
  BY DEF PackTypes
<1>2. doing.i + 1 \in 1 .. Len(num)
  BY <1>1
<1>3. Current = num[doing.i + 1] /\ Current \in Obj
  BY <1>1, <1>2 DEF Current
<1>4. IsObject(graph[Current])
  BY <1>3 DEF PackTypes
<1> QED
  BY Zenon, <1>1, <1>2, <1>3, <1>4 DEF IsObject

\* Lists, contexts and the box m stay when only a box of another object changes.
LEMMA ShowObject ==
  ASSUME PackInv, ShowInv, PackObject, graph' = graph
  PROVE  ShowInv'
<1> DEFINE cls == graph[Current].cls
           k == doing.i
           x == NameTokens(cls)
           y == Tok("object", k, Id(Named(cls), cls))
<1>1. /\ PackTypes /\ doing # Null /\ doing.i < Len(num) /\ doing.l = 0
      /\ num' = num /\ names' = Named(cls) /\ doing' = [doing EXCEPT !.l = 1] /\ roots' = roots
      /\ out' = (out \o x) \o << y >>
  BY DEF PackObject, PackInv, Packing
<1>2. /\ doing \in [i : Nat, l : Nat] /\ k \in Nat
      /\ num \in Seq(Obj) /\ Len(num) \in Nat /\ k + 1 \in 1 .. Len(num)
      /\ Current = num[k + 1] /\ Current \in Obj /\ IsObject(graph[Current])
      /\ cls \in Class /\ names \in Seq(Class)
  BY <1>1, AtWork
<1>3. doing' # Null /\ doing'.i = k /\ doing'.l = 1
  <2>1. doing' \in [i : Nat, l : Nat] /\ doing'.i = doing.i /\ doing'.l = 1
    BY Zenon, <1>1, <1>2
  <2> QED
    BY <2>1, MmPackAssumption
<1>4. PICK s : Runs(Start0, out, s) /\ Shows(graph, s, names, num, doing, roots)
  BY DEF ShowInv
<1>5. /\ DbIs(s.db, names) /\ ShowsObjects(graph, s.box, s.objects, num, doing)
      /\ ShowsRoots(s.box, num, roots) /\ s.current = Null /\ s.stack = << 1 >> /\ Distinct(names)
  BY <1>1, <1>4 DEF Shows, ShowsWork, ShowInv
<1>6. BoxSeq(s.box) /\ 1 \in DOMAIN s.box
  BY <1>5 DEF ShowsRoots
<1> HIDE DEF cls, k
<1>7. /\ BeginTokens(k, cls) \in Seq(Token)
      /\ \E t, m : Runs(s, BeginTokens(k, cls), t) /\ ObjectBegun(s, t, k, cls, m) /\ DbIs(t.db, Named(cls))
  BY Zenon, <1>2, <1>5, <1>6, RunBegin
<1>8. PICK t, m : Runs(s, BeginTokens(k, cls), t) /\ ObjectBegun(s, t, k, cls, m) /\ DbIs(t.db, Named(cls))
  BY <1>7
<1>9. Distinct(Named(cls)) /\ x \in Seq(Token) /\ Id(Named(cls), cls) \in Nat
  BY <1>2, <1>5, RunName
<1>10. Runs(Start0, out', t)
  <2>1. Runs(Start0, out \o BeginTokens(k, cls), t)
    BY <1>1, <1>4, <1>7, <1>8, RunOn
  <2>2. y \in Token
    BY <1>2, <1>9 DEF Tok, Token, Kinds
  <2> HIDE DEF y, x
  <2>3. PICK yy : yy = <<y>>
    BY Zenon
  <2>4. out \in Seq(Token) /\ x \in Seq(Token) /\ yy \in Seq(Token)
    BY <1>1, <1>9, <2>2, <2>3 DEF PackTypes
  <2>5. (out \o x) \o yy = out \o (x \o yy)
    BY <2>4, Regrouped
  <2>6. x \o yy = BeginTokens(k, cls)
    BY <2>3 DEF BeginTokens, x, y
  <2> QED
    BY Zenon, <1>1, <2>1, <2>3, <2>5, <2>6
<1>11. /\ t.current = [num |-> k, box |-> m] /\ t.stack = <<1, m>>
       /\ t.objects = Under(s.objects, k, [t |-> "map", v |-> m])
       /\ BoxSeq(t.box) /\ m \in Nat /\ m \notin DOMAIN s.box /\ m \in DOMAIN t.box
       /\ \A j \in DOMAIN s.box : j \in DOMAIN t.box /\ t.box[j] = s.box[j]
       /\ t.box[m].kind = "object" /\ t.box[m].cls = cls /\ t.box[m].ctx = Empty
  BY <1>8 DEF ObjectBegun
<1>12. More(num, num)
  BY <1>2 DEF More
<1>13. ShowsRoots(t.box, num, roots)
  <2>1. PICK b : b = s.box
    OBVIOUS
  <2>2. PICK g : g = t.box
    OBVIOUS
  <2>3. ShowsRoots(b, num, roots) /\ BoxSeq(g) /\ 1 \in DOMAIN g /\ g[1] = b[1]
    BY <1>5, <1>6, <1>11, <2>1, <2>2
  <2>4. ShowsRoots(g, num, roots)
    BY <1>12, <2>3, RootsStay
  <2> QED
    BY <2>2, <2>4
<1>14. PICK obs : obs = t.objects
  OBVIOUS
<1>15. PICK old : old = s.objects
  OBVIOUS
<1>16. DOMAIN obs = DOMAIN old \cup {k} /\ obs[k] = [t |-> "map", v |-> m] /\ \A n \in DOMAIN old : n # k => obs[n] = old[n]
  BY <1>11, <1>14, <1>15 DEF Under
<1>17. Count(doing, num) = k /\ Count(doing', num) = k + 1
  BY <1>1, <1>3 DEF Count, k
<1>18. /\ DOMAIN old = 0 .. k - 1
       /\ \A n \in 0 .. k - 1 : ObjectAt(graph, s.box, num, old, n, Far(graph, doing, num, n))
       /\ \A n, j \in 0 .. k - 1 : old[n].v = old[j].v => n = j
  BY <1>5, <1>15, <1>17 DEF ShowsObjects
<1>19. DOMAIN obs = 0 .. (k + 1) - 1 /\ \A n \in 0 .. k - 1 : obs[n] = old[n]
  <2>1. (0 .. k - 1) \cup {k} = 0 .. (k + 1) - 1 /\ \A n \in 0 .. k - 1 : n # k
    BY <1>2
  <2> QED
    BY <1>16, <1>18, <2>1
<1>20. ASSUME NEW n \in 0 .. k - 1
       PROVE  ObjectAt(graph, t.box, num, obs, n, Far(graph, doing', num, n)) /\ obs[n].v \in DOMAIN s.box
  <2>1. PICK mm : mm = old[n].v
    OBVIOUS
  <2>2. PICK l : l = Far(graph, doing, num, n)
    OBVIOUS
  <2>3. PICK o : o = graph[num[n + 1]]
    OBVIOUS
  <2>4. old[n] = [t |-> "map", v |-> mm] /\ ObjectOK(s.box, num, mm, o, l)
    BY <1>18, <2>1, <2>2, <2>3 DEF ObjectAt
  <2>5. OthersStay(s.box, t.box, mm)
    BY <1>11 DEF OthersStay
  <2>6. PICK b : b = s.box
    OBVIOUS
  <2>7. PICK g : g = t.box
    OBVIOUS
  <2>8. ObjectOK(g, num, mm, o, l)
    BY <1>12, <2>4, <2>5, <2>6, <2>7, ObjectStays
  <2>9. Far(graph, doing', num, n) = l
    <3>1. n # k
      BY <1>2
    <3> QED
      BY <1>3, <2>2, <3>1 DEF Far, k
  <2>10. mm \in DOMAIN s.box
    BY <2>4 DEF ObjectOK
  <2>11. obs[n] = [t |-> "map", v |-> mm] /\ obs[n].v = mm
    BY Zenon, <1>19, <2>1, <2>4
  <2> QED
    BY <2>3, <2>7, <2>8, <2>9, <2>10, <2>11 DEF ObjectAt
<1>21. ObjectAt(graph, t.box, num, obs, k, Far(graph, doing', num, k))
  <2>1. Far(graph, doing', num, k) = 0
    BY <1>3 DEF Far
  <2>2. obs[k] = [t |-> "map", v |-> obs[k].v] /\ obs[k].v = m
    BY <1>16
  <2>3. PICK o : o = graph[num[k + 1]]
    OBVIOUS
  <2>4. o.cls = cls
    BY <1>2, <2>3 DEF cls
  <2>5. \A l \in DOMAIN Layers[cls] : ~(l <= 0)
    <3>1. Layers[cls] \in Seq(Layer)
      BY <1>2, MmPackAssumption
    <3>2. DOMAIN Layers[cls] = 1 .. Len(Layers[cls]) /\ Len(Layers[cls]) \in Nat
      BY <3>1
    <3> QED
      BY <3>2
  <2>6. DOMAIN Empty = {}
    BY DEF Empty
  <2>7. ObjectOK(t.box, num, m, o, 0)
    BY <1>11, <2>4, <2>5, <2>6 DEF ObjectOK
  <2> QED
    BY <2>1, <2>2, <2>3, <2>7 DEF ObjectAt
<1>22. ShowsObjects(graph, t.box, obs, num, doing')
  <2>1. \A n \in 0 .. (k + 1) - 1 : n \in 0 .. k - 1 \/ n = k
    BY <1>2
  <2>2. \A n \in 0 .. (k + 1) - 1 : ObjectAt(graph, t.box, num, obs, n, Far(graph, doing', num, n))
    BY <1>20, <1>21, <2>1
  <2>3. obs[k].v = m
    BY <1>16
  <2>4. \A n, j \in 0 .. (k + 1) - 1 : obs[n].v = obs[j].v => n = j
    BY <1>11, <1>18, <1>19, <1>20, <2>1, <2>3
  <2> QED
    BY <1>17, <1>19, <2>2, <2>4 DEF ShowsObjects
<1>23. ShowsWork(t, doing')
  <2>1. obs[k].v = m /\ k \in DOMAIN obs
    BY <1>16
  <2>2. m # 1
    BY <1>6, <1>11
  <2>3. t.current # Null /\ t.current.box = m
    <3>1. t.current \in [num : Nat, box : Nat]
      BY <1>2, <1>11
    <3>2. t.current # Null
      BY <3>1, MmUnpackAssumption
    <3> QED
      BY <1>11, <3>2
  <2>4. OnObject(t, m)
    BY <1>11, <2>2, <2>3 DEF OnObject, StackAt
  <2> QED
    BY <1>3, <1>11, <1>14, <2>1, <2>4 DEF ShowsWork
<1>24. Shows(graph, t, names', num', doing', roots')
  BY <1>1, <1>8, <1>13, <1>14, <1>22, <1>23 DEF Shows
<1> QED
  BY Zenon, <1>1, <1>9, <1>10, <1>24, ShowInvNext

\* The layer the packer is at.
LEMMA AtLayer ==
  ASSUME PackTypes, doing # Null, doing.i < Len(num), doing.l \in DOMAIN CurrentLayers
  PROVE  LET layer == CurrentLayers[doing.l]
             body == graph[Current].body[doing.l]
             fs == layer.fields
             refs == FlattenSeq([i \in DOMAIN fs |-> Refs(fs[i], body[fs[i].k])])
             met == AllNumbered(num, refs)
         IN  /\ CurrentLayers = Layers[graph[Current].cls] /\ doing.l \in Nat \ {0}
             /\ layer.name \in Class /\ fs \in Seq(Fields)
             /\ \A i, j \in DOMAIN fs : fs[i].k = fs[j].k => i = j
             /\ \A i \in DOMAIN fs : IsValue(fs[i].t, body[fs[i].k])
             /\ \A i \in DOMAIN fs : Range(Refs(fs[i], body[fs[i].k])) \subseteq Range(met)
             /\ met \in Seq(Obj) /\ More(num, met) /\ (Distinct(num) => Distinct(met))
<1> DEFINE cls == graph[Current].cls
           layer == CurrentLayers[doing.l]
           body == graph[Current].body[doing.l]
           fs == layer.fields
           rs == [i \in DOMAIN fs |-> Refs(fs[i], body[fs[i].k])]
           refs == FlattenSeq(rs)
           met == AllNumbered(num, refs)
<1>1. IsObject(graph[Current]) /\ cls \in Class /\ num \in Seq(Obj) /\ Len(num) \in Nat
  BY AtWork
<1>2. CurrentLayers = Layers[cls] /\ layer = Layers[cls][doing.l] /\ doing.l \in DOMAIN Layers[cls]
      /\ doing.l \in DOMAIN graph[Current].body
  BY Zenon, <1>1 DEF CurrentLayers, IsObject
<1>3. /\ Layers[cls] \in Seq(Layer) /\ layer.name \in Class /\ fs \in Seq(Fields)
      /\ \A i, j \in DOMAIN fs : fs[i].k = fs[j].k => i = j
  <2>1. Layers[cls] \in Seq(Layer) /\ layer.name \in Class /\ fs \in Seq(Fields)
    <3> HIDE DEF cls
    <3> QED
      BY <1>1, <1>2, LayerIs
  <2>2. \A i, j \in DOMAIN fs : fs[i].k = fs[j].k => i = j
    BY <1>1, <1>2, MmPackAssumption
  <2> QED
    BY <2>1, <2>2
<1>4. doing.l \in Nat \ {0}
  <2>1. DOMAIN Layers[cls] = 1 .. Len(Layers[cls]) /\ Len(Layers[cls]) \in Nat
    <3> HIDE DEF cls
    <3> QED
      BY <1>3
  <2> QED
    BY <1>2, <2>1
<1>5. \A i \in DOMAIN fs : IsValue(fs[i].t, body[fs[i].k])
  BY Zenon, <1>1, <1>2 DEF IsObject
<1> HIDE DEF layer, body
<1>6. DOMAIN fs = 1 .. Len(fs) /\ Len(fs) \in Nat /\ \A i \in DOMAIN fs : fs[i] \in Fields
  <2> HIDE DEF fs
  <2> QED
    BY <1>3
<1>7. ASSUME NEW i \in DOMAIN fs PROVE rs[i] \in Seq(Obj)
  BY <1>5, <1>6, RefsAre
<1>8. rs \in Seq(Seq(Obj)) /\ DOMAIN rs = DOMAIN fs
  <2>1. rs \in [1 .. Len(fs) -> Seq(Obj)]
    BY Zenon, <1>6, <1>7
  <2> QED
    BY <1>6, <2>1
<1>9. refs \in Seq(Obj) /\ \A i \in DOMAIN fs : Range(rs[i]) \subseteq Range(refs)
  <2> HIDE DEF rs
  <2> QED
    BY <1>8, FlattenIs
<1>10. \A i \in DOMAIN fs : Range(Refs(fs[i], body[fs[i].k])) \subseteq Range(refs)
  BY <1>9
<1> HIDE DEF refs
<1>11. met \in Seq(Obj) /\ Range(refs) \subseteq Range(met) /\ Len(num) <= Len(met)
       /\ (\A i \in 1 .. Len(num) : met[i] = num[i]) /\ (Distinct(num) => Distinct(met))
  BY <1>1, <1>9, AllNumberedIs
<1> HIDE DEF met
<1>12. More(num, met)
  BY <1>1, <1>11 DEF More
<1>13. \A i \in DOMAIN fs : Range(Refs(fs[i], body[fs[i].k])) \subseteq Range(met)
  BY <1>10, <1>11
<1> QED
  BY Zenon, <1>2, <1>3, <1>4, <1>5, <1>11, <1>12, <1>13 DEF met, refs, rs, layer, body

\* The object at work has one layer more; the others are as they were.
LEMMA LayerShown ==
  ASSUME PackTypes, doing # Null, doing.i < Len(num), doing.l # 0, NEW d, d # Null, d.i = doing.i, d.l = doing.l + 1,
         NEW more, More(num, more),
         NEW s, ShowsObjects(graph, s.box, s.objects, num, doing),
         NEW m, m = s.objects[doing.i].v,
         NEW g, \A j \in DOMAIN s.box : j \in DOMAIN g /\ (j # m => g[j] = s.box[j]),
         ObjectOK(g, more, m, graph[Current], doing.l)
  PROVE  ShowsObjects(graph, g, s.objects, more, d)
<1>1. /\ doing.i \in Nat /\ doing.l \in Nat /\ Current = num[doing.i + 1] /\ Len(num) \in Nat
      /\ doing.i + 1 \in 1 .. Len(num)
  BY AtWork
<1> DEFINE k == doing.i
<1>2. Count(doing, num) = k + 1 /\ Count(d, more) = k + 1
  BY <1>1 DEF Count
<1>3. PICK b : b = s.box
  OBVIOUS
<1>4. PICK obs : obs = s.objects
  OBVIOUS
<1>5. /\ DOMAIN obs = 0 .. (k + 1) - 1
      /\ \A n \in 0 .. (k + 1) - 1 : ObjectAt(graph, b, num, obs, n, Far(graph, doing, num, n))
      /\ \A n, j \in 0 .. (k + 1) - 1 : obs[n].v = obs[j].v => n = j
  BY <1>2, <1>3, <1>4 DEF ShowsObjects
<1>6. \A n \in 0 .. (k + 1) - 1 : n + 1 \in 1 .. Len(num) /\ more[n + 1] = num[n + 1]
  BY <1>1 DEF More
<1>7. k \in 0 .. (k + 1) - 1 /\ obs[k].v = m
  BY <1>1, <1>4
<1>8. m \in DOMAIN b /\ b[m].kind = "object"
  <2>1. ObjectAt(graph, b, num, obs, k, Far(graph, doing, num, k))
    BY <1>5, <1>7
  <2>2. PICK l : l = Far(graph, doing, num, k)
    OBVIOUS
  <2>3. PICK o : o = graph[num[k + 1]]
    OBVIOUS
  <2>4. PICK w : w = obs[k].v
    OBVIOUS
  <2>5. ObjectOK(b, num, w, o, l)
    BY <2>1, <2>2, <2>3, <2>4 DEF ObjectAt
  <2>6. w \in DOMAIN b /\ b[w].kind = "object"
    BY Zenon, <2>5 DEF ObjectOK
  <2> QED
    BY <1>7, <2>4, <2>6
<1>9. ASSUME NEW n \in 0 .. (k + 1) - 1 PROVE ObjectAt(graph, g, more, obs, n, Far(graph, d, more, n))
  <2>1. ObjectAt(graph, b, num, obs, n, Far(graph, doing, num, n))
    BY <1>5
  <2>2. CASE n = k
    <3>1. Far(graph, d, more, n) = doing.l
      BY <1>1, <2>2 DEF Far
    <3>2. graph[more[n + 1]] = graph[Current]
      BY <1>1, <1>6, <2>2
    <3>3. obs[n] = [t |-> "map", v |-> obs[n].v] /\ obs[n].v = m
      BY <1>7, <2>1, <2>2 DEF ObjectAt
    <3> QED
      BY <3>1, <3>2, <3>3 DEF ObjectAt
  <2>3. CASE n # k
    <3>1. PICK mm : mm = obs[n].v
      OBVIOUS
    <3>2. PICK l : l = Far(graph, doing, num, n)
      OBVIOUS
    <3>3. PICK o : o = graph[num[n + 1]]
      OBVIOUS
    <3>4. obs[n] = [t |-> "map", v |-> mm] /\ ObjectOK(b, num, mm, o, l)
      BY <2>1, <3>1, <3>2, <3>3 DEF ObjectAt
    <3>5. mm # m
      BY <1>5, <1>7, <2>3, <3>1
    <3>6. OthersStay(b, g, mm)
      BY <1>3, <1>8, <3>5 DEF OthersStay
    <3>7. ObjectOK(g, more, mm, o, l)
      BY <3>4, <3>6, ObjectStays
    <3>8. Far(graph, d, more, n) = l /\ graph[more[n + 1]] = o
      BY <1>6, <2>3, <3>2, <3>3 DEF Far
    <3> QED
      BY <3>1, <3>4, <3>7, <3>8 DEF ObjectAt
  <2> QED
    BY <2>2, <2>3
<1>10. ShowsObjects(graph, g, obs, more, d)
  BY <1>2, <1>5, <1>9 DEF ShowsObjects
<1> QED
  BY <1>4, <1>10

\* An object whose layers have all come is complete.
LEMMA AllLayers ==
  ASSUME NEW b, NEW met, NEW m, NEW x, NEW l, NEW n,
         \A i \in DOMAIN Layers[x.cls] : i <= l, ObjectOK(b, met, m, x, l)
  PROVE  ObjectOK(b, met, m, x, n)
BY DEF ObjectOK

\* When the last layer has come, the loop of the packer goes on to the next object.
LEMMA EndShown ==
  ASSUME PackTypes, doing # Null, doing.i < Len(num), doing.l > Len(CurrentLayers),
         NEW d, d # Null, d.i = doing.i + 1, d.l = 0,
         NEW b, NEW obs, ShowsObjects(graph, b, obs, num, doing)
  PROVE  ShowsObjects(graph, b, obs, num, d)
<1> DEFINE k == doing.i
<1>1. /\ k \in Nat /\ doing.l \in Nat /\ Current = num[k + 1] /\ Len(num) \in Nat
      /\ graph[Current].cls \in Class
  BY AtWork
<1>2. /\ CurrentLayers = Layers[graph[Current].cls] /\ Len(CurrentLayers) \in Nat
      /\ DOMAIN CurrentLayers = 1 .. Len(CurrentLayers)
  <2>1. CurrentLayers \in Seq(Layer) /\ CurrentLayers = Layers[graph[Current].cls]
    BY <1>1, MmPackAssumption DEF CurrentLayers
  <2> QED
    BY <2>1
<1>3. doing.l # 0
  BY <1>1, <1>2
<1>4. Count(doing, num) = k + 1 /\ Count(d, num) = k + 1
  BY <1>3 DEF Count
<1>5. ASSUME NEW n \in 0 .. (k + 1) - 1 PROVE ObjectAt(graph, b, num, obs, n, Far(graph, d, num, n))
  <2>1. ObjectAt(graph, b, num, obs, n, Far(graph, doing, num, n))
    BY <1>4 DEF ShowsObjects
  <2>2. n # d.i
    BY <1>1
  <2>3. CASE n # k
    <3>1. Far(graph, d, num, n) = Far(graph, doing, num, n)
      BY <2>2, <2>3 DEF Far
    <3> QED
      BY <2>1, <3>1
  <2>4. CASE n = k
    <3>1. PICK o : o = graph[num[n + 1]]
      OBVIOUS
    <3>2. PICK l : l = Far(graph, d, num, n)
      OBVIOUS
    <3>3. PICK m : m = obs[n].v
      OBVIOUS
    <3>4. Far(graph, doing, num, n) = doing.l - 1
      BY <2>4 DEF Far
    <3>5. obs[n] = [t |-> "map", v |-> m] /\ ObjectOK(b, num, m, o, doing.l - 1)
      BY <2>1, <3>1, <3>3, <3>4 DEF ObjectAt
    <3>6. \A i \in DOMAIN Layers[o.cls] : i <= doing.l - 1
      BY <1>1, <1>2, <2>4, <3>1
    <3>7. ObjectOK(b, num, m, o, l)
      BY <3>5, <3>6, AllLayers
    <3> QED
      BY <3>1, <3>2, <3>3, <3>5, <3>7 DEF ObjectAt
  <2> QED
    BY <2>3, <2>4
<1> QED
  BY <1>4, <1>5 DEF ShowsObjects

\* The end of an object.
LEMMA ShowEnd ==
  ASSUME PackInv, ShowInv, PackEnd, graph' = graph
  PROVE  ShowInv'
<1> DEFINE k == doing.i
           x == Tok("object", k, Null)
<1>1. /\ PackTypes /\ doing # Null /\ k < Len(num) /\ doing.l > Len(CurrentLayers)
      /\ num' = num /\ names' = names /\ roots' = roots
      /\ out' = Append(out, x) /\ doing' = [i |-> k + 1, l |-> 0]
  BY DEF PackEnd, PackInv, Packing
<1>2. k \in Nat /\ doing.l \in Nat /\ num \in Seq(Obj) /\ graph[Current].cls \in Class
  BY <1>1, AtWork
<1>3. doing.l # 0
  <2>1. CurrentLayers \in Seq(Layer)
    BY <1>2, MmPackAssumption DEF CurrentLayers
  <2>2. Len(CurrentLayers) \in Nat
    BY <2>1
  <2> QED
    BY <1>1, <1>2, <2>2
<1>4. doing' # Null /\ doing'.i = k + 1 /\ doing'.l = 0
  <2>1. doing' \in [i : Nat, l : Nat] /\ doing'.i = k + 1 /\ doing'.l = 0
    BY <1>1, <1>2
  <2> QED
    BY <2>1, MmPackAssumption
<1>5. PICK s : Runs(Start0, out, s) /\ Shows(graph, s, names, num, doing, roots)
  BY DEF ShowInv
<1>6. /\ DbIs(s.db, names) /\ ShowsObjects(graph, s.box, s.objects, num, doing)
      /\ ShowsRoots(s.box, num, roots) /\ Distinct(names)
      /\ s.current = [num |-> k, box |-> s.objects[k].v] /\ OnObject(s, s.objects[k].v)
  BY <1>1, <1>3, <1>5 DEF Shows, ShowsWork, ShowInv
<1> HIDE DEF k
<1>7. s.current.num = k
  BY <1>6
<1>8. PICK t : /\ Runs(s, <<x>>, t) /\ t.current = Null /\ t.stack = << 1 >>
               /\ t.db = s.db /\ t.box = s.box /\ t.objects = s.objects
  BY <1>6, <1>7, RunEnd
<1>9. ShowsObjects(graph, t.box, t.objects, num, doing')
  <2>1. PICK b : b = s.box
    OBVIOUS
  <2>2. PICK obs : obs = s.objects
    OBVIOUS
  <2>3. PICK d : d = doing'
    OBVIOUS
  <2>4. ShowsObjects(graph, b, obs, num, d)
    BY <1>1, <1>4, <1>6, <2>1, <2>2, <2>3, EndShown DEF k
  <2> QED
    BY <1>8, <2>1, <2>2, <2>3, <2>4
<1>10. x \in Token
  BY <1>2 DEF x, k, Tok, Token, Kinds
<1> HIDE DEF x
<1>11. Runs(Start0, out', t)
  <2>1. PICK xs : xs = <<x>>
    BY Zenon
  <2>2. xs \in Seq(Token) /\ out \in Seq(Token)
    BY <1>1, <1>10, <2>1 DEF PackTypes
  <2>3. Runs(Start0, out \o xs, t)
    BY Zenon, <1>1, <1>5, <1>8, <2>1, <2>2, RunOn
  <2>4. out' = out \o xs
    BY <1>1, <1>10, <2>1, <2>2
  <2> QED
    BY <2>3, <2>4
<1>12. Shows(graph, t, names', num', doing', roots')
  BY <1>1, <1>4, <1>6, <1>8, <1>9 DEF Shows, ShowsWork
<1> QED
  BY <1>1, <1>6, <1>11, <1>12, ShowInvNext

\* The packer has no object left.
LEMMA ShowDone ==
  ASSUME PackInv, ShowInv, PackDone, graph' = graph
  PROVE  ShowInv'
<1>1. /\ PackTypes /\ doing # Null /\ doing.i >= Len(num) /\ doing' = Null
      /\ num' = num /\ names' = names /\ roots' = roots /\ out' = out
  BY DEF PackDone, PackInv
<1>2. /\ doing.i = Len(num) /\ doing.l = 0 /\ Len(num) \in Nat /\ num \in Seq(Obj)
  <2>1. doing \in [i : Nat, l : Nat] /\ num \in Seq(Obj) /\ doing.i <= Len(num) /\ (doing.l # 0 => doing.i < Len(num))
    BY <1>1 DEF PackTypes
  <2> QED
    BY <1>1, <2>1
<1>3. PICK s : Runs(Start0, out, s) /\ Shows(graph, s, names, num, doing, roots)
  BY DEF ShowInv
<1>4. Count(doing, num) = Len(num) /\ Count(doing', num) = Len(num)
      /\ \A n \in 0 .. Len(num) - 1 : Far(graph, doing', num, n) = Far(graph, doing, num, n)
  <2>1. \A n \in 0 .. Len(num) - 1 : n # doing.i
    BY <1>2
  <2> QED
    BY <1>1, <1>2, <2>1 DEF Count, Far
<1>5. ShowsObjects(graph, s.box, s.objects, num, doing')
  <2>1. PICK b : b = s.box
    OBVIOUS
  <2>2. PICK d : d = doing'
    OBVIOUS
  <2>3. RestStays(b, b) /\ More(num, num)
    BY <1>2 DEF RestStays, More
  <2>4. /\ ShowsObjects(graph, b, s.objects, num, doing)
        /\ Count(d, num) = Count(doing, num) /\ Count(doing, num) \in 0 .. Len(num)
        /\ \A n \in 0 .. Count(doing, num) - 1 : Far(graph, d, num, n) = Far(graph, doing, num, n)
    BY <1>2, <1>3, <1>4, <2>1, <2>2 DEF Shows
  <2>5. ShowsObjects(graph, b, s.objects, num, d)
    BY <2>3, <2>4, ObjectsStay
  <2> QED
    BY <2>1, <2>2, <2>5
<1>6. ShowsWork(s, doing) => ShowsWork(s, doing')
  BY <1>1, <1>2 DEF ShowsWork
<1>7. Shows(graph, s, names', num', doing', roots')
  BY <1>1, <1>3, <1>5, <1>6 DEF Shows
<1> QED
  BY <1>1, <1>3, <1>7, ShowInvNext DEF ShowInv

\* The next layer of the object at work.
LEMMA ShowNext ==
  ASSUME PackTypes, ShowInv, doing # Null, doing.i < Len(num), doing.l \in DOMAIN CurrentLayers, graph' = graph,
         doing' = [doing EXCEPT !.l = @ + 1], roots' = roots, Distinct(names'),
         More(num, num'), NEW s, Shows(graph, s, names, num, doing, roots),
         NEW t, Runs(Start0, out', t), t.objects = s.objects, t.current = s.current,
         DbIs(t.db, names'), BoxSeq(t.box), StackAt(t, s.objects[doing.i].v),
         \A j \in DOMAIN s.box : j \in DOMAIN t.box /\ (j # s.objects[doing.i].v => t.box[j] = s.box[j]),
         ObjectOK(t.box, num', s.objects[doing.i].v, graph[Current], doing.l)
  PROVE  ShowInv'
<1> DEFINE k == doing.i
           m == s.objects[k].v
<1>1. k \in Nat /\ doing \in [i : Nat, l : Nat]
  BY AtWork
<1>2. doing.l \in Nat \ {0}
  BY Zenon, AtLayer
<1>3. doing' # Null /\ doing'.i = k /\ doing'.l = doing.l + 1 /\ doing'.l # 0
  <2>1. doing' \in [i : Nat, l : Nat] /\ doing'.i = k /\ doing'.l = doing.l + 1
    BY <1>1, <1>2
  <2> QED
    BY <1>2, <2>1, MmPackAssumption
<1>4. /\ ShowsObjects(graph, s.box, s.objects, num, doing) /\ ShowsRoots(s.box, num, roots)
      /\ k \in DOMAIN s.objects /\ s.current = [num |-> k, box |-> m] /\ OnObject(s, m)
  BY <1>2 DEF Shows, ShowsWork
<1> HIDE DEF m, k
<1>5. m # 1 /\ m \in DOMAIN s.box /\ s.current # Null /\ s.current.box = m
  BY <1>4 DEF OnObject
<1>6. PICK more : more = num'
  OBVIOUS
<1>7. PICK d : d = doing'
  OBVIOUS
<1>8. PICK g : g = t.box
  OBVIOUS
<1>9. ShowsObjects(graph, g, s.objects, more, d)
  <2>1. /\ d # Null /\ d.i = doing.i /\ d.l = doing.l + 1 /\ More(num, more) /\ doing.l # 0
        /\ m = s.objects[doing.i].v
        /\ \A j \in DOMAIN s.box : j \in DOMAIN g /\ (j # m => g[j] = s.box[j])
        /\ ObjectOK(g, more, m, graph[Current], doing.l)
    BY <1>2, <1>3, <1>6, <1>7, <1>8 DEF m, k
  <2> QED
    BY <1>4, <2>1, LayerShown
<1>10. ShowsRoots(g, more, roots)
  <2>1. PICK b : b = s.box
    OBVIOUS
  <2>2. ShowsRoots(b, num, roots) /\ More(num, more) /\ BoxSeq(g) /\ 1 \in DOMAIN g /\ g[1] = b[1]
    <3>1. 1 \in DOMAIN s.box
      BY <1>4 DEF ShowsRoots
    <3>2. 1 # m
      BY <1>5
    <3>3. 1 \in DOMAIN t.box /\ t.box[1] = s.box[1]
      BY <3>1, <3>2 DEF m, k
    <3> QED
      BY <1>4, <1>6, <1>8, <2>1, <3>3
  <2> QED
    BY <2>2, RootsStay
<1>11. ShowsWork(t, d)
  <2>1. m \in DOMAIN t.box /\ BoxSeq(t.box) /\ StackAt(t, m)
    BY <1>5 DEF m, k
  <2>2. OnObject(t, m)
    BY <1>5, <2>1 DEF OnObject
  <2> QED
    BY <1>3, <1>4, <1>7, <2>2 DEF ShowsWork, m
<1>12. Shows(graph, t, names', num', doing', roots')
  BY <1>6, <1>7, <1>8, <1>9, <1>10, <1>11 DEF Shows
<1> QED
  BY <1>12, ShowInvNext

\* The next layer of the object at work, packed or not.
LEMMA ShowLayer ==
  ASSUME PackInv, ShowInv, PackLayer, graph' = graph
  PROVE  ShowInv'
<1> DEFINE k == doing.i
           layer == CurrentLayers[doing.l]
           name == layer.name
           body == graph[Current].body[doing.l]
           fs == layer.fields
           refs == FlattenSeq([i \in DOMAIN fs |-> Refs(fs[i], body[fs[i].k])])
           met == AllNumbered(num, refs)
           fields == FlattenSeq([i \in DOMAIN fs |-> FieldTokens(met, fs[i], body[fs[i].k])])
           x == Tok("context", Id(Named(name), name), Null)
<1>1. /\ PackTypes /\ doing # Null /\ doing.i < Len(num) /\ doing.l \in DOMAIN CurrentLayers
      /\ doing' = [doing EXCEPT !.l = @ + 1] /\ roots' = roots
  BY ZenonT(60) DEF PackLayer, PackInv, Packing
<1>2. IF layer.pack
      THEN num' = met /\ names' = Named(name) /\ out' = ((out \o NameTokens(name)) \o <<x>>) \o fields
      ELSE num' = num /\ names' = names /\ out' = out
  BY ZenonT(60) DEF PackLayer
<1>3. /\ CurrentLayers = Layers[graph[Current].cls] /\ doing.l \in Nat \ {0}
      /\ name \in Class /\ fs \in Seq(Fields)
      /\ \A i, j \in DOMAIN fs : fs[i].k = fs[j].k => i = j
      /\ \A i \in DOMAIN fs : IsValue(fs[i].t, body[fs[i].k])
      /\ \A i \in DOMAIN fs : Range(Refs(fs[i], body[fs[i].k])) \subseteq Range(met)
      /\ met \in Seq(Obj) /\ More(num, met)
  BY Zenon, <1>1, AtLayer
<1>4. /\ k \in Nat /\ num \in Seq(Obj) /\ Current = num[k + 1]
      /\ graph[Current].cls \in Class /\ names \in Seq(Class) /\ k + 1 \in 1 .. Len(num)
  BY <1>1, AtWork
<1> HIDE DEF met, refs
<1>5. PICK s : Runs(Start0, out, s) /\ Shows(graph, s, names, num, doing, roots)
  BY DEF ShowInv
<1> DEFINE m == s.objects[k].v
           o == graph[Current]
<1>6. /\ DbIs(s.db, names) /\ ShowsObjects(graph, s.box, s.objects, num, doing)
      /\ Distinct(names) /\ OnObject(s, m)
  BY Zenon, <1>1, <1>3, <1>5 DEF Shows, ShowsWork, ShowInv
<1>7. ObjectOK(s.box, num, m, o, doing.l - 1)
  <2>1. Count(doing, num) = k + 1 /\ Far(graph, doing, num, k) = doing.l - 1
    BY Zenon, <1>1, <1>3 DEF Count, Far
  <2>2. k \in 0 .. (k + 1) - 1
    BY <1>4
  <2>3. ObjectAt(graph, s.box, num, s.objects, k, doing.l - 1)
    BY <1>6, <2>1, <2>2 DEF ShowsObjects
  <2> QED
    BY <1>4, <2>3 DEF ObjectAt
<1>8. CASE layer.pack
  <2>1. num' = met /\ names' = Named(name) /\ out' = ((out \o NameTokens(name)) \o <<x>>) \o fields
    BY Zenon, <1>2, <1>8
  <2>2. LayerTokens(met, name, fs, body) \in Seq(Token) /\ \E t : LayerRun(s, t, m, met, name, fs, body)
    <3>1. PICK mm : mm = m
      OBVIOUS
    <3>2. PICK nn : nn = name
      OBVIOUS
    <3>3. PICK ff : ff = fs
      OBVIOUS
    <3>4. PICK bb : bb = body
      OBVIOUS
    <3>5. PICK all : all = met
      OBVIOUS
    <3>6. /\ nn \in Class /\ ff \in Seq(Fields) /\ all \in Seq(Obj)
          /\ \A i, j \in DOMAIN ff : ff[i].k = ff[j].k => i = j
          /\ \A i \in DOMAIN ff : IsValue(ff[i].t, bb[ff[i].k])
          /\ \A i \in DOMAIN ff : Range(Refs(ff[i], bb[ff[i].k])) \subseteq Range(all)
          /\ OnObject(s, mm)
      BY Zenon, <1>3, <1>6, <3>1, <3>2, <3>3, <3>4, <3>5
    <3>7. LayerTokens(all, nn, ff, bb) \in Seq(Token) /\ \E t : LayerRun(s, t, mm, all, nn, ff, bb)
      BY Zenon, <1>4, <1>6, <3>6, RunLayer
    <3> QED
      BY <3>1, <3>2, <3>3, <3>4, <3>5, <3>7
  <2>3. PICK t : LayerRun(s, t, m, met, name, fs, body)
    BY <2>2
  <2>4. Runs(s, LayerTokens(met, name, fs, body), t) /\ DbIs(t.db, Named(name))
    BY <2>3 DEF LayerRun
  <2>5. PICK c : ContextNew(s, t, m, name, c) /\ ContextOK(t.box, met, c, fs, body)
    BY <2>3 DEF LayerRun
  <2>6. /\ t.objects = s.objects /\ t.current = s.current /\ t.stack = <<1, m, c>> /\ BoxSeq(t.box) /\ c \in Nat /\ c # m
        /\ \A j \in DOMAIN s.box : j \in DOMAIN t.box /\ (j # m => t.box[j] = s.box[j])
    BY Zenon, <2>5 DEF ContextNew
  <2>7. Runs(Start0, out', t)
    <3>1. LayerTokens(met, name, fs, body) = (NameTokens(name) \o <<x>>) \o fields
      BY DEF LayerTokens
    <3>2. NameTokens(name) \in Seq(Token) /\ Id(Named(name), name) \in 0 .. Len(Named(name)) - 1
      <4>1. PICK nn : nn = name
        OBVIOUS
      <4>2. nn \in Class
        BY Zenon, <1>3, <4>1
      <4>3. NameTokens(nn) \in Seq(Token) /\ Id(Named(nn), nn) \in 0 .. Len(Named(nn)) - 1
        BY <1>4, <1>6, <4>2, RunName
      <4> QED
        BY <4>1, <4>3
    <3>3. x \in Token
      <4>1. Id(Named(name), name) \in Nat
        BY <3>2
      <4> QED
        BY <4>1 DEF Tok, Token, Kinds
    <3>4. PICK ys : ys = NameTokens(name)
      OBVIOUS
    <3>5. PICK xs : xs = <<x>>
      BY Zenon
    <3>6. xs \in Seq(Token)
      BY <3>3, <3>5
    <3>7. PICK zs : zs = fields
      OBVIOUS
    <3>8. fields \in Seq(Token)
      <4>1. PICK rs : rs = refs
        OBVIOUS
      <4>2. PICK all : all = met
        OBVIOUS
      <4>3. PICK ff : ff = fs
        OBVIOUS
      <4>4. PICK bb : bb = body
        OBVIOUS
      <4>5. /\ rs = FlattenSeq([i \in DOMAIN ff |-> Refs(ff[i], bb[ff[i].k])])
            /\ all = AllNumbered(num, rs) /\ ff \in Seq(Fields)
            /\ \A i \in DOMAIN ff : IsValue(ff[i].t, bb[ff[i].k])
        BY Zenon, <1>3, <4>1, <4>2, <4>3, <4>4 DEF met, refs
      <4>6. PICK z : z = FlattenSeq([i \in DOMAIN ff |-> FieldTokens(all, ff[i], bb[ff[i].k])])
        OBVIOUS
      <4>7. z \in Seq(Token)
        BY Zenon, <1>4, <4>5, <4>6, LayerTokensAre
      <4> QED
        BY ZenonT(60), <4>2, <4>3, <4>4, <4>6, <4>7
    <3>9. out \in Seq(Token)
      BY <1>1 DEF PackTypes
    <3>10. ((out \o ys) \o xs) \o zs = out \o ((ys \o xs) \o zs)
      <4>1. ys \in Seq(Token) /\ zs \in Seq(Token)
        BY Zenon, <3>2, <3>4, <3>7, <3>8
      <4>2. (out \o ys) \o xs = out \o (ys \o xs)
        BY <3>6, <3>9, <4>1, Regrouped
      <4>3. PICK w : w = ys \o xs
        BY Zenon
      <4>4. w \in Seq(Token)
        BY <3>6, <4>1, <4>3, ConcatIs
      <4>5. (out \o w) \o zs = out \o (w \o zs)
        BY <3>9, <4>1, <4>4, Regrouped
      <4> QED
        BY <4>2, <4>3, <4>5
    <3>11. out' = out \o LayerTokens(met, name, fs, body)
      BY Zenon, <2>1, <3>1, <3>4, <3>5, <3>7, <3>10
    <3>12. PICK ls : ls = LayerTokens(met, name, fs, body)
      OBVIOUS
    <3>13. Runs(Start0, out \o ls, t)
      BY <1>1, <1>5, <2>2, <2>4, <3>12, RunOn
    <3> QED
      BY <3>11, <3>12, <3>13
  <2>8. StackAt(t, m)
    BY <2>6 DEF StackAt
  <2>9. ObjectOK(t.box, met, m, o, doing.l)
    <3>1. PICK l : l = doing.l
      OBVIOUS
    <3>2. PICK mm : mm = m
      OBVIOUS
    <3>3. PICK y : y = o
      OBVIOUS
    <3>4. /\ y.cls \in Class /\ l \in DOMAIN Layers[y.cls] /\ ObjectOK(s.box, num, mm, y, l - 1)
          /\ ContextNew(s, t, mm, Layers[y.cls][l].name, c)
          /\ ContextOK(t.box, met, c, Layers[y.cls][l].fields, y.body[l])
      BY ZenonT(60), <1>1, <1>3, <1>4, <1>7, <2>5, <3>1, <3>2, <3>3
    <3>5. ObjectOK(t.box, met, mm, y, l)
      BY ZenonT(60), <1>3, <3>4, ObjectGrows
    <3> QED
      BY <3>1, <3>2, <3>3, <3>5
  <2>10. Distinct(names')
    <3>1. PICK nn : nn = name
      OBVIOUS
    <3>2. Distinct(Named(nn))
      BY Zenon, <1>3, <1>4, <1>6, <3>1, RunName
    <3> QED
      BY ZenonT(60), <2>1, <3>1, <3>2
  <2> QED
    BY ZenonT(60), <1>1, <1>3, <1>5, <2>1, <2>4, <2>6, <2>7, <2>8, <2>9, <2>10, ShowNext
<1>9. CASE ~layer.pack
  <2>1. num' = num /\ names' = names /\ out' = out
    BY Zenon, <1>2, <1>9
  <2>2. More(num, num)
    BY <1>4 DEF More
  <2>3. /\ BoxSeq(s.box) /\ StackAt(s, m)
        /\ \A j \in DOMAIN s.box : j \in DOMAIN s.box /\ (j # m => s.box[j] = s.box[j])
    BY <1>6 DEF OnObject
  <2>4. ObjectOK(s.box, num, m, o, doing.l)
    <3>1. PICK l : l = doing.l
      OBVIOUS
    <3>2. PICK y : y = o
      OBVIOUS
    <3>3. ObjectOK(s.box, num, m, y, l - 1) /\ ~Layers[y.cls][l].pack /\ l \in Nat
      BY Zenon, <1>3, <1>7, <1>9, <3>1, <3>2
    <3>4. Layers[y.cls] \in Seq(Layer)
      BY <1>4, <3>2, MmPackAssumption
    <3>5. \A i \in DOMAIN Layers[y.cls] : i <= l /\ Layers[y.cls][i].pack => i <= l - 1
      <4>1. DOMAIN Layers[y.cls] \subseteq Nat
        BY <3>4
      <4> QED
        BY <3>3, <4>1
    <3>6. ObjectOK(s.box, num, m, y, l)
      BY Zenon, <3>3, <3>5 DEF ObjectOK
    <3> QED
      BY <3>1, <3>2, <3>6
  <2> QED
    BY <1>1, <1>5, <1>6, <2>1, <2>2, <2>3, <2>4, ShowNext
<1> QED
  BY <1>8, <1>9

\* What the packer wrote stays as it is read.
LEMMA ShowSame ==
  ASSUME ShowInv, UNCHANGED <<graph, packer>>
  PROVE  ShowInv'
<1>1. /\ graph' = graph /\ num' = num /\ names' = names /\ out' = out /\ doing' = doing /\ roots' = roots
  BY DEF packer
<1>2. PICK s : Runs(Start0, out, s) /\ Shows(graph, s, names, num, doing, roots)
  BY DEF ShowInv
<1>3. Runs(Start0, out', s) /\ Shows(graph, s, names', num', doing', roots') /\ Distinct(names')
  BY <1>1, <1>2 DEF ShowInv
<1> QED
  BY <1>1, <1>3, ShowInvNext

\* Whatever the packer has written so far, process() would go through without
\* refusing anything, and would have for each number the properties of the one
\* object that got it, as far as they are written, and for each root what the
\* program packed: for any graph, any classes and any calls.
THEOREM StreamIsReadable == Spec => []ShowInv
<1>1. Init => ShowInv
  BY ShowInit
<1>2. PackInv /\ ShowInv /\ [Next]_vars => ShowInv'
  <2> SUFFICES ASSUME PackInv, ShowInv, [Next]_vars PROVE ShowInv'
    OBVIOUS
  <2>1. CASE UNCHANGED <<graph, packer>>
    BY <2>1, ShowSame
  <2>2. CASE Packs
    BY <2>2, ShowRoot, ShowRootLeaf, ShowObject, ShowLayer, ShowEnd, ShowDone DEF Packs, Pack
  <2>3. CASE Parse
    BY <2>1, <2>3 DEF Parse, ParseStart, ParseToken, ParseEnd
  <2>4. CASE ReadStep
    BY <2>1, <2>4 DEF ReadStep
  <2>5. CASE UNCHANGED vars
    BY <2>1, <2>5 DEF vars
  <2> QED
    BY <2>2, <2>3, <2>4, <2>5 DEF Next
<1> QED
  BY <1>1, <1>2, PackerInvariance, PTL DEF Spec

----------------------------------------------------------------------------
(* process() on the stream                                                 *)

\* The parser is in state u.
AtState(u) ==
  current = u.current /\ db = u.db /\ box = u.box /\ stack = u.stack /\ objects = u.objects

\* The boxes the parser knows exist.
StateOK(u) ==
  /\ IsSeq(u.box) /\ IsSeq(u.stack) /\ \A i \in DOMAIN u.stack : u.stack[i] \in 1 .. Len(u.box)
  /\ DOMAIN u.db \subseteq 0 .. Cardinality(Class) - 1
  /\ \A n \in DOMAIN u.objects : u.objects[n].t = "map" /\ u.objects[n].v \in 1 .. Len(u.box)

\* The first elements of a sequence.
LEMMA SeqFirst ==
  ASSUME NEW s, IsSeq(s), NEW n \in Nat, n <= Len(s)
  PROVE  LET r == SubSeq(s, 1, n)
         IN  IsSeq(r) /\ Len(r) = n /\ DOMAIN r = 1 .. n /\ \A i \in 1 .. n : r[i] = s[i]
<1>1. s \in Seq(Range(s)) /\ Len(s) \in Nat /\ DOMAIN s = 1 .. Len(s)
  BY SeqPlaces DEF IsSeq
<1>2. PICK S : S = Range(s)
  OBVIOUS
<1>3. PICK r : r = SubSeq(s, 1, n)
  BY Zenon
<1>4. s \in Seq(S)
  BY <1>1, <1>2
<1>5. r \in Seq(S) /\ Len(r) = n /\ DOMAIN r = 1 .. n /\ \A i \in 1 .. n : r[i] = s[i]
  BY <1>1, <1>3, <1>4
<1> QED
  BY Zenon, <1>3, <1>5, SeqIs

\* Fewer boxes on the stack.
LEMMA FewerOK ==
  ASSUME NEW s, IsSeq(s), NEW n, NEW r, r = Front(s) \/ (r = SubSeq(s, 1, n) /\ n \in DOMAIN s),
         NEW P, \A i \in DOMAIN s : s[i] \in P
  PROVE  IsSeq(r) /\ \A i \in DOMAIN r : r[i] \in P
<1>1. s \in Seq(Range(s)) /\ Len(s) \in Nat /\ DOMAIN s = 1 .. Len(s)
  BY SeqPlaces DEF IsSeq
<1>2. ASSUME NEW k \in Nat, k <= Len(s), r = SubSeq(s, 1, k)
      PROVE  IsSeq(r) /\ \A i \in DOMAIN r : r[i] \in P
  <2>1. IsSeq(r) /\ DOMAIN r = 1 .. k /\ \A i \in 1 .. k : r[i] = s[i]
    BY <1>2, SeqFirst
  <2>2. 1 .. k \subseteq 1 .. Len(s)
    BY <1>1, <1>2
  <2> QED
    BY <1>1, <2>1, <2>2
<1>3. CASE r = SubSeq(s, 1, n) /\ n \in DOMAIN s
  BY <1>1, <1>2, <1>3
<1>4. CASE r = Front(s) /\ s # <<>>
  <2>1. PICK k : k = Len(s) - 1
    OBVIOUS
  <2>2. Len(s) # 0
    BY <1>1, <1>4
  <2>3. k \in Nat /\ k <= Len(s) /\ r = SubSeq(s, 1, k)
    BY <1>1, <1>4, <2>1, <2>2 DEF Front
  <2> QED
    BY <1>2, <2>3
<1>5. CASE r = Front(s) /\ s = <<>>
  <2>1. r = SubSeq(s, 1, 0 - 1)
    BY <1>1, <1>5 DEF Front
  <2>2. r = <<>>
    <3>1. PICK S : S = Range(s)
      OBVIOUS
    <3>2. s \in Seq(S)
      BY <1>1, <3>1
    <3> QED
      BY <2>1, <3>2
  <2>3. IsSeq(r) /\ DOMAIN r = {}
    BY <2>2 DEF IsSeq
  <2> QED
    BY <2>3
<1> QED
  BY <1>3, <1>4, <1>5

\* A token leaves boxes that exist.
LEMMA ReadsKeeps ==
  ASSUME NEW x, NEW s, NEW t, StateOK(s), Reads(x, s, t)
  PROVE  StateOK(t)
<1>1. PICK b : b = s.box
  OBVIOUS
<1>2. PICK st : st = s.stack
  OBVIOUS
<1>3. PICK obs : obs = s.objects
  OBVIOUS
<1>4. /\ IsSeq(b) /\ IsSeq(st) /\ \A i \in DOMAIN st : st[i] \in 1 .. Len(b)
      /\ DOMAIN s.db \subseteq 0 .. Cardinality(Class) - 1
      /\ \A n \in DOMAIN obs : obs[n].t = "map" /\ obs[n].v \in 1 .. Len(b)
  BY <1>1, <1>2, <1>3 DEF StateOK
<1>5. Len(b) \in Nat /\ DOMAIN b = 1 .. Len(b) /\ Len(st) \in Nat /\ DOMAIN st = 1 .. Len(st)
  BY <1>4, SeqPlaces
<1> DEFINE new == Len(b) + 1
<1>6. ASSUME NEW q, IsSeq(q), \A i \in DOMAIN q : q[i] \in 1 .. Len(b)
      PROVE  IsSeq(Append(q, new)) /\ \A i \in DOMAIN Append(q, new) : Append(q, new)[i] \in 1 .. Len(b) + 1
  <2>1. PICK z : z = Append(q, new)
    BY Zenon
  <2>2. /\ IsSeq(z) /\ Len(z) = Len(q) + 1 /\ z[Len(q) + 1] = new
        /\ \A i \in 1 .. Len(q) : z[i] = q[i]
    BY <1>6, <2>1, SeqAppend
  <2>3. DOMAIN z = 1 .. Len(q) + 1 /\ Len(q) \in Nat /\ DOMAIN q = 1 .. Len(q)
    BY <1>6, <2>2, SeqPlaces
  <2>4. \A i \in DOMAIN z : i = Len(q) + 1 \/ i \in DOMAIN q
    BY <2>3
  <2>5. \A i \in DOMAIN z : z[i] \in 1 .. Len(b) + 1
    BY <1>5, <1>6, <2>2, <2>3, <2>4
  <2> QED
    BY <2>1, <2>2, <2>5
<1>7. ASSUME NEW c, NEW w, NEW k PROVE IsSeq([b EXCEPT ![c] = w]) /\ Len([b EXCEPT ![c] = w]) = Len(b)
  <2>1. PICK d : d = [b EXCEPT ![c] = w]
    BY Zenon
  <2>2. DOMAIN d = DOMAIN b /\ d = [j \in DOMAIN b |-> d[j]]
    BY Zenon, <2>1
  <2>3. IsSeq(d) /\ Len(d) = Len(b)
    BY <1>4, <2>2, SeqReplaced
  <2> QED
    BY <2>1, <2>3
<1>8. ASSUME NEW d, IsSeq(d), Len(d) = Len(b), NEW w PROVE IsSeq(Append(d, w)) /\ Len(Append(d, w)) = Len(b) + 1
  BY <1>8, SeqAppend
<1>9. \A n : n \in 1 .. Len(b) => n \in 1 .. Len(b) + 1
  BY <1>5
<1>10. CASE ReadsValue(x, s, t)
  <2>1. IsSeq(t.box) /\ Len(t.box) = Len(b)
    BY <1>1, <1>7, <1>10 DEF ReadsValue
  <2> QED
    BY <1>2, <1>3, <1>4, <1>10, <2>1 DEF ReadsValue, StateOK
<1>11. CASE ReadsArray(x, s, t)
  <2>1. CASE x.v > 0
    <3>1. IsSeq(t.box) /\ Len(t.box) = Len(b) + 1
      <4>1. PICK c : c = Last(s.stack)
        OBVIOUS
      <4>2. PICK w : w = Put(b[c], x.k, [t |-> "array", v |-> new])
        OBVIOUS
      <4>3. PICK d : d = [b EXCEPT ![c] = w]
        BY Zenon
      <4>4. t.box = Append(d, NewBox("list", Null))
        BY <1>1, <1>11, <2>1, <4>1, <4>2, <4>3 DEF ReadsArray
      <4>5. IsSeq(d) /\ Len(d) = Len(b)
        BY Zenon, <1>7, <4>3
      <4> QED
        BY <1>8, <4>4, <4>5
    <3>2. t.stack = Append(st, new)
      BY <1>1, <1>2, <1>11, <2>1 DEF ReadsArray
    <3>3. IsSeq(t.stack) /\ \A i \in DOMAIN t.stack : t.stack[i] \in 1 .. Len(b) + 1
      BY <1>4, <1>6, <3>2
    <3> QED
      BY <1>3, <1>4, <1>9, <1>11, <3>1, <3>3 DEF ReadsArray, StateOK
  <2>2. CASE ~(x.v > 0)
    <3>1. t.box = b /\ t.stack = Front(st)
      BY <1>1, <1>2, <1>11, <2>2 DEF ReadsArray
    <3>2. PICK r : r = t.stack
      OBVIOUS
    <3>3. PICK P : P = 1 .. Len(b)
      OBVIOUS
    <3>4. IsSeq(r) /\ \A i \in DOMAIN r : r[i] \in P
      BY Zenon, <1>4, <3>1, <3>2, <3>3, FewerOK
    <3> QED
      BY <1>3, <1>4, <1>11, <3>1, <3>2, <3>3, <3>4 DEF ReadsArray, StateOK
  <2> QED
    BY <2>1, <2>2
<1>12. CASE ReadsBegin(x, s, t)
  <2>1. IsSeq(t.box) /\ Len(t.box) = Len(b) + 1
    <3>1. t.box = Append(b, NewBox("object", s.db[x.v]))
      BY <1>1, <1>12 DEF ReadsBegin
    <3> QED
      BY <1>4, <1>8, <3>1
  <2>2. IsSeq(t.stack) /\ \A i \in DOMAIN t.stack : t.stack[i] \in 1 .. Len(b) + 1
    <3>1. t.stack = Append(st, new)
      BY <1>1, <1>2, <1>12 DEF ReadsBegin
    <3> QED
      BY <1>4, <1>6, <3>1
  <2>3. PICK a : a = t.objects
    OBVIOUS
  <2>4. \A n \in DOMAIN a : a[n].t = "map" /\ a[n].v \in 1 .. Len(b) + 1
    <3> DEFINE e == [t |-> "map", v |-> new]
    <3>1. PICK k : k = x.k
      OBVIOUS
    <3>2. e.t = "map" /\ e.v = new /\ new \in 1 .. Len(b) + 1
      BY <1>5
    <3> HIDE DEF e
    <3>3. a = Under(obs, k, e)
      BY <1>1, <1>3, <1>12, <2>3, <3>1 DEF ReadsBegin, e
    <3>4. DOMAIN a = DOMAIN obs \cup {k} /\ a[k] = e /\ \A j \in DOMAIN obs : j # k => a[j] = obs[j]
      BY <3>3 DEF Under
    <3> QED
      BY <1>4, <1>9, <3>2, <3>4
  <2> QED
    BY <1>4, <1>12, <2>1, <2>2, <2>3, <2>4 DEF ReadsBegin, StateOK
<1>13. CASE ReadsEnd(x, s, t)
  <2>1. PICK n : n = CHOOSE i \in DOMAIN st : st[i] = s.current.box
    OBVIOUS
  <2>2. n \in DOMAIN st
    BY <1>2, <1>13, <2>1 DEF ReadsEnd, Range
  <2>3. PICK u : u = DownTo(st, s.current.box)
    OBVIOUS
  <2>4. u = SubSeq(st, 1, n)
    BY <2>1, <2>3 DEF DownTo
  <2>5. PICK P : P = 1 .. Len(b)
    OBVIOUS
  <2>6. IsSeq(u) /\ \A i \in DOMAIN u : u[i] \in P
    BY Zenon, <1>4, <2>2, <2>4, <2>5, FewerOK
  <2>7. PICK r : r = t.stack
    OBVIOUS
  <2>8. r = Front(u)
    BY <1>2, <1>13, <2>3, <2>7 DEF ReadsEnd
  <2>9. IsSeq(r) /\ \A i \in DOMAIN r : r[i] \in P
    BY <2>6, <2>8, FewerOK
  <2> QED
    BY <1>1, <1>3, <1>4, <1>13, <2>5, <2>7, <2>9 DEF ReadsEnd, StateOK
<1>14. CASE ReadsContext(x, s, t)
  <2>1. PICK n : n = CHOOSE i \in DOMAIN st : st[i] = s.current.box
    OBVIOUS
  <2>2. n \in DOMAIN st
    BY <1>2, <1>14, <2>1 DEF ReadsContext, Range
  <2>3. PICK u : u = DownTo(st, s.current.box)
    OBVIOUS
  <2>4. u = SubSeq(st, 1, n)
    BY <2>1, <2>3 DEF DownTo
  <2>5. PICK P : P = 1 .. Len(b)
    OBVIOUS
  <2>6. IsSeq(u) /\ \A i \in DOMAIN u : u[i] \in P
    BY Zenon, <1>4, <2>2, <2>4, <2>5, FewerOK
  <2>7. t.stack = Append(u, new)
    BY <1>1, <1>2, <1>14, <2>3 DEF ReadsContext
  <2>8. IsSeq(t.stack) /\ \A i \in DOMAIN t.stack : t.stack[i] \in 1 .. Len(b) + 1
    BY <1>6, <2>5, <2>6, <2>7
  <2>9. IsSeq(t.box) /\ Len(t.box) = Len(b) + 1
    <3> DEFINE c == Last(DownTo(s.stack, s.current.box))
               w == Under(b[c].ctx, s.db[x.k], Len(b) + 1)
               y == NewBox("context", Null)
    <3>1. t.box = Append([b EXCEPT ![c].ctx = w], y)
      BY <1>1, <1>14 DEF ReadsContext
    <3> HIDE DEF c, w, y
    <3>2. PICK d : d = [b EXCEPT ![c].ctx = w]
      BY Zenon
    <3>3. DOMAIN d = DOMAIN b /\ d = [j \in DOMAIN b |-> d[j]]
      BY Zenon, <3>2
    <3>4. IsSeq(d) /\ Len(d) = Len(b)
      BY <1>4, <3>3, SeqReplaced
    <3> QED
      BY Zenon, <1>8, <3>1, <3>2, <3>4
  <2> QED
    BY Zenon, <1>3, <1>4, <1>9, <1>14, <2>8, <2>9 DEF ReadsContext, StateOK
<1>15. CASE ReadsName(x, s, t)
  <2>1. DOMAIN t.db \subseteq 0 .. Cardinality(Class) - 1
    BY <1>4, <1>15 DEF ReadsName, Under
  <2> QED
    BY <1>1, <1>2, <1>3, <1>4, <1>15, <2>1 DEF ReadsName, StateOK
<1>16. CASE ReadsVersion(x, s, t)
  BY <1>16 DEF ReadsVersion, StateOK
<1> QED
  BY <1>10, <1>11, <1>12, <1>13, <1>14, <1>15, <1>16 DEF Reads

\* The parser does what the token makes of its state, and refuses nothing.
LEMMA TokenStep ==
  ASSUME fault = "none", NEW s, AtState(s), NEW t, Reads(out[pos], s, t), ParseToken
  PROVE  /\ current' = t.current /\ db' = t.db /\ box' = t.box /\ stack' = t.stack /\ objects' = t.objects
         /\ fault' = "none"
<1> DEFINE x == out[pos]
<1>1. /\ current = s.current /\ db = s.db /\ box = s.box /\ stack = s.stack /\ objects = s.objects
      /\ x.k = Key /\ x.v = Val
  BY DEF AtState, Key, Val
<1>2. CASE ParseValue
  <2>1. PICK c \in Leaves \cup {"ref"} : At(c) /\ box' = [box EXCEPT ![Top] = Put(@, Key, [t |-> c, v |-> Val])]
    BY Zenon, <1>2 DEF ParseValue
  <2>2. x.t = c
    BY <2>1 DEF At
  <2>3. ReadsValue(x, s, t)
    BY <2>1, <2>2 DEF Reads, ReadsValue, ReadsArray, ReadsBegin, ReadsEnd, ReadsContext, ReadsName, ReadsVersion, Leaves
  <2>4. box' = t.box
    BY <1>1, <2>1, <2>2, <2>3 DEF ReadsValue, Top
  <2> QED
    BY <1>1, <1>2, <2>3, <2>4 DEF ParseValue, ReadsValue
<1>3. CASE ParseArray
  <2>1. x.t = "array"
    BY <1>3 DEF ParseArray, At
  <2>2. ReadsArray(x, s, t)
    BY <2>1 DEF Reads, ReadsValue, ReadsArray, ReadsBegin, ReadsEnd, ReadsContext, ReadsName, ReadsVersion, Leaves
  <2>3. box' = t.box /\ stack' = t.stack
    BY Zenon, <1>1, <1>3, <2>2 DEF ParseArray, ReadsArray, Top
  <2> QED
    BY <1>1, <1>3, <2>2, <2>3 DEF ParseArray, ReadsArray
<1>4. CASE ParseObject
  <2>1. x.t = "object"
    BY <1>4 DEF ParseObject, At
  <2>2. ReadsBegin(x, s, t) \/ ReadsEnd(x, s, t)
    BY <2>1 DEF Reads, ReadsValue, ReadsArray, ReadsBegin, ReadsEnd, ReadsContext, ReadsName, ReadsVersion, Leaves
  <2>3. CASE ReadsBegin(x, s, t)
    BY <1>1, <1>4, <2>3 DEF ParseObject, ReadsBegin
  <2>4. CASE ReadsEnd(x, s, t)
    BY <1>1, <1>4, <2>4 DEF ParseObject, ReadsEnd
  <2> QED
    BY <2>2, <2>3, <2>4
<1>5. CASE ParseContext
  <2>1. x.t = "context"
    BY <1>5 DEF ParseContext, At
  <2>2. ReadsContext(x, s, t)
    BY <2>1 DEF Reads, ReadsValue, ReadsArray, ReadsBegin, ReadsEnd, ReadsContext, ReadsName, ReadsVersion, Leaves
  <2> QED
    BY <1>1, <1>5, <2>2 DEF ParseContext, ReadsContext, ContextAfter
<1>6. CASE ParseName
  <2>1. x.t = "name"
    BY <1>6 DEF ParseName, At
  <2>2. ReadsName(x, s, t)
    BY <2>1 DEF Reads, ReadsValue, ReadsArray, ReadsBegin, ReadsEnd, ReadsContext, ReadsName, ReadsVersion, Leaves
  <2> QED
    BY <1>1, <1>6, <2>2 DEF ParseName, ReadsName
<1>7. CASE ParseVersion
  <2>1. x.t = "function"
    BY <1>7 DEF ParseVersion, At
  <2>2. ReadsVersion(x, s, t)
    BY <2>1 DEF Reads, ReadsValue, ReadsArray, ReadsBegin, ReadsEnd, ReadsContext, ReadsName, ReadsVersion, Leaves
  <2> QED
    BY <1>1, <1>7, <2>2 DEF ParseVersion, ReadsVersion
<1> QED
  BY <1>2, <1>3, <1>4, <1>5, <1>6, <1>7 DEF ParseToken

\* What is so before the objects are read.
BeforeInv ==
  /\ mode \in {"pack", "parse", "read"}
  /\ mode = "pack" => pos = 1 /\ current = Null /\ db = Empty /\ stack = <<>> /\ objects = Empty
  /\ mode # "pack" => doing = Null
  /\ mode # "read" => fault = "none" /\ given = Empty

\* f has the states of process() on the way through the stream, of which the
\* parser has reached the one before pos.
OnWay(t, f) ==
  /\ Way(Start0, out, t, f) /\ Shows(graph, t, names, num, doing, roots)
  /\ pos \in 1 .. Len(out) + 1 /\ AtState(f[pos - 1]) /\ StateOK(f[pos - 1])

ParseInv == mode = "parse" => \E t, f : OnWay(t, f)

\* The parser is on the way still.
LEMMA OnWayStill ==
  ASSUME NEW t, NEW f, NEW u, Way(Start0, out', t, f), Shows(graph', t, names', num', doing', roots'),
         pos' \in 1 .. Len(out') + 1, u = f[pos' - 1], StateOK(u),
         current' = u.current, db' = u.db, box' = u.box, stack' = u.stack, objects' = u.objects
  PROVE  ParseInv'
BY DEF ParseInv, OnWay, AtState

\* The next token.
LEMMA ParseTokenOn ==
  ASSUME PackInv, BeforeInv, ParseInv, ParseToken
  PROVE  BeforeInv' /\ ParseInv'
<1>1. mode = "parse" /\ pos <= Len(out) /\ fault = "none"
  BY Zenon DEF BeforeInv, ParseToken, ParseValue, ParseArray, ParseObject, ParseContext, ParseName, ParseVersion, At
<1>2. PICK t, f : OnWay(t, f)
  BY <1>1 DEF ParseInv
<1>3. /\ Way(Start0, out, t, f) /\ Shows(graph, t, names, num, doing, roots)
      /\ pos \in 1 .. Len(out) + 1 /\ AtState(f[pos - 1]) /\ StateOK(f[pos - 1])
  BY <1>2 DEF OnWay
<1>4. Len(out) \in Nat
  BY DEF PackInv, PackTypes
<1>5. pos \in 1 .. Len(out) /\ (pos + 1) - 1 = pos /\ pos + 1 \in 1 .. Len(out) + 1
  BY <1>1, <1>3, <1>4
<1>6. Reads(out[pos], f[pos - 1], f[pos])
  BY <1>3, <1>5 DEF Way
<1>7. /\ current' = f[pos].current /\ db' = f[pos].db /\ box' = f[pos].box /\ stack' = f[pos].stack
      /\ objects' = f[pos].objects /\ fault' = "none"
  BY <1>1, <1>3, <1>6, TokenStep
<1>8. StateOK(f[pos])
  BY <1>3, <1>6, ReadsKeeps
<1>9. /\ pos' = pos + 1 /\ mode' = "parse" /\ given' = given
      /\ graph' = graph /\ num' = num /\ names' = names /\ out' = out /\ doing' = doing /\ roots' = roots
  BY <1>1 DEF ParseToken, packer, reader
<1>10. BeforeInv'
  BY <1>1, <1>7, <1>9 DEF BeforeInv
<1>11. ParseInv'
  <2>1. PICK u : u = f[pos]
    OBVIOUS
  <2>2. u = f[pos' - 1]
    BY <1>5, <1>9, <2>1
  <2> QED
    BY <1>3, <1>5, <1>7, <1>8, <1>9, <2>1, <2>2, OnWayStill
<1> QED
  BY <1>10, <1>11

\* process() begins.
LEMMA ParseStartOn ==
  ASSUME PackInv, ShowInv, BeforeInv, ParseStart
  PROVE  BeforeInv' /\ ParseInv'
<1>1. /\ mode = "pack" /\ doing = Null /\ mode' = "parse" /\ box' = <<NewBox("roots", Null)>> /\ stack' = << 1 >>
      /\ graph' = graph /\ num' = num /\ names' = names /\ out' = out /\ doing' = doing /\ roots' = roots
      /\ pos' = pos /\ current' = current /\ db' = db /\ objects' = objects /\ fault' = fault /\ given' = given
  BY DEF ParseStart, packer, reader
<1>2. pos = 1 /\ current = Null /\ db = Empty /\ objects = Empty /\ fault = "none" /\ given = Empty
  BY <1>1 DEF BeforeInv
<1>3. PICK t, f : Way(Start0, out, t, f) /\ Shows(graph, t, names, num, doing, roots)
  BY DEF ShowInv, Runs
<1>4. f[0] = Start0
  BY <1>3 DEF Way
<1>5. PICK z : z = <<NewBox("roots", Null)>>
  BY Zenon
<1>6. /\ Start0.current = Null /\ Start0.db = Empty /\ Start0.box = z /\ Start0.stack = << 1 >>
      /\ Start0.objects = Empty
  BY <1>5 DEF Start0
<1>7. StateOK(Start0)
  <2> DEFINE y == NewBox("roots", Null)
             st == << 1 >>
  <2>1. z = <<y>>
    BY <1>5
  <2> HIDE DEF y
  <2>2. z \in Seq({y}) /\ Len(z) = 1 /\ st \in Seq({1}) /\ DOMAIN st = {1} /\ st[1] = 1
    BY <2>1
  <2>3. IsSeq(z) /\ IsSeq(st)
    BY Zenon, <2>2, SeqIs
  <2>4. DOMAIN Empty = {}
    BY DEF Empty
  <2> HIDE DEF st
  <2>5. Start0.stack = st
    BY <1>6 DEF st
  <2> QED
    BY <1>6, <2>2, <2>3, <2>4, <2>5 DEF StateOK
<1>8. Len(out) \in Nat
  BY DEF PackInv, PackTypes
<1>9. ParseInv'
  <2>1. PICK u : u = Start0
    OBVIOUS
  <2>2. pos' = 1 /\ pos' - 1 = 0 /\ pos' \in 1 .. Len(out') + 1
    BY <1>1, <1>2, <1>8
  <2>3. u = f[pos' - 1]
    BY <1>4, <2>1, <2>2
  <2> QED
    BY <1>1, <1>2, <1>3, <1>5, <1>6, <1>7, <2>1, <2>2, <2>3, OnWayStill
<1> QED
  BY <1>1, <1>2, <1>9 DEF BeforeInv

\* What process() leaves to the unpack_ calls.
ParsedOK ==
  /\ DbIs(db, names) /\ ShowsObjects(graph, box, objects, num, Null) /\ ShowsRoots(box, num, roots)
  /\ stack = << 1 >> /\ fault = "none" /\ given = Empty
  /\ DOMAIN db \subseteq 0 .. Cardinality(Class) - 1

\* process() has come to the end of the stream.
LEMMA ParsedIs ==
  ASSUME PackInv, BeforeInv, ParseInv, ParseEnd
  PROVE  ParsedOK
<1>1. mode = "parse" /\ pos > Len(out)
  BY DEF ParseEnd
<1>2. PICK t, f : OnWay(t, f)
  BY <1>1 DEF ParseInv
<1>3. /\ Way(Start0, out, t, f) /\ Shows(graph, t, names, num, doing, roots)
      /\ pos \in 1 .. Len(out) + 1 /\ AtState(f[pos - 1]) /\ StateOK(f[pos - 1])
  BY <1>2 DEF OnWay
<1>4. Len(out) \in Nat
  BY DEF PackInv, PackTypes
<1>5. pos - 1 = Len(out)
  BY <1>1, <1>3, <1>4
<1>6. f[pos - 1] = t
  BY <1>3, <1>5 DEF Way
<1>7. db = t.db /\ box = t.box /\ stack = t.stack /\ objects = t.objects
  BY <1>3, <1>6 DEF AtState
<1>8. doing = Null /\ fault = "none" /\ given = Empty
  BY <1>1 DEF BeforeInv
<1>9. DOMAIN db \subseteq 0 .. Cardinality(Class) - 1
  BY <1>3, <1>6, <1>7 DEF StateOK
<1>10. DbIs(db, names) /\ ShowsObjects(graph, box, objects, num, Null) /\ ShowsRoots(box, num, roots)
  BY <1>3, <1>7, <1>8 DEF Shows
<1>11. stack = << 1 >>
  BY <1>3, <1>7, <1>8 DEF Shows, ShowsWork
<1> QED
  BY <1>8, <1>9, <1>10, <1>11 DEF ParsedOK
=============================================================================
