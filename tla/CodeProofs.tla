----------------------------- MODULE CodeProofs -----------------------------
(***************************************************************************)
(* The codes for every width of a byte and for every number of full width: *)
(* what dyb_append_var_u64, dyb_append_var_s64 and dyb_append_typdex write *)
(* is what their readers find, and codes sort like numbers.                *)
(*                                                                         *)
(* A code of k bytes is one number: the lead of its tier, and above it the *)
(* distance of the value from the base of the tier (ShortCode).  The first *)
(* byte is in the range of the tier and of no other (LeadIs, TierRead), so *)
(* that the reader takes as many bytes as were written.  Two numbers of    *)
(* one tier differ like their distances (BytesSort), two of different      *)
(* tiers in the first byte (FirstByte, TiersRise).                         *)
(***************************************************************************)
EXTENDS MCCodes, WellFoundedInduction, TLAPS

----------------------------------------------------------------------------
(* Induction and primitive recursion over the natural numbers, in terms of  *)
(* sets and functions.  The proofs of the other components cite these too.  *)

\* The pairs of numbers of which the first is the smaller.
Smaller == {p \in Nat \X Nat : p[1] < p[2]}

\* A set of natural numbers has a least element.
LEMMA LeastNumber ==
  ASSUME NEW T \in SUBSET Nat, T # {}
  PROVE  \E n \in T : \A m \in T : n <= m
<1>1. IsWellFoundedOn(Smaller, Nat)
  BY NatLessThanWellFounded DEF OpToRel, Smaller
<1>2. PICK n \in T : \A m \in T : <<m, n>> \notin Smaller
  BY <1>1, WFMin
<1>3. ASSUME NEW m \in T PROVE n <= m
  <2>1. m \in Nat /\ n \in Nat /\ <<m, n>> \in Nat \X Nat
    OBVIOUS
  <2>2. <<m, n>> \notin Smaller
    BY <1>2
  <2>3. ~(m < n)
    BY <2>1, <2>2 DEF Smaller
  <2> QED
    BY <2>1, <2>3
<1> QED
  BY <1>3

\* A set with zero and with the successor of each of its numbers has them all.
LEMMA InductionOnSet ==
  ASSUME NEW S, 0 \in S, \A n \in Nat : n \in S => n + 1 \in S
  PROVE  Nat \subseteq S
<1> SUFFICES ASSUME Nat \ S # {} PROVE FALSE
  OBVIOUS
<1>1. PICK n \in Nat \ S : \A m \in Nat \ S : n <= m
  BY LeastNumber
<1>2. n # 0 /\ n - 1 \in Nat /\ ~(n <= n - 1)
  BY <1>1
<1>3. n - 1 \in S
  BY <1>1, <1>2
<1> QED
  BY <1>2, <1>3

\* A function of a set can be applied again and again.
LEMMA Iterates ==
  ASSUME NEW Res, NEW first \in Res, NEW step \in [Res -> Res]
  PROVE  \E h \in [Nat -> Res] : h[0] = first /\ \A n \in Nat : h[n + 1] = step[h[n]]
<1> DEFINE Upto(n) == {g \in [0 .. n -> Res] : g[0] = first
                                             /\ \A i \in 0 .. n - 1 : g[i + 1] = step[g[i]]}
<1>1. \A n \in Nat : Upto(n) # {}
  <2> DEFINE S == {n \in Nat : Upto(n) # {}}
  <2>1. 0 \in S
    <3>1. [i \in 0 .. 0 |-> first] \in Upto(0)
      OBVIOUS
    <3> QED
      BY <3>1
  <2>2. ASSUME NEW n \in Nat, n \in S PROVE n + 1 \in S
    <3>1. PICK g : g \in Upto(n)
      BY <2>2
    <3> DEFINE e == [i \in 0 .. n + 1 |-> IF i <= n THEN g[i] ELSE step[g[n]]]
    <3>2. e \in [0 .. n + 1 -> Res]
      BY <3>1
    <3>3. e[0] = first
      BY <3>1
    <3>4. ASSUME NEW i \in 0 .. (n + 1) - 1 PROVE e[i + 1] = step[e[i]]
      <4>1. CASE i < n
        <5>1. i \in 0 .. n - 1 /\ i + 1 \in 0 .. n + 1 /\ i + 1 <= n /\ i \in 0 .. n + 1
          BY <4>1
        <5> QED
          BY <3>1, <5>1
      <4>2. CASE i = n
        BY <3>1, <4>2
      <4> QED
        BY <4>1, <4>2
    <3>5. e \in Upto(n + 1)
      BY <3>2, <3>3, <3>4
    <3> HIDE DEF Upto
    <3> QED
      BY <3>5
  <2> HIDE DEF S
  <2>3. Nat \subseteq S
    BY <2>1, <2>2, InductionOnSet
  <2> QED
    BY <2>3 DEF S
<1>2. ASSUME NEW m \in Nat, NEW n \in Nat, m <= n, NEW g \in Upto(m), NEW h \in Upto(n)
      PROVE  g[m] = h[m]
  <2> DEFINE S == {i \in Nat : i <= m => g[i] = h[i]}
  <2>1. 0 \in S
    BY <1>2
  <2>2. ASSUME NEW i \in Nat, i \in S PROVE i + 1 \in S
    <3>1. CASE i + 1 <= m
      <4>1. i \in 0 .. m - 1 /\ i \in 0 .. n - 1
        BY <1>2, <3>1
      <4> QED
        BY <1>2, <2>2, <4>1
    <3> QED
      BY <3>1
  <2> HIDE DEF S
  <2>3. Nat \subseteq S
    BY <2>1, <2>2, InductionOnSet
  <2> QED
    BY <2>3 DEF S
<1> DEFINE pick == [n \in Nat |-> CHOOSE g : g \in Upto(n)]
           h == [n \in Nat |-> pick[n][n]]
<1>3. ASSUME NEW n \in Nat PROVE pick[n] \in Upto(n)
  BY <1>1
<1> HIDE DEF pick
<1>4. h \in [Nat -> Res]
  BY <1>3
<1>5. h[0] = first
  BY <1>3
<1>6. ASSUME NEW n \in Nat PROVE h[n + 1] = step[h[n]]
  <2>1. n + 1 \in Nat /\ n <= n + 1 /\ n \in 0 .. (n + 1) - 1
    OBVIOUS
  <2>2. pick[n] \in Upto(n) /\ pick[n + 1] \in Upto(n + 1)
    BY <1>3, <2>1
  <2>3. pick[n + 1][n + 1] = step[pick[n + 1][n]]
    BY <2>1, <2>2
  <2>4. pick[n][n] = pick[n + 1][n]
    BY <1>2, <2>1, <2>2
  <2> QED
    BY <2>1, <2>3, <2>4
<1> HIDE DEF h
<1> QED
  BY <1>4, <1>5, <1>6

\* The same, with the sequences of results as a set.
Results(Res, first, step) ==
  {h \in [Nat -> Res] : h[0] = first /\ \A n \in Nat : h[n + 1] = step[h[n]]}

\* There is one.
LEMMA ResultsExist ==
  ASSUME NEW Res, NEW first \in Res, NEW step \in [Res -> Res]
  PROVE  Results(Res, first, step) # {}
<1>1. PICK h \in [Nat -> Res] : h[0] = first /\ \A n \in Nat : h[n + 1] = step[h[n]]
  BY Iterates
<1> QED
  BY <1>1 DEF Results

\* Results where each step depends on how many have been made.
ResultsByStep(Res, first, step) ==
  {h \in [Nat -> Res] : h[0] = first /\ \A n \in Nat : h[n + 1] = step[n][h[n]]}

\* There are such results, too.
LEMMA Recurrence ==
  ASSUME NEW Res, NEW first \in Res, NEW step \in [Nat -> [Res -> Res]]
  PROVE  ResultsByStep(Res, first, step) # {}
<1> DEFINE Y == Nat \X Res
           begin == <<0, first>>
           go == [y \in Y |-> <<y[1] + 1, step[y[1]][y[2]]>>]
<1>1. begin \in Y
  OBVIOUS
<1>2. go \in [Y -> Y]
  OBVIOUS
<1>3. PICK g \in [Nat -> Y] : g[0] = begin /\ \A n \in Nat : g[n + 1] = go[g[n]]
  <2> HIDE DEF Y, begin, go
  <2>1. Results(Y, begin, go) # {}
    BY <1>1, <1>2, ResultsExist
  <2> QED
    BY <2>1 DEF Results
<1> DEFINE S == {n \in Nat : g[n][1] = n}
<1>4. 0 \in S
  BY <1>3
<1>5. ASSUME NEW n \in Nat, n \in S PROVE n + 1 \in S
  <2>1. g[n] \in Y /\ g[n + 1] = go[g[n]] /\ g[n][1] = n
    BY <1>3, <1>5
  <2>2. g[n + 1][1] = n + 1
    BY <2>1
  <2> QED
    BY <2>2
<1>6. \A n \in Nat : g[n][1] = n
  <2>1. Nat \subseteq S
    <3> HIDE DEF S
    <3> QED
      BY <1>4, <1>5, InductionOnSet
  <2> QED
    BY <2>1
<1> DEFINE h == [n \in Nat |-> g[n][2]]
<1>7. h \in [Nat -> Res] /\ h[0] = first
  BY <1>3
<1>8. ASSUME NEW n \in Nat PROVE h[n + 1] = step[n][h[n]]
  <2>1. g[n] \in Y /\ g[n + 1] = go[g[n]] /\ g[n][1] = n
    BY <1>3, <1>6
  <2>2. go[g[n]] = <<g[n][1] + 1, step[g[n][1]][g[n][2]]>>
    BY <2>1
  <2>3. g[n + 1][2] = step[n][g[n][2]]
    BY <2>1, <2>2
  <2> QED
    BY <2>3
<1>9. h \in ResultsByStep(Res, first, step)
  BY <1>7, <1>8 DEF ResultsByStep
<1> QED
  BY <1>9

----------------------------------------------------------------------------
(* Arithmetic                                                              *)

\* Division is what its quotient and rest say.
LEMMA DivIs ==
  ASSUME NEW a \in Nat, NEW b \in Nat \ {0}, NEW q \in Nat, NEW r \in 0 .. b - 1,
         a = b * q + r
  PROVE  a \div b = q /\ a % b = r
OBVIOUS

\* Every division has a quotient and a rest.
LEMMA DivHas ==
  ASSUME NEW a \in Nat, NEW b \in Nat \ {0}
  PROVE  a \div b \in Nat /\ a % b \in 0 .. b - 1 /\ a = b * (a \div b) + (a % b)
OBVIOUS

\* Laws of products that the solver is given as facts.
LEMMA Products ==
  ASSUME NEW a \in Nat, NEW b \in Nat, NEW c \in Nat
  PROVE  /\ a * b \in Nat /\ a * b = b * a /\ a * (b * c) = (a * b) * c
         /\ a * (b + c) = a * b + a * c
         /\ a <= b => a * c <= b * c /\ c * a <= c * b
         /\ a < b /\ c # 0 => a * c < b * c
OBVIOUS

\* Division by a product is division by one factor after the other.
LEMMA DivDiv ==
  ASSUME NEW a \in Nat, NEW b \in Nat \ {0}, NEW c \in Nat \ {0}
  PROVE  (a \div b) \div c = a \div (b * c)
<1> DEFINE q == a \div b
           r == a % b
           t == q \div c
           s == q % c
<1>1. q \in Nat /\ r \in 0 .. b - 1 /\ a = b * q + r
  BY DivHas
<1> HIDE DEF q, r
<1>2. t \in Nat /\ s \in 0 .. c - 1 /\ q = c * t + s
  BY <1>1, DivHas
<1> HIDE DEF t, s
<1>3. b * c \in Nat \ {0}
  OBVIOUS
<1>4. a = (b * c) * t + (b * s + r)
  <2>1. b * q = b * (c * t) + b * s /\ b * (c * t) = (b * c) * t
    BY <1>2, Products
  <2> QED
    BY <1>1, <1>2, <2>1
<1>5. b * s + r \in 0 .. b * c - 1
  <2>1. b * s <= b * (c - 1) /\ b * (c - 1) = b * c - b
    BY <1>2, Products
  <2> QED
    BY <1>1, <1>2, <1>3, <2>1
<1>6. a \div (b * c) = t
  BY <1>2, <1>3, <1>4, <1>5, DivIs
<1> QED
  BY <1>6 DEF q, t

\* A smaller number has no larger quotient.
LEMMA DivMonotone ==
  ASSUME NEW a \in Nat, NEW b \in Nat, NEW c \in Nat \ {0}, a <= b
  PROVE  a \div c <= b \div c
<1> DEFINE p == a \div c
           q == b \div c
<1>1. p \in Nat /\ a >= c * p
  BY DivHas
<1>2. q \in Nat /\ b < c * q + c
  BY DivHas
<1> HIDE DEF p, q
<1>3. ASSUME q < p PROVE FALSE
  <2>1. c * (q + 1) <= c * p /\ c * (q + 1) = c * q + c
    BY <1>1, <1>2, <1>3, Products
  <2> QED
    BY <1>1, <1>2, <2>1
<1> QED
  BY <1>1, <1>2, <1>3 DEF p, q

----------------------------------------------------------------------------
(* Powers of two                                                           *)

\* Pow2 is the function its recursion describes.
LEMMA Pow2Is ==
  /\ Pow2[0] = 1
  /\ \A n \in Nat : Pow2[n] \in Nat \ {0} /\ Pow2[n + 1] = 2 * Pow2[n]
<1> DEFINE Y == Nat \ {0}
           one == 1
           double == [p \in Y |-> 2 * p]
           Is(f) == f = [n \in Nat |-> IF n = 0 THEN 1 ELSE 2 * f[n - 1]]
<1>1. one \in Y /\ double \in [Y -> Y]
  OBVIOUS
<1>2. PICK h \in [Nat -> Y] : h[0] = one /\ \A n \in Nat : h[n + 1] = double[h[n]]
  <2> HIDE DEF Y, one, double
  <2> QED
    BY <1>1, Iterates
<1>3. Is(h)
  <2>1. \A n \in Nat : h[n] = IF n = 0 THEN 1 ELSE 2 * h[n - 1]
    <3> SUFFICES ASSUME NEW n \in Nat PROVE h[n] = IF n = 0 THEN 1 ELSE 2 * h[n - 1]
      OBVIOUS
    <3>1. CASE n # 0
      <4>1. n - 1 \in Nat /\ (n - 1) + 1 = n
        BY <3>1
      <4> QED
        BY <1>2, <3>1, <4>1
    <3> QED
      BY <1>2, <3>1
  <2>2. h = [n \in Nat |-> h[n]]
    OBVIOUS
  <2> QED
    BY <2>1, <2>2
<1>4. Pow2 = CHOOSE f : Is(f)
  BY DEF Pow2
<1>5. Is(Pow2)
  <2> HIDE DEF Is
  <2> QED
    BY <1>3, <1>4
<1>6. \A n \in Nat : Pow2[n] = IF n = 0 THEN 1 ELSE 2 * Pow2[n - 1]
  <2> DEFINE row(n) == IF n = 0 THEN 1 ELSE 2 * Pow2[n - 1]
  <2>1. Pow2 = [n \in Nat |-> row(n)]
    BY <1>5
  <2> HIDE DEF row
  <2>2. \A n \in Nat : Pow2[n] = row(n)
    BY <2>1
  <2> QED
    BY <2>2 DEF row
<1>7. Pow2[0] = 1
  BY <1>6
<1>8. ASSUME NEW n \in Nat PROVE Pow2[n + 1] = 2 * Pow2[n]
  <2>1. n + 1 \in Nat /\ n + 1 # 0 /\ (n + 1) - 1 = n
    OBVIOUS
  <2> QED
    BY <1>6, <2>1
<1> DEFINE S == {n \in Nat : Pow2[n] \in Nat \ {0}}
<1>9. 0 \in S /\ \A n \in Nat : n \in S => n + 1 \in S
  BY <1>7, <1>8
<1>10. Nat \subseteq S
  <2> HIDE DEF S
  <2> QED
    BY <1>9, InductionOnSet
<1> QED
  BY <1>7, <1>8, <1>10

\* A sum of exponents is a product of powers.
LEMMA Pow2Sum ==
  ASSUME NEW m \in Nat, NEW n \in Nat
  PROVE  Pow2[m + n] = Pow2[m] * Pow2[n]
<1> DEFINE S == {k \in Nat : Pow2[m + k] = Pow2[m] * Pow2[k]}
<1>1. 0 \in S
  BY Pow2Is
<1>2. ASSUME NEW k \in Nat, k \in S PROVE k + 1 \in S
  <2>1. /\ Pow2[m + k] = Pow2[m] * Pow2[k] /\ m + k \in Nat /\ m + (k + 1) = (m + k) + 1
        /\ Pow2[m] \in Nat /\ Pow2[k] \in Nat
    BY <1>2, Pow2Is
  <2>2. Pow2[(m + k) + 1] = 2 * Pow2[m + k] /\ Pow2[k + 1] = 2 * Pow2[k]
    BY <2>1, Pow2Is
  <2>3. 2 * (Pow2[m] * Pow2[k]) = Pow2[m] * (2 * Pow2[k])
    BY <2>1, Products
  <2>4. Pow2[m + (k + 1)] = Pow2[m] * Pow2[k + 1]
    BY <2>1, <2>2, <2>3
  <2> QED
    BY <2>4
<1>3. Nat \subseteq S
  <2> HIDE DEF S
  <2> QED
    BY <1>1, <1>2, InductionOnSet
<1> QED
  BY <1>3

\* Powers rise.
LEMMA Pow2Monotone ==
  ASSUME NEW m \in Nat, NEW n \in Nat, m <= n
  PROVE  Pow2[m] <= Pow2[n]
<1>1. PICK d \in Nat : n = m + d
  <2>1. n - m \in Nat /\ n = m + (n - m)
    OBVIOUS
  <2> QED
    BY <2>1
<1>2. Pow2[m] \in Nat /\ Pow2[d] \in Nat /\ 1 <= Pow2[d]
  BY Pow2Is
<1>3. Pow2[m] * 1 <= Pow2[m] * Pow2[d]
  BY <1>2, Products
<1>4. Pow2[m + d] = Pow2[m] * Pow2[d]
  BY Pow2Sum
<1> QED
  BY <1>1, <1>2, <1>3, <1>4

\* The weight of a byte is Q times that of the next.
LEMMA PlaceIs ==
  /\ Q \in Nat \ {0} /\ Place(0) = 1 /\ Place(1) = Q
  /\ \A i \in Nat : Place(i) \in Nat \ {0} /\ Place(i + 1) = Place(i) * Q
<1>1. W \in Nat /\ W * 0 = 0 /\ W * 1 = W
  BY VarCodecAssumption
<1>2. ASSUME NEW i \in Nat
      PROVE  Place(i) \in Nat \ {0} /\ Place(i + 1) = Place(i) * Q
  <2>1. W * i \in Nat /\ W * (i + 1) = W * i + W
    BY <1>1, Products
  <2> QED
    BY <1>1, <2>1, Pow2Is, Pow2Sum DEF Place, Q
<1> QED
  BY <1>1, <1>2, Pow2Is DEF Place, Q

----------------------------------------------------------------------------
(* Fixed-width numbers                                                     *)

\* The bytes of a number, each below Q.
LEMMA BytesAre ==
  ASSUME NEW n \in Nat, NEW k \in Nat
  PROVE  /\ Bytes(n, k) \in Seq(Nat) /\ Len(Bytes(n, k)) = k
         /\ \A i \in 1 .. k : /\ Bytes(n, k)[i] = (n \div Place(k - i)) % Q
                              /\ Bytes(n, k)[i] \in 0 .. Q - 1
<1>1. ASSUME NEW i \in 1 .. k PROVE (n \div Place(k - i)) % Q \in 0 .. Q - 1
  <2>1. k - i \in Nat
    OBVIOUS
  <2>2. Place(k - i) \in Nat \ {0} /\ Q \in Nat \ {0}
    BY <2>1, PlaceIs
  <2>3. n \div Place(k - i) \in Nat
    BY <2>2, DivHas
  <2> QED
    BY <2>2, <2>3, DivHas
<1>2. \A i \in 1 .. k : (n \div Place(k - i)) % Q \in Nat
  BY <1>1
<1> QED
  BY <1>1, <1>2 DEF Bytes

\* The number is read byte by byte.
LEMMA NumberIs ==
  ASSUME NEW k \in Nat, NEW bs \in Seq(Nat), Len(bs) = k
  PROVE  \E h : /\ h[0] = 0 /\ Number(bs) = h[k]
                /\ \A i \in 0 .. k : h[i] \in Nat
                /\ \A i \in 1 .. k : h[i] = h[i - 1] * Q + bs[i]
<1> DEFINE nothing == 0
           N == Nat
           byte == [n \in Nat |-> IF n + 1 \in 1 .. k THEN bs[n + 1] ELSE 0]
           step == [n \in Nat |-> [r \in Nat |-> r * Q + byte[n]]]
           Is(f) == f = [i \in 0 .. k |-> IF i = 0 THEN 0 ELSE f[i - 1] * Q + bs[i]]
<1>1. nothing \in N /\ step \in [Nat -> [N -> N]]
  <2>1. byte \in [Nat -> Nat]
    <3>1. \A n \in Nat : n + 1 \in 1 .. k => bs[n + 1] \in Nat
      OBVIOUS
    <3> QED
      BY <3>1
  <2> HIDE DEF byte
  <2>2. \A r \in Nat, n \in Nat : r * Q + byte[n] \in Nat
    <3> TAKE r \in Nat, n \in Nat
    <3>1. r * Q \in Nat /\ byte[n] \in Nat
      BY <2>1, PlaceIs, Products
    <3> QED
      BY <3>1
  <2> QED
    BY <2>2
<1>2. PICK h \in [Nat -> N] :
        h[0] = nothing /\ \A n \in Nat : h[n + 1] = step[n][h[n]]
  <2> HIDE DEF nothing, N, step
  <2>1. ResultsByStep(N, nothing, step) # {}
    BY <1>1, Recurrence
  <2> QED
    BY <2>1 DEF ResultsByStep
<1>3. ASSUME NEW i \in 1 .. k PROVE h[i] = h[i - 1] * Q + bs[i]
  <2>1. i - 1 \in Nat /\ (i - 1) + 1 = i /\ h[i - 1] \in Nat
    BY <1>2
  <2>2. h[i] = step[i - 1][h[i - 1]]
    BY <1>2, <2>1
  <2> QED
    BY <2>1, <2>2
<1> DEFINE g == [i \in 0 .. k |-> h[i]]
<1>4. Is(g)
  <2>1. ASSUME NEW i \in 0 .. k
        PROVE  g[i] = IF i = 0 THEN 0 ELSE g[i - 1] * Q + bs[i]
    <3>1. CASE i = 0
      BY <1>2, <3>1
    <3>2. CASE i # 0
      <4>1. i \in 1 .. k /\ i - 1 \in 0 .. k
        BY <3>2
      <4> QED
        BY <1>3, <3>2, <4>1
    <3> QED
      BY <3>1, <3>2
  <2>2. g = [i \in 0 .. k |-> g[i]]
    OBVIOUS
  <2> HIDE DEF g
  <2> QED
    BY <2>1, <2>2
<1> DEFINE f == CHOOSE x : Is(x)
<1>5. Number(bs) = f[k]
  BY DEF Number
<1>6. Is(f)
  <2> HIDE DEF Is
  <2> QED
    BY <1>4
<1> HIDE DEF f
<1>7. \A i \in 0 .. k : f[i] = IF i = 0 THEN 0 ELSE f[i - 1] * Q + bs[i]
  <2> DEFINE row(i) == IF i = 0 THEN 0 ELSE f[i - 1] * Q + bs[i]
  <2>1. f = [i \in 0 .. k |-> row(i)]
    BY <1>6
  <2> HIDE DEF row
  <2>2. \A i \in 0 .. k : f[i] = row(i)
    BY <2>1
  <2> QED
    BY <2>2 DEF row
<1> DEFINE S == {n \in Nat : n <= k => f[n] = h[n]}
<1>8. 0 \in S
  BY <1>2, <1>7
<1>9. ASSUME NEW n \in Nat, n \in S PROVE n + 1 \in S
  <2> SUFFICES ASSUME n + 1 <= k PROVE f[n + 1] = h[n + 1]
    OBVIOUS
  <2>1. n + 1 \in 1 .. k /\ n + 1 \in 0 .. k /\ (n + 1) - 1 = n /\ n + 1 # 0 /\ f[n] = h[n]
    BY <1>9
  <2>2. f[n + 1] = f[n] * Q + bs[n + 1]
    BY <1>7, <2>1
  <2>3. h[n + 1] = h[n] * Q + bs[n + 1]
    BY <1>3, <2>1
  <2> QED
    BY <2>1, <2>2, <2>3
<1>10. Nat \subseteq S
  <2> HIDE DEF S
  <2> QED
    BY <1>8, <1>9, InductionOnSet
<1>11. f[k] = h[k]
  BY <1>10
<1>12. \A i \in 0 .. k : h[i] \in Nat
  BY <1>2
<1>13. h[0] = 0 /\ Number(bs) = h[k]
  BY <1>2, <1>5, <1>11 DEF f
<1> QED
  <2> HIDE DEF step, byte
  <2> QED
    BY <1>3, <1>12, <1>13

\* A number that has room in k bytes is read back from them.
LEMMA NumberOfBytes ==
  ASSUME NEW k \in Nat, NEW n \in Nat, n < Place(k)
  PROVE  Number(Bytes(n, k)) = n
<1> DEFINE bs == Bytes(n, k)
<1>1. /\ bs \in Seq(Nat) /\ Len(bs) = k
      /\ \A i \in 1 .. k : bs[i] = (n \div Place(k - i)) % Q
  BY BytesAre
<1> HIDE DEF bs
<1>2. PICK h : /\ h[0] = 0 /\ Number(bs) = h[k]
               /\ \A i \in 0 .. k : h[i] \in Nat
               /\ \A i \in 1 .. k : h[i] = h[i - 1] * Q + bs[i]
  BY <1>1, NumberIs
<1> DEFINE S == {i \in Nat : i <= k => h[i] = n \div Place(k - i)}
<1>3. 0 \in S
  <2>1. n \div Place(k) = 0
    <3>1. Place(k) \in Nat \ {0} /\ n \in 0 .. Place(k) - 1 /\ n = Place(k) * 0 + n
      BY PlaceIs
    <3> QED
      BY <3>1, DivIs
  <2>2. k - 0 = k
    OBVIOUS
  <2> QED
    BY <1>2, <2>1, <2>2
<1>4. ASSUME NEW i \in Nat, i \in S PROVE i + 1 \in S
  <2> SUFFICES ASSUME i + 1 <= k PROVE h[i + 1] = n \div Place(k - (i + 1))
    OBVIOUS
  <2> DEFINE j == k - (i + 1)
  <2>1. j \in Nat /\ k - i = j + 1 /\ i + 1 \in 1 .. k /\ (i + 1) - 1 = i /\ i <= k
    OBVIOUS
  <2> HIDE DEF j
  <2>2. /\ Place(j) \in Nat \ {0} /\ Q \in Nat \ {0} /\ Place(j + 1) = Place(j) * Q
    BY <2>1, PlaceIs
  <2> DEFINE m == n \div Place(j)
  <2>3. m \in Nat /\ m \div Q = n \div Place(j + 1)
    <3>1. m \in Nat
      BY <2>2, DivHas
    <3>2. (n \div Place(j)) \div Q = n \div (Place(j) * Q)
      BY <2>2, DivDiv
    <3> QED
      BY <2>2, <3>1, <3>2
  <2>4. h[i] = m \div Q /\ bs[i + 1] = m % Q
    <3>1. k - (i + 1) = j
      BY DEF j
    <3> QED
      BY <1>1, <1>4, <2>1, <2>3, <3>1
  <2> HIDE DEF m
  <2>5. m = Q * (m \div Q) + (m % Q) /\ m \div Q \in Nat
    BY <2>2, <2>3, DivHas
  <2>6. h[i + 1] = h[i] * Q + bs[i + 1]
    BY <1>2, <2>1
  <2>7. h[i + 1] = m
    BY <2>2, <2>4, <2>5, <2>6, Products
  <2> QED
    BY <2>7 DEF m, j
<1>5. Nat \subseteq S
  <2> HIDE DEF S
  <2> QED
    BY <1>3, <1>4, InductionOnSet
<1>6. h[k] = n \div Place(0)
  <2>1. k - k = 0
    OBVIOUS
  <2> QED
    BY <1>5, <2>1
<1> QED
  BY <1>2, <1>6, PlaceIs, DivIs DEF bs

----------------------------------------------------------------------------
(* The tiers                                                               *)

\* The tier of k bytes has as many numbers as its code has bits to spare.
LEMMA BaseIs ==
  /\ Base[1] = 0
  /\ \A k \in Nat \ {0} : Base[k] \in Nat /\ Base[k + 1] = Base[k] + Pow2[(W - 1) * k]
<1> DEFINE nothing == 0
           N == Nat
           step == [n \in Nat |-> [r \in Nat |-> r + Pow2[(W - 1) * (n + 1)]]]
           Is(f) == f = [k \in Nat \ {0} |->
                           IF k = 1 THEN 0 ELSE f[k - 1] + Pow2[(W - 1) * (k - 1)]]
<1>1. \A k \in Nat : (W - 1) * k \in Nat /\ Pow2[(W - 1) * k] \in Nat
  <2> TAKE k \in Nat
  <2>1. W - 1 \in Nat
    BY VarCodecAssumption
  <2>2. (W - 1) * k \in Nat
    BY <2>1, Products
  <2> QED
    BY <2>2, Pow2Is
<1>2. nothing \in N /\ step \in [Nat -> [N -> N]]
  BY <1>1
<1>3. PICK h \in [Nat -> N] :
        h[0] = nothing /\ \A n \in Nat : h[n + 1] = step[n][h[n]]
  <2> HIDE DEF nothing, N, step
  <2>1. ResultsByStep(N, nothing, step) # {}
    BY <1>2, Recurrence
  <2> QED
    BY <2>1 DEF ResultsByStep
<1>4. \A n \in Nat : h[n] \in Nat /\ h[n + 1] = h[n] + Pow2[(W - 1) * (n + 1)]
  BY <1>3
<1>5. h[0] = 0
  BY <1>3
<1> HIDE DEF step
<1> DEFINE g == [k \in Nat \ {0} |-> h[k - 1]]
<1>6. Is(g)
  <2>1. ASSUME NEW k \in Nat \ {0}
        PROVE  g[k] = IF k = 1 THEN 0 ELSE g[k - 1] + Pow2[(W - 1) * (k - 1)]
    <3>1. CASE k = 1
      BY <1>5, <3>1
    <3>2. CASE k # 1
      <4>1. k - 2 \in Nat /\ (k - 2) + 1 = k - 1 /\ k - 1 \in Nat \ {0} /\ (k - 1) - 1 = k - 2
        BY <3>2
      <4>2. h[k - 1] = h[k - 2] + Pow2[(W - 1) * (k - 1)]
        BY <1>4, <4>1
      <4> QED
        BY <3>2, <4>1, <4>2
    <3> QED
      BY <3>1, <3>2
  <2>2. g = [k \in Nat \ {0} |-> g[k]]
    OBVIOUS
  <2> HIDE DEF g
  <2> QED
    BY <2>1, <2>2
<1>7. Base = CHOOSE f : Is(f)
  BY DEF Base
<1>8. Is(Base)
  <2> HIDE DEF Is
  <2> QED
    BY <1>6, <1>7
<1>9. \A k \in Nat \ {0} :
        Base[k] = IF k = 1 THEN 0 ELSE Base[k - 1] + Pow2[(W - 1) * (k - 1)]
  <2> DEFINE row(k) == IF k = 1 THEN 0 ELSE Base[k - 1] + Pow2[(W - 1) * (k - 1)]
  <2>1. Base = [k \in Nat \ {0} |-> row(k)]
    BY <1>8
  <2> HIDE DEF row
  <2>2. \A k \in Nat \ {0} : Base[k] = row(k)
    BY <2>1
  <2> QED
    BY <2>2 DEF row
<1>10. Base[1] = 0
  BY <1>9
<1>11. ASSUME NEW k \in Nat \ {0} PROVE Base[k + 1] = Base[k] + Pow2[(W - 1) * k]
  <2>1. k + 1 \in Nat \ {0} /\ k + 1 # 1 /\ (k + 1) - 1 = k
    OBVIOUS
  <2> QED
    BY <1>9, <2>1
<1> DEFINE S == {n \in Nat : Base[n + 1] \in Nat}
<1>12. 0 \in S
  BY <1>10
<1>13. ASSUME NEW n \in Nat, n \in S PROVE n + 1 \in S
  <2>1. n + 1 \in Nat \ {0} /\ n + 1 \in Nat
    OBVIOUS
  <2>2. Base[(n + 1) + 1] = Base[n + 1] + Pow2[(W - 1) * (n + 1)]
    BY <1>11, <2>1
  <2> QED
    BY <1>1, <1>13, <2>1, <2>2
<1>14. Nat \subseteq S
  <2> HIDE DEF S
  <2> QED
    BY <1>12, <1>13, InductionOnSet
<1>15. ASSUME NEW k \in Nat \ {0} PROVE Base[k] \in Nat
  <2>1. k - 1 \in Nat /\ (k - 1) + 1 = k
    OBVIOUS
  <2> QED
    BY <1>14, <2>1
<1> QED
  BY <1>10, <1>11, <1>15

\* Every number has a tier.
LEMMA TierIs ==
  ASSUME NEW w \in Nat
  PROVE  /\ Tier(w) \in 1 .. W + 1 /\ Base[Tier(w)] <= w
         /\ Tier(w) <= W => w < Base[Tier(w) + 1]
<1>1. W \in Nat /\ W > 1
  BY VarCodecAssumption
<1>2. \E k \in 1 .. W + 1 : Base[k] <= w /\ (k <= W => w < Base[k + 1])
  <2>1. CASE Base[W + 1] <= w
    BY <1>1, <2>1
  <2>2. CASE ~(Base[W + 1] <= w)
    <3> DEFINE T == {j \in Nat : j # 0 /\ ~(Base[j] <= w)}
    <3>1. W + 1 \in T
      BY <1>1, <2>2
    <3>2. PICK j \in T : \A m \in T : j <= m
      <4> HIDE DEF T
      <4>1. T # {}
        BY <3>1
      <4>2. T \subseteq Nat
        BY DEF T
      <4> QED
        BY <4>1, <4>2, LeastNumber
    <3>3. j \in Nat \ {0} /\ ~(Base[j] <= w) /\ j <= W + 1
      BY <3>1, <3>2
    <3>4. j # 1
      BY <3>3, BaseIs
    <3>5. j - 1 \in Nat \ {0} /\ j - 1 \in 1 .. W + 1 /\ (j - 1) + 1 = j
      BY <1>1, <3>3, <3>4
    <3>6. ~(j <= j - 1)
      BY <3>3
    <3>7. Base[j - 1] <= w
      BY <3>2, <3>5, <3>6
    <3>8. w < Base[j]
      BY <3>3, BaseIs
    <3> QED
      BY <3>5, <3>7, <3>8
  <2> QED
    BY <2>1, <2>2
<1>3. PICK t : t = Tier(w)
  OBVIOUS
<1>4. t \in 1 .. W + 1 /\ Base[t] <= w /\ (t <= W => w < Base[t + 1])
  BY <1>2, <1>3 DEF Tier
<1> QED
  BY <1>3, <1>4

\* The lead bytes of a tier follow those of the tier before.
LEMMA OnesAre ==
  /\ Ones(0) = 0 /\ Ones(W) = Q - 1
  /\ \A j \in 0 .. W : Ones(j) \in 0 .. Q - 1
  /\ \A j \in 1 .. W : Ones(j) = Ones(j - 1) + Pow2[W - j]
  /\ \A i, j \in 0 .. W : i <= j => Ones(i) <= Ones(j)
<1>1. W \in Nat /\ Q = Pow2[W] /\ W - 0 = W /\ W - W = 0
  BY VarCodecAssumption DEF Q
<1>2. ASSUME NEW j \in 0 .. W PROVE Ones(j) \in 0 .. Q - 1
  <2>1. W - j \in Nat /\ W - j <= W
    BY <1>1
  <2>2. Pow2[W - j] \in Nat \ {0} /\ Pow2[W] \in Nat \ {0} /\ Pow2[W - j] <= Pow2[W]
    BY <1>1, <2>1, Pow2Is, Pow2Monotone
  <2> QED
    BY <1>1, <2>2 DEF Ones
<1>3. ASSUME NEW j \in 1 .. W PROVE Ones(j) = Ones(j - 1) + Pow2[W - j]
  <2>1. W - j \in Nat /\ W - (j - 1) = (W - j) + 1
    BY <1>1
  <2>2. Pow2[W - (j - 1)] = 2 * Pow2[W - j] /\ Pow2[W - j] \in Nat /\ Pow2[W] \in Nat
    BY <1>1, <2>1, Pow2Is
  <2> QED
    BY <1>1, <2>2 DEF Ones
<1>4. ASSUME NEW i \in 0 .. W, NEW j \in 0 .. W, i <= j PROVE Ones(i) <= Ones(j)
  <2>1. W - i \in Nat /\ W - j \in Nat /\ W - j <= W - i
    BY <1>1, <1>4
  <2>2. /\ Pow2[W - i] \in Nat /\ Pow2[W - j] \in Nat /\ Pow2[W] \in Nat
        /\ Pow2[W - j] <= Pow2[W - i]
    BY <1>1, <2>1, Pow2Is, Pow2Monotone
  <2> QED
    BY <1>1, <2>2 DEF Ones
<1>5. Ones(0) = 0 /\ Ones(W) = Q - 1
  BY <1>1, Pow2Is DEF Ones
<1> QED
  BY <1>2, <1>3, <1>4, <1>5

\* A quotient between two bounds.
LEMMA DivBetween ==
  ASSUME NEW a \in Nat, NEW b \in Nat \ {0}, NEW x \in Nat, NEW y \in Nat,
         b * x <= a, a < b * y
  PROVE  a \div b \in x .. y - 1
<1> DEFINE q == a \div b
           r == a % b
<1>1. q \in Nat /\ r \in 0 .. b - 1 /\ a = b * q + r
  BY DivHas
<1> HIDE DEF q, r
<1>2. ASSUME q < x PROVE FALSE
  <2>1. b * (q + 1) <= b * x /\ b * (q + 1) = b * q + b
    BY <1>1, <1>2, Products
  <2> QED
    BY <1>1, <2>1
<1>3. ASSUME y <= q PROVE FALSE
  <2>1. b * y <= b * q
    BY <1>1, <1>3, Products
  <2> QED
    BY <1>1, <2>1
<1>4. q \in x .. y - 1
  BY <1>1, <1>2, <1>3
<1> QED
  BY <1>4 DEF q

\* The code of the first W tiers as one number, of which the first byte is in
\* the range of the tier.
LEMMA LeadIs ==
  ASSUME NEW k \in 1 .. W, NEW p \in Nat, p < Pow2[(W - 1) * k],
         NEW n, n = Ones(k - 1) * Place(k - 1) + p
  PROVE  /\ n \in Nat /\ n < Place(k) /\ Ones(k - 1) * Place(k - 1) \in Nat
         /\ n \div Place(k - 1) \in Ones(k - 1) .. Ones(k) - 1
         /\ Bytes(n, k)[1] \in Ones(k - 1) .. Ones(k) - 1
<1>1. W \in Nat /\ k - 1 \in Nat /\ W - k \in Nat /\ k - 1 \in 0 .. W /\ k \in 0 .. W
      /\ (k - 1) + 1 = k
  BY VarCodecAssumption
<1>2. /\ Place(k - 1) \in Nat \ {0} /\ Place(k) = Place(k - 1) * Q /\ Q \in Nat \ {0}
  BY <1>1, PlaceIs
<1>3. Ones(k - 1) \in 0 .. Q - 1 /\ Ones(k) \in 0 .. Q - 1
      /\ Ones(k) = Ones(k - 1) + Pow2[W - k]
  BY <1>1, OnesAre
<1>4. Pow2[(W - 1) * k] = Place(k - 1) * Pow2[W - k] /\ Pow2[W - k] \in Nat
  <2>1. (W - 1) * k = W * (k - 1) + (W - k) /\ W * (k - 1) \in Nat
    BY <1>1
  <2> QED
    <3>1. Pow2[W * (k - 1) + (W - k)] = Pow2[W * (k - 1)] * Pow2[W - k]
      BY <1>1, <2>1, Pow2Sum
    <3>2. Pow2[W - k] \in Nat
      BY <1>1, Pow2Is
    <3> QED
      BY <2>1, <3>1, <3>2 DEF Place
<1> DEFINE b == Place(k - 1)
           x == Ones(k - 1)
           y == Ones(k)
           z == Pow2[W - k]
<1>5. b \in Nat \ {0} /\ x \in Nat /\ y \in Nat /\ z \in Nat /\ y = x + z /\ y <= Q
      /\ n = x * b + p /\ p < b * z /\ Place(k) = b * Q
  BY <1>2, <1>3, <1>4
<1> HIDE DEF b, x, y, z
<1>6. x * b = b * x /\ x * b \in Nat /\ b * y = b * x + b * z /\ b * y <= b * Q
  BY <1>2, <1>5, Products
<1>7. n \in Nat /\ b * x <= n /\ n < b * y /\ n < Place(k)
  <2>1. b * z \in Nat /\ b * y \in Nat /\ b * Q \in Nat
    BY <1>2, <1>5, Products
  <2> QED
    BY <1>5, <1>6, <2>1
<1>8. n \div b \in x .. y - 1
  BY <1>5, <1>7, DivBetween
<1>9. Bytes(n, k)[1] = n \div b
  <2>1. n \div b \in 0 .. Q - 1
    BY <1>5, <1>2, <1>8
  <2>2. (n \div b) % Q = n \div b
    BY <1>2, <2>1
  <2>3. 1 \in 1 .. k /\ k \in Nat
    BY <1>1
  <2> QED
    BY <1>7, <2>2, <2>3, BytesAre DEF b
<1> QED
  BY <1>6, <1>7, <1>8, <1>9 DEF b, x, y

----------------------------------------------------------------------------
(* Unsigned numbers                                                        *)

\* Cutting a sequence out of a longer one.
LEMMA Front ==
  ASSUME NEW s \in Seq(Nat), NEW t \in Seq(Nat), NEW k, k = Len(s)
  PROVE  SubSeq(s \o t, 1, k) = s
OBVIOUS

\* The same behind one byte.
LEMMA AfterFirst ==
  ASSUME NEW x \in Nat, NEW s \in Seq(Nat), NEW t \in Seq(Nat), NEW k, k = Len(s)
  PROVE  /\ SubSeq(<<x>> \o s \o t, 2, k + 1) = s
         /\ (<<x>> \o s \o t)[1] = x
OBVIOUS

\* The code of a number in one of the first W tiers, and of one beyond.
LEMMA ShortCode ==
  ASSUME NEW w \in Nat, Tier(w) <= W
  PROVE  \E k \in 1 .. W : \E p \in Nat : \E n \in Nat :
           /\ p = w - Base[k] /\ p < Pow2[(W - 1) * k]
           /\ n = Ones(k - 1) * Place(k - 1) + p
           /\ VarU64(w) = Bytes(n, k) /\ k = Tier(w)
<1> DEFINE k == Tier(w)
           p == w - Base[k]
           n == Ones(k - 1) * Place(k - 1) + p
<1>1. k \in 1 .. W /\ k \in Nat \ {0} /\ Base[k] <= w /\ w < Base[k + 1]
  BY TierIs, VarCodecAssumption
<1>2. VarU64(w) = Bytes(n, k)
  BY <1>1 DEF VarU64
<1> HIDE DEF k
<1>3. Base[k] \in Nat /\ Base[k + 1] = Base[k] + Pow2[(W - 1) * k]
      /\ Pow2[(W - 1) * k] \in Nat
  <2>1. (W - 1) * k \in Nat
    BY <1>1, VarCodecAssumption, Products
  <2> QED
    BY <1>1, <2>1, BaseIs, Pow2Is
<1>4. p \in Nat /\ p < Pow2[(W - 1) * k]
  BY <1>1, <1>3
<1> HIDE DEF p
<1>5. n \in Nat
  BY <1>1, <1>4, LeadIs
<1> QED
  BY <1>1, <1>2, <1>4, <1>5 DEF k, p

\* The code of the last tier: a byte of ones and the whole distance.
LEMMA LongCode ==
  ASSUME NEW w \in Nat, ~(Tier(w) <= W), w < Pow2[Width]
  PROVE  \E p \in Nat : /\ p = w - Base[W + 1] /\ p < Place(W)
                        /\ VarU64(w) = <<Q - 1>> \o Bytes(p, W)
                        /\ Base[W + 1] \in Nat /\ Tier(w) = W + 1
<1>1. W \in Nat
  BY VarCodecAssumption
<1>2. Tier(w) = W + 1 /\ Base[W + 1] <= w /\ Base[W + 1] \in Nat
  <2>1. Tier(w) \in 1 .. W + 1 /\ Base[Tier(w)] <= w
    BY TierIs
  <2>2. Tier(w) = W + 1
    BY <1>1, <2>1
  <2>3. W + 1 \in Nat \ {0}
    BY <1>1
  <2> QED
    BY <2>1, <2>2, <2>3, BaseIs
<1>3. VarU64(w) = <<Q - 1>> \o Bytes(w - Base[W + 1], W)
  BY <1>1, <1>2 DEF VarU64
<1>4. w - Base[W + 1] \in Nat /\ w - Base[W + 1] < Place(W)
  <2>1. Place(W) = Pow2[Width] /\ Place(W) \in Nat
    BY <1>1, PlaceIs DEF Place, Width
  <2> QED
    BY <1>2, <2>1
<1> QED
  BY <1>2, <1>3, <1>4

\* The reader tells the tier by the first byte.
LEMMA TierRead ==
  ASSUME NEW k \in 1 .. W + 1, NEW b \in Nat,
         b >= Ones(k - 1), k <= W => b < Ones(k)
  PROVE  k = CHOOSE j \in 1 .. W + 1 : b >= Ones(j - 1) /\ (j <= W => b < Ones(j))
<1>1. W \in Nat
  BY VarCodecAssumption
<1>2. ASSUME NEW j \in 1 .. W + 1, b >= Ones(j - 1), j <= W => b < Ones(j)
      PROVE  j = k
  <2>1. ASSUME j < k PROVE FALSE
    <3>1. j \in 0 .. W /\ k - 1 \in 0 .. W /\ j <= k - 1 /\ j <= W
      BY <1>1, <2>1
    <3>2. Ones(j) <= Ones(k - 1) /\ Ones(j) \in Nat /\ Ones(k - 1) \in Nat
      BY <3>1, OnesAre, PlaceIs
    <3> QED
      BY <1>2, <3>1, <3>2
  <2>2. ASSUME k < j PROVE FALSE
    <3>1. k \in 0 .. W /\ j - 1 \in 0 .. W /\ k <= j - 1 /\ k <= W
      BY <1>1, <2>2
    <3>2. Ones(k) <= Ones(j - 1) /\ Ones(k) \in Nat /\ Ones(j - 1) \in Nat
      BY <3>1, OnesAre, PlaceIs
    <3> QED
      BY <1>2, <3>1, <3>2
  <2> QED
    BY <1>1, <2>1, <2>2
<1> DEFINE P(j) == b >= Ones(j - 1) /\ (j <= W => b < Ones(j))
<1>3. P(k) /\ \A j \in 1 .. W + 1 : P(j) => j = k
  BY <1>2
<1> HIDE DEF P
<1>4. k = CHOOSE j \in 1 .. W + 1 : P(j)
  BY <1>3
<1> QED
  BY <1>4 DEF P

\* The code of a number is a byte or more.
LEMMA CodeBytesAre ==
  ASSUME NEW w \in Nat, w < Pow2[Width]
  PROVE  VarU64(w) \in Seq(Nat) /\ Len(VarU64(w)) \in Nat \ {0}
<1>1. W \in Nat /\ Q \in Nat \ {0}
  BY VarCodecAssumption, PlaceIs
<1>2. CASE Tier(w) <= W
  <2>1. PICK k \in 1 .. W, n \in Nat : VarU64(w) = Bytes(n, k)
    BY <1>2, ShortCode
  <2>2. k \in Nat /\ k # 0
    BY <1>1
  <2> QED
    BY <2>1, <2>2, BytesAre
<1>3. CASE ~(Tier(w) <= W)
  <2>1. PICK p \in Nat : VarU64(w) = <<Q - 1>> \o Bytes(p, W)
    BY <1>3, LongCode
  <2>2. Bytes(p, W) \in Seq(Nat) /\ Len(Bytes(p, W)) = W
    BY <1>1, BytesAre
  <2>3. <<Q - 1>> \in Seq(Nat) /\ Len(<<Q - 1>>) = 1
    BY <1>1
  <2> QED
    BY <1>1, <2>1, <2>2, <2>3
<1> QED
  BY <1>2, <1>3

\* Unsigned numbers are read back by dyb_next_var_u64 as dyb_append_var_u64
\* wrote them, whatever follows, and no byte of what follows is used: at every
\* width of a byte, for all numbers of full width.
THEOREM NumbersReturn ==
  ASSUME NEW w \in Nat, w < Pow2[Width], NEW tail \in Seq(Nat)
  PROVE  NextVarU64(VarU64(w) \o tail) = [val |-> w, used |-> Len(VarU64(w))]
<1> DEFINE bs == VarU64(w) \o tail
<1>1. W \in Nat /\ W > 1 /\ Q \in Nat \ {0}
  BY VarCodecAssumption, PlaceIs
<1>2. CASE Tier(w) <= W
  <2>1. PICK k \in 1 .. W, p \in Nat, n \in Nat :
          /\ p = w - Base[k] /\ p < Pow2[(W - 1) * k]
          /\ n = Ones(k - 1) * Place(k - 1) + p
          /\ VarU64(w) = Bytes(n, k)
    BY <1>2, ShortCode
  <2>2. /\ n < Place(k) /\ Ones(k - 1) * Place(k - 1) \in Nat
        /\ Bytes(n, k)[1] \in Ones(k - 1) .. Ones(k) - 1
    BY <2>1, LeadIs
  <2>3. k \in Nat /\ k \in 1 .. W + 1 /\ k - 1 \in 0 .. W /\ k \in 0 .. W
    BY <1>1
  <2>4. Bytes(n, k) \in Seq(Nat) /\ Len(Bytes(n, k)) = k
    BY <2>3, BytesAre
  <2>5. SubSeq(bs, 1, k) = Bytes(n, k) /\ bs[1] = Bytes(n, k)[1]
    BY <2>1, <2>3, <2>4, Front
  <2>6. Ones(k - 1) \in Nat /\ Ones(k) \in Nat
    BY <1>1, <2>3, OnesAre
  <2>7. bs[1] \in Nat /\ bs[1] >= Ones(k - 1) /\ bs[1] < Ones(k)
    BY <2>2, <2>5, <2>6
  <2> HIDE DEF bs
  <2>8. k = CHOOSE j \in 1 .. W + 1 : bs[1] >= Ones(j - 1) /\ (j <= W => bs[1] < Ones(j))
    BY <2>3, <2>7, TierRead
  <2>9. Number(SubSeq(bs, 1, k)) = n
    BY <2>2, <2>3, <2>5, NumberOfBytes
  <2>10. NextVarU64(bs) = [val |-> n - Ones(k - 1) * Place(k - 1) + Base[k], used |-> k]
    <3>1. k <= W
      BY <1>1
    <3>2. NextVarU64(bs) =
            [val  |-> Number(SubSeq(bs, 1, k)) - Ones(k - 1) * Place(k - 1) + Base[k],
             used |-> k]
      BY <2>8, <3>1, Zenon DEF NextVarU64
    <3> QED
      BY <2>9, <3>2
  <2>11. n - Ones(k - 1) * Place(k - 1) + Base[k] = w
    <3>1. Base[k] \in Nat
      BY <2>3, BaseIs
    <3> DEFINE o == Ones(k - 1) * Place(k - 1)
    <3>2. o \in Nat /\ n = o + p
      BY <2>1, <2>2
    <3> HIDE DEF o
    <3>3. n - o + Base[k] = w
      BY <2>1, <3>1, <3>2
    <3> QED
      BY <3>3 DEF o
  <2> QED
    BY <2>1, <2>4, <2>10, <2>11 DEF bs
<1>3. CASE ~(Tier(w) <= W)
  <2>1. PICK p \in Nat :
          /\ p = w - Base[W + 1] /\ p < Place(W)
          /\ VarU64(w) = <<Q - 1>> \o Bytes(p, W) /\ Base[W + 1] \in Nat
    BY <1>3, LongCode
  <2>2. Bytes(p, W) \in Seq(Nat) /\ Len(Bytes(p, W)) = W
    BY <1>1, BytesAre
  <2>3. Q - 1 \in Nat
    BY <1>1
  <2>4. SubSeq(bs, 2, W + 1) = Bytes(p, W) /\ bs[1] = Q - 1
    BY <2>1, <2>2, <2>3, AfterFirst
  <2>5. Len(VarU64(w)) = W + 1
    BY <1>1, <2>1, <2>2
  <2> HIDE DEF bs
  <2> DEFINE k == W + 1
  <2>6. k \in 1 .. W + 1 /\ k - 1 = W /\ ~(k <= W)
    BY <1>1
  <2>7. bs[1] >= Ones(k - 1)
    BY <2>3, <2>4, <2>6, OnesAre
  <2> HIDE DEF k
  <2>8. k = CHOOSE j \in 1 .. W + 1 : bs[1] >= Ones(j - 1) /\ (j <= W => bs[1] < Ones(j))
    BY <2>3, <2>4, <2>6, <2>7, TierRead
  <2>9. Number(SubSeq(bs, 2, W + 1)) = p
    BY <1>1, <2>1, <2>4, NumberOfBytes
  <2>10. NextVarU64(bs) = [val |-> (p + Base[k]) % Pow2[Width], used |-> W + 1]
    BY <2>6, <2>8, <2>9 DEF NextVarU64
  <2>11. (p + Base[k]) % Pow2[Width] = w
    <3>1. Width \in Nat
      BY <1>1 DEF Width
    <3>2. Pow2[Width] \in Nat \ {0}
      BY <3>1, Pow2Is
    <3>3. p + Base[k] = w
      BY <2>1 DEF k
    <3>4. w = Pow2[Width] * 0 + w /\ w \in 0 .. Pow2[Width] - 1
      BY <3>2
    <3> QED
      BY <3>2, <3>3, <3>4, DivIs
  <2> QED
    BY <2>5, <2>10, <2>11 DEF bs
<1> QED
  BY <1>2, <1>3

----------------------------------------------------------------------------
(* Signed numbers                                                          *)

\* The shift and the exclusive or put 2 * N signed numbers one to one on
\* 0 .. 2 * N - 1, and are taken back on the way in.
LEMMA ZigZagOneToOne ==
  ASSUME NEW N \in Nat, NEW s \in -N .. N - 1
  PROVE  ZigZag(s) \in 0 .. 2 * N - 1 /\ UnZig(ZigZag(s)) = s
<1>1. CASE s >= 0
  <2>1. (2 * s) % 2 = 0 /\ (2 * s) \div 2 = s
    BY <1>1
  <2> QED
    BY <1>1, <2>1 DEF ZigZag, UnZig
<1>2. CASE s < 0
  <2>1. PICK n \in Nat : s = - n - 1
    <3>1. - s - 1 \in Nat /\ s = - (- s - 1) - 1
      BY <1>2
    <3> QED
      BY <3>1
  <2>2. (2 * n + 1) % 2 = 1 /\ (2 * n + 1) \div 2 = n
    OBVIOUS
  <2>3. ZigZag(s) = 2 * n + 1
    BY <1>2, <2>1 DEF ZigZag
  <2> QED
    BY <1>2, <2>1, <2>2, <2>3 DEF UnZig
<1> QED
  BY <1>1, <1>2

\* Every unsigned number is the code of one signed number.
LEMMA ZigZagOnto ==
  ASSUME NEW N \in Nat, NEW u \in 0 .. 2 * N - 1
  PROVE  UnZig(u) \in -N .. N - 1 /\ ZigZag(UnZig(u)) = u
<1>1. u \div 2 \in 0 .. N - 1 /\ u = 2 * (u \div 2) + (u % 2) /\ u % 2 \in {0, 1}
  OBVIOUS
<1> QED
  BY <1>1 DEF ZigZag, UnZig

\* Signed numbers need no code of their own: dyb_next_var_s64 reads what
\* dyb_append_var_s64 wrote, and uses as many bytes, whatever follows, as
\* soon as the unsigned functions do, the most negative number included.
LEMMA SignedNumbersReturn ==
  ASSUME NEW N \in Nat, NEW tail,
         \A u \in 0 .. 2 * N - 1 :
           NextVarU64(VarU64(u) \o tail) = [val |-> u, used |-> Len(VarU64(u))],
         NEW s \in -N .. N - 1
  PROVE  NextVarS64(VarS64(s) \o tail) = [val |-> s, used |-> Len(VarS64(s))]
<1>1. PICK u : u = ZigZag(s)
  OBVIOUS
<1>2. u \in 0 .. 2 * N - 1 /\ UnZig(u) = s
  BY <1>1, ZigZagOneToOne
<1>3. NextVarU64(VarS64(s) \o tail) = [val |-> u, used |-> Len(VarS64(s))]
  BY <1>1, <1>2 DEF VarS64
<1> QED
  BY <1>2, <1>3 DEF NextVarS64

----------------------------------------------------------------------------
(* Order                                                                   *)

\* Of two numbers of k bytes the codes sort like the numbers.
LEMMA BytesSort ==
  ASSUME NEW k \in Nat, NEW m \in Nat, NEW n \in Nat, m < n, n < Place(k)
  PROVE  \E i \in 1 .. k : /\ Bytes(m, k)[i] < Bytes(n, k)[i]
                           /\ \A j \in 1 .. i - 1 : Bytes(m, k)[j] = Bytes(n, k)[j]
<1> DEFINE quot(x, i) == x \div Place(k - i)
           T == {i \in 0 .. k : quot(m, i) # quot(n, i)}
<1>1. \A i \in 0 .. k : k - i \in Nat /\ Place(k - i) \in Nat \ {0}
  BY PlaceIs
<1>2. ASSUME NEW x \in Nat, x < Place(k) PROVE quot(x, 0) = 0
  <2>1. Place(k) \in Nat \ {0} /\ k - 0 = k /\ x \in 0 .. Place(k) - 1 /\ x = Place(k) * 0 + x
    BY <1>2, PlaceIs
  <2> QED
    BY <2>1, DivIs
<1>3. ASSUME NEW x \in Nat PROVE quot(x, k) = x
  <2>1. Place(k - k) = 1
    <3>1. k - k = 0
      OBVIOUS
    <3> QED
      BY <3>1, PlaceIs
  <2> QED
    BY <2>1, DivIs
<1>4. ASSUME NEW x \in Nat, NEW i \in 1 .. k
      PROVE  /\ quot(x, i) \in Nat /\ quot(x, i - 1) = quot(x, i) \div Q
             /\ Bytes(x, k)[i] = quot(x, i) % Q
  <2> DEFINE j == k - i
  <2>1. j \in Nat /\ k - (i - 1) = j + 1 /\ k \in Nat
    OBVIOUS
  <2>2. Place(j) \in Nat \ {0} /\ Q \in Nat \ {0} /\ Place(j + 1) = Place(j) * Q
    BY <2>1, PlaceIs
  <2>3. Bytes(x, k)[i] = (x \div Place(j)) % Q
    BY BytesAre
  <2> HIDE DEF j
  <2>4. x \div Place(j) \in Nat /\ x \div Place(j + 1) = (x \div Place(j)) \div Q
    <3>1. x \div Place(j) \in Nat
      BY <2>2, DivHas
    <3>2. (x \div Place(j)) \div Q = x \div (Place(j) * Q)
      BY <2>2, DivDiv
    <3> QED
      BY <2>2, <3>1, <3>2
  <2>5. quot(x, i) = x \div Place(j) /\ quot(x, i - 1) = x \div Place(j + 1)
    BY <2>1 DEF j
  <2> QED
    BY <2>3, <2>4, <2>5
<1>5. k \in T
  BY <1>3
<1>6. PICK i \in T : \A l \in T : i <= l
  <2> HIDE DEF quot
  <2>1. T \subseteq Nat /\ T # {}
    BY <1>5
  <2> HIDE DEF T
  <2> QED
    BY <2>1, LeastNumber
<1>7. m < Place(k)
  BY PlaceIs
<1>8. i # 0
  <2>1. quot(m, 0) = quot(n, 0)
    BY <1>2, <1>7
  <2> QED
    BY <1>6, <2>1
<1>9. i \in 1 .. k /\ quot(m, i) # quot(n, i)
  BY <1>6, <1>8
<1>10. \A l \in 0 .. i - 1 : quot(m, l) = quot(n, l)
  <2> HIDE DEF quot
  <2> TAKE l \in 0 .. i - 1
  <2>1. l \in 0 .. k /\ ~(i <= l)
    BY <1>9
  <2> QED
    BY <1>6, <2>1
<1>11. quot(m, i) <= quot(n, i)
  <2>1. Place(k - i) \in Nat \ {0}
    BY <1>1, <1>9
  <2> QED
    BY <2>1, DivMonotone
<1>12. /\ quot(m, i) \in Nat /\ quot(m, i - 1) = quot(m, i) \div Q
       /\ Bytes(m, k)[i] = quot(m, i) % Q
  BY <1>4, <1>9
<1>13. /\ quot(n, i) \in Nat /\ quot(n, i - 1) = quot(n, i) \div Q
       /\ Bytes(n, k)[i] = quot(n, i) % Q
  BY <1>4, <1>9
<1>14. quot(m, i - 1) = quot(n, i - 1)
  BY <1>9, <1>10
<1> DEFINE a == quot(m, i)
           b == quot(n, i)
<1>15. Bytes(m, k)[i] < Bytes(n, k)[i]
  <2>1. a \in Nat /\ b \in Nat /\ a < b /\ a \div Q = b \div Q /\ Q \in Nat \ {0}
    BY <1>9, <1>11, <1>12, <1>13, <1>14, PlaceIs
  <2>2. Bytes(m, k)[i] = a % Q /\ Bytes(n, k)[i] = b % Q
    BY <1>12, <1>13
  <2> HIDE DEF a, b
  <2> DEFINE c == a \div Q
  <2>3. c \in Nat /\ a % Q \in 0 .. Q - 1 /\ a = Q * c + (a % Q)
    BY <2>1, DivHas
  <2>4. b % Q \in 0 .. Q - 1 /\ b = Q * c + (b % Q)
    BY <2>1, DivHas
  <2>5. Q * c \in Nat
    BY <2>1, <2>3, Products
  <2> HIDE DEF c
  <2> QED
    BY <2>1, <2>2, <2>3, <2>4, <2>5
<1>16. ASSUME NEW j \in 1 .. i - 1 PROVE Bytes(m, k)[j] = Bytes(n, k)[j]
  <2>1. j \in 1 .. k /\ j \in 0 .. i - 1
    BY <1>9
  <2>2. quot(m, j) = quot(n, j)
    BY <1>10, <2>1
  <2>3. Bytes(m, k)[j] = quot(m, j) % Q /\ Bytes(n, k)[j] = quot(n, j) % Q
    BY <1>4, <2>1
  <2> QED
    BY <2>2, <2>3
<1> QED
  BY <1>9, <1>15, <1>16

\* The first byte of a code is in the range of its tier.
LEMMA FirstByte ==
  ASSUME NEW n \in Nat, n < Pow2[Width]
  PROVE  /\ Len(VarU64(n)) \in Nat /\ Len(VarU64(n)) >= 1
         /\ VarU64(n)[1] \in Nat /\ VarU64(n)[1] >= Ones(Tier(n) - 1)
         /\ Tier(n) <= W => VarU64(n)[1] < Ones(Tier(n))
<1>1. W \in Nat /\ W > 1 /\ Q \in Nat \ {0}
  BY VarCodecAssumption, PlaceIs
<1>2. CASE Tier(n) <= W
  <2>1. PICK k \in 1 .. W, p \in Nat, c \in Nat :
          /\ p = n - Base[k] /\ p < Pow2[(W - 1) * k]
          /\ c = Ones(k - 1) * Place(k - 1) + p
          /\ VarU64(n) = Bytes(c, k) /\ k = Tier(n)
    BY <1>2, ShortCode
  <2>2. Bytes(c, k)[1] \in Ones(k - 1) .. Ones(k) - 1
    BY <2>1, LeadIs
  <2>3. k \in Nat /\ k - 1 \in 0 .. W /\ k \in 0 .. W
    BY <1>1
  <2>4. Len(Bytes(c, k)) = k
    BY <2>3, BytesAre
  <2>5. Ones(k - 1) \in Nat /\ Ones(k) \in Nat
    BY <1>1, <2>3, OnesAre
  <2> QED
    BY <2>1, <2>2, <2>4, <2>5
<1>3. CASE ~(Tier(n) <= W)
  <2>1. PICK p \in Nat : VarU64(n) = <<Q - 1>> \o Bytes(p, W) /\ Tier(n) = W + 1
    BY <1>3, LongCode
  <2>2. Bytes(p, W) \in Seq(Nat) /\ Len(Bytes(p, W)) = W
    BY <1>1, BytesAre
  <2>3. VarU64(n)[1] = Q - 1 /\ Len(VarU64(n)) = W + 1
    BY <1>1, <2>1, <2>2
  <2>4. Ones(W) = Q - 1 /\ Tier(n) - 1 = W
    BY <1>1, <2>1, OnesAre
  <2> QED
    BY <1>1, <1>3, <2>3, <2>4
<1> QED
  BY <1>2, <1>3

\* Tiers do not go down.
LEMMA TiersRise ==
  ASSUME NEW n \in Nat
  PROVE  Tier(n) <= Tier(n + 1)
<1>1. W \in Nat
  BY VarCodecAssumption
<1> DEFINE j == Tier(n)
           k == Tier(n + 1)
<1>2. j \in 1 .. W + 1 /\ Base[j] <= n
  BY TierIs
<1>3. k \in 1 .. W + 1 /\ (k <= W => n + 1 < Base[k + 1])
  BY TierIs
<1> HIDE DEF j, k
<1> SUFFICES ASSUME k < j PROVE FALSE
  BY <1>1, <1>2, <1>3 DEF j, k
<1> DEFINE S == {d \in Nat : Base[k + 1] <= Base[(k + 1) + d]}
<1>4. k + 1 \in Nat \ {0}
  BY <1>3
<1>5. 0 \in S
  BY <1>4, BaseIs
<1>6. ASSUME NEW d \in Nat, d \in S PROVE d + 1 \in S
  <2>1. (k + 1) + d \in Nat \ {0} /\ (k + 1) + (d + 1) = ((k + 1) + d) + 1
    BY <1>3
  <2>2. (W - 1) * ((k + 1) + d) \in Nat
    BY <2>1, VarCodecAssumption, Products
  <2>3. /\ Base[((k + 1) + d) + 1] = Base[(k + 1) + d] + Pow2[(W - 1) * ((k + 1) + d)]
        /\ Pow2[(W - 1) * ((k + 1) + d)] \in Nat
        /\ Base[(k + 1) + d] \in Nat /\ Base[k + 1] \in Nat
    BY <1>4, <2>1, <2>2, BaseIs, Pow2Is
  <2> QED
    BY <1>6, <2>1, <2>3
<1>7. Nat \subseteq S
  <2> HIDE DEF S
  <2> QED
    BY <1>5, <1>6, InductionOnSet
<1>8. j - (k + 1) \in Nat /\ (k + 1) + (j - (k + 1)) = j
  BY <1>1, <1>2, <1>3
<1>9. Base[k + 1] <= Base[j]
  BY <1>7, <1>8
<1> QED
  BY <1>1, <1>2, <1>3, <1>4, <1>9, BaseIs

\* A byte and a sequence after it.
LEMMA Behind ==
  ASSUME NEW x \in Nat, NEW s \in Seq(Nat)
  PROVE  /\ Len(<<x>> \o s) = Len(s) + 1 /\ (<<x>> \o s)[1] = x
         /\ \A j \in 1 .. Len(s) : (<<x>> \o s)[j + 1] = s[j]
OBVIOUS

\* The codes of dyb_append_var_u64 sort like the numbers they stand for.
LEMMA CodesSort ==
  ASSUME NEW n \in Nat, n + 1 < Pow2[Width]
  PROVE  Precedes(VarU64(n), VarU64(n + 1))
<1>1. W \in Nat /\ W > 1 /\ Q \in Nat \ {0}
  BY VarCodecAssumption, PlaceIs
<1>2. n + 1 \in Nat /\ n < Pow2[Width]
  <2>1. Width \in Nat
    BY <1>1 DEF Width
  <2> QED
    BY <2>1, Pow2Is
<1> DEFINE m == n + 1
<1>3. CASE Tier(n) < Tier(m)
  <2> DEFINE i == Tier(n)
             j == Tier(m)
  <2>1. i \in 1 .. W + 1 /\ j \in 1 .. W + 1
    BY <1>2, TierIs
  <2>2. /\ Len(VarU64(n)) >= 1 /\ VarU64(n)[1] \in Nat /\ Len(VarU64(n)) \in Nat
        /\ i <= W => VarU64(n)[1] < Ones(i)
    BY <1>2, FirstByte
  <2>3. /\ Len(VarU64(m)) >= 1 /\ VarU64(m)[1] \in Nat /\ Len(VarU64(m)) \in Nat
        /\ VarU64(m)[1] >= Ones(j - 1)
    BY <1>2, FirstByte
  <2> HIDE DEF i, j, m
  <2>4. i <= W /\ i \in 0 .. W /\ j - 1 \in 0 .. W /\ i <= j - 1
    BY <1>1, <1>3, <2>1 DEF i, j
  <2>5. Ones(i) <= Ones(j - 1) /\ Ones(i) \in Nat /\ Ones(j - 1) \in Nat
    BY <1>1, <2>4, OnesAre
  <2>6. VarU64(n)[1] < VarU64(m)[1]
    BY <2>2, <2>3, <2>4, <2>5
  <2>7. 1 \in 1 .. Len(VarU64(n)) /\ 1 <= Len(VarU64(m)) /\ 1 .. 1 - 1 = {}
    BY <2>2, <2>3
  <2> QED
    BY <2>6, <2>7 DEF Precedes, m
<1>4. CASE Tier(n) = Tier(m) /\ Tier(n) <= W
  <2>1. PICK k \in 1 .. W, p \in Nat, c \in Nat :
          /\ p = n - Base[k] /\ p < Pow2[(W - 1) * k]
          /\ c = Ones(k - 1) * Place(k - 1) + p
          /\ VarU64(n) = Bytes(c, k) /\ k = Tier(n)
    BY <1>4, ShortCode
  <2>2. PICK l \in 1 .. W, q \in Nat, d \in Nat :
          /\ q = m - Base[l] /\ q < Pow2[(W - 1) * l]
          /\ d = Ones(l - 1) * Place(l - 1) + q
          /\ VarU64(m) = Bytes(d, l) /\ l = Tier(m)
    BY <1>2, <1>4, ShortCode
  <2>3. k = l /\ d < Place(k) /\ Ones(k - 1) * Place(k - 1) \in Nat
    BY <1>4, <2>1, <2>2, LeadIs
  <2>4. q = p + 1
    <3>1. k \in Nat \ {0}
      BY <1>1
    <3>2. Base[k] \in Nat
      BY <3>1, BaseIs
    <3> QED
      BY <2>1, <2>2, <2>3, <3>2
  <2>5. c < d
    <3> DEFINE o == Ones(k - 1) * Place(k - 1)
    <3>1. o \in Nat /\ c = o + p /\ d = o + q
      BY <2>1, <2>2, <2>3
    <3> HIDE DEF o
    <3> QED
      BY <2>4, <3>1
  <2>6. k \in Nat
    BY <1>1
  <2>7. Len(Bytes(c, k)) = k /\ Len(Bytes(d, k)) = k
    BY <2>6, BytesAre
  <2>8. PICK i \in 1 .. k : /\ Bytes(c, k)[i] < Bytes(d, k)[i]
                            /\ \A j \in 1 .. i - 1 : Bytes(c, k)[j] = Bytes(d, k)[j]
    <3>1. d < Place(k)
      BY <2>3
    <3> QED
      BY <2>5, <2>6, <3>1, BytesSort
  <2>9. i \in 1 .. Len(Bytes(c, k)) /\ i <= Len(Bytes(d, k))
    BY <2>6, <2>7
  <2> QED
    BY <2>1, <2>2, <2>3, <2>8, <2>9 DEF Precedes
<1>5. CASE Tier(n) = Tier(m) /\ ~(Tier(n) <= W)
  <2>1. PICK p \in Nat :
          /\ p = n - Base[W + 1] /\ p < Place(W)
          /\ VarU64(n) = <<Q - 1>> \o Bytes(p, W) /\ Base[W + 1] \in Nat
    BY <1>2, <1>5, LongCode
  <2>2. PICK q \in Nat :
          /\ q = m - Base[W + 1] /\ q < Place(W)
          /\ VarU64(m) = <<Q - 1>> \o Bytes(q, W)
    BY <1>2, <1>5, LongCode
  <2>3. p < q
    BY <2>1, <2>2
  <2>4. PICK i \in 1 .. W : /\ Bytes(p, W)[i] < Bytes(q, W)[i]
                            /\ \A j \in 1 .. i - 1 : Bytes(p, W)[j] = Bytes(q, W)[j]
    BY <1>1, <2>2, <2>3, BytesSort
  <2>5. /\ Bytes(p, W) \in Seq(Nat) /\ Len(Bytes(p, W)) = W
        /\ Bytes(q, W) \in Seq(Nat) /\ Len(Bytes(q, W)) = W
    BY <1>1, BytesAre
  <2>6. /\ Len(VarU64(n)) = W + 1 /\ Len(VarU64(m)) = W + 1
        /\ VarU64(n)[1] = Q - 1 /\ VarU64(m)[1] = Q - 1
        /\ \A j \in 1 .. W : /\ VarU64(n)[j + 1] = Bytes(p, W)[j]
                             /\ VarU64(m)[j + 1] = Bytes(q, W)[j]
    <3>1. Q - 1 \in Nat
      BY <1>1
    <3>2. ASSUME NEW s \in Seq(Nat), Len(s) = W
          PROVE  /\ Len(<<Q - 1>> \o s) = W + 1 /\ (<<Q - 1>> \o s)[1] = Q - 1
                 /\ \A j \in 1 .. W : (<<Q - 1>> \o s)[j + 1] = s[j]
      BY <3>1, <3>2, Behind
    <3> QED
      BY <2>1, <2>2, <2>5, <3>2
  <2>7. i + 1 \in 1 .. Len(VarU64(n)) /\ i + 1 <= Len(VarU64(m))
    BY <1>1, <2>6
  <2>8. VarU64(n)[i + 1] < VarU64(m)[i + 1]
    BY <2>4, <2>6
  <2>9. ASSUME NEW j \in 1 .. (i + 1) - 1 PROVE VarU64(n)[j] = VarU64(m)[j]
    <3>1. CASE j = 1
      BY <2>6, <3>1
    <3>2. CASE j # 1
      <4>1. j - 1 \in 1 .. i - 1 /\ j - 1 \in 1 .. W /\ (j - 1) + 1 = j
        BY <1>1, <3>2
      <4> QED
        BY <2>4, <2>6, <4>1
    <3> QED
      BY <3>1, <3>2
  <2> QED
    BY <2>7, <2>8, <2>9 DEF Precedes
<1>6. Tier(n) <= Tier(m) /\ Tier(n) \in Nat /\ Tier(m) \in Nat
  BY <1>1, <1>2, TierIs, TiersRise
<1> QED
  BY <1>3, <1>4, <1>5, <1>6

----------------------------------------------------------------------------
(* Tags                                                                    *)

\* The powers of two that tags need.
LEMMA Powers ==
  /\ X!C!Pow2[0] = 1 /\ X!C!Pow2[1] = 2 /\ X!C!Pow2[2] = 4 /\ X!C!Pow2[3] = 8
  /\ X!C!Pow2[4] = 16 /\ X!C!Pow2[5] = 32 /\ X!C!Pow2[6] = 64 /\ X!C!Pow2[7] = 128
  /\ X!C!Pow2[8] = 256 /\ X!C!Pow2[12] = 4096 /\ X!C!Pow2[13] = 8192
<1>1. X!C!Pow2 = Pow2
  BY DEF X!C!Pow2, Pow2
<1>2. Pow2[0] = 1 /\ \A n \in Nat : Pow2[n + 1] = 2 * Pow2[n]
  BY Pow2Is
<1>4. /\ Pow2[0] = 1 /\ Pow2[1] = 2 /\ Pow2[2] = 4 /\ Pow2[3] = 8 /\ Pow2[4] = 16
  <2>1. /\ Pow2[0 + 1] = 2 * Pow2[0] /\ Pow2[1 + 1] = 2 * Pow2[1]
        /\ Pow2[2 + 1] = 2 * Pow2[2] /\ Pow2[3 + 1] = 2 * Pow2[3]
    BY <1>2
  <2> QED
    BY <1>2, <2>1
<1>5. Pow2[5] = 32 /\ Pow2[6] = 64 /\ Pow2[7] = 128 /\ Pow2[8] = 256
  <2>1. /\ Pow2[4 + 1] = 2 * Pow2[4] /\ Pow2[5 + 1] = 2 * Pow2[5]
        /\ Pow2[6 + 1] = 2 * Pow2[6] /\ Pow2[7 + 1] = 2 * Pow2[7]
    BY <1>2
  <2> QED
    BY <1>4, <2>1
<1>6. Pow2[12] = 4096
  <2>1. Pow2[8 + 4] = Pow2[8] * Pow2[4]
    BY Pow2Sum
  <2> QED
    BY <1>4, <1>5, <2>1
<1>7. Pow2[13] = 8192
  <2>1. Pow2[12 + 1] = 2 * Pow2[12]
    BY <1>2
  <2> QED
    BY <1>6, <2>1
<1> QED
  BY <1>1, <1>4, <1>5, <1>6, <1>7

\* Those of an index of 16 and 20 bits.
LEMMA MorePowers ==
  X!C!Pow2[16] = 65536 /\ X!C!Pow2[20] = 1048576
<1>1. X!C!Pow2 = Pow2
  BY DEF X!C!Pow2, Pow2
<1>2. Pow2[8 + 8] = Pow2[8] * Pow2[8] /\ Pow2[16 + 4] = Pow2[16] * Pow2[4]
  BY Pow2Sum
<1>3. Pow2[4] = 16 /\ Pow2[8] = 256
  BY <1>1, Powers
<1>4. Pow2[16] = 65536
  BY <1>2, <1>3, SMT
<1> QED
  BY <1>1, <1>2, <1>3, <1>4, SMT

\* Bytes of a tag, as few as it has.
LEMMA TagBytes ==
  ASSUME NEW n \in Nat
  PROVE  /\ X!C!Bytes(n, 0) = <<>> /\ X!C!Bytes(n, 1) = <<n % 256>>
         /\ X!C!Bytes(n, 2) = <<(n \div 256) % 256, n % 256>>
<1>1. X!C!Q = 256 /\ X!C!Place(0) = 1 /\ X!C!Place(1) = 256
  BY Powers DEF X!C!Q, X!C!Place
<1>2. n \div 1 = n
  OBVIOUS
<1>3. X!C!Bytes(n, 0) = <<>>
  BY DEF X!C!Bytes
<1>4. X!C!Bytes(n, 1) = <<n % 256>>
  <2>1. X!C!Bytes(n, 1) = [i \in 1 .. 1 |-> (n \div X!C!Place(1 - i)) % 256]
    BY <1>1 DEF X!C!Bytes
  <2>2. \A i \in 1 .. 1 : (n \div X!C!Place(1 - i)) % 256 = n % 256
    BY <1>1, <1>2
  <2> QED
    BY <2>1, <2>2
<1>5. X!C!Bytes(n, 2) = <<(n \div 256) % 256, n % 256>>
  <2> DEFINE b == X!C!Bytes(n, 2)
  <2>1. b = [i \in 1 .. 2 |-> (n \div X!C!Place(2 - i)) % 256]
    BY <1>1 DEF X!C!Bytes
  <2> HIDE DEF b
  <2>2. b[1] = (n \div 256) % 256 /\ b[2] = n % 256
    BY <1>1, <1>2, <2>1
  <2>3. (n \div 256) % 256 \in Nat /\ n % 256 \in Nat
    OBVIOUS
  <2>4. b = [i \in 1 .. 2 |-> b[i]]
    BY <2>1
  <2> QED
    BY <2>2, <2>3, <2>4 DEF b
<1> QED
  BY <1>3, <1>4, <1>5

\* And the numbers in them.
LEMMA TagNumbers ==
  ASSUME NEW a \in Nat, NEW b \in Nat
  PROVE  /\ X!C!Number(<<>>) = 0 /\ X!C!Number(<<a>>) = a
         /\ X!C!Number(<<a, b>>) = 256 * a + b
<1>1. X!C!Q = 256
  BY Powers DEF X!C!Q
<1> DEFINE Is(f, bs) == f = [i \in 0 .. Len(bs) |->
                               IF i = 0 THEN 0 ELSE f[i - 1] * X!C!Q + bs[i]]
           read(bs) == CHOOSE f : Is(f, bs)
<1>2. \A bs : X!C!Number(bs) = read(bs)[Len(bs)]
  BY DEF X!C!Number
<1>3. ASSUME NEW bs, NEW f, Is(f, bs)
      PROVE  \A i \in 0 .. Len(bs) :
               read(bs)[i] = IF i = 0 THEN 0 ELSE read(bs)[i - 1] * 256 + bs[i]
  <2>1. Is(read(bs), bs)
    <3> HIDE DEF Is
    <3> QED
      BY <1>3
  <2> DEFINE r == read(bs)
             row(i) == IF i = 0 THEN 0 ELSE r[i - 1] * X!C!Q + bs[i]
  <2>2. r = [i \in 0 .. Len(bs) |-> row(i)]
    BY <2>1
  <2> HIDE DEF r, row
  <2>3. \A i \in 0 .. Len(bs) : r[i] = row(i)
    BY <2>2
  <2> QED
    BY <1>1, <2>3 DEF r, row
<1> DEFINE f == [i \in 0 .. 2 |-> IF i = 0 THEN 0 ELSE IF i = 1 THEN a ELSE a * 256 + b]
           g == [i \in 0 .. 1 |-> IF i = 0 THEN 0 ELSE a]
           h == [i \in 0 .. 0 |-> 0]
<1>4. Is(h, <<>>) /\ Len(<<>>) = 0
  OBVIOUS
<1>5. Is(g, <<a>>) /\ Len(<<a>>) = 1 /\ <<a>>[1] = a
  <2>1. ASSUME NEW i \in 0 .. 1
        PROVE  g[i] = IF i = 0 THEN 0 ELSE g[i - 1] * 256 + <<a>>[i]
    <3>1. i = 0 \/ i = 1
      OBVIOUS
    <3> QED
      BY <3>1
  <2>2. g = [i \in 0 .. 1 |-> g[i]]
    OBVIOUS
  <2> HIDE DEF g
  <2>3. Len(<<a>>) = 1 /\ <<a>>[1] = a
    OBVIOUS
  <2> QED
    BY <1>1, <2>1, <2>2, <2>3
<1>6. Is(f, <<a, b>>) /\ Len(<<a, b>>) = 2 /\ <<a, b>>[1] = a /\ <<a, b>>[2] = b
  BY <1>1
<1> HIDE DEF Is, read, f, g, h
<1>7. read(<<>>)[0] = 0
  BY <1>3, <1>4
<1>8. read(<<a>>)[1] = a
  <2>1. read(<<a>>)[0] = 0 /\ read(<<a>>)[1] = read(<<a>>)[0] * 256 + a
    <3>1. \A i \in 0 .. 1 : read(<<a>>)[i] =
                             IF i = 0 THEN 0 ELSE read(<<a>>)[i - 1] * 256 + <<a>>[i]
      BY <1>3, <1>5
    <3>2. 0 \in 0 .. 1 /\ 1 \in 0 .. 1 /\ 1 - 1 = 0
      OBVIOUS
    <3> QED
      BY <1>5, <3>1, <3>2
  <2> QED
    BY <2>1
<1>9. read(<<a, b>>)[2] = 256 * a + b
  <2>1. /\ read(<<a, b>>)[0] = 0 /\ read(<<a, b>>)[1] = read(<<a, b>>)[0] * 256 + a
        /\ read(<<a, b>>)[2] = read(<<a, b>>)[1] * 256 + b
    <3>1. \A i \in 0 .. 2 : read(<<a, b>>)[i] =
                             IF i = 0 THEN 0 ELSE read(<<a, b>>)[i - 1] * 256 + <<a, b>>[i]
      BY <1>3, <1>6
    <3>2. 0 \in 0 .. 2 /\ 1 \in 0 .. 2 /\ 2 \in 0 .. 2 /\ 1 - 1 = 0 /\ 2 - 1 = 1
      OBVIOUS
    <3> QED
      BY <1>6, <3>1, <3>2
  <2> QED
    BY <2>1
<1> QED
  BY <1>2, <1>4, <1>5, <1>6, <1>7, <1>8, <1>9

\* The four forms: bits of type and index, and bytes of the index of their own.
LEMMA Forms ==
  /\ X!High(1) = 3 /\ X!Low(1) = 0 /\ X!TypBits[1] = 4 /\ X!IdxBits[1] = 3
  /\ X!High(2) = 0 /\ X!Low(2) = 1 /\ X!TypBits[2] = 6 /\ X!IdxBits[2] = 8
  /\ X!High(3) = 5 /\ X!Low(3) = 1 /\ X!TypBits[3] = 8 /\ X!IdxBits[3] = 13
  /\ X!High(4) = 4 /\ X!Low(4) = 2 /\ X!TypBits[4] = 8 /\ X!IdxBits[4] = 20
BY DEF X!High, X!Low, X!TypBits, X!IdxBits

\* What has room in the first three forms, and in the fourth.
LEMMA FitsIs ==
  ASSUME NEW y, NEW x
  PROVE  /\ X!Fits(y, x, 1) <=> y < 16 /\ x < 8
         /\ X!Fits(y, x, 2) <=> y < 64 /\ x < 256
         /\ X!Fits(y, x, 3) <=> y < 256 /\ x < 8192
BY Forms, Powers DEF X!Fits

\* An index that has room in the last form has 4 bits above the last 16.
LEMMA FitsFour ==
  ASSUME NEW y \in Nat, y < 256, NEW x \in Nat
  PROVE  /\ X!Fits(y, x, 4) <=> x < X!C!Pow2[20]
         /\ X!Fits(y, x, 4) => x \div 65536 \in 0 .. 15
<1>1. X!Fits(y, x, 4) <=> x < X!C!Pow2[20]
  BY Forms, Powers DEF X!Fits
<1>2. x < X!C!Pow2[20] => x \div 65536 \in 0 .. 15
  BY MorePowers, SMT
<1> QED
  BY <1>1, <1>2

\* The lead bytes of the four forms.
LEMMA Leads ==
  /\ X!C!Ones(0) = 0 /\ X!C!Ones(1) = 128 /\ X!C!Ones(2) = 192
  /\ X!C!Ones(3) = 224 /\ X!C!Ones(4) = 240
BY Powers DEF X!C!Ones, X!C!Q

\* What is written in the first form that has room.
LEMMA TagIs ==
  ASSUME NEW y, NEW x, NEW t \in 1 .. 4, X!Fits(y, x, t),
         \A j \in 1 .. t - 1 : ~X!Fits(y, x, j)
  PROVE  X!Tag(y, x) =
           X!C!Bytes((X!C!Pow2[t] - 2) * X!C!Pow2[X!TypBits[t] + X!High(t)]
                       + y * X!C!Pow2[X!High(t)] + x \div X!C!Pow2[8 * X!Low(t)],
                     t - X!Low(t))
             \o X!C!Bytes(x % X!C!Pow2[8 * X!Low(t)], X!Low(t))
<1> DEFINE P(i) == X!Fits(y, x, i) /\ \A j \in 1 .. i - 1 : ~X!Fits(y, x, j)
<1>1. \A i \in 1 .. 4 : P(i) => i = t
  <2> TAKE i \in 1 .. 4
  <2> SUFFICES ASSUME P(i), i # t PROVE FALSE
    OBVIOUS
  <2>1. i \in 1 .. t - 1 \/ t \in 1 .. i - 1
    OBVIOUS
  <2> QED
    BY <2>1
<1>2. P(t)
  OBVIOUS
<1> HIDE DEF P
<1>3. t = CHOOSE i \in 1 .. 4 : P(i)
  BY <1>1, <1>2
<1>4. \E i \in 1 .. 4 : X!Fits(y, x, i)
  OBVIOUS
<1> QED
  BY <1>3, <1>4, Zenon DEF X!Tag, P

\* What is read where the lead byte is that of a form.
LEMMA NextTagIs ==
  ASSUME NEW bs, NEW t \in 1 .. 4, bs[1] \in Nat,
         X!C!Ones(t - 1) <= bs[1], bs[1] < X!C!Ones(t)
  PROVE  \E n : /\ n = X!C!Number(SubSeq(bs, 1, t - X!Low(t)))
                /\ X!NextTypdex(bs) =
                     [type  |-> (n \div X!C!Pow2[X!High(t)]) % X!C!Pow2[X!TypBits[t]],
                      index |-> (n % X!C!Pow2[X!High(t)]) * X!C!Pow2[8 * X!Low(t)]
                                  + X!C!Number(SubSeq(bs, t - X!Low(t) + 1, t)),
                      used  |-> t]
<1> DEFINE P(i) == bs[1] >= X!C!Ones(i - 1) /\ bs[1] < X!C!Ones(i)
<1>1. \A i \in 1 .. 4 : i = 1 \/ i = 2 \/ i = 3 \/ i = 4
  OBVIOUS
<1>2. /\ 1 - 1 = 0 /\ 2 - 1 = 1 /\ 3 - 1 = 2 /\ 4 - 1 = 3
  OBVIOUS
<1>3. \A i \in 1 .. 4 : P(i) => i = t
  BY <1>1, <1>2, Leads
<1>4. P(t) /\ ~(bs[1] >= 240)
  BY <1>1, <1>2, Leads
<1> HIDE DEF P
<1>5. t = CHOOSE i \in 1 .. 4 : P(i)
  BY <1>3, <1>4
<1> QED
  BY <1>4, <1>5, Zenon DEF X!NextTypdex, P

\* The first bytes of each form as one number.
JoinOne(y, x) == 8 * y + x
JoinTwo(y) == 128 + y
JoinThree(y, x) == 49152 + y * 32 + x \div 256
JoinFour(y, x) == 57344 + y * 16 + x \div 65536
RestFour(x) == x % 65536

\* What is written in each form.
LEMMA WriteOne ==
  ASSUME NEW y \in Nat, NEW x \in Nat,
         X!Fits(y, x, 1)
  PROVE  X!Tag(y, x) = X!C!Bytes(JoinOne(y, x), 1) \o X!C!Bytes(0, 0)
<1>1. X!Tag(y, x) =
        X!C!Bytes((X!C!Pow2[1] - 2) * X!C!Pow2[X!TypBits[1] + X!High(1)]
                    + y * X!C!Pow2[X!High(1)] + x \div X!C!Pow2[8 * X!Low(1)],
                  1 - X!Low(1))
          \o X!C!Bytes(x % X!C!Pow2[8 * X!Low(1)], X!Low(1))
  <2>1. \A j \in 1 .. 1 - 1 : ~X!Fits(y, x, j)
    <3> TAKE j \in 1 .. 1 - 1
    <3>1. FALSE
      OBVIOUS
    <3> QED
      BY <3>1
  <2> QED
    BY <2>1, TagIs
<1>2. X!C!Pow2[X!TypBits[1] + X!High(1)] = 128
  <2>1. X!TypBits[1] + X!High(1) = 7
    BY Forms
  <2> QED
    BY <2>1, Powers
<1>3. X!C!Pow2[8 * X!Low(1)] = 1
  <2>1. 8 * X!Low(1) = 0
    BY Forms
  <2> QED
    BY <2>1, Powers
<1>4. X!C!Pow2[1] = 2 /\ X!C!Pow2[X!High(1)] = 8
  BY Forms, Powers
<1>5. X!Low(1) = 0 /\ 1 - X!Low(1) = 1
  BY Forms
<1>6. (2 - 2) * 128 + y * 8 + x \div 1 = JoinOne(y, x) /\ x % 1 = 0
  BY DEF JoinOne
<1> QED
  BY <1>1, <1>2, <1>3, <1>4, <1>5, <1>6

\* A lead of two ones: the type, then a byte of index.
LEMMA WriteTwo ==
  ASSUME NEW y \in Nat, NEW x \in Nat,
         X!Fits(y, x, 2), ~X!Fits(y, x, 1)
  PROVE  X!Tag(y, x) = X!C!Bytes(JoinTwo(y), 1) \o X!C!Bytes(x, 1)
<1>1. X!Tag(y, x) =
        X!C!Bytes((X!C!Pow2[2] - 2) * X!C!Pow2[X!TypBits[2] + X!High(2)]
                    + y * X!C!Pow2[X!High(2)] + x \div X!C!Pow2[8 * X!Low(2)],
                  2 - X!Low(2))
          \o X!C!Bytes(x % X!C!Pow2[8 * X!Low(2)], X!Low(2))
  <2>1. \A j \in 1 .. 2 - 1 : ~X!Fits(y, x, j)
    <3> TAKE j \in 1 .. 2 - 1
    <3>1. j = 1
      OBVIOUS
    <3> QED
      BY <3>1
  <2> QED
    BY <2>1, TagIs
<1>2. X!C!Pow2[X!TypBits[2] + X!High(2)] = 64
  <2>1. X!TypBits[2] + X!High(2) = 6
    BY Forms
  <2> QED
    BY <2>1, Powers
<1>3. X!C!Pow2[8 * X!Low(2)] = 256
  <2>1. 8 * X!Low(2) = 8
    BY Forms
  <2> QED
    BY <2>1, Powers
<1>4. X!C!Pow2[2] = 4 /\ X!C!Pow2[X!High(2)] = 1
  BY Forms, Powers
<1>5. X!Low(2) = 1 /\ 2 - X!Low(2) = 1
  BY Forms
<1>6. (4 - 2) * 64 + y * 1 + x \div 256 = JoinTwo(y) /\ x % 256 = x
  <2>1. y < 64 /\ x < 256
    BY FitsIs
  <2> QED
    BY <2>1 DEF JoinTwo
<1> QED
  BY <1>1, <1>2, <1>3, <1>4, <1>5, <1>6

\* Two bytes for the type and the upper bits of the index, one for the rest.
LEMMA WriteThree ==
  ASSUME NEW y \in Nat, NEW x \in Nat,
         X!Fits(y, x, 3), ~X!Fits(y, x, 1), ~X!Fits(y, x, 2)
  PROVE  X!Tag(y, x) = X!C!Bytes(JoinThree(y, x), 2) \o X!C!Bytes(x % 256, 1)
<1>1. X!Tag(y, x) =
        X!C!Bytes((X!C!Pow2[3] - 2) * X!C!Pow2[X!TypBits[3] + X!High(3)]
                    + y * X!C!Pow2[X!High(3)] + x \div X!C!Pow2[8 * X!Low(3)],
                  3 - X!Low(3))
          \o X!C!Bytes(x % X!C!Pow2[8 * X!Low(3)], X!Low(3))
  <2>1. \A j \in 1 .. 3 - 1 : ~X!Fits(y, x, j)
    <3> TAKE j \in 1 .. 3 - 1
    <3>1. j = 1 \/ j = 2
      OBVIOUS
    <3> QED
      BY <3>1
  <2> QED
    BY <2>1, TagIs
<1>2. X!C!Pow2[X!TypBits[3] + X!High(3)] = 8192
  <2>1. X!TypBits[3] + X!High(3) = 13
    BY Forms
  <2> QED
    BY <2>1, Powers
<1>3. X!C!Pow2[8 * X!Low(3)] = 256
  <2>1. 8 * X!Low(3) = 8
    BY Forms
  <2> QED
    BY <2>1, Powers
<1>4. X!C!Pow2[3] = 8 /\ X!C!Pow2[X!High(3)] = 32
  BY Forms, Powers
<1>5. X!Low(3) = 1 /\ 3 - X!Low(3) = 2
  BY Forms
<1>6. (8 - 2) * 8192 + y * 32 + x \div 256 = JoinThree(y, x) /\ x % 256 = x % 256
  BY SMT DEF JoinThree
<1>7. (X!C!Pow2[3] - 2) * X!C!Pow2[X!TypBits[3] + X!High(3)]
        + y * X!C!Pow2[X!High(3)] + x \div X!C!Pow2[8 * X!Low(3)] = JoinThree(y, x)
  BY <1>2, <1>3, <1>4, <1>6, SMT
<1>8. x % X!C!Pow2[8 * X!Low(3)] = x % 256
  BY <1>3, <1>6
<1> QED
  BY <1>1, <1>5, <1>7, <1>8, Zenon

\* Two bytes for the type and the upper bits of the index, two for the rest.
LEMMA WriteFour ==
  ASSUME NEW y \in Nat, NEW x \in Nat,
         X!Fits(y, x, 4), ~X!Fits(y, x, 1), ~X!Fits(y, x, 2), ~X!Fits(y, x, 3)
  PROVE  X!Tag(y, x) = X!C!Bytes(JoinFour(y, x), 2) \o X!C!Bytes(RestFour(x), 2)
<1>1. X!Tag(y, x) =
        X!C!Bytes((X!C!Pow2[4] - 2) * X!C!Pow2[X!TypBits[4] + X!High(4)]
                    + y * X!C!Pow2[X!High(4)] + x \div X!C!Pow2[8 * X!Low(4)],
                  4 - X!Low(4))
          \o X!C!Bytes(x % X!C!Pow2[8 * X!Low(4)], X!Low(4))
  <2>1. \A j \in 1 .. 4 - 1 : ~X!Fits(y, x, j)
    <3> TAKE j \in 1 .. 4 - 1
    <3>1. j = 1 \/ j = 2 \/ j = 3
      OBVIOUS
    <3> QED
      BY <3>1
  <2> QED
    BY <2>1, TagIs
<1>2. X!C!Pow2[X!TypBits[4] + X!High(4)] = 4096
  <2>1. X!TypBits[4] + X!High(4) = 12
    BY Forms
  <2> QED
    BY <2>1, Powers
<1>3. X!C!Pow2[8 * X!Low(4)] = 65536
  <2>1. 8 * X!Low(4) = 16
    BY Forms
  <2> QED
    BY <2>1, Powers, MorePowers, SMT
<1>4. X!C!Pow2[4] = 16 /\ X!C!Pow2[X!High(4)] = 16
  BY Forms, Powers
<1>5. X!Low(4) = 2 /\ 4 - X!Low(4) = 2
  BY Forms
<1>6. (16 - 2) * 4096 + y * 16 + x \div 65536 = JoinFour(y, x) /\ x % 65536 = RestFour(x)
  BY SMT DEF JoinFour, RestFour
<1>7. (X!C!Pow2[4] - 2) * X!C!Pow2[X!TypBits[4] + X!High(4)]
        + y * X!C!Pow2[X!High(4)] + x \div X!C!Pow2[8 * X!Low(4)] = JoinFour(y, x)
  BY <1>2, <1>3, <1>4, <1>6, SMT
<1>8. x % X!C!Pow2[8 * X!Low(4)] = RestFour(x)
  BY <1>3, <1>6, SMT
<1> QED
  BY <1>1, <1>5, <1>7, <1>8, Zenon

\* A sequence of known length and its members.
LEMMA Members ==
  ASSUME NEW x \in Seq(Nat)
  PROVE  /\ Len(x) = 0 => x = <<>>
         /\ Len(x) = 1 => x = <<x[1]>>
         /\ Len(x) = 2 => x = <<x[1], x[2]>>
         /\ Len(x) = 3 => x = <<x[1], x[2], x[3]>>
         /\ Len(x) = 4 => x = <<x[1], x[2], x[3], x[4]>>
<1>2. Len(x) = 0 => x = <<>>
  OBVIOUS
<1>3. Len(x) = 1 => x = <<x[1]>>
  OBVIOUS
<1>4. Len(x) = 2 => x = <<x[1], x[2]>>
  OBVIOUS
<1>5. Len(x) = 3 => x = <<x[1], x[2], x[3]>>
  OBVIOUS
<1>6. Len(x) = 4 => x = <<x[1], x[2], x[3], x[4]>>
  OBVIOUS
<1> QED
  BY <1>2, <1>3, <1>4, <1>5, <1>6
\* One and two members cut out of a sequence.
LEMMA Cut ==
  ASSUME NEW s \in Seq(Nat), NEW k \in Nat, 1 <= k
  PROVE  /\ SubSeq(s, k + 1, k) = <<>>
         /\ k <= Len(s) => SubSeq(s, k, k) = <<s[k]>>
         /\ k < Len(s) => SubSeq(s, k, k + 1) = <<s[k], s[k + 1]>>
<1>1. SubSeq(s, k + 1, k) = <<>>
  OBVIOUS
<1>2. ASSUME k <= Len(s) PROVE SubSeq(s, k, k) = <<s[k]>>
  <2> DEFINE x == SubSeq(s, k, k)
  <2>1. x \in Seq(Nat) /\ Len(x) = 1 /\ x[1] = s[k]
    BY <1>2
  <2> QED
    BY <2>1, Members
<1>3. ASSUME k < Len(s) PROVE SubSeq(s, k, k + 1) = <<s[k], s[k + 1]>>
  <2> DEFINE x == SubSeq(s, k, k + 1)
  <2>1. x \in Seq(Nat) /\ Len(x) = 2
    BY <1>3
  <2>4. k + 1 - 1 = k /\ k + 2 - 1 = k + 1 /\ Len(s) \in Nat
    OBVIOUS
  <2>5. \A i \in 1 .. 2 : x[i] = s[k + i - 1]
    BY <1>3
  <2>2. x[1] = s[k] /\ x[2] = s[k + 1]
    <3> HIDE DEF x
    <3> QED
      BY <2>4, <2>5
  <2> HIDE DEF x
  <2>3. x = <<x[1], x[2]>>
    BY <2>1, Members
  <2> QED
    BY <2>2, <2>3 DEF x
<1> QED
  BY <1>1, <1>2, <1>3
\* Two, three and four bytes one after the other.
LEMMA PairIs ==
  ASSUME NEW a \in Nat, NEW b \in Nat
  PROVE <<a>> \o <<b>> = <<a, b>>
<1> DEFINE x == <<a>> \o <<b>>
<1>1. x \in Seq(Nat) /\ Len(x) = 2 /\ x[1] = a /\ x[2] = b
  OBVIOUS
<1> QED
  BY <1>1, Members
\* Two bytes and two more.
LEMMA FourAre ==
  ASSUME NEW a \in Nat, NEW b \in Nat, NEW c \in Nat, NEW d \in Nat
  PROVE <<a, b>> \o <<c, d>> = <<a, b, c, d>> /\ Len(<<a, b, c, d>>) = 4
<1> DEFINE x == <<a, b>> \o <<c, d>>
<1>1. x \in Seq(Nat) /\ Len(x) = 4 /\ x[1] = a /\ x[2] = b /\ x[3] = c /\ x[4] = d
  OBVIOUS
<1>2. x = <<a, b, c, d>>
  <2> HIDE DEF x
  <2> QED
    BY <1>1, Members
<1> QED
  BY <1>2

\* Two bytes and one more.
LEMMA ThreeAre ==
  ASSUME NEW a \in Nat, NEW b \in Nat, NEW c \in Nat
  PROVE  <<a, b>> \o <<c>> = <<a, b, c>> /\ Len(<<a, b, c>>) = 3
<1> DEFINE x == <<a, b>> \o <<c>>
<1>1. x \in Seq(Nat) /\ Len(x) = 3 /\ x[1] = a /\ x[2] = b /\ x[3] = c
  OBVIOUS
<1>2. x = <<a, b, c>>
  <2> HIDE DEF x
  <2> QED
    BY <1>1, Members
<1> QED
  BY <1>2

\* The first bytes, and those after them.
LEMMA Starts ==
  ASSUME NEW s \in Seq(Nat)
  PROVE  /\ SubSeq(s, 2, 1) = <<>>
         /\ 1 <= Len(s) => SubSeq(s, 1, 1) = <<s[1]>>
         /\ 2 <= Len(s) => SubSeq(s, 2, 2) = <<s[2]>> /\ SubSeq(s, 1, 2) = <<s[1], s[2]>>
         /\ 3 <= Len(s) => SubSeq(s, 3, 3) = <<s[3]>>
         /\ 4 <= Len(s) => SubSeq(s, 3, 4) = <<s[3], s[4]>>
<1>1. 1 + 1 = 2 /\ 3 + 1 = 4
  OBVIOUS
<1>2. SubSeq(s, 1 + 1, 1) = <<>> /\ (1 <= Len(s) => SubSeq(s, 1, 1) = <<s[1]>>)
      /\ (1 < Len(s) => SubSeq(s, 1, 1 + 1) = <<s[1], s[1 + 1]>>)
  BY Cut
<1>3. 2 <= Len(s) => SubSeq(s, 2, 2) = <<s[2]>>
  BY Cut
<1>4. /\ 3 <= Len(s) => SubSeq(s, 3, 3) = <<s[3]>>
      /\ 3 < Len(s) => SubSeq(s, 3, 3 + 1) = <<s[3], s[3 + 1]>>
  BY Cut
<1>5. Len(s) \in Nat
  OBVIOUS
<1> QED
  BY <1>1, <1>2, <1>3, <1>4, <1>5

\* What is read where a form begins.
LEMMA ReadOne ==
  ASSUME NEW a \in Nat, 0 <= a, a <= 127, NEW tail \in Seq(Nat)
  PROVE  X!NextTypdex(<<a>> \o tail) =
           [type  |-> (a \div 8) % 16,
            index |-> (a % 8) * 1 + 0,
            used  |-> 1]
<1> DEFINE bs == <<a>> \o tail
<1>1. bs \in Seq(Nat) /\ 1 <= Len(bs) /\ bs[1] = a
  OBVIOUS
<1> HIDE DEF bs
<1>10. SubSeq(bs, 1, 1) = <<a>> /\ SubSeq(bs, 2, 1) = <<>>
  BY <1>1, Starts
<1>2. PICK n : /\ n = X!C!Number(SubSeq(bs, 1, 1 - X!Low(1)))
               /\ X!NextTypdex(bs) =
                     [type  |-> (n \div X!C!Pow2[X!High(1)]) % X!C!Pow2[X!TypBits[1]],
                      index |-> (n % X!C!Pow2[X!High(1)]) * X!C!Pow2[8 * X!Low(1)]
                                  + X!C!Number(SubSeq(bs, 1 - X!Low(1) + 1, 1)),
                      used  |-> 1]
  <2>1. /\ 1 \in 1 .. 4 /\ bs[1] \in Nat
        /\ X!C!Ones(1 - 1) <= bs[1] /\ bs[1] < X!C!Ones(1)
    <3>1. 1 - 1 = 0 /\ 1 \in 1 .. 4
      OBVIOUS
    <3>2. bs[1] \in Nat /\ 0 <= bs[1] /\ bs[1] < 128
      BY <1>1
    <3> QED
      BY <3>1, <3>2, Leads
  <2> QED
    BY <2>1, NextTagIs
<1>3. /\ X!C!Pow2[X!High(1)] = 8 /\ X!C!Pow2[X!TypBits[1]] = 16
  BY Forms, Powers
<1>4. X!C!Pow2[8 * X!Low(1)] = 1
  <2>1. 8 * X!Low(1) = 0
    BY Forms
  <2> QED
    BY <2>1, Powers
<1>5. 1 - X!Low(1) = 1 /\ 1 - X!Low(1) + 1 = 2
  BY Forms
<1>6. X!C!Number(<<a>>) = a /\ X!C!Number(<<>>) = 0
  BY TagNumbers
<1>7. n = a
  BY <1>10, <1>2, <1>5, <1>6
<1>8. X!C!Number(SubSeq(bs, 1 - X!Low(1) + 1, 1)) = 0
  BY <1>10, <1>5, <1>6
<1>9. X!NextTypdex(bs) =
        [type  |-> (a \div 8) % 16,
         index |-> (a % 8) * 1 + 0,
         used  |-> 1]
  BY <1>2, <1>3, <1>4, <1>7, <1>8, Zenon
<1> QED
  BY <1>9 DEF bs

\* The lead of two bytes.
LEMMA ReadTwo ==
  ASSUME NEW a \in Nat, 128 <= a, a <= 191, NEW b \in Nat, NEW tail \in Seq(Nat)
  PROVE  X!NextTypdex(<<a, b>> \o tail) =
           [type  |-> (a \div 1) % 64,
            index |-> (a % 1) * 256 + b,
            used  |-> 2]
<1> DEFINE bs == <<a, b>> \o tail
<1>1. bs \in Seq(Nat) /\ 2 <= Len(bs) /\ bs[1] = a /\ bs[2] = b
  OBVIOUS
<1> HIDE DEF bs
<1>10. SubSeq(bs, 1, 1) = <<a>> /\ SubSeq(bs, 2, 2) = <<b>>
  BY <1>1, Starts
<1>2. PICK n : /\ n = X!C!Number(SubSeq(bs, 1, 2 - X!Low(2)))
               /\ X!NextTypdex(bs) =
                     [type  |-> (n \div X!C!Pow2[X!High(2)]) % X!C!Pow2[X!TypBits[2]],
                      index |-> (n % X!C!Pow2[X!High(2)]) * X!C!Pow2[8 * X!Low(2)]
                                  + X!C!Number(SubSeq(bs, 2 - X!Low(2) + 1, 2)),
                      used  |-> 2]
  <2>1. /\ 2 \in 1 .. 4 /\ bs[1] \in Nat
        /\ X!C!Ones(2 - 1) <= bs[1] /\ bs[1] < X!C!Ones(2)
    <3>1. 2 - 1 = 1 /\ 2 \in 1 .. 4
      OBVIOUS
    <3>2. bs[1] \in Nat /\ 128 <= bs[1] /\ bs[1] < 192
      BY <1>1
    <3> QED
      BY <3>1, <3>2, Leads
  <2> QED
    BY <2>1, NextTagIs
<1>3. /\ X!C!Pow2[X!High(2)] = 1 /\ X!C!Pow2[X!TypBits[2]] = 64
  BY Forms, Powers
<1>4. X!C!Pow2[8 * X!Low(2)] = 256
  <2>1. 8 * X!Low(2) = 8
    BY Forms
  <2> QED
    BY <2>1, Powers
<1>5. 2 - X!Low(2) = 1 /\ 2 - X!Low(2) + 1 = 2
  BY Forms
<1>6. X!C!Number(<<a>>) = a /\ X!C!Number(<<b>>) = b
  BY TagNumbers
<1>7. n = a
  BY <1>10, <1>2, <1>5, <1>6
<1>8. X!C!Number(SubSeq(bs, 2 - X!Low(2) + 1, 2)) = b
  BY <1>10, <1>5, <1>6
<1>9. X!NextTypdex(bs) =
        [type  |-> (a \div 1) % 64,
         index |-> (a % 1) * 256 + b,
         used  |-> 2]
  BY <1>2, <1>3, <1>4, <1>7, <1>8, Zenon
<1> QED
  BY <1>9 DEF bs

\* The bytes of a tag of the longer forms, and what they are read as.
ThreeBytes(y, x, a, b, c) ==
  /\ a \in Nat /\ b \in Nat /\ c \in Nat /\ 192 <= a /\ a <= 223
  /\ X!Tag(y, x) = <<a, b, c>>
  /\ ((256 * a + b) \div 32) % 256 = y
  /\ ((256 * a + b) % 32) * 256 + c = x

FourBytes(y, x, a, b, c, d) ==
  /\ a \in Nat /\ b \in Nat /\ c \in Nat /\ d \in Nat /\ 224 <= a /\ a <= 239
  /\ X!Tag(y, x) = <<a, b, c, d>>
  /\ ((256 * a + b) \div 16) % 256 = y
  /\ ((256 * a + b) % 16) * X!C!Pow2[16] + (256 * c + d) = x

\* The lead of three bytes.
LEMMA ReadThree ==
  ASSUME NEW y, NEW x, NEW a, NEW b, NEW c, ThreeBytes(y, x, a, b, c), NEW tail \in Seq(Nat)
  PROVE  X!NextTypdex(<<a, b, c>> \o tail) = [type |-> y, index |-> x, used |-> 3]
<1>0. a \in Nat /\ b \in Nat /\ c \in Nat /\ 192 <= a /\ a <= 223
  BY Zenon DEF ThreeBytes
<1> DEFINE bs == <<a, b, c>> \o tail
<1>1. bs \in Seq(Nat) /\ 3 <= Len(bs) /\ bs[1] = a /\ bs[2] = b /\ bs[3] = c
  BY <1>0
<1> HIDE DEF bs
<1>10. SubSeq(bs, 1, 2) = <<a, b>> /\ SubSeq(bs, 3, 3) = <<c>>
  BY <1>1, Starts
<1>2. PICK n : /\ n = X!C!Number(SubSeq(bs, 1, 3 - X!Low(3)))
               /\ X!NextTypdex(bs) =
                     [type  |-> (n \div X!C!Pow2[X!High(3)]) % X!C!Pow2[X!TypBits[3]],
                      index |-> (n % X!C!Pow2[X!High(3)]) * X!C!Pow2[8 * X!Low(3)]
                                  + X!C!Number(SubSeq(bs, 3 - X!Low(3) + 1, 3)),
                      used  |-> 3]
  <2>1. /\ 3 \in 1 .. 4 /\ bs[1] \in Nat
        /\ X!C!Ones(3 - 1) <= bs[1] /\ bs[1] < X!C!Ones(3)
    <3>1. 3 - 1 = 2 /\ 3 \in 1 .. 4
      OBVIOUS
    <3>2. bs[1] \in Nat /\ 192 <= bs[1] /\ bs[1] < 224
      BY <1>0, <1>1
    <3> QED
      BY <3>1, <3>2, Leads
  <2> QED
    BY <2>1, NextTagIs
<1>3. /\ X!C!Pow2[X!High(3)] = 32 /\ X!C!Pow2[X!TypBits[3]] = 256
  BY Forms, Powers
<1>4. X!C!Pow2[8 * X!Low(3)] = 256
  <2>1. 8 * X!Low(3) = 8
    BY Forms
  <2> QED
    BY <2>1, Powers
<1>5. 3 - X!Low(3) = 2 /\ 3 - X!Low(3) + 1 = 3
  BY Forms
<1>6. X!C!Number(<<a, b>>) = 256 * a + b /\ X!C!Number(<<c>>) = c
  BY <1>0, TagNumbers
<1>7. n = 256 * a + b
  BY <1>10, <1>2, <1>5, <1>6
<1>8. X!C!Number(SubSeq(bs, 3 - X!Low(3) + 1, 3)) = c
  BY <1>10, <1>5, <1>6
<1>9. X!NextTypdex(bs) =
        [type  |-> ((256 * a + b) \div 32) % 256,
         index |-> ((256 * a + b) % 32) * 256 + c,
         used  |-> 3]
  BY <1>2, <1>3, <1>4, <1>7, <1>8, Zenon
<1> QED
  BY <1>9, Zenon DEF bs, ThreeBytes

\* The lead of four bytes.
LEMMA ReadFour ==
  ASSUME NEW y, NEW x, NEW a, NEW b, NEW c, NEW d, FourBytes(y, x, a, b, c, d), NEW tail \in Seq(Nat)
  PROVE  X!NextTypdex(<<a, b, c, d>> \o tail) = [type |-> y, index |-> x, used |-> 4]
<1>0. a \in Nat /\ b \in Nat /\ c \in Nat /\ d \in Nat /\ 224 <= a /\ a <= 239
  BY Zenon DEF FourBytes
<1> DEFINE bs == <<a, b, c, d>> \o tail
<1>1. bs \in Seq(Nat) /\ 4 <= Len(bs) /\ bs[1] = a /\ bs[2] = b /\ bs[3] = c /\ bs[4] = d
  BY <1>0
<1> HIDE DEF bs
<1>10. SubSeq(bs, 1, 2) = <<a, b>> /\ SubSeq(bs, 3, 4) = <<c, d>>
  <2>1. SubSeq(bs, 1, 2) = <<a, b>>
    BY <1>1, Starts
  <2>2. SubSeq(bs, 3, 4) = <<c, d>>
    BY <1>1, Starts
  <2> QED
    BY <2>1, <2>2
<1>2. PICK n : /\ n = X!C!Number(SubSeq(bs, 1, 4 - X!Low(4)))
               /\ X!NextTypdex(bs) =
                     [type  |-> (n \div X!C!Pow2[X!High(4)]) % X!C!Pow2[X!TypBits[4]],
                      index |-> (n % X!C!Pow2[X!High(4)]) * X!C!Pow2[8 * X!Low(4)]
                                  + X!C!Number(SubSeq(bs, 4 - X!Low(4) + 1, 4)),
                      used  |-> 4]
  <2>1. /\ 4 \in 1 .. 4 /\ bs[1] \in Nat
        /\ X!C!Ones(4 - 1) <= bs[1] /\ bs[1] < X!C!Ones(4)
    <3>1. 4 - 1 = 3 /\ 4 \in 1 .. 4
      OBVIOUS
    <3>2. bs[1] \in Nat /\ 224 <= bs[1] /\ bs[1] < 240
      BY <1>0, <1>1
    <3> QED
      BY <3>1, <3>2, Leads
  <2> QED
    BY <2>1, NextTagIs
<1>3. /\ X!C!Pow2[X!High(4)] = 16 /\ X!C!Pow2[X!TypBits[4]] = 256
  BY Forms, Powers
<1>4. X!C!Pow2[8 * X!Low(4)] = X!C!Pow2[16]
  <2>1. 8 * X!Low(4) = 16
    BY Forms
  <2> QED
    BY <2>1, Powers
<1>5. 4 - X!Low(4) = 2 /\ 4 - X!Low(4) + 1 = 3
  BY Forms
<1>6. X!C!Number(<<a, b>>) = 256 * a + b /\ X!C!Number(<<c, d>>) = 256 * c + d
  <2>1. X!C!Number(<<a, b>>) = 256 * a + b
    BY <1>0, TagNumbers
  <2>2. X!C!Number(<<c, d>>) = 256 * c + d
    BY <1>0, TagNumbers
  <2> QED
    BY <2>1, <2>2
<1>7. n = 256 * a + b
  BY <1>10, <1>2, <1>5, <1>6
<1>8. X!C!Number(SubSeq(bs, 4 - X!Low(4) + 1, 4)) = 256 * c + d
  BY <1>10, <1>5, <1>6
<1>9. X!NextTypdex(bs) =
        [type  |-> ((256 * a + b) \div 16) % 256,
         index |-> ((256 * a + b) % 16) * X!C!Pow2[16] + (256 * c + d),
         used  |-> 4]
  BY <1>2, <1>3, <1>4, <1>7, <1>8, Zenon
<1> QED
  BY <1>9, Zenon DEF bs, FourBytes

\* The tags of each form.
LEMMA FormOne ==
  ASSUME NEW y \in Nat, NEW x \in Nat, X!Fits(y, x, 1)
  PROVE  \E a \in Nat : /\ 0 <= a /\ a <= 127 /\ X!Tag(y, x) = <<a>>
                        /\ (a \div 8) % 16 = y /\ (a % 8) * 1 + 0 = x
<1>1. y < 16 /\ x < 8
  BY FitsIs
<1>2. PICK a : a = JoinOne(y, x)
  OBVIOUS
<1>3. a = 8 * y + x
  BY <1>2 DEF JoinOne
<1>4. /\ a \in Nat /\ 0 <= a /\ a <= 127 /\ a % 256 = a
      /\ (a \div 8) % 16 = y /\ (a % 8) * 1 + 0 = x
  BY <1>1, <1>3
<1>5. X!Tag(y, x) = X!C!Bytes(a, 1) \o X!C!Bytes(0, 0)
  BY <1>2, WriteOne
<1>6. X!C!Bytes(a, 1) = <<a % 256>> /\ X!C!Bytes(0, 0) = <<>>
  BY <1>4, TagBytes
<1>7. X!Tag(y, x) = <<a>>
  <2>1. <<a>> \o <<>> = <<a>>
    BY <1>4
  <2> QED
    BY <1>4, <1>5, <1>6, <2>1
<1> QED
  BY <1>4, <1>7

\* Two bytes: 128 and the type, and the index.
LEMMA FormTwo ==
  ASSUME NEW y \in Nat, NEW x \in Nat, X!Fits(y, x, 2), ~X!Fits(y, x, 1)
  PROVE  \E a \in Nat : /\ 128 <= a /\ a <= 191 /\ X!Tag(y, x) = <<a, x>>
                        /\ (a \div 1) % 64 = y /\ (a % 1) * 256 + x = x
<1>1. y < 64 /\ x < 256
  BY FitsIs
<1>2. PICK a : a = JoinTwo(y)
  OBVIOUS
<1>3. a = 128 + y
  BY <1>2 DEF JoinTwo
<1>4. /\ a \in Nat /\ 128 <= a /\ a <= 191 /\ a % 256 = a /\ x % 256 = x
      /\ (a \div 1) % 64 = y /\ (a % 1) * 256 + x = x
  BY <1>1, <1>3
<1>5. X!Tag(y, x) = X!C!Bytes(a, 1) \o X!C!Bytes(x, 1)
  BY <1>2, WriteTwo
<1>6. X!C!Bytes(a, 1) = <<a % 256>> /\ X!C!Bytes(x, 1) = <<x % 256>>
  BY <1>4, TagBytes
<1>7. X!Tag(y, x) = <<a, x>>
  <2>1. <<a>> \o <<x>> = <<a, x>>
    BY <1>4, PairIs
  <2> QED
    BY <1>4, <1>5, <1>6, <2>1
<1> QED
  BY <1>4, <1>7

\* Three bytes, of which the first two hold a number above 192 * 256.
LEMMA FormThree ==
  ASSUME NEW y \in Nat, NEW x \in Nat, X!Fits(y, x, 3), ~X!Fits(y, x, 1), ~X!Fits(y, x, 2)
  PROVE  \E a, b, c : ThreeBytes(y, x, a, b, c)
<1>1. y < 256 /\ x < 8192
  BY FitsIs
<1>2. PICK m : m = JoinThree(y, x)
  OBVIOUS
<1>3. PICK h : h = x \div 256
  OBVIOUS
<1>4. PICK c : c = x % 256
  OBVIOUS
<1>5. h \in Nat /\ h <= 31 /\ c \in Nat /\ c % 256 = c /\ h * 256 + c = x
  BY <1>1, <1>3, <1>4, SMT
<1>6. m = 49152 + y * 32 + h
  BY <1>2, <1>3, SMT DEF JoinThree
<1>7. m \in Nat /\ m \div 32 = 1536 + y /\ m % 32 = h /\ (1536 + y) % 256 = y
  BY <1>1, <1>5, <1>6, SMT
<1>8. PICK a : a = m \div 256
  OBVIOUS
<1>9. PICK b : b = m % 256
  OBVIOUS
<1>10. /\ a \in Nat /\ 192 <= a /\ a <= 223 /\ b \in Nat /\ 256 * a + b = m
  BY <1>1, <1>5, <1>6, <1>8, <1>9, SMT
<1>11. a % 256 = a
  BY <1>10, SMT
<1>12. X!Tag(y, x) = X!C!Bytes(m, 2) \o X!C!Bytes(c, 1)
  BY <1>2, <1>4, WriteThree
<1>16. m \in Nat /\ a \in Nat /\ b \in Nat /\ c \in Nat
  BY <1>5, <1>7, <1>10
<1>13. X!C!Bytes(m, 2) = <<a, b>> /\ X!C!Bytes(c, 1) = <<c>>
  <2>1. X!C!Bytes(m, 2) = <<(m \div 256) % 256, m % 256>> /\ X!C!Bytes(c, 1) = <<c % 256>>
    <3>1. m \in Nat /\ c \in Nat
      BY <1>16
    <3>2. X!C!Bytes(m, 2) = <<(m \div 256) % 256, m % 256>>
      BY <3>1, TagBytes
    <3>3. X!C!Bytes(c, 1) = <<c % 256>>
      BY <3>1, TagBytes
    <3> QED
      BY <3>2, <3>3, Zenon
  <2> QED
    BY <1>5, <1>8, <1>9, <1>11, <2>1, Zenon
<1>14. X!Tag(y, x) = <<a, b, c>>
  <2>1. <<a, b>> \o <<c>> = <<a, b, c>>
    BY <1>16, ThreeAre
  <2> QED
    BY <1>12, <1>13, <2>1, Zenon
<1>15. ((256 * a + b) \div 32) % 256 = y /\ ((256 * a + b) % 32) * 256 + c = x
  <2>1. (m \div 32) % 256 = y
    BY <1>7, SMT
  <2>2. (m % 32) * 256 + c = x
    BY <1>5, <1>7, SMT
  <2> QED
    BY <1>10, <2>1, <2>2, Zenon
<1>17. 192 <= a /\ a <= 223
  BY <1>10
<1>18. ThreeBytes(y, x, a, b, c)
  BY <1>16, <1>17, <1>14, <1>15, Zenon DEF ThreeBytes
<1> QED
  BY <1>18

\* Four bytes, of which the first two hold a number above 224 * 256.
LEMMA FormFour ==
  ASSUME NEW y \in Nat, y < 256, NEW x \in Nat, X!Fits(y, x, 4),
         ~X!Fits(y, x, 1), ~X!Fits(y, x, 2), ~X!Fits(y, x, 3)
  PROVE  \E a, b, c, d : FourBytes(y, x, a, b, c, d)
<1>1. x \div 65536 \in 0 .. 15
  BY FitsFour, SMT
<1>2. PICK m : m = JoinFour(y, x)
  OBVIOUS
<1>3. PICK h : h = x \div 65536
  OBVIOUS
<1>4. PICK r : r = RestFour(x)
  OBVIOUS
<1>5. h \in Nat /\ h <= 15
  BY <1>1, <1>3, SMT
<1>6. r \in Nat /\ r <= 65535 /\ h * X!C!Pow2[16] + r = x
  BY <1>3, <1>4, MorePowers, SMT DEF RestFour
<1>7. m = 57344 + y * 16 + h
  BY <1>2, <1>3, SMT DEF JoinFour
<1>8. m \in Nat /\ m \div 16 = 3584 + y /\ m % 16 = h /\ (3584 + y) % 256 = y
  BY <1>5, <1>7, SMT
<1>9. PICK a : a = m \div 256
  OBVIOUS
<1>10. PICK b : b = m % 256
  OBVIOUS
<1>11. PICK c : c = r \div 256
  OBVIOUS
<1>12. PICK d : d = r % 256
  OBVIOUS
<1>13. a \in Nat /\ 224 <= a /\ a <= 239 /\ b \in Nat /\ 256 * a + b = m
  BY <1>5, <1>7, <1>9, <1>10, SMT
<1>14. c \in Nat /\ c <= 255 /\ d \in Nat /\ 256 * c + d = r
  BY <1>6, <1>11, <1>12, SMT
<1>15. a % 256 = a
  BY <1>13, SMT
<1>16. c % 256 = c
  BY <1>14, SMT
<1>17. X!Tag(y, x) = X!C!Bytes(m, 2) \o X!C!Bytes(r, 2)
  BY <1>2, <1>4, WriteFour
<1>22. /\ m \in Nat /\ r \in Nat
       /\ a \in Nat /\ b \in Nat /\ c \in Nat /\ d \in Nat
  BY <1>6, <1>8, <1>13, <1>14
<1>18. X!C!Bytes(m, 2) = <<a, b>> /\ X!C!Bytes(r, 2) = <<c, d>>
  <2>1. /\ X!C!Bytes(m, 2) = <<(m \div 256) % 256, m % 256>>
        /\ X!C!Bytes(r, 2) = <<(r \div 256) % 256, r % 256>>
    <3>1. m \in Nat /\ r \in Nat
      BY <1>22
    <3>2. X!C!Bytes(m, 2) = <<(m \div 256) % 256, m % 256>>
      BY <3>1, TagBytes
    <3>3. X!C!Bytes(r, 2) = <<(r \div 256) % 256, r % 256>>
      BY <3>1, TagBytes
    <3> QED
      BY <3>2, <3>3, Zenon
  <2> QED
    <3>1. (m \div 256) % 256 = a /\ m % 256 = b
      BY <1>9, <1>10, <1>15, Zenon
    <3>2. (r \div 256) % 256 = c /\ r % 256 = d
      BY <1>11, <1>12, <1>16, Zenon
    <3> QED
      BY <2>1, <3>1, <3>2, Zenon
<1>19. X!Tag(y, x) = <<a, b, c, d>>
  <2>1. <<a, b>> \o <<c, d>> = <<a, b, c, d>>
    BY <1>22, FourAre
  <2> QED
    BY <1>17, <1>18, <2>1, Zenon
<1>20. /\ ((256 * a + b) \div 16) % 256 = y
       /\ ((256 * a + b) % 16) * X!C!Pow2[16] + (256 * c + d) = x
  <2>1. (m \div 16) % 256 = y
    BY <1>8, SMT
  <2>2. (m % 16) * X!C!Pow2[16] + r = x
    <3>1. m % 16 = h /\ h * X!C!Pow2[16] + r = x
      BY <1>6, <1>8
    <3> QED
      BY <3>1, Zenon
  <2>3. 256 * a + b = m /\ 256 * c + d = r
    BY <1>13, <1>14
  <2> QED
    BY <2>1, <2>2, <2>3, Zenon
<1>21. a \in Nat /\ b \in Nat /\ c \in Nat /\ d \in Nat /\ 224 <= a /\ a <= 239
  BY <1>13, <1>14
<1>23. FourBytes(y, x, a, b, c, d)
  BY <1>19, <1>20, <1>21, Zenon DEF FourBytes
<1> QED
  BY <1>23

\* dyb_next_typdex reads the tag that dyb_append_typdex wrote, and no byte
\* more, for every type and every index that has one.
THEOREM TagsReturn ==
  ASSUME NEW y \in Nat, y < 256, NEW x \in Nat, x < X!C!Pow2[20], NEW tail \in Seq(Nat)
  PROVE  X!NextTypdex(X!Tag(y, x) \o tail)
           = [type |-> y, index |-> x, used |-> Len(X!Tag(y, x))]
<1>1. CASE X!Fits(y, x, 1)
  <2>1. PICK a \in Nat : /\ 0 <= a /\ a <= 127 /\ X!Tag(y, x) = <<a>>
                        /\ (a \div 8) % 16 = y /\ (a % 8) * 1 + 0 = x
    BY <1>1, FormOne
  <2>2. X!NextTypdex(<<a>> \o tail) =
          [type |-> (a \div 8) % 16, index |-> (a % 8) * 1 + 0, used |-> 1]
    BY <2>1, ReadOne
  <2>3. Len(<<a>>) = 1
    OBVIOUS
  <2> QED
    BY <2>1, <2>2, <2>3, Zenon
<1>2. CASE ~X!Fits(y, x, 1) /\ X!Fits(y, x, 2)
  <2>1. PICK a \in Nat : /\ 128 <= a /\ a <= 191 /\ X!Tag(y, x) = <<a, x>>
                        /\ (a \div 1) % 64 = y /\ (a % 1) * 256 + x = x
    BY <1>2, FormTwo
  <2>2. X!NextTypdex(<<a, x>> \o tail) =
          [type |-> (a \div 1) % 64, index |-> (a % 1) * 256 + x, used |-> 2]
    BY <2>1, ReadTwo
  <2>3. Len(<<a, x>>) = 2
    OBVIOUS
  <2> QED
    BY <2>1, <2>2, <2>3, Zenon
<1>3. CASE ~X!Fits(y, x, 1) /\ ~X!Fits(y, x, 2) /\ X!Fits(y, x, 3)
  <2>1. PICK a, b, c : ThreeBytes(y, x, a, b, c)
    BY <1>3, FormThree
  <2>3. X!NextTypdex(<<a, b, c>> \o tail) = [type |-> y, index |-> x, used |-> 3]
    BY <2>1, ReadThree
  <2>4. Len(<<a, b, c>>) = 3
    OBVIOUS
  <2>2. X!Tag(y, x) = <<a, b, c>>
    BY <2>1, SMT DEF ThreeBytes
  <2> QED
    BY <2>2, <2>3, <2>4
<1>4. CASE ~X!Fits(y, x, 1) /\ ~X!Fits(y, x, 2) /\ ~X!Fits(y, x, 3)
  <2>1. X!Fits(y, x, 4)
    BY FitsFour
  <2>2. PICK a, b, c, d : FourBytes(y, x, a, b, c, d)
    BY <1>4, <2>1, FormFour
  <2>4. X!NextTypdex(<<a, b, c, d>> \o tail) = [type |-> y, index |-> x, used |-> 4]
    BY <2>2, ReadFour
  <2>5. Len(<<a, b, c, d>>) = 4
    OBVIOUS
  <2>3. X!Tag(y, x) = <<a, b, c, d>>
    BY <2>2, SMT DEF FourBytes
  <2> QED
    BY <2>3, <2>4, <2>5
<1> QED
  BY <1>1, <1>2, <1>3, <1>4

\* There is none for an index of more than 20 bits.
LEMMA NoTag ==
  ASSUME NEW y \in Nat, y < 256, NEW x \in Nat, ~(x < X!C!Pow2[20])
  PROVE  X!Tag(y, x) = <<>>
<1>1. \A t \in 1 .. 4 : ~X!Fits(y, x, t)
  <2> TAKE t \in 1 .. 4
  <2>1. t = 1 \/ t = 2 \/ t = 3 \/ t = 4
    OBVIOUS
  <2>2. ~X!Fits(y, x, 4)
    BY FitsFour
  <2>3. 8192 <= X!C!Pow2[20] /\ X!C!Pow2[20] \in Nat
    BY MorePowers, SMT
  <2>4. ~(x < 8) /\ ~(x < 256) /\ ~(x < 8192)
    BY <2>3
  <2> QED
    BY <2>1, <2>2, <2>4, FitsIs
<1> QED
  BY <1>1, Zenon DEF X!Tag

\* A tag has one to four bytes.
LEMMA TagBytesAre ==
  ASSUME NEW y \in Nat, y < 256, NEW x \in Nat, x < X!C!Pow2[20]
  PROVE  X!Tag(y, x) \in Seq(Nat) /\ Len(X!Tag(y, x)) \in 1 .. 4
<1>1. CASE X!Fits(y, x, 1)
  <2>1. PICK a \in Nat : X!Tag(y, x) = <<a>>
    BY <1>1, FormOne
  <2> QED
    BY <2>1
<1>2. CASE ~X!Fits(y, x, 1) /\ X!Fits(y, x, 2)
  <2>1. PICK a \in Nat : X!Tag(y, x) = <<a, x>>
    BY <1>2, FormTwo
  <2> QED
    BY <2>1
<1>3. CASE ~X!Fits(y, x, 1) /\ ~X!Fits(y, x, 2) /\ X!Fits(y, x, 3)
  <2>1. PICK a, b, c : ThreeBytes(y, x, a, b, c)
    BY <1>3, FormThree
  <2>2. X!Tag(y, x) = <<a, b, c>> /\ a \in Nat /\ b \in Nat /\ c \in Nat
    BY <2>1, SMT DEF ThreeBytes
  <2> QED
    BY <2>2
<1>4. CASE ~X!Fits(y, x, 1) /\ ~X!Fits(y, x, 2) /\ ~X!Fits(y, x, 3)
  <2>1. X!Fits(y, x, 4)
    BY FitsFour
  <2>2. PICK a, b, c, d : FourBytes(y, x, a, b, c, d)
    BY <1>4, <2>1, FormFour
  <2>3. X!Tag(y, x) = <<a, b, c, d>> /\ a \in Nat /\ b \in Nat /\ c \in Nat /\ d \in Nat
    BY <2>2, SMT DEF FourBytes
  <2> QED
    BY <2>3
<1> QED
  BY <1>1, <1>2, <1>3, <1>4

----------------------------------------------------------------------------
(* All numbers, one after the other                                        *)

InRange == v \in 0 .. Largest

\* There is at least one number.
LEMMA LargestIs ==
  /\ Width \in Nat /\ Pow2[Width] \in Nat \ {0} /\ Largest \in Nat
  /\ Largest + 1 = Pow2[Width] /\ Q \in Nat \ {0}
<1>1. Width \in Nat
  <2>1. W \in Nat
    BY VarCodecAssumption
  <2> QED
    BY <2>1, Products DEF Width
<1>2. Pow2[Width] \in Nat \ {0}
  BY <1>1, Pow2Is
<1> QED
  BY <1>1, <1>2, PlaceIs DEF Largest

\* The count stays in the range of the numbers of full width.
THEOREM CountInRange == Spec => []InRange
<1>1. Init => InRange
  BY LargestIs DEF Init, InRange
<1>2. InRange /\ [Next]_v => InRange'
  <2> SUFFICES ASSUME InRange, [Next]_v PROVE InRange'
    OBVIOUS
  <2>1. CASE Next
    <3>1. v + 1 \in Nat /\ Largest + 1 \in Nat \ {0}
      BY LargestIs DEF InRange
    <3>2. (v + 1) % (Largest + 1) \in 0 .. (Largest + 1) - 1
      BY <3>1, DivHas
    <3> QED
      BY <2>1, <3>2, LargestIs DEF Next, InRange, Largest
  <2>2. CASE UNCHANGED v
    BY <2>2 DEF InRange, Largest
  <2> QED
    BY <2>1, <2>2
<1> QED
  BY <1>1, <1>2, PTL DEF Spec

\* What may follow a code is a sequence of numbers.
LEMMA TailsAre ==
  \A tail \in Tails : tail \in Seq(Nat)
<1>1. Q - 1 \in Nat
  BY LargestIs
<1>2. <<>> \in Seq(Nat) /\ <<0>> \in Seq(Nat) /\ <<Q - 1, Q - 1>> \in Seq(Nat)
  BY <1>1
<1> QED
  BY <1>2 DEF Tails

\* RoundTrip for every width.
THEOREM CodesReturn == Spec => []RoundTrip
<1>1. InRange => RoundTrip
  <2> SUFFICES ASSUME InRange, NEW tail \in Tails
               PROVE  NextVarU64(VarU64(v) \o tail) = [val |-> v, used |-> Len(VarU64(v))]
    BY DEF RoundTrip
  <2>1. v \in Nat /\ v < Pow2[Width]
    BY LargestIs DEF InRange
  <2>2. tail \in Seq(Nat)
    BY TailsAre
  <2> QED
    BY <2>1, <2>2, NumbersReturn
<1> QED
  BY <1>1, CountInRange, PTL

\* CodesInOrder for every width.
THEOREM CodesAreInOrder == Spec => []CodesInOrder
<1>1. InRange => CodesInOrder
  <2> SUFFICES ASSUME InRange, v < Largest PROVE Precedes(VarU64(v), VarU64(v + 1))
    BY DEF CodesInOrder
  <2>1. v \in Nat /\ v + 1 < Pow2[Width]
    BY LargestIs DEF InRange
  <2> QED
    BY <2>1, CodesSort
<1> QED
  BY <1>1, CountInRange, PTL

\* SignedRoundTrip for every width.
THEOREM SignedCodesReturn == Spec => []SignedRoundTrip
<1>1. InRange => SignedRoundTrip
  <2> SUFFICES ASSUME InRange, NEW tail \in Tails
               PROVE  NextVarS64(VarS64(Signed) \o tail).val = Signed
    BY DEF SignedRoundTrip
  <2>1. PICK N \in Nat \ {0} : Largest + 1 = 2 * N
    <3>1. Width - 1 \in Nat /\ (Width - 1) + 1 = Width
      <4>1. W \in Nat /\ W > 1
        BY VarCodecAssumption
      <4>2. W * 1 <= W * W /\ W * 1 = W /\ W * W \in Nat
        BY <4>1, Products
      <4> QED
        BY <4>1, <4>2 DEF Width
    <3>2. Pow2[Width - 1] \in Nat \ {0} /\ Pow2[(Width - 1) + 1] = 2 * Pow2[Width - 1]
      BY <3>1, Pow2Is
    <3> QED
      BY <3>1, <3>2, LargestIs
  <2>2. Signed \in -N .. N - 1
    <3>1. v \in 0 .. Largest /\ Largest = 2 * N - 1
      BY <2>1, LargestIs DEF InRange
    <3>2. Largest \div 2 = N - 1
      BY <3>1
    <3> QED
      BY <2>1, <3>1, <3>2 DEF Signed
  <2>3. tail \in Seq(Nat)
    BY TailsAre
  <2>4. ASSUME NEW u \in 0 .. 2 * N - 1
        PROVE  NextVarU64(VarU64(u) \o tail) = [val |-> u, used |-> Len(VarU64(u))]
    <3>1. u \in Nat /\ u < Pow2[Width]
      BY <2>1, LargestIs
    <3> QED
      BY <2>3, <3>1, NumbersReturn
  <2>5. NextVarS64(VarS64(Signed) \o tail) = [val |-> Signed, used |-> Len(VarS64(Signed))]
    BY <2>2, <2>4, SignedNumbersReturn
  <2> QED
    BY <2>5
<1> QED
  BY <1>1, CountInRange, PTL

\* TagRoundTrip for every type and every list of indexes.
THEOREM TagsComeBack == Spec => []TagRoundTrip
<1>1. InRange => TagRoundTrip
  <2> SUFFICES ASSUME InRange PROVE TagRoundTrip
    OBVIOUS
  <2>1. type \in Nat /\ type < 256
    BY LargestIs DEF InRange, type
  <2>2. index \in Nat
    <3>1. Indexes \in Seq(Nat) /\ Len(Indexes) \in Nat \ {0}
      BY IndexesAssumption
    <3>2. v \div 256 \in Nat
      BY LargestIs DEF InRange
    <3>3. (v \div 256) % Len(Indexes) \in 0 .. Len(Indexes) - 1
      BY <3>1, <3>2, DivHas
    <3>4. 1 + ((v \div 256) % Len(Indexes)) \in 1 .. Len(Indexes)
      BY <3>1, <3>3
    <3> QED
      BY <3>1, <3>4 DEF index
  <2>3. X!C!Pow2[20] = Pow2[20]
    BY DEF X!C!Pow2, Pow2
  <2> HIDE DEF type, index
  <2>4. CASE index < Pow2[20]
    <3>1. ASSUME NEW tail \in {<<>>, << 0 >>, << 255 >>}
          PROVE  X!NextTypdex(X!Tag(type, index) \o tail)
                   = [type |-> type, index |-> index, used |-> Len(X!Tag(type, index))]
      <4>1. tail \in Seq(Nat)
        <5>1. <<>> \in Seq(Nat) /\ <<0>> \in Seq(Nat) /\ <<255>> \in Seq(Nat)
          OBVIOUS
        <5> QED
          BY <5>1, Zenon
      <4> QED
        BY <2>1, <2>2, <2>3, <2>4, <4>1, TagsReturn
    <3> QED
      BY <2>4, <3>1 DEF TagRoundTrip
  <2>5. CASE ~(index < Pow2[20])
    <3>1. X!Tag(type, index) = <<>>
      BY <2>1, <2>2, <2>3, <2>5, NoTag
    <3> QED
      BY <2>5, <3>1 DEF TagRoundTrip
  <2> QED
    BY <2>4, <2>5
<1> QED
  BY <1>1, CountInRange, PTL
=============================================================================
