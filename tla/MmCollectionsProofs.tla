------------------------- MODULE MmCollectionsProofs -------------------------
(***************************************************************************)
(* The proofs of MmCollections.  A state is said of its three functions:   *)
(* o are the objects, n the pointers of the program and t the steps still  *)
(* to do, so that what holds before a step and what holds after it are the *)
(* same operators of different arguments.                                  *)
(***************************************************************************)
EXTENDS MmCollections, FiniteSetTheorems, SequenceTheorems, TLAPS

\* Induction and recursion over the numbers are proved in CodeProofs, of no
\* particular byte: what is cited of it does not mention its constants.
Nats == INSTANCE CodeProofs WITH W <- 8, Indexes <- << 0 >>, v <- 0

\* These constants are what CodeProofs assumes of its own.
LEMMA NatsAssumptions == << 0 >> \in Seq(Nat) \ {<<>>} /\ 8 \in Nat \ {0, 1}
OBVIOUS

Objs == {o \in [Addr -> Object \cup {Null}] :
           \A a \in Addr : o[a] # Null => Len(o[a].items) <= MaxItems}
Owns == [Var -> Ptr]

\* Whoever points to an object that is not being destroyed.
Destroyed(t) == {t[p].a : p \in {q \in DOMAIN t : t[q].op = "destroy"}}
Whole(o, t, a) == a = Null \/ (a \in Addr /\ o[a] # Null /\ a \notin Destroyed(t))

OwnWhole(o, n, t) == \A w \in Var : Whole(o, t, n[w])
ItemsWhole(o, t) ==
  \A a \in Addr : o[a] # Null => \A p \in DOMAIN o[a].items :
    Whole(o, t, o[a].items[p].k) /\ Whole(o, t, o[a].items[p].v)
StepsWhole(o, t) ==
  \A p \in DOMAIN t :
    /\ Whole(o, t, t[p].item.k) /\ Whole(o, t, t[p].item.v)
    /\ t[p].op # "destroy" => Whole(o, t, t[p].a)

\* Each object has one count for each of its owners.
ItemsOf(o) == [b \in Addr |-> IF o[b] # Null THEN o[b].items ELSE <<>>]
Pointers(n, a) == Cardinality({w \in Var : n[w] = a})
OwnersOf(o, n, t, a) ==
  Pointers(n, a) + Holds(ItemsOf(o), a) + Debt(t, a)
Counted(o, n, t) == \A a \in Addr : o[a] # Null => o[a].r = OwnersOf(o, n, t, a)

\* What can be reached: from the program's pointers, from what is unused, and
\* from the items about to be inserted.
Pointed(o, a) ==
  IF a \in Addr /\ o[a] # Null
  THEN {x \in Addr : \E p \in DOMAIN o[a].items : x \in {o[a].items[p].k, o[a].items[p].v}}
  ELSE {}
Closed(o, T) == \A b \in T : Pointed(o, b) \subseteq T
Reached(o, S) == {a \in Addr : \A T \in SUBSET Addr : S \subseteq T /\ Closed(o, T) => a \in T}

Carried(t) == {x \in Addr : \E p \in DOMAIN t : x \in {t[p].item.k, t[p].item.v}}
Idles(o, t) == {a \in Addr : o[a] # Null /\ a \notin Destroyed(t) /\ o[a].r = 0}
Roots(o, n, t) == {x \in Addr : \E w \in Var : n[w] = x} \cup Idles(o, t) \cup Carried(t)

\* Steps come in this order: counts are taken, given up, and at the end an item
\* is inserted; nothing is destroyed twice.
Ordered(t) ==
  /\ \A p \in DOMAIN t : t[p].op = "insert" => p = Len(t)
  /\ \A p, q \in DOMAIN t : p < q /\ t[q].op = "retain" => t[p].op = "retain"
  /\ \A p, q \in DOMAIN t :
       t[p].op = "destroy" /\ t[q].op = "destroy" /\ t[q].a = t[p].a => p = q
  /\ \A p \in DOMAIN t : t[p].op = "retain" => t[p].a \in Carried(t)

\* A key that is still to be inserted is new to its map, and the map will not
\* be destroyed before.
InsertOK(o, n, t, m, i) ==
  /\ m \in Addr /\ o[m] # Null /\ o[m].kind \in Maps /\ Len(o[m].items) < MaxItems
  /\ i.k \in Addr /\ i.v \in Addr /\ i.hk = i.k
  /\ o[i.k] # Null /\ o[i.k].kind = "int"
  /\ \A p \in DOMAIN o[m].items : o[o[m].items[p].k].val # o[i.k].val
  /\ m \in Reached(o, Roots(o, n, t))

StepOK(o, n, t, f) ==
  /\ f.op # "insert" => f.item = Elem(Null)
  /\ f.op # "release" => f.a # Null
  /\ f.op = "destroy" => f.a \in Addr /\ o[f.a] # Null /\ o[f.a].r = 0
  /\ f.op = "insert" => InsertOK(o, n, t, f.a, f.item)
StepsOK(o, n, t) == \A p \in DOMAIN t : StepOK(o, n, t, t[p])

\* Keys are numbers, each once in a map; sorted maps are sorted.
MapOK(o, m) ==
  /\ \A p \in DOMAIN o[m].items :
       /\ o[m].items[p].k \in Addr /\ o[m].items[p].hk = o[m].items[p].k
       /\ o[o[m].items[p].k] # Null /\ o[o[m].items[p].k].kind = "int"
  /\ \A p, q \in DOMAIN o[m].items :
       o[o[m].items[p].k].val = o[o[m].items[q].k].val => p = q
MapsOK(o) == \A m \in Addr : o[m] # Null /\ o[m].kind \in Maps => MapOK(o, m)
IntsOK(o) == \A a \in Addr : o[a] # Null /\ o[a].kind = "int" => o[a].val \in Val
MapSorted(o, m) ==
  \A p, q \in DOMAIN o[m].items : p < q => o[o[m].items[p].k].val < o[o[m].items[q].k].val
MapsSorted(o) ==
  (\A x, y \in Val : Diff(x, y) = x - y) =>
  \A m \in Addr : o[m] # Null /\ o[m].kind = "sorted" => MapSorted(o, m)

\* Only the items of maps have keys.
PlainOK(o) ==
  \A a \in Addr : o[a] # Null /\ o[a].kind \notin Maps =>
    \A p \in DOMAIN o[a].items : o[a].items[p].k = Null

TypesOK(o, n, t) == o \in Objs /\ n \in Owns /\ t \in Seq(Step)
AllWhole(o, n, t) == OwnWhole(o, n, t) /\ ItemsWhole(o, t) /\ StepsWhole(o, t)
DataOK(o) == MapsOK(o) /\ IntsOK(o) /\ MapsSorted(o)

\* The inductive invariant.
InvOf(o, n, t) ==
  /\ TypesOK(o, n, t) /\ AllWhole(o, n, t) /\ Counted(o, n, t)
  /\ Ordered(t) /\ StepsOK(o, n, t) /\ DataOK(o) /\ PlainOK(o)
IInv == InvOf(obj, own, todo)

----------------------------------------------------------------------------
(* Counting the elements of sequences.                                     *)

\* The places of a sequence that are counted are finitely many.
LEMMA CountType ==
  ASSUME NEW S, NEW s \in Seq(S), NEW X
  PROVE  /\ IsFiniteSet({p \in DOMAIN s : s[p] \in X})
         /\ Count(s, X) \in Nat
<1>1. IsFiniteSet(1 .. Len(s)) /\ DOMAIN s = 1 .. Len(s)
  BY FS_Interval
<1>2. {p \in DOMAIN s : s[p] \in X} \in SUBSET (1 .. Len(s))
  BY <1>1
<1>3. IsFiniteSet({p \in DOMAIN s : s[p] \in X})
  BY <1>1, <1>2, FS_Subset
<1> QED
  BY <1>3, FS_CardinalityType DEF Count

\* The elements of two sequences, one after the other.
LEMMA CountConcat ==
  ASSUME NEW S, NEW s \in Seq(S), NEW t \in Seq(S), NEW X
  PROVE  Count(s \o t, X) = Count(s, X) + Count(t, X)
<1> DEFINE A == {p \in DOMAIN s : s[p] \in X}
           B == {p \in DOMAIN t : t[p] \in X}
           C == {p \in DOMAIN (s \o t) : (s \o t)[p] \in X}
           D == C \ A
           f == [p \in B |-> Len(s) + p]
<1>1. /\ s \o t \in Seq(S) /\ Len(s \o t) = Len(s) + Len(t)
      /\ \A p \in 1 .. Len(s) : (s \o t)[p] = s[p]
      /\ \A p \in 1 .. Len(t) : (s \o t)[Len(s) + p] = t[p]
  BY ConcatProperties
<1>2. Len(s) \in Nat /\ Len(t) \in Nat /\ DOMAIN s = 1 .. Len(s) /\ DOMAIN t = 1 .. Len(t)
      /\ DOMAIN (s \o t) = 1 .. Len(s) + Len(t)
  BY <1>1
<1>3. A \subseteq C
  BY <1>1, <1>2
<1>4. D = {p \in Len(s) + 1 .. Len(s) + Len(t) : (s \o t)[p] \in X}
  BY <1>1, <1>2
<1>5. \A p \in Len(s) + 1 .. Len(s) + Len(t) :
        /\ p - Len(s) \in 1 .. Len(t) /\ Len(s) + (p - Len(s)) = p
        /\ (s \o t)[p] = t[p - Len(s)]
  <2> SUFFICES ASSUME NEW p \in Len(s) + 1 .. Len(s) + Len(t)
               PROVE  /\ p - Len(s) \in 1 .. Len(t) /\ Len(s) + (p - Len(s)) = p
                      /\ (s \o t)[p] = t[p - Len(s)]
    OBVIOUS
  <2>1. p - Len(s) \in 1 .. Len(t) /\ Len(s) + (p - Len(s)) = p
    BY <1>2
  <2> QED
    BY <1>1, <2>1
<1>6. f \in Bijection(B, D)
  <2>1. \A p \in B : Len(s) + p \in D
    BY <1>1, <1>2, <1>4
  <2>2. f \in [B -> D]
    BY <2>1
  <2>3. \A p, q \in B : f[p] = f[q] => p = q
    BY <1>2
  <2>4. \A p \in D : \E q \in B : f[q] = p
    <3> SUFFICES ASSUME NEW p \in D PROVE \E q \in B : f[q] = p
      OBVIOUS
    <3>1. p - Len(s) \in B
      BY <1>2, <1>4, <1>5
    <3>2. f[p - Len(s)] = p
      BY <1>4, <1>5, <3>1
    <3> QED
      BY <3>1, <3>2
  <2> QED
    BY <2>2, <2>3, <2>4 DEF Bijection, Injection, Surjection, IsInjective
<1>7. IsFiniteSet(A) /\ IsFiniteSet(B) /\ IsFiniteSet(C)
  BY <1>1, CountType
<1>8. IsFiniteSet(D) /\ Cardinality(D) = Cardinality(B)
  BY <1>6, <1>7, FS_Bijection DEF ExistsBijection
<1>9. Cardinality(A) \in Nat /\ Cardinality(C) \in Nat /\ C \cap A = A
  BY <1>3, <1>7, FS_CardinalityType
<1>10. Cardinality(D) = Cardinality(C) - Cardinality(A)
  BY <1>7, <1>9, FS_Difference
<1> HIDE DEF A, B, C, D
<1>11. Cardinality(C) = Cardinality(A) + Cardinality(B)
  BY <1>8, <1>9, <1>10
<1> QED
  BY <1>11 DEF A, B, C, Count

\* A sequence of one element, and of none.
LEMMA CountOne ==
  ASSUME NEW e, NEW X
  PROVE  Count(<<e>>, X) = IF e \in X THEN 1 ELSE 0
<1>1. {p \in DOMAIN <<e>> : <<e>>[p] \in X} = IF e \in X THEN {1} ELSE {}
  OBVIOUS
<1> QED
  BY <1>1, FS_EmptySet, FS_Singleton DEF Count

\* A sequence of no elements has none in any set.
LEMMA CountNone ==
  ASSUME NEW X
  PROVE  Count(<<>>, X) = 0
<1>1. {p \in DOMAIN <<>> : <<>>[p] \in X} = {}
  OBVIOUS
<1> QED
  BY <1>1, FS_EmptySet DEF Count

----------------------------------------------------------------------------
(* Insertion and removal.                                                  *)

\* One sequence after another.
LEMMA ConcatIs ==
  ASSUME NEW S, NEW s \in Seq(S), NEW t \in Seq(S)
  PROVE  /\ s \o t \in Seq(S) /\ Len(s \o t) = Len(s) + Len(t)
         /\ Len(s) \in Nat /\ Len(t) \in Nat
         /\ DOMAIN (s \o t) = 1 .. Len(s) + Len(t)
         /\ \A p \in 1 .. Len(s) : (s \o t)[p] = s[p]
         /\ \A p \in 1 .. Len(t) : (s \o t)[Len(s) + p] = t[p]
<1>1. /\ s \o t \in Seq(S) /\ Len(s \o t) = Len(s) + Len(t)
      /\ \A p \in 1 .. Len(s) : (s \o t)[p] = s[p]
      /\ \A p \in 1 .. Len(t) : (s \o t)[Len(s) + p] = t[p]
  BY ConcatProperties
<1>2. Len(s) \in Nat /\ Len(t) \in Nat
  OBVIOUS
<1> QED
  BY <1>1, <1>2

\* A part of a sequence.
LEMMA PartIs ==
  ASSUME NEW S, NEW s \in Seq(S), NEW a \in 1 .. Len(s) + 1, NEW b \in 0 .. Len(s),
         a <= b + 1
  PROVE  /\ SubSeq(s, a, b) \in Seq(S) /\ Len(SubSeq(s, a, b)) = b - a + 1
         /\ \A p \in 1 .. b - a + 1 : SubSeq(s, a, b)[p] = s[a + p - 1]
<1>1. \A p \in a .. b : s[p] \in S
  OBVIOUS
<1> QED
  BY <1>1, SubSeqProperties

\* An element is put before place p.
LEMMA InsertIs ==
  ASSUME NEW S, NEW s \in Seq(S), NEW p \in 1 .. Len(s) + 1, NEW e \in S
  PROVE  LET t == InsertAt(s, p, e)
         IN  /\ t \in Seq(S) /\ Len(t) = Len(s) + 1
             /\ t[p] = e
             /\ \A q \in 1 .. p - 1 : t[q] = s[q]
             /\ \A q \in p .. Len(s) : t[q + 1] = s[q]
             /\ \A X : Count(t, X) = Count(s, X) + Count(<<e>>, X)
<1> DEFINE u == SubSeq(s, 1, p - 1)
           v == SubSeq(s, p, Len(s))
           w == <<e>>
           x == u \o w
           t == x \o v
<1>1. Len(s) \in Nat
  OBVIOUS
<1>2. /\ u \in Seq(S) /\ Len(u) = p - 1
      /\ \A q \in 1 .. p - 1 : u[q] = s[q]
  <2>1. 1 \in 1 .. Len(s) + 1 /\ p - 1 \in 0 .. Len(s) /\ 1 <= (p - 1) + 1
        /\ (p - 1) - 1 + 1 = p - 1
    BY <1>1
  <2>2. \A q \in 1 .. p - 1 : 1 + q - 1 = q
    BY <1>1
  <2> HIDE DEF u
  <2>3. /\ u \in Seq(S) /\ Len(u) = (p - 1) - 1 + 1
        /\ \A q \in 1 .. (p - 1) - 1 + 1 : u[q] = s[1 + q - 1]
    BY <2>1, PartIs DEF u
  <2> QED
    BY <2>1, <2>2, <2>3
<1>3. /\ v \in Seq(S) /\ Len(v) = Len(s) - p + 1
      /\ \A q \in 1 .. Len(s) - p + 1 : v[q] = s[p + q - 1]
  <2>1. Len(s) \in 0 .. Len(s) /\ p <= Len(s) + 1
    BY <1>1
  <2> QED
    BY <2>1, PartIs
<1>4. w \in Seq(S) /\ Len(w) = 1 /\ w[1] = e
  OBVIOUS
<1>5. t = InsertAt(s, p, e)
  BY DEF InsertAt
<1>6. s = u \o v
  <2> HIDE DEF u, v
  <2> DEFINE y == u \o v
  <2> u \in Seq(S) /\ v \in Seq(S)
    BY <1>2, <1>3
  <2>1. /\ y \in Seq(S) /\ Len(y) = Len(u) + Len(v)
        /\ \A q \in 1 .. Len(u) : y[q] = u[q]
        /\ \A q \in 1 .. Len(v) : y[Len(u) + q] = v[q]
    BY ConcatIs
  <2> HIDE DEF y
  <2>2. Len(y) = Len(s)
    BY <1>1, <1>2, <1>3, <2>1
  <2>3. ASSUME NEW q \in 1 .. Len(s) PROVE y[q] = s[q]
    <3>1. CASE q <= p - 1
      BY <1>1, <1>2, <2>1, <3>1
    <3>2. CASE ~(q <= p - 1)
      <4>1. q - p + 1 \in 1 .. Len(v) /\ Len(u) + (q - p + 1) = q /\ p + (q - p + 1) - 1 = q
            /\ q - p + 1 \in 1 .. Len(s) - p + 1
        BY <1>1, <1>2, <1>3, <3>2
      <4> QED
        BY <1>3, <2>1, <4>1
    <3> QED
      BY <3>1, <3>2
  <2>4. y = s
    BY <2>1, <2>2, <2>3, SeqEqual
  <2> QED
    BY <2>4 DEF y
<1> HIDE DEF u, v, w
<1>7. /\ x \in Seq(S) /\ Len(x) = p
      /\ \A q \in 1 .. p - 1 : x[q] = s[q]
      /\ x[p] = e
      /\ \A X : Count(x, X) = Count(u, X) + Count(w, X)
  <2> u \in Seq(S) /\ w \in Seq(S)
    BY <1>2, <1>4
  <2>1. /\ x \in Seq(S) /\ Len(x) = Len(u) + Len(w)
        /\ \A q \in 1 .. Len(u) : x[q] = u[q]
        /\ \A q \in 1 .. Len(w) : x[Len(u) + q] = w[q]
        /\ \A X : Count(x, X) = Count(u, X) + Count(w, X)
    BY ConcatIs, CountConcat
  <2> HIDE DEF x
  <2>2. 1 \in 1 .. Len(w) /\ Len(u) + 1 = p
    BY <1>1, <1>2, <1>4
  <2>3. x[p] = e
    BY <1>4, <2>1, <2>2
  <2>4. Len(x) = p
    BY <1>4, <2>1, <2>2
  <2> QED
    BY <1>2, <2>1, <2>3, <2>4
<1> HIDE DEF x
<1>8. /\ t \in Seq(S) /\ Len(t) = Len(s) + 1
      /\ \A q \in 1 .. p : t[q] = x[q]
      /\ \A q \in 1 .. Len(v) : t[p + q] = v[q]
      /\ \A X : Count(t, X) = Count(x, X) + Count(v, X)
  <2>1. /\ t \in Seq(S) /\ Len(t) = Len(x) + Len(v)
        /\ \A q \in 1 .. Len(x) : t[q] = x[q]
        /\ \A q \in 1 .. Len(v) : t[Len(x) + q] = v[q]
        /\ \A X : Count(t, X) = Count(x, X) + Count(v, X)
    BY <1>3, <1>7, ConcatIs, CountConcat
  <2> HIDE DEF t
  <2>2. Len(t) = Len(s) + 1
    BY <1>1, <1>3, <1>7, <2>1
  <2> QED
    BY <1>7, <2>1, <2>2
<1> HIDE DEF t
<1>9. \A q \in p .. Len(s) : t[q + 1] = s[q]
  <2> SUFFICES ASSUME NEW q \in p .. Len(s) PROVE t[q + 1] = s[q]
    OBVIOUS
  <2>1. q - p + 1 \in 1 .. Len(v) /\ p + (q - p + 1) = q + 1 /\ p + (q - p + 1) - 1 = q
        /\ q - p + 1 \in 1 .. Len(s) - p + 1
    BY <1>1, <1>3
  <2>2. t[p + (q - p + 1)] = v[q - p + 1]
    BY <1>8, <2>1
  <2>3. v[q - p + 1] = s[p + (q - p + 1) - 1]
    BY <1>3, <2>1
  <2> QED
    BY <2>1, <2>2, <2>3
<1>10. \A X : Count(t, X) = Count(s, X) + Count(w, X)
  <2> SUFFICES ASSUME NEW X PROVE Count(t, X) = Count(s, X) + Count(w, X)
    OBVIOUS
  <2>1. Count(s, X) = Count(u, X) + Count(v, X)
    BY <1>2, <1>3, <1>6, CountConcat
  <2>2. Count(t, X) = (Count(u, X) + Count(w, X)) + Count(v, X)
    BY <1>7, <1>8
  <2>3. Count(u, X) \in Nat /\ Count(v, X) \in Nat /\ Count(w, X) \in Nat
    BY <1>2, <1>3, <1>4, CountType
  <2> QED
    BY <2>1, <2>2, <2>3
<1>11. t[p] = e /\ \A q \in 1 .. p - 1 : t[q] = s[q]
  BY <1>1, <1>7, <1>8
<1>12. /\ t \in Seq(S) /\ Len(t) = Len(s) + 1
       /\ t[p] = e
       /\ \A q \in 1 .. p - 1 : t[q] = s[q]
       /\ \A q \in p .. Len(s) : t[q + 1] = s[q]
       /\ \A X : Count(t, X) = Count(s, X) + Count(w, X)
  BY <1>8, <1>9, <1>10, <1>11
<1> QED
  BY <1>5, <1>12 DEF w

\* The element at place p is taken out.
LEMMA RemoveIs ==
  ASSUME NEW S, NEW s \in Seq(S), NEW p \in 1 .. Len(s)
  PROVE  LET t == RemoveAt(s, p)
         IN  /\ t \in Seq(S) /\ Len(t) = Len(s) - 1
             /\ \A q \in 1 .. p - 1 : t[q] = s[q]
             /\ \A q \in p .. Len(s) - 1 : t[q] = s[q + 1]
             /\ \A X : Count(s, X) = Count(t, X) + Count(<<s[p]>>, X)
<1> DEFINE u == SubSeq(s, 1, p - 1)
           v == SubSeq(s, p + 1, Len(s))
           t == RemoveAt(s, p)
<1>1. Len(s) \in Nat /\ s[p] \in S
  OBVIOUS
<1>2. /\ u \in Seq(S) /\ Len(u) = p - 1
      /\ \A q \in 1 .. p - 1 : u[q] = s[q]
  <2>1. 1 \in 1 .. Len(s) + 1 /\ p - 1 \in 0 .. Len(s) /\ 1 <= (p - 1) + 1
        /\ (p - 1) - 1 + 1 = p - 1
    BY <1>1
  <2>2. \A q \in 1 .. p - 1 : 1 + q - 1 = q
    BY <1>1
  <2> QED
    BY <2>1, <2>2, PartIs
<1>3. /\ v \in Seq(S) /\ Len(v) = Len(s) - p
      /\ \A q \in 1 .. Len(s) - p : v[q] = s[p + q]
  <2>1. Len(s) \in 0 .. Len(s) /\ p + 1 <= Len(s) + 1 /\ p + 1 \in 1 .. Len(s) + 1
        /\ Len(s) - (p + 1) + 1 = Len(s) - p
    BY <1>1
  <2>2. \A q \in 1 .. Len(s) - p : (p + 1) + q - 1 = p + q
    BY <1>1
  <2> QED
    BY <2>1, <2>2, PartIs
<1>4. t = u \o v
  BY DEF RemoveAt
<1> HIDE DEF u, v, t
<1>5. /\ t \in Seq(S) /\ Len(t) = Len(s) - 1
      /\ \A q \in 1 .. Len(u) : t[q] = u[q]
      /\ \A q \in 1 .. Len(v) : t[Len(u) + q] = v[q]
  <2>1. Len(u) + Len(v) = Len(s) - 1
    BY <1>1, <1>2, <1>3
  <2> QED
    BY <1>2, <1>3, <1>4, <2>1, ConcatIs
<1>6. \A q \in 1 .. p - 1 : t[q] = s[q]
  BY <1>2, <1>5
<1>7. \A q \in p .. Len(s) - 1 : t[q] = s[q + 1]
  <2> SUFFICES ASSUME NEW q \in p .. Len(s) - 1 PROVE t[q] = s[q + 1]
    OBVIOUS
  <2>1. q - p + 1 \in 1 .. Len(v) /\ Len(u) + (q - p + 1) = q /\ p + (q - p + 1) = q + 1
        /\ q - p + 1 \in 1 .. Len(s) - p
    BY <1>1, <1>2, <1>3
  <2>2. t[Len(u) + (q - p + 1)] = v[q - p + 1]
    BY <1>5, <2>1
  <2>3. v[q - p + 1] = s[p + (q - p + 1)]
    BY <1>3, <2>1
  <2> QED
    BY <2>1, <2>2, <2>3
<1> DEFINE e == s[p]
           w == InsertAt(t, p, e)
<1>8. p \in 1 .. Len(t) + 1 /\ e \in S
  BY <1>1, <1>5
<1> HIDE DEF e
<1>9. /\ w \in Seq(S) /\ Len(w) = Len(t) + 1 /\ w[p] = e
      /\ \A q \in 1 .. p - 1 : w[q] = t[q]
      /\ \A q \in p .. Len(t) : w[q + 1] = t[q]
      /\ \A X : Count(w, X) = Count(t, X) + Count(<<e>>, X)
  <2> t \in Seq(S)
    BY <1>5
  <2> QED
    BY <1>8, InsertIs
<1> HIDE DEF w
<1>10. ASSUME NEW q \in 1 .. Len(s) PROVE w[q] = s[q]
  <2>1. CASE q < p
    BY <1>1, <1>6, <1>9, <2>1
  <2>2. CASE q = p
    BY <1>9, <2>2 DEF e
  <2>3. CASE q > p
    <3>1. q - 1 \in p .. Len(t) /\ q - 1 \in p .. Len(s) - 1 /\ (q - 1) + 1 = q
      BY <1>1, <1>5, <2>3
    <3> QED
      BY <1>7, <1>9, <3>1
  <2> QED
    BY <1>1, <2>1, <2>2, <2>3
<1>11. w = s
  <2>1. Len(w) = Len(s)
    BY <1>1, <1>5, <1>9
  <2> QED
    BY <1>9, <1>10, <2>1, SeqEqual
<1>12. \A X : Count(s, X) = Count(t, X) + Count(<<e>>, X)
  BY <1>9, <1>11
<1> QED
  BY <1>5, <1>6, <1>7, <1>12 DEF t, e

\* The first element is taken out.
LEMMA TailIs ==
  ASSUME NEW S, NEW s \in Seq(S), s # <<>>
  PROVE  /\ Tail(s) \in Seq(S) /\ Head(s) \in S /\ Head(s) = s[1]
         /\ Len(s) \in Nat \ {0} /\ Len(Tail(s)) = Len(s) - 1
         /\ \A q \in 1 .. Len(s) - 1 : Tail(s)[q] = s[q + 1]
         /\ \A X : Count(s, X) = Count(<<Head(s)>>, X) + Count(Tail(s), X)
<1>1. /\ Tail(s) \in Seq(S) /\ Head(s) \in S /\ Head(s) = s[1]
      /\ Len(s) \in Nat \ {0} /\ Len(Tail(s)) = Len(s) - 1
      /\ \A q \in 1 .. Len(s) - 1 : Tail(s)[q] = s[q + 1]
  BY HeadTailProperties
<1>2. s = <<Head(s)>> \o Tail(s)
  BY <1>1
<1> DEFINE h == << Head(s) >>
<1>3. h \in Seq(S) /\ Tail(s) \in Seq(S)
  BY <1>1
<1>4. \A X : Count(s, X) = Count(h, X) + Count(Tail(s), X)
  <2>1. s = h \o Tail(s)
    BY <1>2
  <2> HIDE DEF h
  <2>2. \A X : Count(h \o Tail(s), X) = Count(h, X) + Count(Tail(s), X)
    BY <1>3, CountConcat
  <2> QED
    BY <2>1, <2>2
<1> QED
  BY <1>1, <1>4

\* The last element is taken out.
LEMMA FrontIs ==
  ASSUME NEW S, NEW s \in Seq(S), s # <<>>
  PROVE  /\ Front(s) \in Seq(S) /\ Last(s) \in S
         /\ Len(s) \in Nat \ {0} /\ Len(Front(s)) = Len(s) - 1
         /\ \A q \in 1 .. Len(s) - 1 : Front(s)[q] = s[q]
         /\ \A X : Count(s, X) = Count(Front(s), X) + Count(<<Last(s)>>, X)
<1>1. Len(s) \in Nat \ {0} /\ s[Len(s)] \in S
  OBVIOUS
<1>2. RemoveAt(s, Len(s)) = Front(s)
  <2>1. SubSeq(s, Len(s) + 1, Len(s)) = <<>>
    BY <1>1
  <2>2. Front(s) \in Seq(S)
    BY <1>1 DEF Front
  <2>3. Front(s) \o <<>> = Front(s)
    BY <2>2
  <2> QED
    BY <2>1, <2>3 DEF RemoveAt, Front
<1>3. Len(s) \in 1 .. Len(s)
  BY <1>1
<1> QED
  BY <1>1, <1>2, <1>3, RemoveIs DEF Last
----------------------------------------------------------------------------
(* What all objects hold.                                                  *)

Rest(f, m, X) ==
  {q \in Addr \X (1 .. MaxItems) :
     q[1] # m /\ q[2] \in DOMAIN f[q[1]] /\ f[q[1]][q[2]] \in X}

Tables == {f \in [Addr -> Seq(Item)] : \A a \in Addr : Len(f[a]) <= MaxItems}

\* There are finitely many places.
LEMMA PlacesFinite == IsFiniteSet(Addr \X (1 .. MaxItems))
<1>1. IsFiniteSet(Addr) /\ MaxItems \in Int
  BY MmCollectionsAssumption
<1> DEFINE I == 1 .. MaxItems
<1>2. IsFiniteSet(I)
  BY <1>1, FS_Interval
<1> HIDE DEF I
<1>3. IsFiniteSet(Addr \X I)
  BY <1>1, <1>2, FS_Product
<1> QED
  BY <1>3 DEF I

\* The items of one object, and those of all others.
LEMMA TotalSplit ==
  ASSUME NEW f \in Tables, NEW m \in Addr, NEW X
  PROVE  /\ Total(f, X) = Count(f[m], X) + Cardinality(Rest(f, m, X))
         /\ Cardinality(Rest(f, m, X)) \in Nat /\ Count(f[m], X) \in Nat
<1> DEFINE Pairs == Addr \X (1 .. MaxItems)
           A == {q \in Pairs : q[2] \in DOMAIN f[q[1]] /\ f[q[1]][q[2]] \in X}
           R == Rest(f, m, X)
           D == A \ R
           P == {p \in DOMAIN f[m] : f[m][p] \in X}
           g == [p \in P |-> <<m, p>>]
<1>1. f \in [Addr -> Seq(Item)] /\ f[m] \in Seq(Item) /\ Len(f[m]) <= MaxItems
      /\ Len(f[m]) \in Nat /\ DOMAIN f[m] = 1 .. Len(f[m]) /\ MaxItems \in Nat
  BY MmCollectionsAssumption DEF Tables
<1>2. IsFiniteSet(Pairs)
  BY PlacesFinite
<1>3. A \in SUBSET Pairs /\ R \in SUBSET Pairs /\ R \subseteq A
  BY DEF Rest
<1>4. IsFiniteSet(A) /\ IsFiniteSet(R)
  BY <1>2, <1>3, FS_Subset
<1>5. Cardinality(A) \in Nat /\ Cardinality(R) \in Nat /\ A \cap R = R
  BY <1>3, <1>4, FS_CardinalityType
<1>6. IsFiniteSet(D) /\ Cardinality(D) = Cardinality(A) - Cardinality(R)
  <2> DEFINE B == A
             C == R
  <2>1. IsFiniteSet(B) /\ IsFiniteSet(C) /\ B \cap C = C
    BY <1>4, <1>5
  <2> HIDE DEF B, C
  <2>2. IsFiniteSet(B \ C) /\ Cardinality(B \ C) = Cardinality(B) - Cardinality(B \cap C)
    BY <2>1, FS_Difference
  <2>3. IsFiniteSet(B \ C) /\ Cardinality(B \ C) = Cardinality(B) - Cardinality(C)
    BY <2>1, <2>2
  <2> QED
    BY <2>3 DEF B, C
<1>7. D = {q \in Pairs : q[1] = m /\ q[2] \in DOMAIN f[m] /\ f[m][q[2]] \in X}
  BY DEF Rest
<1>8. g \in Bijection(P, D)
  <2>1. \A p \in P : <<m, p>> \in D
    BY <1>1, <1>7
  <2>2. g \in [P -> D]
    BY <2>1
  <2>3. \A p, q \in P : g[p] = g[q] => p = q
    OBVIOUS
  <2>4. \A q \in D : \E p \in P : g[p] = q
    <3> SUFFICES ASSUME NEW q \in D PROVE \E p \in P : g[p] = q
      OBVIOUS
    <3>1. q[2] \in P /\ q = <<m, q[2]>>
      BY <1>7
    <3> QED
      BY <3>1
  <2> HIDE DEF g, P, D
  <2> QED
    BY <2>2, <2>3, <2>4 DEF Bijection, Injection, Surjection, IsInjective
<1>9. IsFiniteSet(P) /\ Count(f[m], X) \in Nat
  BY <1>1, CountType
<1>10. Cardinality(D) = Cardinality(P)
  <2> HIDE DEF g, P, D
  <2> QED
    BY <1>8, <1>9, FS_Bijection DEF ExistsBijection
<1>11. Count(f[m], X) = Cardinality(P) /\ Total(f, X) = Cardinality(A)
  BY DEF Count, Total
<1> HIDE DEF A, R, D, P, g
<1> QED
  BY <1>5, <1>6, <1>9, <1>10, <1>11 DEF R

\* What all hold changes with what one object holds.
LEMMA TotalChange ==
  ASSUME NEW f \in Tables, NEW g \in Tables, NEW m \in Addr, NEW X,
         \A b \in Addr \ {m} : g[b] = f[b]
  PROVE  /\ Total(g, X) + Count(f[m], X) = Total(f, X) + Count(g[m], X)
         /\ Total(f, X) \in Nat /\ Total(g, X) \in Nat
<1>1. Rest(f, m, X) = Rest(g, m, X)
  BY DEF Rest
<1>2. /\ Total(f, X) = Count(f[m], X) + Cardinality(Rest(f, m, X))
      /\ Cardinality(Rest(f, m, X)) \in Nat /\ Count(f[m], X) \in Nat
  BY TotalSplit
<1>3. /\ Total(g, X) = Count(g[m], X) + Cardinality(Rest(g, m, X))
      /\ Count(g[m], X) \in Nat
  BY TotalSplit
<1> QED
  BY <1>1, <1>2, <1>3

\* How often a sequence of items points to a.
HeldBy(s, a) == Count(s, {i \in Item : i.k = a}) + Count(s, {i \in Item : i.v = a})

\* The same for what points to a.
LEMMA HoldsChange ==
  ASSUME NEW f \in Tables, NEW g \in Tables, NEW m \in Addr, NEW a,
         \A b \in Addr \ {m} : g[b] = f[b]
  PROVE  /\ Holds(g, a) + HeldBy(f[m], a) = Holds(f, a) + HeldBy(g[m], a)
         /\ Holds(f, a) \in Nat /\ Holds(g, a) \in Nat
         /\ HeldBy(f[m], a) \in Nat /\ HeldBy(g[m], a) \in Nat
<1> DEFINE K == {i \in Item : i.k = a}
           V == {i \in Item : i.v = a}
<1>1. /\ Total(g, K) + Count(f[m], K) = Total(f, K) + Count(g[m], K)
      /\ Total(f, K) \in Nat /\ Total(g, K) \in Nat
  BY TotalChange
<1>2. /\ Total(g, V) + Count(f[m], V) = Total(f, V) + Count(g[m], V)
      /\ Total(f, V) \in Nat /\ Total(g, V) \in Nat
  BY TotalChange
<1>3. /\ Count(f[m], K) \in Nat /\ Count(g[m], K) \in Nat
      /\ Count(f[m], V) \in Nat /\ Count(g[m], V) \in Nat
  <2>1. f[m] \in Seq(Item) /\ g[m] \in Seq(Item)
    BY DEF Tables
  <2> QED
    BY <2>1, CountType
<1>4. /\ Holds(f, a) = Total(f, K) + Total(f, V) /\ Holds(g, a) = Total(g, K) + Total(g, V)
      /\ HeldBy(f[m], a) = Count(f[m], K) + Count(f[m], V)
      /\ HeldBy(g[m], a) = Count(g[m], K) + Count(g[m], V)
  BY DEF Holds, HeldBy
<1> HIDE DEF K, V
<1> QED
  BY <1>1, <1>2, <1>3, <1>4

\* An object holds nothing but what all hold.
LEMMA HoldsMore ==
  ASSUME NEW f \in Tables, NEW m \in Addr, NEW a
  PROVE  /\ HeldBy(f[m], a) <= Holds(f, a) /\ Holds(f, a) \in Nat
         /\ HeldBy(f[m], a) \in Nat
<1> DEFINE K == {i \in Item : i.k = a}
           V == {i \in Item : i.v = a}
<1>1. /\ Total(f, K) = Count(f[m], K) + Cardinality(Rest(f, m, K))
      /\ Cardinality(Rest(f, m, K)) \in Nat /\ Count(f[m], K) \in Nat
  BY TotalSplit
<1>2. /\ Total(f, V) = Count(f[m], V) + Cardinality(Rest(f, m, V))
      /\ Cardinality(Rest(f, m, V)) \in Nat /\ Count(f[m], V) \in Nat
  BY TotalSplit
<1>3. /\ Holds(f, a) = Total(f, K) + Total(f, V)
      /\ HeldBy(f[m], a) = Count(f[m], K) + Count(f[m], V)
  BY DEF Holds, HeldBy
<1> HIDE DEF K, V
<1> QED
  BY <1>1, <1>2, <1>3

\* Nothing is counted where nothing is of X.
LEMMA CountZero ==
  ASSUME NEW S, NEW s \in Seq(S), NEW X
  PROVE  Count(s, X) = 0 <=> \A p \in DOMAIN s : s[p] \notin X
<1> DEFINE A == {p \in DOMAIN s : s[p] \in X}
<1>1. IsFiniteSet(A) /\ Count(s, X) = Cardinality(A)
  BY CountType DEF Count
<1>2. Cardinality(A) = 0 <=> A = {}
  <2> HIDE DEF A
  <2> QED
    BY <1>1, FS_EmptySet
<1> QED
  BY <1>1, <1>2

\* Nobody points to a.
LEMMA TotalZero ==
  ASSUME NEW f \in Tables, NEW X
  PROVE  Total(f, X) = 0 <=> \A b \in Addr : \A p \in DOMAIN f[b] : f[b][p] \notin X
<1> DEFINE Pairs == Addr \X (1 .. MaxItems)
           A == {q \in Pairs : q[2] \in DOMAIN f[q[1]] /\ f[q[1]][q[2]] \in X}
<1>1. IsFiniteSet(Pairs)
  BY PlacesFinite
<1>2. IsFiniteSet(A) /\ Total(f, X) = Cardinality(A)
  <2>1. A \in SUBSET Pairs
    OBVIOUS
  <2> QED
    BY <1>1, <2>1, FS_Subset DEF Total
<1>3. Cardinality(A) = 0 <=> A = {}
  <2> HIDE DEF A
  <2> QED
    BY <1>2, FS_EmptySet
<1>4. A = {} <=> \A b \in Addr : \A p \in DOMAIN f[b] : f[b][p] \notin X
  <2>1. ASSUME NEW b \in Addr, NEW p \in DOMAIN f[b] PROVE <<b, p>> \in Pairs
    <3>1. f[b] \in Seq(Item) /\ Len(f[b]) <= MaxItems
      BY DEF Tables
    <3>2. Len(f[b]) \in Nat /\ p \in 1 .. Len(f[b])
      BY <3>1
    <3>3. p \in 1 .. MaxItems
      BY <3>1, <3>2, MmCollectionsAssumption
    <3> QED
      BY <3>3
  <2>2. ASSUME A = {}, NEW b \in Addr, NEW p \in DOMAIN f[b] PROVE f[b][p] \notin X
    <3>1. <<b, p>> \notin A
      BY <2>2
    <3> HIDE DEF Pairs
    <3> QED
      BY <2>1, <3>1
  <2>3. ASSUME \A b \in Addr : \A p \in DOMAIN f[b] : f[b][p] \notin X PROVE A = {}
    BY <2>3
  <2> QED
    BY <2>2, <2>3
<1> HIDE DEF A
<1> QED
  BY <1>2, <1>3, <1>4

----------------------------------------------------------------------------
(* What one item and one step count for.                                   *)

One(x, a) == IF x = a THEN 1 ELSE 0

\* Two sequences of items hold together what each of them holds.
LEMMA HeldConcat ==
  ASSUME NEW s \in Seq(Item), NEW t \in Seq(Item), NEW a
  PROVE  HeldBy(s \o t, a) = HeldBy(s, a) + HeldBy(t, a) /\ HeldBy(s, a) \in Nat
<1> DEFINE K == {i \in Item : i.k = a}
           V == {i \in Item : i.v = a}
<1>3. /\ HeldBy(s \o t, a) = Count(s \o t, K) + Count(s \o t, V)
      /\ HeldBy(s, a) = Count(s, K) + Count(s, V)
      /\ HeldBy(t, a) = Count(t, K) + Count(t, V)
  BY DEF HeldBy
<1> HIDE DEF K, V
<1>1. /\ Count(s \o t, K) = Count(s, K) + Count(t, K)
      /\ Count(s, K) \in Nat /\ Count(t, K) \in Nat
  BY CountConcat, CountType
<1>2. /\ Count(s \o t, V) = Count(s, V) + Count(t, V)
      /\ Count(s, V) \in Nat /\ Count(t, V) \in Nat
  BY CountConcat, CountType
<1> QED
  BY <1>1, <1>2, <1>3

\* One item.
LEMMA HeldOne ==
  ASSUME NEW i \in Item, NEW a
  PROVE  HeldBy(<<i>>, a) = One(i.k, a) + One(i.v, a)
<1>1. Count(<<i>>, {j \in Item : j.k = a}) = One(i.k, a)
  BY CountOne DEF One
<1>2. Count(<<i>>, {j \in Item : j.v = a}) = One(i.v, a)
  BY CountOne DEF One
<1> QED
  BY <1>1, <1>2 DEF HeldBy

\* An item of a list, which has no key.
LEMMA ElemIs ==
  ASSUME NEW v \in Ptr
  PROVE  /\ Elem(v) \in Item /\ Elem(v).k = Null /\ Elem(v).v = v
         /\ \A a \in Addr : HeldBy(<<Elem(v)>>, a) = One(v, a)
<1>1. Elem(v) \in Item /\ Elem(v).k = Null /\ Elem(v).v = v
  BY DEF Elem, Item, Ptr
<1>2. ASSUME NEW a \in Addr PROVE HeldBy(<<Elem(v)>>, a) = One(v, a)
  <2> DEFINE i == Elem(v)
  <2>1. i \in Item /\ i.k = Null /\ i.v = v
    BY <1>1
  <2> HIDE DEF i
  <2>2. HeldBy(<<i>>, a) = One(i.k, a) + One(i.v, a)
    BY <2>1, HeldOne
  <2>3. One(i.k, a) = 0 /\ One(v, a) \in Nat
    BY <2>1, MmCollectionsAssumption DEF One
  <2>4. HeldBy(<<i>>, a) = One(v, a)
    BY <2>1, <2>2, <2>3
  <2> QED
    BY <2>4 DEF i
<1> QED
  BY <1>1, <1>2

\* No items hold nothing.
LEMMA HeldNone ==
  ASSUME NEW a
  PROVE  HeldBy(<<>>, a) = 0
BY CountNone DEF HeldBy

\* The items that hold a are those with a as key or value.
LEMMA HeldZero ==
  ASSUME NEW s \in Seq(Item), NEW a
  PROVE  /\ HeldBy(s, a) \in Nat
         /\ HeldBy(s, a) = 0 <=> \A p \in DOMAIN s : s[p].k # a /\ s[p].v # a
<1> DEFINE K == {i \in Item : i.k = a}
           V == {i \in Item : i.v = a}
<1>1. Count(s, K) \in Nat /\ Count(s, V) \in Nat
  BY CountType
<1>2. Count(s, K) = 0 <=> \A p \in DOMAIN s : s[p] \notin K
  BY CountZero
<1>3. Count(s, V) = 0 <=> \A p \in DOMAIN s : s[p] \notin V
  BY CountZero
<1>4. \A p \in DOMAIN s : s[p] \in Item
  OBVIOUS
<1>5. \A p \in DOMAIN s : (s[p] \notin K <=> s[p].k # a) /\ (s[p] \notin V <=> s[p].v # a)
  BY <1>4
<1>6. HeldBy(s, a) = Count(s, K) + Count(s, V)
  BY DEF HeldBy
<1> HIDE DEF K, V
<1> QED
  BY <1>1, <1>2, <1>3, <1>5, <1>6

KeySteps(a) == {f \in Step : f.item.k = a}
ValueSteps(a) == {f \in Step : f.item.v = a}
ReleaseSteps(a) == {f \in Step : f.op = "release" /\ f.a = a}
RetainSteps(a) == {f \in Step : f.op = "retain" /\ f.a = a}

\* The parts of a debt.
LEMMA DebtIs ==
  ASSUME NEW s \in Seq(Step), NEW a
  PROVE  /\ Count(s, KeySteps(a)) \in Nat /\ Count(s, ValueSteps(a)) \in Nat
         /\ Count(s, ReleaseSteps(a)) \in Nat /\ Count(s, RetainSteps(a)) \in Nat
         /\ Debt(s, a) = Count(s, KeySteps(a)) + Count(s, ValueSteps(a))
                           + Count(s, ReleaseSteps(a)) - Count(s, RetainSteps(a))
         /\ Debt(s, a) \in Int
<1>1. /\ Count(s, KeySteps(a)) \in Nat /\ Count(s, ValueSteps(a)) \in Nat
      /\ Count(s, ReleaseSteps(a)) \in Nat /\ Count(s, RetainSteps(a)) \in Nat
  BY CountType
<1>2. Debt(s, a) = Count(s, KeySteps(a)) + Count(s, ValueSteps(a))
                     + Count(s, ReleaseSteps(a)) - Count(s, RetainSteps(a))
  BY DEF Debt, KeySteps, ValueSteps, ReleaseSteps, RetainSteps
<1> QED
  BY <1>1, <1>2

\* Two sequences of steps owe together what each of them owes.
LEMMA DebtConcat ==
  ASSUME NEW s \in Seq(Step), NEW t \in Seq(Step), NEW a
  PROVE  /\ s \o t \in Seq(Step)
         /\ Debt(s \o t, a) = Debt(s, a) + Debt(t, a)
         /\ Debt(s, a) \in Int /\ Debt(t, a) \in Int
<1>1. s \o t \in Seq(Step)
  BY ConcatIs
<1>2. \A X : Count(s \o t, X) = Count(s, X) + Count(t, X)
  BY CountConcat
<1> DEFINE u == s \o t
<1> HIDE DEF u
<1>3. /\ Count(u, KeySteps(a)) = Count(s, KeySteps(a)) + Count(t, KeySteps(a))
      /\ Count(u, ValueSteps(a)) = Count(s, ValueSteps(a)) + Count(t, ValueSteps(a))
      /\ Count(u, ReleaseSteps(a)) = Count(s, ReleaseSteps(a)) + Count(t, ReleaseSteps(a))
      /\ Count(u, RetainSteps(a)) = Count(s, RetainSteps(a)) + Count(t, RetainSteps(a))
  BY <1>2 DEF u
<1>4. u \in Seq(Step)
  BY <1>1 DEF u
<1>6. /\ Count(s, KeySteps(a)) \in Nat /\ Count(s, ValueSteps(a)) \in Nat
      /\ Count(s, ReleaseSteps(a)) \in Nat /\ Count(s, RetainSteps(a)) \in Nat
      /\ Debt(s, a) = Count(s, KeySteps(a)) + Count(s, ValueSteps(a))
                        + Count(s, ReleaseSteps(a)) - Count(s, RetainSteps(a))
  BY DebtIs
<1>7. /\ Count(t, KeySteps(a)) \in Nat /\ Count(t, ValueSteps(a)) \in Nat
      /\ Count(t, ReleaseSteps(a)) \in Nat /\ Count(t, RetainSteps(a)) \in Nat
      /\ Debt(t, a) = Count(t, KeySteps(a)) + Count(t, ValueSteps(a))
                        + Count(t, ReleaseSteps(a)) - Count(t, RetainSteps(a))
  BY DebtIs
<1>8. Debt(u, a) = Count(u, KeySteps(a)) + Count(u, ValueSteps(a))
                     + Count(u, ReleaseSteps(a)) - Count(u, RetainSteps(a))
  BY <1>4, DebtIs
<1>5. Debt(u, a) = Debt(s, a) + Debt(t, a) /\ Debt(s, a) \in Int /\ Debt(t, a) \in Int
  <2>1. Debt(u, a) = (Count(s, KeySteps(a)) + Count(t, KeySteps(a)))
                     + (Count(s, ValueSteps(a)) + Count(t, ValueSteps(a)))
                     + (Count(s, ReleaseSteps(a)) + Count(t, ReleaseSteps(a)))
                     - (Count(s, RetainSteps(a)) + Count(t, RetainSteps(a)))
    BY <1>3, <1>8
  <2>2. Debt(u, a) = (Count(s, KeySteps(a)) + Count(s, ValueSteps(a))
                        + Count(s, ReleaseSteps(a)) - Count(s, RetainSteps(a)))
                     + (Count(t, KeySteps(a)) + Count(t, ValueSteps(a))
                        + Count(t, ReleaseSteps(a)) - Count(t, RetainSteps(a)))
    <3> DEFINE jj == Count(s, KeySteps(a))
               kk == Count(s, ValueSteps(a))
               ll == Count(s, ReleaseSteps(a))
               mm == Count(s, RetainSteps(a))
               pp == Count(t, KeySteps(a))
               qq == Count(t, ValueSteps(a))
               rr == Count(t, ReleaseSteps(a))
               ss == Count(t, RetainSteps(a))
    <3>1. jj \in Nat /\ kk \in Nat /\ ll \in Nat /\ mm \in Nat
      BY <1>6
    <3>2. pp \in Nat /\ qq \in Nat /\ rr \in Nat /\ ss \in Nat
      BY <1>7
    <3>3. Debt(u, a) = (jj + pp) + (kk + qq) + (ll + rr) - (mm + ss)
      BY <2>1
    <3> HIDE DEF jj, kk, ll, mm, pp, qq, rr, ss
    <3>4. Debt(u, a) = (jj + kk + ll - mm) + (pp + qq + rr - ss)
      BY <3>1, <3>2, <3>3
    <3> QED
      BY <3>4 DEF jj, kk, ll, mm, pp, qq, rr, ss
  <2>3. Debt(s, a) \in Int /\ Debt(t, a) \in Int
    BY DebtIs
  <2> QED
    BY <1>6, <1>7, <2>2, <2>3
<1> QED
  BY <1>1, <1>5 DEF u

\* One step.
LEMMA DebtOne ==
  ASSUME NEW f \in Step, NEW a
  PROVE  /\ << f >> \in Seq(Step)
         /\ Debt(<<f>>, a) = One(f.item.k, a) + One(f.item.v, a)
                               + (IF f.op = "release" /\ f.a = a THEN 1 ELSE 0)
                               - (IF f.op = "retain" /\ f.a = a THEN 1 ELSE 0)
<1>1. /\ Count(<<f>>, {g \in Step : g.item.k = a}) = One(f.item.k, a)
      /\ Count(<<f>>, {g \in Step : g.item.v = a}) = One(f.item.v, a)
      /\ Count(<<f>>, {g \in Step : g.op = "release" /\ g.a = a})
           = IF f.op = "release" /\ f.a = a THEN 1 ELSE 0
      /\ Count(<<f>>, {g \in Step : g.op = "retain" /\ g.a = a})
           = IF f.op = "retain" /\ f.a = a THEN 1 ELSE 0
  BY CountOne DEF One
<1>2. << f >> \in Seq(Step)
  OBVIOUS
<1> QED
  BY <1>1, <1>2 DEF Debt

\* A step that takes, gives up or destroys.
LEMMA DoIs ==
  ASSUME NEW op \in {"retain", "release", "destroy"}, NEW x \in Ptr
  PROVE  /\ Do(op, x) \in Step /\ Do(op, x).op = op /\ Do(op, x).a = x
         /\ Do(op, x).item = Elem(Null)
         /\ << Do(op, x) >> \in Seq(Step)
         /\ \A a \in Addr : Debt(<<Do(op, x)>>, a) =
              IF op = "release" THEN One(x, a) ELSE IF op = "retain" THEN -One(x, a) ELSE 0
<1> DEFINE f == Do(op, x)
<1>1. Null \in Ptr
  BY DEF Ptr
<1>2. Elem(Null) \in Item /\ Elem(Null).k = Null /\ Elem(Null).v = Null
  BY <1>1, ElemIs
<1>3. f \in Step /\ f.op = op /\ f.a = x /\ f.item = Elem(Null)
  BY <1>2 DEF Do, Step
<1> HIDE DEF f
<1>4. << f >> \in Seq(Step)
  BY <1>3, DebtOne
<1>5. ASSUME NEW a \in Addr
      PROVE  Debt(<<f>>, a) = IF op = "release" THEN One(x, a)
                              ELSE IF op = "retain" THEN -One(x, a) ELSE 0
  <2>1. Debt(<<f>>, a) = One(f.item.k, a) + One(f.item.v, a)
                           + (IF f.op = "release" /\ f.a = a THEN 1 ELSE 0)
                           - (IF f.op = "retain" /\ f.a = a THEN 1 ELSE 0)
    BY <1>3, DebtOne
  <2>2. One(f.item.k, a) = 0 /\ One(f.item.v, a) = 0
    BY <1>2, <1>3, MmCollectionsAssumption DEF One
  <2> QED
    BY <1>3, <2>1, <2>2 DEF One
<1> QED
  BY <1>3, <1>4, <1>5 DEF f

\* A step that inserts.
LEMMA InsertionIs ==
  ASSUME NEW m \in Ptr, NEW i \in Item
  PROVE  /\ Insertion(m, i) \in Step /\ Insertion(m, i).op = "insert"
         /\ Insertion(m, i).a = m /\ Insertion(m, i).item = i
         /\ << Insertion(m, i) >> \in Seq(Step)
         /\ \A a \in Addr : Debt(<<Insertion(m, i)>>, a) = One(i.k, a) + One(i.v, a)
<1> DEFINE f == Insertion(m, i)
<1>1. f \in Step /\ f.op = "insert" /\ f.a = m /\ f.item = i
  BY DEF Insertion, Step
<1> HIDE DEF f
<1>2. << f >> \in Seq(Step)
  BY <1>1, DebtOne
<1>3. ASSUME NEW a \in Addr
      PROVE  Debt(<<f>>, a) = One(i.k, a) + One(i.v, a)
  <2>1. Debt(<<f>>, a) = One(f.item.k, a) + One(f.item.v, a)
                           + (IF f.op = "release" /\ f.a = a THEN 1 ELSE 0)
                           - (IF f.op = "retain" /\ f.a = a THEN 1 ELSE 0)
    BY <1>1, DebtOne
  <2>2. One(i.k, a) \in Nat /\ One(i.v, a) \in Nat
    BY DEF One
  <2> QED
    BY <1>1, <2>1, <2>2
<1> QED
  BY <1>1, <1>2, <1>3 DEF f

\* No steps owe nothing.
LEMMA DebtNone ==
  ASSUME NEW a
  PROVE  Debt(<<>>, a) = 0 /\ <<>> \in Seq(Step)
BY CountNone DEF Debt

\* Without a step that takes a count of a, nothing is owed for a where no step
\* carries it or gives it up.
LEMMA DebtZero ==
  ASSUME NEW s \in Seq(Step), NEW a,
         \A p \in DOMAIN s : ~(s[p].op = "retain" /\ s[p].a = a)
  PROVE  /\ Debt(s, a) \in Nat
         /\ Debt(s, a) = 0 <=>
              \A p \in DOMAIN s : /\ s[p].item.k # a /\ s[p].item.v # a
                                  /\ ~(s[p].op = "release" /\ s[p].a = a)
<1>1. \A p \in DOMAIN s : s[p] \in Step
  OBVIOUS
<1>2. Count(s, RetainSteps(a)) = 0
  <2>1. \A p \in DOMAIN s : s[p] \notin RetainSteps(a)
    BY DEF RetainSteps
  <2> QED
    BY <2>1, CountZero
<1>3. Count(s, KeySteps(a)) = 0 <=> \A p \in DOMAIN s : s[p].item.k # a
  <2>1. Count(s, KeySteps(a)) = 0 <=> \A p \in DOMAIN s : s[p] \notin KeySteps(a)
    BY CountZero
  <2> QED
    BY <1>1, <2>1 DEF KeySteps
<1>4. Count(s, ValueSteps(a)) = 0 <=> \A p \in DOMAIN s : s[p].item.v # a
  <2>1. Count(s, ValueSteps(a)) = 0 <=> \A p \in DOMAIN s : s[p] \notin ValueSteps(a)
    BY CountZero
  <2> QED
    BY <1>1, <2>1 DEF ValueSteps
<1>5. Count(s, ReleaseSteps(a)) = 0
        <=> \A p \in DOMAIN s : ~(s[p].op = "release" /\ s[p].a = a)
  <2>1. Count(s, ReleaseSteps(a)) = 0 <=> \A p \in DOMAIN s : s[p] \notin ReleaseSteps(a)
    BY CountZero
  <2> QED
    BY <1>1, <2>1 DEF ReleaseSteps
<1>6. /\ Count(s, KeySteps(a)) \in Nat /\ Count(s, ValueSteps(a)) \in Nat
      /\ Count(s, ReleaseSteps(a)) \in Nat
      /\ Debt(s, a) = Count(s, KeySteps(a)) + Count(s, ValueSteps(a))
                        + Count(s, ReleaseSteps(a))
  BY <1>2, DebtIs
<1>7. Debt(s, a) \in Nat
      /\ (Debt(s, a) = 0 <=> /\ Count(s, KeySteps(a)) = 0 /\ Count(s, ValueSteps(a)) = 0
                             /\ Count(s, ReleaseSteps(a)) = 0)
  BY <1>6
<1> QED
  BY <1>3, <1>4, <1>5, <1>7

\* What destroying an item gives up.
LEMMA ReleasesIs ==
  ASSUME NEW i \in Item
  PROVE  /\ Releases(i) \in Seq(Step)
         /\ \A a \in Addr : Debt(Releases(i), a) = One(i.k, a) + One(i.v, a)
         /\ \A p \in DOMAIN Releases(i) :
              /\ Releases(i)[p].op = "release" /\ Releases(i)[p].item = Elem(Null)
              /\ Releases(i)[p].a \in {i.k, i.v}
              /\ Releases(i)[p].a = Null => i.v = Null
<1> DEFINE d == Do("release", i.k)
           e == Do("release", i.v)
<1>1. i.k \in Ptr /\ i.v \in Ptr
  BY DEF Item
<1>2. /\ << d >> \in Seq(Step) /\ d.op = "release" /\ d.a = i.k /\ d.item = Elem(Null)
      /\ \A a \in Addr : Debt(<<d>>, a) = One(i.k, a)
  BY <1>1, DoIs
<1>3. /\ << e >> \in Seq(Step) /\ e.op = "release" /\ e.a = i.v /\ e.item = Elem(Null)
      /\ \A a \in Addr : Debt(<<e>>, a) = One(i.v, a)
  BY <1>1, DoIs
<1>4. Releases(i) = (IF i.k = Null THEN <<>> ELSE <<d>>) \o <<e>>
  BY DEF Releases
<1> HIDE DEF d, e
<1>5. CASE i.k = Null
  <2>1. Releases(i) = <<e>>
    BY <1>3, <1>4, <1>5
  <2>2. \A a \in Addr : One(i.k, a) = 0 /\ One(i.v, a) \in Nat
    BY <1>5, MmCollectionsAssumption DEF One
  <2>3. \A a \in Addr : Debt(<<e>>, a) = One(i.k, a) + One(i.v, a)
    BY <1>3, <2>2
  <2>4. \A p \in DOMAIN <<e>> : <<e>>[p] = e
    OBVIOUS
  <2> QED
    BY <1>3, <2>1, <2>3, <2>4
<1>6. CASE i.k # Null
  <2> DEFINE x == << d >>
             y == << e >>
  <2>1. Releases(i) = x \o y
    BY <1>4, <1>6
  <2>2. x \in Seq(Step) /\ y \in Seq(Step) /\ Len(x) = 1 /\ Len(y) = 1 /\ x[1] = d /\ y[1] = e
        /\ (\A a \in Addr : Debt(x, a) = One(i.k, a)) /\ (\A a \in Addr : Debt(y, a) = One(i.v, a))
    BY <1>2, <1>3
  <2> HIDE DEF x, y
  <2>3. /\ x \o y \in Seq(Step)
        /\ \A a \in Addr : Debt(x \o y, a) = One(i.k, a) + One(i.v, a)
    BY <2>2, DebtConcat
  <2>4. \A p \in DOMAIN (x \o y) : (x \o y)[p] \in {d, e}
    <3>1. /\ DOMAIN (x \o y) = 1 .. 1 + 1
          /\ \A p \in 1 .. 1 : (x \o y)[p] = x[p]
          /\ \A p \in 1 .. 1 : (x \o y)[1 + p] = y[p]
      BY <2>2, ConcatIs
    <3>2. (x \o y)[1] = d /\ (x \o y)[1 + 1] = e
      BY <2>2, <3>1
    <3>3. \A p \in 1 .. 1 + 1 : p = 1 \/ p = 1 + 1
      OBVIOUS
    <3> QED
      BY <3>1, <3>2, <3>3
  <2> DEFINE z == x \o y
  <2> HIDE DEF x, y
  <2>6. \A p \in DOMAIN z : z[p] \in {d, e}
    BY <2>4
  <2>7. /\ Releases(i) = z /\ z \in Seq(Step)
        /\ \A a \in Addr : Debt(z, a) = One(i.k, a) + One(i.v, a)
    BY <2>1, <2>3
  <2> HIDE DEF z
  <2>8. ASSUME NEW p \in DOMAIN z
        PROVE  /\ z[p].op = "release" /\ z[p].item = Elem(Null) /\ z[p].a \in {i.k, i.v}
               /\ z[p].a = Null => i.v = Null
    <3>1. z[p] = d \/ z[p] = e
      BY <2>6
    <3> QED
      BY <1>2, <1>3, <1>6, <3>1
  <2> QED
    BY <2>7, <2>8
<1> QED
  BY <1>5, <1>6

\* The pointers of the program that point to a.
LEMMA OwnChange ==
  ASSUME NEW f \in [Var -> Ptr], NEW w \in Var, NEW x \in Ptr, NEW a,
         NEW g \in [Var -> Ptr], g[w] = x, \A u \in Var \ {w} : g[u] = f[u]
  PROVE  /\ Pointers(g, a) + One(f[w], a)
              = Pointers(f, a) + One(x, a)
         /\ Pointers(g, a) \in Nat
         /\ Pointers(f, a) \in Nat
<1> DEFINE F == {u \in Var : f[u] = a}
           G == {u \in Var : g[u] = a}
           R == {u \in Var \ {w} : f[u] = a}
<1>0. IsFiniteSet(Var)
  BY MmCollectionsAssumption
<1>1. F \in SUBSET Var /\ G \in SUBSET Var /\ R \in SUBSET Var
  OBVIOUS
<1>2. IsFiniteSet(F) /\ IsFiniteSet(G) /\ IsFiniteSet(R)
  BY <1>0, <1>1, FS_Subset
<1>3. F = (IF f[w] = a THEN R \cup {w} ELSE R) /\ G = (IF x = a THEN R \cup {w} ELSE R) /\ w \notin R
  OBVIOUS
<1> HIDE DEF F, G, R
<1>4. Cardinality(R \cup {w}) = Cardinality(R) + 1
  BY <1>2, <1>3, FS_AddElement
<1>5. Cardinality(F) \in Nat /\ Cardinality(G) \in Nat /\ Cardinality(R) \in Nat
  BY <1>2, FS_CardinalityType
<1>6. Cardinality(G) + One(f[w], a) = Cardinality(F) + One(x, a)
  BY <1>3, <1>4, <1>5 DEF One
<1> QED
  BY <1>5, <1>6 DEF F, G, Pointers

\* No pointer points to a.
LEMMA OwnZero ==
  ASSUME NEW f \in [Var -> Ptr], NEW a
  PROVE  /\ Pointers(f, a) \in Nat
         /\ Pointers(f, a) = 0 <=> \A w \in Var : f[w] # a
<1> DEFINE F == {u \in Var : f[u] = a}
<1>1. F \in SUBSET Var /\ IsFiniteSet(Var)
  BY MmCollectionsAssumption
<1>2. IsFiniteSet(F)
  BY <1>1, FS_Subset
<1>3. F = {} <=> \A w \in Var : f[w] # a
  OBVIOUS
<1> HIDE DEF F
<1>4. Cardinality(F) \in Nat /\ (Cardinality(F) = 0 <=> F = {})
  BY <1>2, FS_CardinalityType, FS_EmptySet
<1> QED
  BY <1>3, <1>4 DEF F, Pointers

----------------------------------------------------------------------------
(* The objects.                                                            *)

\* The items of all objects.
LEMMA ItemsOfType ==
  ASSUME NEW o \in Objs
  PROVE  /\ ItemsOf(o) \in Tables
         /\ \A b \in Addr : o[b] # Null =>
              /\ o[b] \in Object /\ o[b].items \in Seq(Item) /\ Len(o[b].items) <= MaxItems
              /\ o[b].r \in Nat /\ o[b].kind \in Kinds /\ ItemsOf(o)[b] = o[b].items
<1>1. ASSUME NEW b \in Addr, o[b] # Null
      PROVE  /\ o[b] \in Object /\ o[b].items \in Seq(Item) /\ Len(o[b].items) <= MaxItems
             /\ o[b].r \in Nat /\ o[b].kind \in Kinds
  BY <1>1 DEF Objs, Object
<1>2. ASSUME NEW b \in Addr
      PROVE  ItemsOf(o)[b] \in Seq(Item) /\ Len(ItemsOf(o)[b]) <= MaxItems
  <2>1. CASE o[b] # Null
    BY <1>1, <2>1 DEF ItemsOf
  <2>2. CASE o[b] = Null
    <3>1. ItemsOf(o)[b] = <<>>
      BY <2>2 DEF ItemsOf
    <3> QED
      BY <3>1, MmCollectionsAssumption
  <2> QED
    BY <2>1, <2>2
<1>3. ItemsOf(o) \in [Addr -> Seq(Item)]
  <2>1. DOMAIN ItemsOf(o) = Addr /\ ItemsOf(o) = [b \in Addr |-> ItemsOf(o)[b]]
    BY DEF ItemsOf
  <2> QED
    BY <1>2, <2>1
<1> QED
  BY <1>1, <1>2, <1>3 DEF Tables, ItemsOf

\* The objects, with a change to one of them.
WithR(o, a, n) == [o EXCEPT ![a].r = n]
WithItems(o, a, s) == [o EXCEPT ![a].items = s]
With(o, a, x) == [o EXCEPT ![a] = x]

\* One object gets another count.
LEMMA SetR ==
  ASSUME NEW o \in Objs, NEW a \in Addr, o[a] # Null, NEW n \in Nat
  PROVE  /\ WithR(o, a, n) \in Objs /\ WithR(o, a, n)[a] # Null /\ WithR(o, a, n)[a].r = n
         /\ WithR(o, a, n)[a].kind = o[a].kind /\ WithR(o, a, n)[a].val = o[a].val
         /\ WithR(o, a, n)[a].items = o[a].items
         /\ \A b \in Addr \ {a} : WithR(o, a, n)[b] = o[b]
         /\ ItemsOf(WithR(o, a, n)) = ItemsOf(o)
<1> DEFINE x == [o[a] EXCEPT !.r = n]
           g == WithR(o, a, n)
<1>1. o \in [Addr -> Object \cup {Null}] /\ o[a] \in Object /\ Len(o[a].items) <= MaxItems
  BY DEF Objs
<1>2. /\ x \in Object /\ x.r = n /\ x.kind = o[a].kind /\ x.val = o[a].val
      /\ x.items = o[a].items
  BY <1>1 DEF Object
<1>3. x # Null
  BY <1>2, MmCollectionsAssumption
<1>4. g = [o EXCEPT ![a] = x]
  BY DEF WithR
<1> HIDE DEF x, g
<1>5. g \in [Addr -> Object \cup {Null}] /\ g[a] = x /\ \A b \in Addr \ {a} : g[b] = o[b]
  BY <1>1, <1>2, <1>4
<1>6. g \in Objs
  BY <1>1, <1>2, <1>5 DEF Objs
<1>7. ItemsOf(g) = ItemsOf(o)
  BY <1>2, <1>3, <1>5 DEF ItemsOf
<1> QED
  BY <1>2, <1>3, <1>5, <1>6, <1>7 DEF g

\* One object gets other items.
LEMMA SetItems ==
  ASSUME NEW o \in Objs, NEW a \in Addr, o[a] # Null,
         NEW s \in Seq(Item), Len(s) <= MaxItems
  PROVE  /\ WithItems(o, a, s) \in Objs /\ WithItems(o, a, s)[a] # Null
         /\ WithItems(o, a, s)[a].r = o[a].r
         /\ WithItems(o, a, s)[a].kind = o[a].kind /\ WithItems(o, a, s)[a].val = o[a].val
         /\ WithItems(o, a, s)[a].items = s
         /\ \A b \in Addr \ {a} : WithItems(o, a, s)[b] = o[b]
         /\ ItemsOf(WithItems(o, a, s))[a] = s /\ ItemsOf(o)[a] = o[a].items
         /\ \A b \in Addr \ {a} : ItemsOf(WithItems(o, a, s))[b] = ItemsOf(o)[b]
<1> DEFINE x == [o[a] EXCEPT !.items = s]
           g == WithItems(o, a, s)
<1>1. o \in [Addr -> Object \cup {Null}] /\ o[a] \in Object
  BY DEF Objs
<1>2. /\ x \in Object /\ x.r = o[a].r /\ x.kind = o[a].kind /\ x.val = o[a].val
      /\ x.items = s
  BY <1>1 DEF Object
<1>3. x # Null
  BY <1>2, MmCollectionsAssumption
<1>4. g = [o EXCEPT ![a] = x]
  BY DEF WithItems
<1> HIDE DEF x, g
<1>5. g \in [Addr -> Object \cup {Null}] /\ g[a] = x /\ \A b \in Addr \ {a} : g[b] = o[b]
  BY <1>1, <1>2, <1>4
<1>6. g \in Objs
  BY <1>1, <1>2, <1>5 DEF Objs
<1>7. /\ ItemsOf(g)[a] = s /\ ItemsOf(o)[a] = o[a].items
      /\ \A b \in Addr \ {a} : ItemsOf(g)[b] = ItemsOf(o)[b]
  BY <1>2, <1>3, <1>5 DEF ItemsOf
<1> QED
  BY <1>2, <1>3, <1>5, <1>6, <1>7 DEF g

\* An object is made or freed.
LEMMA SetObject ==
  ASSUME NEW o \in Objs, NEW a \in Addr, NEW x \in Object \cup {Null},
         x # Null => Len(x.items) <= MaxItems
  PROVE  /\ With(o, a, x) \in Objs /\ With(o, a, x)[a] = x
         /\ \A b \in Addr \ {a} : With(o, a, x)[b] = o[b]
         /\ ItemsOf(With(o, a, x))[a] = (IF x # Null THEN x.items ELSE <<>>)
         /\ \A b \in Addr \ {a} : ItemsOf(With(o, a, x))[b] = ItemsOf(o)[b]
<1> DEFINE g == With(o, a, x)
<1>1. o \in [Addr -> Object \cup {Null}]
  BY DEF Objs
<1>2. g \in [Addr -> Object \cup {Null}] /\ g[a] = x /\ \A b \in Addr \ {a} : g[b] = o[b]
  BY <1>1 DEF With
<1> HIDE DEF g
<1>3. g \in Objs
  BY <1>2 DEF Objs
<1>4. /\ ItemsOf(g)[a] = (IF x # Null THEN x.items ELSE <<>>)
      /\ \A b \in Addr \ {a} : ItemsOf(g)[b] = ItemsOf(o)[b]
  BY <1>2 DEF ItemsOf
<1> QED
  BY <1>2, <1>3, <1>4 DEF g

\* Nobody holds a.
LEMMA HoldsZero ==
  ASSUME NEW f \in Tables, NEW a
  PROVE  /\ Holds(f, a) \in Nat
         /\ Holds(f, a) = 0 <=> \A b \in Addr : \A p \in DOMAIN f[b] : f[b][p].k # a /\ f[b][p].v # a
<1> DEFINE K == {i \in Item : i.k = a}
           V == {i \in Item : i.v = a}
<1>1. Total(f, K) = 0 <=> \A b \in Addr : \A p \in DOMAIN f[b] : f[b][p] \notin K
  BY TotalZero
<1>2. Total(f, V) = 0 <=> \A b \in Addr : \A p \in DOMAIN f[b] : f[b][p] \notin V
  BY TotalZero
<1>3. ASSUME NEW b \in Addr, NEW p \in DOMAIN f[b]
      PROVE  (f[b][p] \notin K <=> f[b][p].k # a) /\ (f[b][p] \notin V <=> f[b][p].v # a)
  <2>1. f[b] \in Seq(Item)
    BY DEF Tables
  <2>2. f[b][p] \in Item
    BY <2>1
  <2> QED
    BY <2>2
<1>4. Holds(f, a) = Total(f, K) + Total(f, V)
  BY DEF Holds
<1> HIDE DEF K, V
<1>5. Total(f, K) \in Nat /\ Total(f, V) \in Nat
  <2>1. CASE Addr = {}
    <3>1. Total(f, K) = 0 /\ Total(f, V) = 0
      BY <1>1, <1>2, <2>1
    <3> QED
      BY <3>1
  <2>2. CASE Addr # {}
    <3>1. PICK m \in Addr : TRUE
      BY <2>2
    <3> QED
      BY TotalChange
  <2> QED
    BY <2>1, <2>2
<1>6. (Total(f, K) = 0 /\ Total(f, V) = 0)
        <=> \A b \in Addr : \A p \in DOMAIN f[b] : f[b][p].k # a /\ f[b][p].v # a
  BY <1>1, <1>2, <1>3
<1> QED
  BY <1>4, <1>5, <1>6

Unowned(o, n, t, a) ==
  /\ \A w \in Var : n[w] # a
  /\ \A b \in Addr : o[b] # Null => \A p \in DOMAIN o[b].items :
       o[b].items[p].k # a /\ o[b].items[p].v # a
  /\ \A p \in DOMAIN t : /\ t[p].item.k # a /\ t[p].item.v # a
                         /\ ~(t[p].op = "release" /\ t[p].a = a)

\* Where no count is to be taken, an object without owners is one that nobody
\* points to.
LEMMA OwnersZero ==
  ASSUME NEW n \in [Var -> Ptr], NEW o \in Objs, NEW t \in Seq(Step), NEW a,
         \A p \in DOMAIN t : ~(t[p].op = "retain" /\ t[p].a = a)
  PROVE  /\ OwnersOf(o, n, t, a) \in Nat
         /\ OwnersOf(o, n, t, a) = 0 <=> Unowned(o, n, t, a)
<1>1. /\ Pointers(n, a) \in Nat
      /\ Pointers(n, a) = 0 <=> \A w \in Var : n[w] # a
  BY OwnZero
<1>2. ItemsOf(o) \in Tables
      /\ \A b \in Addr : o[b] # Null => ItemsOf(o)[b] = o[b].items
  BY ItemsOfType
<1>3. /\ Holds(ItemsOf(o), a) \in Nat
      /\ Holds(ItemsOf(o), a) = 0 <=>
           \A b \in Addr : \A p \in DOMAIN ItemsOf(o)[b] :
             ItemsOf(o)[b][p].k # a /\ ItemsOf(o)[b][p].v # a
  BY <1>2, HoldsZero
<1>4. /\ Debt(t, a) \in Nat
      /\ Debt(t, a) = 0 <=>
           \A p \in DOMAIN t : /\ t[p].item.k # a /\ t[p].item.v # a
                               /\ ~(t[p].op = "release" /\ t[p].a = a)
  BY DebtZero
<1>5. ASSUME NEW b \in Addr, o[b] = Null PROVE \A p \in DOMAIN ItemsOf(o)[b] : FALSE
  <2>1. ItemsOf(o)[b] = <<>>
    BY <1>5 DEF ItemsOf
  <2> QED
    BY <2>1
<1>6. Holds(ItemsOf(o), a) = 0 <=>
        \A b \in Addr : o[b] # Null => \A p \in DOMAIN o[b].items :
          o[b].items[p].k # a /\ o[b].items[p].v # a
  BY <1>2, <1>3, <1>5
<1>7. OwnersOf(o, n, t, a) = Pointers(n, a) + Holds(ItemsOf(o), a) + Debt(t, a)
  BY DEF OwnersOf
<1>8. /\ OwnersOf(o, n, t, a) \in Nat
      /\ OwnersOf(o, n, t, a) = 0 <=>
           /\ Pointers(n, a) = 0
           /\ Holds(ItemsOf(o), a) = 0
           /\ Debt(t, a) = 0
  BY <1>1, <1>3, <1>4, <1>7
<1> QED
  BY <1>1, <1>4, <1>6, <1>8 DEF Unowned

----------------------------------------------------------------------------
(* What no step changes.                                                   *)

\* The items t are some of the items s.
Shrunk(s, t) ==
  /\ Len(t) <= Len(s)
  /\ \E f \in [DOMAIN t -> DOMAIN s] :
       /\ \A p, q \in DOMAIN t : p < q => f[p] < f[q]
       /\ \A p \in DOMAIN t : t[p] = s[f[p]]

Kept(o, g, b) ==
  /\ o[b] # Null /\ g[b] # Null
  /\ g[b].kind = o[b].kind /\ g[b].val = o[b].val
  /\ o[b].kind \in Maps => Shrunk(o[b].items, g[b].items)

Fresh(o, g, b) ==
  /\ o[b] = Null /\ g[b] # Null
  /\ g[b].kind \in Maps => g[b].items = <<>>
  /\ g[b].kind = "int" => g[b].val \in Val

ObjStep(o, g) == \A b \in Addr : g[b] # Null => Kept(o, g, b) \/ Fresh(o, g, b)

\* Items may stay as they are.
LEMMA ShrunkSame ==
  ASSUME NEW s \in Seq(Item)
  PROVE  Shrunk(s, s)
<1> DEFINE f == [p \in DOMAIN s |-> p]
<1>1. Len(s) \in Nat /\ f \in [DOMAIN s -> DOMAIN s]
  OBVIOUS
<1>2. (\A p, q \in DOMAIN s : p < q => f[p] < f[q]) /\ \A p \in DOMAIN s : s[p] = s[f[p]]
  OBVIOUS
<1> HIDE DEF f
<1> QED
  BY <1>1, <1>2 DEF Shrunk

\* An item may be taken out.
LEMMA ShrunkRemove ==
  ASSUME NEW s \in Seq(Item), NEW i \in 1 .. Len(s), NEW t \in Seq(Item),
         Len(t) = Len(s) - 1,
         \A q \in 1 .. i - 1 : t[q] = s[q],
         \A q \in i .. Len(s) - 1 : t[q] = s[q + 1]
  PROVE  Shrunk(s, t)
<1> DEFINE f == [p \in DOMAIN t |-> IF p < i THEN p ELSE p + 1]
<1>1. Len(s) \in Nat /\ DOMAIN s = 1 .. Len(s) /\ DOMAIN t = 1 .. Len(s) - 1
  OBVIOUS
<1>2. f \in [DOMAIN t -> DOMAIN s]
  BY <1>1
<1>3. \A p, q \in DOMAIN t : p < q => f[p] < f[q]
  BY <1>1
<1>4. \A p \in DOMAIN t : t[p] = s[f[p]]
  BY <1>1
<1>5. Len(t) <= Len(s)
  BY <1>1
<1> HIDE DEF f
<1> QED
  BY <1>2, <1>3, <1>4, <1>5 DEF Shrunk

\* An item of a map that is kept is one it had, with the same key.
LEMMA MapKept ==
  ASSUME NEW o \in Objs, NEW g \in Objs, NEW t, ItemsWhole(g, t), ObjStep(o, g), MapsOK(o),
         NEW m \in Addr, g[m] # Null, g[m].kind \in Maps, Kept(o, g, m)
  PROVE  \E f \in [DOMAIN g[m].items -> DOMAIN o[m].items] :
           /\ \A p, q \in DOMAIN g[m].items : p < q => f[p] < f[q]
           /\ \A p \in DOMAIN g[m].items :
                /\ g[m].items[p] = o[m].items[f[p]]
                /\ g[m].items[p].k \in Addr /\ g[m].items[p].hk = g[m].items[p].k
                /\ g[g[m].items[p].k] # Null /\ g[g[m].items[p].k].kind = "int"
                /\ g[g[m].items[p].k].val = o[g[m].items[p].k].val
<1>1. Shrunk(o[m].items, g[m].items) /\ MapOK(o, m)
  BY DEF Kept, MapsOK
<1>2. PICK f \in [DOMAIN g[m].items -> DOMAIN o[m].items] :
             /\ \A p, q \in DOMAIN g[m].items : p < q => f[p] < f[q]
             /\ \A p \in DOMAIN g[m].items : g[m].items[p] = o[m].items[f[p]]
  BY <1>1 DEF Shrunk
<1>3. ASSUME NEW p \in DOMAIN g[m].items
      PROVE  /\ g[m].items[p].k \in Addr /\ g[m].items[p].hk = g[m].items[p].k
             /\ g[g[m].items[p].k] # Null /\ g[g[m].items[p].k].kind = "int"
             /\ g[g[m].items[p].k].val = o[g[m].items[p].k].val
  <2> DEFINE i == g[m].items[p]
  <2>1. i = o[m].items[f[p]] /\ f[p] \in DOMAIN o[m].items
    BY <1>2
  <2>2. i.k \in Addr /\ i.hk = i.k /\ o[i.k] # Null /\ o[i.k].kind = "int"
    BY <1>1, <2>1 DEF MapOK
  <2>3. Whole(g, t, i.k)
    BY DEF ItemsWhole
  <2> HIDE DEF i
  <2>4. g[i.k] # Null
    BY <2>2, <2>3, MmCollectionsAssumption DEF Whole
  <2>5. Kept(o, g, i.k)
    BY <2>2, <2>4 DEF ObjStep, Fresh
  <2>6. g[i.k].kind = "int" /\ g[i.k].val = o[i.k].val
    BY <2>2, <2>5 DEF Kept
  <2> QED
    BY <2>2, <2>4, <2>6 DEF i
<1> QED
  BY <1>2, <1>3

\* Where every map keeps some of its items, maps keep what makes them maps.
LEMMA DataKept ==
  ASSUME NEW o \in Objs, NEW g \in Objs, NEW t, ItemsWhole(g, t), ObjStep(o, g), DataOK(o)
  PROVE  DataOK(g)
<1>1. IntsOK(g)
  BY DEF DataOK, IntsOK, ObjStep, Kept, Fresh
<1>2. ASSUME NEW m \in Addr, g[m] # Null, g[m].kind \in Maps
      PROVE  MapOK(g, m)
  <2>1. CASE Fresh(o, g, m)
    <3>1. DOMAIN g[m].items = {}
      BY <1>2, <2>1 DEF Fresh
    <3> QED
      BY <3>1 DEF MapOK
  <2>2. CASE Kept(o, g, m)
    <3>1. PICK f \in [DOMAIN g[m].items -> DOMAIN o[m].items] :
            /\ \A p, q \in DOMAIN g[m].items : p < q => f[p] < f[q]
            /\ \A p \in DOMAIN g[m].items :
                 /\ g[m].items[p] = o[m].items[f[p]]
                 /\ g[m].items[p].k \in Addr /\ g[m].items[p].hk = g[m].items[p].k
                 /\ g[g[m].items[p].k] # Null /\ g[g[m].items[p].k].kind = "int"
                 /\ g[g[m].items[p].k].val = o[g[m].items[p].k].val
      BY <1>2, <2>2, MapKept DEF DataOK
    <3>2. MapOK(o, m)
      BY <1>2, <2>2 DEF Kept, MapsOK, DataOK
    <3>3. ASSUME NEW p \in DOMAIN g[m].items, NEW q \in DOMAIN g[m].items,
                 g[g[m].items[p].k].val = g[g[m].items[q].k].val
          PROVE  p = q
      <4>1. f[p] \in DOMAIN o[m].items /\ f[q] \in DOMAIN o[m].items
        BY <3>1
      <4>2. o[o[m].items[f[p]].k].val = o[o[m].items[f[q]].k].val
        BY <3>1, <3>3
      <4>3. f[p] = f[q]
        BY <3>2, <4>1, <4>2 DEF MapOK
      <4>4. g[m].items \in Seq(Item) /\ o[m].items \in Seq(Item)
        BY <1>2, <2>2, ItemsOfType DEF Kept
      <4>5. p \in Nat /\ q \in Nat /\ f[p] \in Nat
        BY <4>1, <4>4
      <4>6. ~(f[p] < f[q]) /\ ~(f[q] < f[p])
        BY <4>3, <4>5
      <4>7. ~(p < q) /\ ~(q < p)
        BY <3>1, <4>6
      <4> QED
        BY <4>5, <4>7
    <3>4. \A p \in DOMAIN g[m].items :
            /\ g[m].items[p].k \in Addr /\ g[m].items[p].hk = g[m].items[p].k
            /\ g[g[m].items[p].k] # Null /\ g[g[m].items[p].k].kind = "int"
      BY <3>1
    <3> QED
      BY <3>3, <3>4 DEF MapOK
  <2> QED
    BY <1>2, <2>1, <2>2 DEF ObjStep
<1>3. MapsSorted(g)
  <2> SUFFICES ASSUME \A x, y \in Val : Diff(x, y) = x - y,
                      NEW m \in Addr, g[m] # Null, g[m].kind = "sorted"
               PROVE  MapSorted(g, m)
    BY DEF MapsSorted
  <2>1. g[m].kind \in Maps
    BY DEF Maps
  <2>2. CASE Fresh(o, g, m)
    <3>1. DOMAIN g[m].items = {}
      BY <2>1, <2>2 DEF Fresh
    <3> QED
      BY <3>1 DEF MapSorted
  <2>3. CASE Kept(o, g, m)
    <3>1. PICK f \in [DOMAIN g[m].items -> DOMAIN o[m].items] :
            /\ \A p, q \in DOMAIN g[m].items : p < q => f[p] < f[q]
            /\ \A p \in DOMAIN g[m].items :
                 /\ g[m].items[p] = o[m].items[f[p]]
                 /\ g[m].items[p].k \in Addr /\ g[m].items[p].hk = g[m].items[p].k
                 /\ g[g[m].items[p].k] # Null /\ g[g[m].items[p].k].kind = "int"
                 /\ g[g[m].items[p].k].val = o[g[m].items[p].k].val
      BY <2>1, <2>3, MapKept DEF DataOK
    <3>2. MapSorted(o, m)
      BY <2>3 DEF Kept, MapsSorted, DataOK
    <3>3. ASSUME NEW p \in DOMAIN g[m].items, NEW q \in DOMAIN g[m].items, p < q
          PROVE  g[g[m].items[p].k].val < g[g[m].items[q].k].val
      <4>1. f[p] < f[q] /\ f[p] \in DOMAIN o[m].items /\ f[q] \in DOMAIN o[m].items
        BY <3>1, <3>3
      <4>2. o[o[m].items[f[p]].k].val < o[o[m].items[f[q]].k].val
        BY <3>2, <4>1 DEF MapSorted
      <4> QED
        BY <3>1, <4>2
    <3> QED
      BY <3>3 DEF MapSorted
  <2> QED
    BY <2>2, <2>3 DEF ObjStep
<1> QED
  BY <1>1, <1>2, <1>3 DEF DataOK, MapsOK

\* What was reached still is, unless it is x, to which nothing points; m may
\* lose items.
LEMMA ReachKept ==
  ASSUME NEW o, NEW g, NEW S, NEW R, S \subseteq R, S \subseteq Addr, NEW x, x \notin S,
         \A b \in Addr : x \notin Pointed(o, b),
         NEW m, m \in Reached(o, S),
         \A b \in Addr \ {x, m} : Pointed(o, b) \subseteq Pointed(g, b)
  PROVE  m \in Reached(g, R) /\ m # x
<1>1. m \in Addr /\ \A T \in SUBSET Addr : S \subseteq T /\ Closed(o, T) => m \in T
  BY DEF Reached
<1>2. m # x
  <2>1. Closed(o, Addr \ {x})
    BY DEF Closed, Pointed
  <2> QED
    BY <1>1, <2>1
<1>3. ASSUME NEW T \in SUBSET Addr, R \subseteq T, Closed(g, T), m \notin T
      PROVE  FALSE
  <2> DEFINE U == T \ {x}
  <2>1. S \subseteq U /\ U \in SUBSET Addr
    BY <1>3
  <2>2. Closed(o, U)
    BY <1>3 DEF Closed
  <2> QED
    BY <1>1, <1>3, <2>1, <2>2
<1> QED
  BY <1>1, <1>2, <1>3 DEF Reached

\* All that is reached from objects that are not being destroyed is such.
LEMMA ReachWhole ==
  ASSUME NEW o, NEW t, ItemsWhole(o, t), NEW S \in SUBSET Addr,
         \A a \in S : Whole(o, t, a)
  PROVE  \A a \in Reached(o, S) : a \in Addr /\ o[a] # Null /\ Whole(o, t, a)
<1> DEFINE T == {a \in Addr : o[a] # Null /\ Whole(o, t, a)}
<1>1. S \subseteq T
  BY MmCollectionsAssumption DEF Whole
<1>2. Closed(o, T)
  BY MmCollectionsAssumption DEF Closed, Pointed, ItemsWhole, Whole
<1>3. T \in SUBSET Addr
  OBVIOUS
<1> HIDE DEF T
<1>4. Reached(o, S) \subseteq T
  BY <1>1, <1>2, <1>3 DEF Reached
<1> QED
  BY <1>4 DEF T

\* What is to be inserted can still be inserted.
LEMMA InsertKept ==
  ASSUME NEW o \in Objs, NEW g \in Objs, NEW n, NEW n2, NEW t, NEW t2,
         ItemsWhole(g, t2), ObjStep(o, g), MapsOK(o),
         NEW m, NEW i, InsertOK(o, n, t, m, i), g[m] # Null, g[i.k] # Null,
         m \in Reached(g, Roots(g, n2, t2))
  PROVE  InsertOK(g, n2, t2, m, i)
<1>1. /\ m \in Addr /\ o[m] # Null /\ o[m].kind \in Maps /\ Len(o[m].items) < MaxItems
      /\ i.k \in Addr /\ i.v \in Addr /\ i.hk = i.k
      /\ o[i.k] # Null /\ o[i.k].kind = "int"
      /\ \A p \in DOMAIN o[m].items : o[o[m].items[p].k].val # o[i.k].val
  BY DEF InsertOK
<1>2. Kept(o, g, m) /\ Kept(o, g, i.k)
  BY <1>1 DEF ObjStep, Fresh
<1>3. g[m].kind \in Maps /\ g[i.k].kind = "int" /\ g[i.k].val = o[i.k].val
  BY <1>1, <1>2 DEF Kept
<1>4. Len(g[m].items) < MaxItems
  <2>1. Len(g[m].items) <= Len(o[m].items)
    BY <1>1, <1>2 DEF Kept, Shrunk
  <2>2. Len(g[m].items) \in Nat /\ Len(o[m].items) \in Nat /\ MaxItems \in Nat
    BY <1>1, ItemsOfType, MmCollectionsAssumption
  <2> QED
    BY <1>1, <2>1, <2>2
<1>5. \A p \in DOMAIN g[m].items : g[g[m].items[p].k].val # g[i.k].val
  <2>1. PICK f \in [DOMAIN g[m].items -> DOMAIN o[m].items] :
          /\ \A p, q \in DOMAIN g[m].items : p < q => f[p] < f[q]
          /\ \A p \in DOMAIN g[m].items :
               /\ g[m].items[p] = o[m].items[f[p]]
               /\ g[m].items[p].k \in Addr /\ g[m].items[p].hk = g[m].items[p].k
               /\ g[g[m].items[p].k] # Null /\ g[g[m].items[p].k].kind = "int"
               /\ g[g[m].items[p].k].val = o[g[m].items[p].k].val
    BY <1>1, <1>2, <1>3, MapKept
  <2> QED
    BY <1>1, <1>3, <2>1
<1> QED
  BY <1>1, <1>3, <1>4, <1>5 DEF InsertOK

----------------------------------------------------------------------------
(* The steps of a call.                                                    *)

\* The steps of two sequences, one after the other, are those of both.
LEMMA ConcatSteps ==
  ASSUME NEW x \in Seq(Step), NEW r \in Seq(Step)
  PROVE  /\ x \o r \in Seq(Step)
         /\ \A p \in DOMAIN (x \o r) : (\E q \in DOMAIN x : p = q /\ (x \o r)[p] = x[q])
                                      \/ \E q \in DOMAIN r : p = Len(x) + q /\ (x \o r)[p] = r[q]
         /\ \A q \in DOMAIN x : q \in DOMAIN (x \o r) /\ (x \o r)[q] = x[q]
         /\ \A q \in DOMAIN r : Len(x) + q \in DOMAIN (x \o r) /\ (x \o r)[Len(x) + q] = r[q]
         /\ Destroyed(x \o r) = Destroyed(x) \cup Destroyed(r)
         /\ Carried(x \o r) = Carried(x) \cup Carried(r)
<1> DEFINE u == x \o r
<1>1. /\ u \in Seq(Step) /\ Len(x) \in Nat /\ Len(r) \in Nat
      /\ DOMAIN u = 1 .. Len(x) + Len(r)
      /\ \A p \in 1 .. Len(x) : u[p] = x[p]
      /\ \A p \in 1 .. Len(r) : u[Len(x) + p] = r[p]
  BY ConcatIs
<1> HIDE DEF u
<1>2. DOMAIN x = 1 .. Len(x) /\ DOMAIN r = 1 .. Len(r)
  OBVIOUS
<1>3. ASSUME NEW p \in DOMAIN u
      PROVE  (\E q \in DOMAIN x : p = q /\ u[p] = x[q])
             \/ \E q \in DOMAIN r : p = Len(x) + q /\ u[p] = r[q]
  <2>1. CASE p <= Len(x)
    BY <1>1, <1>2, <2>1
  <2>2. CASE ~(p <= Len(x))
    <3>1. p - Len(x) \in DOMAIN r /\ p = Len(x) + (p - Len(x))
      BY <1>1, <1>2, <2>2
    <3>2. u[p] = r[p - Len(x)]
      BY <1>1, <1>2, <3>1
    <3> QED
      BY <3>1, <3>2
  <2> QED
    BY <2>1, <2>2
<1>4. /\ \A q \in DOMAIN x : q \in DOMAIN u /\ u[q] = x[q]
      /\ \A q \in DOMAIN r : Len(x) + q \in DOMAIN u /\ u[Len(x) + q] = r[q]
  BY <1>1, <1>2
<1>5. Destroyed(u) = Destroyed(x) \cup Destroyed(r)
  <2>1. Destroyed(u) \subseteq Destroyed(x) \cup Destroyed(r)
    BY <1>3 DEF Destroyed
  <2>2. Destroyed(x) \cup Destroyed(r) \subseteq Destroyed(u)
    BY <1>4 DEF Destroyed
  <2> QED
    BY <2>1, <2>2
<1>6. Carried(u) = Carried(x) \cup Carried(r)
  <2>1. Carried(u) \subseteq Carried(x) \cup Carried(r)
    BY <1>3 DEF Carried
  <2>2. Carried(x) \cup Carried(r) \subseteq Carried(u)
    BY <1>4 DEF Carried
  <2> QED
    BY <2>1, <2>2
<1>7. /\ u \in Seq(Step)
      /\ \A p \in DOMAIN u : (\E q \in DOMAIN x : p = q /\ u[p] = x[q])
                             \/ \E q \in DOMAIN r : p = Len(x) + q /\ u[p] = r[q]
      /\ \A q \in DOMAIN x : q \in DOMAIN u /\ u[q] = x[q]
      /\ \A q \in DOMAIN r : Len(x) + q \in DOMAIN u /\ u[Len(x) + q] = r[q]
      /\ Destroyed(u) = Destroyed(x) \cup Destroyed(r)
      /\ Carried(u) = Carried(x) \cup Carried(r)
  BY <1>1, <1>3, <1>4, <1>5, <1>6
<1> QED
  BY <1>7 DEF u

\* r is the end of t, without its first k steps.
End(t, k, r) ==
  /\ r \in Seq(Step) /\ Len(t) = Len(r) + k
  /\ \A q \in DOMAIN r : q + k \in DOMAIN t /\ r[q] = t[q + k]

\* New steps x are done before the rest of t.
LEMMA OrderedKept ==
  ASSUME NEW t \in Seq(Step), Ordered(t), NEW x \in Seq(Step), NEW r, NEW k \in Nat, End(t, k, r),
         x = <<>> \/ \A q \in DOMAIN r : r[q].op # "retain",
         \A p \in DOMAIN x : x[p].op \in {"release", "destroy"},
         \A p, q \in DOMAIN x : x[p].op = "destroy" /\ x[q].op = "destroy" => p = q,
         Destroyed(x) \cap Destroyed(r) = {},
         Carried(t) \subseteq Carried(r)
  PROVE  Ordered(x \o r)
<1> DEFINE u == x \o r
           m == Len(x)
<1>1. r \in Seq(Step) /\ Len(t) = Len(r) + k
      /\ \A q \in DOMAIN r : q + k \in DOMAIN t /\ r[q] = t[q + k]
  BY DEF End
<1>2. /\ u \in Seq(Step)
      /\ \A p \in DOMAIN u : (\E q \in DOMAIN x : p = q /\ u[p] = x[q])
                             \/ \E q \in DOMAIN r : p = m + q /\ u[p] = r[q]
      /\ Carried(u) = Carried(x) \cup Carried(r)
  BY <1>1, ConcatSteps
<1>3. Len(u) = m + Len(r) /\ m \in Nat /\ Len(r) \in Nat
  BY <1>1, ConcatIs
<1>4. DOMAIN x \subseteq Nat /\ DOMAIN r \subseteq Nat /\ (x = <<>> => m = 0 /\ DOMAIN x = {})
      /\ \A p \in DOMAIN x : p <= m
  BY <1>1
<1> HIDE DEF u, m
<1>5. ASSUME NEW p \in DOMAIN u, u[p].op \notin {"release", "destroy"}
      PROVE  \E q \in DOMAIN r : p = m + q /\ u[p] = r[q] /\ q \in Nat
                                 /\ q + k \in DOMAIN t /\ t[q + k] = r[q]
  BY <1>1, <1>2, <1>4, <1>5
<1>6. ASSUME NEW p \in DOMAIN u, u[p].op = "insert" PROVE p = Len(u)
  <2>1. PICK q \in DOMAIN r : p = m + q /\ u[p] = r[q] /\ q \in Nat
                              /\ q + k \in DOMAIN t /\ t[q + k] = r[q]
    BY <1>5, <1>6
  <2>2. q + k = Len(t)
    BY <1>6, <2>1 DEF Ordered
  <2> QED
    BY <1>1, <1>3, <2>1, <2>2
<1>7. ASSUME NEW p \in DOMAIN u, NEW q \in DOMAIN u, p < q, u[q].op = "retain"
      PROVE  u[p].op = "retain"
  <2>1. PICK j \in DOMAIN r : q = m + j /\ u[q] = r[j] /\ j \in Nat
                              /\ j + k \in DOMAIN t /\ t[j + k] = r[j]
    BY <1>5, <1>7
  <2>2. x = <<>> /\ m = 0 /\ DOMAIN x = {}
    BY <1>4, <1>7, <2>1
  <2>3. PICK i \in DOMAIN r : p = m + i /\ u[p] = r[i]
    BY <1>2, <2>2
  <2>4. i \in Nat /\ i + k \in DOMAIN t /\ t[i + k] = r[i]
    BY <1>1, <1>4
  <2>5. i + k < j + k
    BY <1>3, <1>7, <2>1, <2>3, <2>4
  <2>6. t[i + k].op = "retain"
    BY <1>7, <2>1, <2>4, <2>5 DEF Ordered
  <2> QED
    BY <2>3, <2>4, <2>6
<1>8. ASSUME NEW p \in DOMAIN u, NEW q \in DOMAIN u,
             u[p].op = "destroy", u[q].op = "destroy", u[q].a = u[p].a
      PROVE  p = q
  <2>1. ASSUME NEW i \in DOMAIN x, NEW j \in DOMAIN r PROVE
          ~(x[i].op = "destroy" /\ r[j].op = "destroy" /\ x[i].a = r[j].a)
    BY DEF Destroyed
  <2>2. CASE \E i \in DOMAIN x : p = i /\ u[p] = x[i]
    <3>1. \E j \in DOMAIN x : q = j /\ u[q] = x[j]
      BY <1>2, <1>8, <2>1, <2>2
    <3> QED
      BY <1>8, <2>2, <3>1
  <2>3. CASE \E i \in DOMAIN r : p = m + i /\ u[p] = r[i]
    <3>1. PICK i \in DOMAIN r : p = m + i /\ u[p] = r[i]
      BY <2>3
    <3>2. PICK j \in DOMAIN r : q = m + j /\ u[q] = r[j]
      BY <1>2, <1>8, <2>1, <3>1
    <3>3. i \in Nat /\ j \in Nat /\ i + k \in DOMAIN t /\ j + k \in DOMAIN t
          /\ t[i + k] = r[i] /\ t[j + k] = r[j]
      BY <1>1, <1>4
    <3>4. i + k = j + k
      BY <1>8, <3>1, <3>2, <3>3 DEF Ordered
    <3>5. i = j
      BY <3>3, <3>4
    <3> QED
      BY <3>1, <3>2, <3>5
  <2> QED
    BY <1>2, <2>2, <2>3
<1>9. ASSUME NEW p \in DOMAIN u, u[p].op = "retain" PROVE u[p].a \in Carried(u)
  <2>1. PICK q \in DOMAIN r : p = m + q /\ u[p] = r[q] /\ q \in Nat
                              /\ q + k \in DOMAIN t /\ t[q + k] = r[q]
    BY <1>5, <1>9
  <2>2. t[q + k].a \in Carried(t)
    BY <1>9, <2>1 DEF Ordered
  <2> QED
    BY <1>2, <2>1, <2>2
<1>10. Ordered(u)
  BY <1>6, <1>7, <1>8, <1>9 DEF Ordered
<1> QED
  BY <1>10 DEF u

\* A step of a call: objects o become g, and instead of the first k steps of t
\* the steps x are to be done.  Only d, to which nothing else points, may
\* change its items or be freed.
GoesOn(o, n, t, g, x, r, k, d) ==
  /\ g \in Objs /\ x \in Seq(Step) /\ k \in Nat /\ End(t, k, r) /\ d \in Ptr
  /\ d = Null \/ (Unowned(o, n, r, d) /\ d \notin Idles(o, t))
  /\ \A b \in Addr : o[b] = Null => g[b] = Null
  /\ \A b \in Addr \ {d} : o[b] # Null =>
       /\ g[b] # Null /\ g[b].kind = o[b].kind /\ g[b].val = o[b].val
       /\ g[b].items = o[b].items
       /\ b \notin Carried(t) /\ o[b].r = 0 => g[b].r = 0
  /\ d \in Addr /\ g[d] # Null =>
       /\ g[d].kind = o[d].kind /\ g[d].val = o[d].val /\ Shrunk(o[d].items, g[d].items)
  /\ Carried(t) \subseteq Carried(r)
  /\ x = <<>> \/ \A q \in DOMAIN r : r[q].op # "retain"
  /\ \A p \in DOMAIN x :
       /\ x[p].op \in {"release", "destroy"} /\ x[p].item = Elem(Null)
       /\ x[p].op = "destroy" => x[p].a = d
       /\ x[p].op = "release" => Whole(o, t, x[p].a) /\ (x[p].a = d => d = Null)
  /\ \A p, q \in DOMAIN x : x[p].op = "destroy" /\ x[q].op = "destroy" => p = q
  /\ Destroyed(x) \cap Destroyed(r) = {}
  /\ \A b \in Destroyed(x) \cup Destroyed(r) : b \in Addr /\ g[b] # Null /\ g[b].r = 0
  /\ Counted(g, n, x \o r)

\* Nothing that is whole but d is less than that afterwards.
LEMMA WholeKept ==
  ASSUME NEW o, NEW n, NEW t, InvOf(o, n, t), NEW g, NEW x, NEW r, NEW k, NEW d,
         GoesOn(o, n, t, g, x, r, k, d)
  PROVE  /\ \A a : Whole(o, t, a) /\ (a = d => d = Null) => Whole(g, x \o r, a)
         /\ AllWhole(g, n, x \o r)
<1> DEFINE u == x \o r
<1>1. /\ o \in Objs /\ n \in Owns /\ t \in Seq(Step) /\ OwnWhole(o, n, t) /\ ItemsWhole(o, t)
      /\ StepsWhole(o, t)
  BY DEF InvOf, TypesOK, AllWhole
<1>2. /\ g \in Objs /\ x \in Seq(Step) /\ End(t, k, r) /\ d \in Ptr
      /\ d = Null \/ (Unowned(o, n, r, d) /\ d \notin Idles(o, t))
      /\ \A b \in Addr : o[b] = Null => g[b] = Null
      /\ \A b \in Addr \ {d} : o[b] # Null => g[b] # Null /\ g[b].items = o[b].items
      /\ d \in Addr /\ g[d] # Null => Shrunk(o[d].items, g[d].items)
      /\ Carried(t) \subseteq Carried(r)
  BY DEF GoesOn
<1>3. \A p \in DOMAIN x :
       /\ x[p].op \in {"release", "destroy"} /\ x[p].item = Elem(Null)
       /\ x[p].op = "destroy" => x[p].a = d
       /\ x[p].op = "release" => Whole(o, t, x[p].a) /\ (x[p].a = d => d = Null)
  BY DEF GoesOn
<1>4. r \in Seq(Step) /\ \A q \in DOMAIN r : q + k \in DOMAIN t /\ r[q] = t[q + k]
  BY <1>2 DEF End
<1>5. /\ \A p \in DOMAIN u : (\E q \in DOMAIN x : u[p] = x[q]) \/ \E q \in DOMAIN r : u[p] = r[q]
      /\ Destroyed(u) = Destroyed(x) \cup Destroyed(r)
  BY <1>2, <1>4, ConcatSteps
<1> HIDE DEF u
<1>6. Destroyed(u) \subseteq Destroyed(t) \cup {d}
  <2>1. Destroyed(x) \subseteq {d}
    BY <1>3 DEF Destroyed
  <2>2. Destroyed(r) \subseteq Destroyed(t)
    BY <1>4 DEF Destroyed
  <2> QED
    BY <1>5, <2>1, <2>2
<1>7. ASSUME NEW a, Whole(o, t, a), a = d => d = Null
      PROVE  Whole(g, u, a)
  BY <1>2, <1>6, <1>7 DEF Whole
<1>8. OwnWhole(g, n, u)
  <2> SUFFICES ASSUME NEW w \in Var PROVE Whole(g, u, n[w])
    BY DEF OwnWhole
  <2>1. Whole(o, t, n[w])
    BY <1>1 DEF OwnWhole
  <2>2. n[w] = d => d = Null
    BY <1>2 DEF Unowned
  <2> QED
    BY <1>7, <2>1, <2>2
<1>9. ItemsWhole(g, u)
  <2> SUFFICES ASSUME NEW a \in Addr, g[a] # Null, NEW p \in DOMAIN g[a].items
               PROVE  Whole(g, u, g[a].items[p].k) /\ Whole(g, u, g[a].items[p].v)
    BY DEF ItemsWhole
  <2>1. o[a] # Null
    BY <1>2
  <2>2. \E q \in DOMAIN o[a].items : g[a].items[p] = o[a].items[q]
    <3>1. CASE a = d
      <4>1. Shrunk(o[a].items, g[a].items)
        BY <1>2, <3>1
      <4>2. PICK f \in [DOMAIN g[a].items -> DOMAIN o[a].items] :
              \A q \in DOMAIN g[a].items : g[a].items[q] = o[a].items[f[q]]
        BY <4>1 DEF Shrunk
      <4> QED
        BY <4>2
    <3>2. CASE a # d
      BY <1>2, <2>1, <3>2
    <3> QED
      BY <3>1, <3>2
  <2>3. PICK q \in DOMAIN o[a].items : g[a].items[p] = o[a].items[q]
    BY <2>2
  <2>4. Whole(o, t, o[a].items[q].k) /\ Whole(o, t, o[a].items[q].v)
    BY <1>1, <2>1 DEF ItemsWhole
  <2>5. (o[a].items[q].k = d => d = Null) /\ (o[a].items[q].v = d => d = Null)
    BY <1>2, <2>1 DEF Unowned
  <2> QED
    BY <1>7, <2>3, <2>4, <2>5
<1>10. StepsWhole(g, u)
  <2> SUFFICES ASSUME NEW p \in DOMAIN u
               PROVE  /\ Whole(g, u, u[p].item.k) /\ Whole(g, u, u[p].item.v)
                      /\ u[p].op # "destroy" => Whole(g, u, u[p].a)
    BY DEF StepsWhole
  <2>1. CASE \E q \in DOMAIN x : u[p] = x[q]
    <3>1. PICK q \in DOMAIN x : u[p] = x[q]
      BY <2>1
    <3>2. x[q].op \in {"release", "destroy"} /\ x[q].item = Elem(Null)
          /\ (x[q].op = "release" => Whole(o, t, x[q].a) /\ (x[q].a = d => d = Null))
      BY <1>3
    <3>3. x[q].item.k = Null /\ x[q].item.v = Null
      BY <3>2, ElemIs DEF Ptr
    <3>4. Whole(g, u, Null)
      BY DEF Whole
    <3>5. x[q].op # "destroy" => Whole(g, u, x[q].a)
      BY <1>7, <3>2
    <3> QED
      BY <3>1, <3>3, <3>4, <3>5
  <2>2. CASE \E q \in DOMAIN r : u[p] = r[q]
    <3>1. PICK q \in DOMAIN r : u[p] = r[q]
      BY <2>2
    <3>2. Whole(o, t, r[q].item.k) /\ Whole(o, t, r[q].item.v)
          /\ (r[q].op # "destroy" => Whole(o, t, r[q].a))
      BY <1>1, <1>4 DEF StepsWhole
    <3>3. (r[q].item.k = d => d = Null) /\ (r[q].item.v = d => d = Null)
      BY <1>2 DEF Unowned
    <3>4. r[q].op # "destroy" /\ r[q].a = d => d = Null
      <4>1. CASE r[q].op = "release"
        BY <1>2, <4>1 DEF Unowned
      <4>2. CASE r[q].op = "retain"
        <5>1. r[q].a \in Carried(t)
          BY <1>4, <4>2 DEF InvOf, Ordered
        <5>2. r[q].a \in Carried(r)
          BY <1>2, <5>1
        <5> QED
          BY <1>2, <5>2 DEF Carried, Unowned
      <4>3. CASE r[q].op = "insert"
        <5>1. InsertOK(o, n, t, r[q].a, r[q].item)
          BY <1>4, <4>3 DEF InvOf, StepsOK, StepOK
        <5>2. r[q].a \in Reached(o, Roots(o, n, t))
          BY <5>1 DEF InsertOK
        <5>3. CASE d # Null
          <6>1. Unowned(o, n, r, d) /\ d \notin Idles(o, t)
            BY <1>2, <5>3
          <6>2. d \notin Roots(o, n, t)
            BY <1>2, <6>1 DEF Unowned, Roots, Carried
          <6>3. \A b \in Addr : d \notin Pointed(o, b)
            BY <6>1 DEF Unowned, Pointed
          <6>4. Roots(o, n, t) \subseteq Addr
            BY DEF Roots, Idles, Carried
          <6>5. r[q].a # d
            BY <5>2, <6>2, <6>3, <6>4, ReachKept
          <6> QED
            BY <6>5
        <5> QED
          BY <5>3
      <4>4. r[q] \in Step
        BY <1>4
      <4>5. r[q].op \in {"retain", "release", "destroy", "insert"}
        BY <4>4 DEF Step
      <4> QED
        BY <4>1, <4>2, <4>3, <4>5
    <3>5. Whole(g, u, r[q].item.k) /\ Whole(g, u, r[q].item.v)
          /\ (r[q].op # "destroy" => Whole(g, u, r[q].a))
      BY <1>7, <3>2, <3>3, <3>4
    <3> QED
      BY <3>1, <3>5
  <2> QED
    BY <1>5, <2>1, <2>2
<1> QED
  BY <1>7, <1>8, <1>9, <1>10 DEF u, AllWhole

\* Such a step preserves the invariant.
LEMMA GoOnKept ==
  ASSUME NEW o, NEW n, NEW t, InvOf(o, n, t), NEW g, NEW x, NEW r, NEW k, NEW d,
         GoesOn(o, n, t, g, x, r, k, d)
  PROVE  InvOf(g, n, x \o r)
<1> DEFINE u == x \o r
<1>1. /\ o \in Objs /\ n \in Owns /\ t \in Seq(Step) /\ DataOK(o) /\ Ordered(t) /\ StepsOK(o, n, t)
  BY DEF InvOf, TypesOK
<1>2. /\ g \in Objs /\ x \in Seq(Step) /\ End(t, k, r) /\ k \in Nat /\ r \in Seq(Step)
      /\ \A q \in DOMAIN r : q + k \in DOMAIN t /\ r[q] = t[q + k]
  BY DEF GoesOn, End
<1>3. /\ u \in Seq(Step)
      /\ \A p \in DOMAIN u : (\E q \in DOMAIN x : u[p] = x[q]) \/ \E q \in DOMAIN r : u[p] = r[q]
      /\ \A q \in DOMAIN r : Len(x) + q \in DOMAIN u /\ u[Len(x) + q] = r[q]
      /\ Destroyed(u) = Destroyed(x) \cup Destroyed(r)
      /\ Carried(u) = Carried(x) \cup Carried(r)
  <2> x \in Seq(Step) /\ r \in Seq(Step)
    BY <1>2
  <2>1. /\ x \o r \in Seq(Step)
        /\ \A p \in DOMAIN (x \o r) : (\E q \in DOMAIN x : p = q /\ (x \o r)[p] = x[q])
                                      \/ \E q \in DOMAIN r : p = Len(x) + q /\ (x \o r)[p] = r[q]
        /\ \A q \in DOMAIN r : Len(x) + q \in DOMAIN (x \o r) /\ (x \o r)[Len(x) + q] = r[q]
        /\ Destroyed(x \o r) = Destroyed(x) \cup Destroyed(r)
        /\ Carried(x \o r) = Carried(x) \cup Carried(r)
    BY ConcatSteps
  <2> QED
    BY <2>1
<1>4. Ordered(u)
  BY <1>1, <1>2, OrderedKept DEF GoesOn
<1>5. AllWhole(g, n, u)
  BY WholeKept
<1> HIDE DEF u
<1>6. ItemsWhole(g, u) /\ StepsWhole(g, u)
  BY <1>5 DEF AllWhole
<1>7. ObjStep(o, g)
  <2> SUFFICES ASSUME NEW b \in Addr, g[b] # Null PROVE Kept(o, g, b)
    BY DEF ObjStep
  <2>1. o[b] # Null
    BY DEF GoesOn
  <2>2. CASE b = d
    BY <2>1, <2>2 DEF GoesOn, Kept
  <2>3. CASE b # d
    <3>1. g[b].kind = o[b].kind /\ g[b].val = o[b].val /\ g[b].items = o[b].items
      BY <2>1, <2>3 DEF GoesOn
    <3>2. o[b].items \in Seq(Item)
      BY <1>1, <2>1, ItemsOfType
    <3>3. Shrunk(o[b].items, g[b].items)
      BY <3>1, <3>2, ShrunkSame
    <3> QED
      BY <2>1, <3>1, <3>3 DEF Kept
  <2> QED
    BY <2>2, <2>3
<1>8. DataOK(g)
  BY <1>1, <1>2, <1>6, <1>7, DataKept
<1>9. Roots(o, n, t) \subseteq Roots(g, n, u)
  <2>1. Carried(t) \subseteq Carried(u)
    BY <1>3 DEF GoesOn
  <2>2. Idles(o, t) \subseteq Idles(g, u) \cup Carried(u)
    <3> SUFFICES ASSUME NEW b \in Idles(o, t), b \notin Carried(t) PROVE b \in Idles(g, u)
      BY <2>1
    <3>1. b \in Addr /\ o[b] # Null /\ o[b].r = 0 /\ b \notin Destroyed(t)
      BY DEF Idles
    <3>2. b # d
      <4>1. d = Null \/ d \notin Idles(o, t)
        BY DEF GoesOn
      <4> QED
        BY <3>1, <4>1, MmCollectionsAssumption
    <3>3. g[b] # Null /\ g[b].r = 0
      BY <3>1, <3>2 DEF GoesOn
    <3>4. Destroyed(r) \subseteq Destroyed(t)
      BY <1>2 DEF Destroyed
    <3>5. Destroyed(x) \subseteq {d}
      <4>1. \A p \in DOMAIN x : x[p].op = "destroy" => x[p].a = d
        BY DEF GoesOn
      <4> QED
        BY <4>1 DEF Destroyed
    <3> QED
      BY <1>3, <3>1, <3>2, <3>3, <3>4, <3>5 DEF Idles
  <2> QED
    BY <2>1, <2>2 DEF Roots
<1>10. StepsOK(g, n, u)
  <2> SUFFICES ASSUME NEW p \in DOMAIN u PROVE StepOK(g, n, u, u[p])
    BY DEF StepsOK
  <2>0. \A q \in DOMAIN u : u[q].op = "destroy" =>
           u[q].a \in Addr /\ g[u[q].a] # Null /\ g[u[q].a].r = 0
    <3>1. \A b \in Destroyed(u) : b \in Addr /\ g[b] # Null /\ g[b].r = 0
      BY <1>3 DEF GoesOn
    <3> QED
      BY <3>1 DEF Destroyed
  <2>1. CASE \E q \in DOMAIN x : u[p] = x[q]
    <3>1. PICK q \in DOMAIN x : u[p] = x[q]
      BY <2>1
    <3>2. x[q].op \in {"release", "destroy"} /\ x[q].item = Elem(Null)
      BY DEF GoesOn
    <3>3. u[p].op = "destroy" => u[p].a # Null
      BY <2>0, MmCollectionsAssumption
    <3> QED
      BY <2>0, <3>1, <3>2, <3>3 DEF StepOK
  <2>2. CASE \E q \in DOMAIN r : u[p] = r[q]
    <3>1. PICK q \in DOMAIN r : u[p] = r[q]
      BY <2>2
    <3>2. StepOK(o, n, t, u[p])
      BY <1>1, <1>2, <3>1 DEF StepsOK
    <3>3. ASSUME u[p].op = "insert" PROVE InsertOK(g, n, u, u[p].a, u[p].item)
      <4> DEFINE m == u[p].a
                 i == u[p].item
      <4>1. InsertOK(o, n, t, m, i)
        BY <3>2, <3>3 DEF StepOK
      <4>2. Whole(g, u, m) /\ Whole(g, u, i.k)
        BY <1>6, <3>3 DEF StepsWhole
      <4> HIDE DEF m, i
      <4>3. m \in Addr /\ i.k \in Addr /\ m \in Reached(o, Roots(o, n, t))
        BY <4>1 DEF InsertOK
      <4>4. g[m] # Null /\ g[i.k] # Null
        BY <4>2, <4>3, MmCollectionsAssumption DEF Whole
      <4>5. m \in Reached(g, Roots(g, n, u))
        <5>1. d \notin Roots(o, n, t) /\ \A b \in Addr : d \notin Pointed(o, b)
          <6>1. CASE d = Null
            BY <6>1, MmCollectionsAssumption DEF Roots, Idles, Carried, Pointed
          <6>2. CASE d # Null
            <7>1. Unowned(o, n, r, d) /\ d \notin Idles(o, t) /\ Carried(t) \subseteq Carried(r)
              BY <6>2 DEF GoesOn
            <7>2. d \notin Roots(o, n, t)
              BY <7>1 DEF Unowned, Roots, Carried
            <7>3. \A b \in Addr : d \notin Pointed(o, b)
              BY <7>1 DEF Unowned, Pointed
            <7> QED
              BY <7>2, <7>3
          <6> QED
            BY <6>1, <6>2
        <5>2. Roots(o, n, t) \subseteq Addr
          BY DEF Roots, Idles, Carried
        <5>3. \A b \in Addr \ {d, m} : Pointed(o, b) \subseteq Pointed(g, b)
          <6> SUFFICES ASSUME NEW b \in Addr \ {d, m} PROVE Pointed(o, b) \subseteq Pointed(g, b)
            OBVIOUS
          <6>1. o[b] # Null => g[b] # Null /\ g[b].items = o[b].items
            BY DEF GoesOn
          <6> QED
            BY <6>1 DEF Pointed
        <5> QED
          BY <1>9, <4>3, <5>1, <5>2, <5>3, ReachKept
      <4>6. InsertOK(g, n, u, m, i)
        BY <1>1, <1>2, <1>6, <1>7, <4>1, <4>4, <4>5, InsertKept DEF DataOK
      <4> QED
        BY <4>6 DEF m, i
    <3> QED
      BY <2>0, <3>2, <3>3 DEF StepOK
  <2> QED
    BY <1>3, <2>1, <2>2
<1>11. Counted(g, n, u)
  BY DEF GoesOn, u
<1>12. PlainOK(g)
  <2> SUFFICES ASSUME NEW b \in Addr, g[b] # Null, g[b].kind \notin Maps,
                      NEW p \in DOMAIN g[b].items
               PROVE  g[b].items[p].k = Null
    BY DEF PlainOK
  <2>1. o[b] # Null /\ PlainOK(o)
    BY DEF GoesOn, InvOf
  <2>2. CASE b = d
    <3>1. g[b].kind = o[b].kind /\ Shrunk(o[b].items, g[b].items)
      BY <2>2 DEF GoesOn
    <3>2. \E q \in DOMAIN o[b].items : g[b].items[p] = o[b].items[q]
      BY <3>1 DEF Shrunk
    <3> QED
      BY <2>1, <3>1, <3>2 DEF PlainOK
  <2>3. CASE b # d
    BY <2>1, <2>3 DEF GoesOn, PlainOK
  <2> QED
    BY <2>2, <2>3
<1> QED
  BY <1>1, <1>2, <1>3, <1>4, <1>5, <1>8, <1>10, <1>11, <1>12 DEF InvOf, TypesOK, u

\* The first step, and the rest.
LEMMA HeadIs ==
  ASSUME NEW o, NEW n, NEW t, InvOf(o, n, t), t # <<>>
  PROVE  /\ Head(t) \in Step /\ Tail(t) \in Seq(Step) /\ End(t, 1, Tail(t))
         /\ <<>> \o Tail(t) = Tail(t)
         /\ 1 \in DOMAIN t /\ Head(t) = t[1]
         /\ \A p \in DOMAIN t : p = 1 \/ \E q \in DOMAIN Tail(t) : p = q + 1 /\ Tail(t)[q] = t[p]
         /\ StepOK(o, n, t, Head(t))
         /\ Head(t).op # "destroy" => Whole(o, t, Head(t).a)
         /\ Head(t).op # "retain" => \A p \in DOMAIN t : t[p].op # "retain"
         /\ Head(t).op # "insert" => Carried(t) \subseteq Carried(Tail(t))
         /\ Destroyed(Tail(t)) \subseteq Destroyed(t)
         /\ Head(t).op # "insert" => \A a \in Addr :
              /\ Debt(t, a) \in Int /\ Debt(Tail(t), a) \in Int
              /\ Debt(t, a) = Debt(Tail(t), a)
                   + (IF Head(t).op = "release" /\ Head(t).a = a THEN 1 ELSE 0)
                   - (IF Head(t).op = "retain" /\ Head(t).a = a THEN 1 ELSE 0)
<1> DEFINE h == Head(t)
           r == Tail(t)
<1>1. t \in Seq(Step)
  BY DEF InvOf, TypesOK
<1>2. /\ r \in Seq(Step) /\ h \in Step /\ h = t[1]
      /\ Len(t) \in Nat \ {0} /\ Len(r) = Len(t) - 1
      /\ \A q \in 1 .. Len(t) - 1 : r[q] = t[q + 1]
      /\ \A X : Count(t, X) = Count(<<h>>, X) + Count(r, X)
  BY <1>1, TailIs
<1> HIDE DEF h, r
<1>3. DOMAIN t = 1 .. Len(t) /\ DOMAIN r = 1 .. Len(t) - 1
  BY <1>1, <1>2
<1>4. End(t, 1, r)
  BY <1>2, <1>3 DEF End
<1>5. <<>> \o r = r
  BY <1>2, ConcatEmptySeq
<1>6. 1 \in DOMAIN t
  BY <1>2, <1>3
<1>7. ASSUME NEW p \in DOMAIN t, p # 1
      PROVE  \E q \in DOMAIN r : p = q + 1 /\ r[q] = t[p]
  <2>1. p - 1 \in DOMAIN r /\ p = (p - 1) + 1
    BY <1>2, <1>3, <1>7
  <2>2. r[p - 1] = t[p]
    BY <1>2, <1>3, <2>1
  <2> QED
    BY <2>1, <2>2
<1>8. StepOK(o, n, t, h)
  BY <1>2, <1>6 DEF InvOf, StepsOK
<1>9. h.op # "destroy" => Whole(o, t, h.a)
  BY <1>2, <1>6 DEF InvOf, AllWhole, StepsWhole
<1>10. ASSUME h.op # "retain", NEW p \in DOMAIN t PROVE t[p].op # "retain"
  <2>1. CASE p = 1
    BY <1>2, <1>10, <2>1
  <2>2. CASE p # 1
    <3>1. 1 < p
      BY <1>3, <2>2
    <3>2. t[p].op = "retain" => t[1].op = "retain"
      BY <1>6, <3>1 DEF InvOf, Ordered
    <3> QED
      BY <1>2, <1>10, <3>2
  <2> QED
    BY <2>1, <2>2
<1>11. ASSUME h.op # "insert" PROVE h.item.k = Null /\ h.item.v = Null
  <2>1. h.item = Elem(Null)
    BY <1>8, <1>11 DEF StepOK
  <2> QED
    BY <2>1, ElemIs DEF Ptr
<1>12. ASSUME h.op # "insert" PROVE Carried(t) \subseteq Carried(r)
  <2> SUFFICES ASSUME NEW y \in Carried(t) PROVE y \in Carried(r)
    OBVIOUS
  <2>1. PICK p \in DOMAIN t : y \in {t[p].item.k, t[p].item.v}
    BY DEF Carried
  <2>2. y \in Addr /\ y # Null
    BY MmCollectionsAssumption DEF Carried
  <2>3. p # 1
    BY <1>2, <1>11, <1>12, <2>1, <2>2
  <2>4. PICK q \in DOMAIN r : p = q + 1 /\ r[q] = t[p]
    BY <1>7, <2>3
  <2> QED
    BY <2>1, <2>2, <2>4 DEF Carried
<1>13. Destroyed(r) \subseteq Destroyed(t)
  BY <1>4 DEF End, Destroyed
<1>14. ASSUME h.op # "insert", NEW a \in Addr
       PROVE  /\ Debt(t, a) \in Int /\ Debt(r, a) \in Int
              /\ Debt(t, a) = Debt(r, a)
                   + (IF h.op = "release" /\ h.a = a THEN 1 ELSE 0)
                   - (IF h.op = "retain" /\ h.a = a THEN 1 ELSE 0)
  <2> DEFINE z == << h >>
  <2>1. z \in Seq(Step)
    BY <1>2
  <2>2. Debt(z, a) = One(h.item.k, a) + One(h.item.v, a)
                       + (IF h.op = "release" /\ h.a = a THEN 1 ELSE 0)
                       - (IF h.op = "retain" /\ h.a = a THEN 1 ELSE 0)
    BY <1>2, DebtOne
  <2>3. One(h.item.k, a) = 0 /\ One(h.item.v, a) = 0
    BY <1>11, <1>14, MmCollectionsAssumption DEF One
  <2>4. t = z \o r
    <3>1. t = << Head(t) >> \o Tail(t)
      BY <1>1
    <3> QED
      BY <3>1 DEF h, r
  <2> HIDE DEF z
  <2>5. Debt(z \o r, a) = Debt(z, a) + Debt(r, a) /\ Debt(z, a) \in Int /\ Debt(r, a) \in Int
    BY <1>2, <2>1, DebtConcat
  <2> QED
    BY <2>2, <2>3, <2>4, <2>5
<1> QED
  BY <1>2, <1>4, <1>5, <1>6, <1>7, <1>8, <1>9, <1>10, <1>12, <1>13, <1>14 DEF h, r

\* The count of an object with n owners.
LEMMA CountedIs ==
  ASSUME NEW o, NEW n, NEW t, InvOf(o, n, t), NEW a \in Addr, o[a] # Null
  PROVE  /\ o[a].r = OwnersOf(o, n, t, a) /\ o[a].r \in Nat
         /\ Debt(t, a) \in Int
         /\ Pointers(n, a) \in Nat /\ Holds(ItemsOf(o), a) \in Nat
         /\ o[a].r = Pointers(n, a) + Holds(ItemsOf(o), a) + Debt(t, a)
<1>1. o \in Objs /\ n \in [Var -> Ptr] /\ t \in Seq(Step) /\ o[a].r = OwnersOf(o, n, t, a)
  BY DEF InvOf, TypesOK, Counted, Owns
<1>2. o[a].r \in Nat /\ ItemsOf(o) \in Tables
  BY <1>1, ItemsOfType
<1> QED
  BY <1>1, <1>2, HoldsZero, OwnZero, DebtIs DEF OwnersOf

\* A count is taken.
LEMMA RetainKept ==
  ASSUME NEW o, NEW n, NEW t, InvOf(o, n, t), t # <<>>, Head(t).op = "retain"
  PROVE  InvOf(WithR(o, Head(t).a, o[Head(t).a].r + 1), n, Tail(t))
<1> DEFINE h == Head(t)
           r == Tail(t)
           a == h.a
           c == o[a].r + 1
           g == WithR(o, a, c)
<1>1. /\ h \in Step /\ r \in Seq(Step) /\ End(t, 1, r) /\ <<>> \o r = r
      /\ 1 \in DOMAIN t /\ h = t[1] /\ StepOK(o, n, t, h) /\ Whole(o, t, a)
      /\ Carried(t) \subseteq Carried(r) /\ Destroyed(r) \subseteq Destroyed(t)
      /\ \A b \in Addr : /\ Debt(t, b) \in Int /\ Debt(r, b) \in Int
                         /\ Debt(t, b) = Debt(r, b) - (IF a = b THEN 1 ELSE 0)
  BY HeadIs
<1> HIDE DEF h, r
<1>2. o \in Objs /\ n \in Owns /\ h.op = "retain"
  BY DEF InvOf, TypesOK, h
<1>3. a \in Addr /\ o[a] # Null /\ a \notin Destroyed(t)
  BY <1>1, <1>2 DEF StepOK, Whole
<1>4. o[a].r \in Nat
  BY <1>2, <1>3, ItemsOfType
<1>5. /\ g \in Objs /\ g[a] # Null /\ g[a].r = o[a].r + 1
      /\ g[a].kind = o[a].kind /\ g[a].val = o[a].val /\ g[a].items = o[a].items
      /\ \A b \in Addr \ {a} : g[b] = o[b]
      /\ ItemsOf(g) = ItemsOf(o)
  <2>1. c \in Nat
    BY <1>4
  <2> HIDE DEF a, c
  <2>2. /\ g \in Objs /\ g[a] # Null /\ g[a].r = c
        /\ g[a].kind = o[a].kind /\ g[a].val = o[a].val /\ g[a].items = o[a].items
        /\ \A b \in Addr \ {a} : g[b] = o[b]
        /\ ItemsOf(g) = ItemsOf(o)
    BY <1>2, <1>3, <2>1, SetR
  <2> QED
    BY <2>2 DEF c
<1>6. a \in Carried(t)
  BY <1>1, <1>2 DEF InvOf, Ordered
<1> HIDE DEF a, g, c
<1>7. Counted(g, n, r)
  <2> SUFFICES ASSUME NEW b \in Addr, g[b] # Null PROVE g[b].r = OwnersOf(g, n, r, b)
    BY DEF Counted
  <2>1. o[b] # Null
    BY <1>3, <1>5
  <2>2. /\ o[b].r = Pointers(n, b) + Holds(ItemsOf(o), b) + Debt(t, b)
        /\ Pointers(n, b) \in Nat /\ Holds(ItemsOf(o), b) \in Nat
    BY <2>1, CountedIs
  <2>3. Debt(t, b) = Debt(r, b) - (IF a = b THEN 1 ELSE 0) /\ Debt(r, b) \in Int
    BY <1>1 DEF a
  <2>4. g[b].r = o[b].r + (IF a = b THEN 1 ELSE 0)
    <3>1. o[b].r \in Nat
      BY <2>1, CountedIs
    <3>2. CASE a = b
      BY <1>5, <3>2
    <3>3. CASE a # b
      BY <1>5, <3>1, <3>3
    <3> QED
      BY <3>2, <3>3
  <2>5. g[b].r = Pointers(n, b) + Holds(ItemsOf(g), b) + Debt(r, b)
    BY <1>5, <2>2, <2>3, <2>4
  <2> QED
    BY <2>5 DEF OwnersOf
<1>8. \A b \in Destroyed(r) : b \in Addr /\ g[b] # Null /\ g[b].r = 0
  <2> SUFFICES ASSUME NEW b \in Destroyed(r) PROVE b \in Addr /\ g[b] # Null /\ g[b].r = 0
    OBVIOUS
  <2>1. b \in Destroyed(t)
    BY <1>1
  <2>2. b \in Addr /\ o[b] # Null /\ o[b].r = 0
    BY <2>1 DEF Destroyed, InvOf, StepsOK, StepOK
  <2> QED
    BY <1>3, <1>5, <2>1, <2>2
<1>9. GoesOn(o, n, t, g, <<>>, r, 1, Null)
  <2>1. DOMAIN (<<>>) = {} /\ Destroyed(<<>>) = {} /\ <<>> \in Seq(Step)
    BY DEF Destroyed
  <2>2. Null \in Ptr /\ Null \notin Addr
    BY MmCollectionsAssumption DEF Ptr
  <2>3. \A b \in Addr : o[b] = Null => g[b] = Null
    BY <1>3, <1>5
  <2>4. \A b \in Addr : o[b] # Null =>
          /\ g[b] # Null /\ g[b].kind = o[b].kind /\ g[b].val = o[b].val
          /\ g[b].items = o[b].items
          /\ b \notin Carried(t) /\ o[b].r = 0 => g[b].r = 0
    BY <1>5, <1>6
  <2> QED
    BY <1>1, <1>5, <1>7, <1>8, <2>1, <2>2, <2>3, <2>4 DEF GoesOn
<1>10. InvOf(g, n, <<>> \o r)
  BY <1>9, GoOnKept
<1> QED
  BY <1>1, <1>10 DEF r, g, c, a, h

\* What an object with steps that destroy it is.
LEMMA DestroyedIs ==
  ASSUME NEW o, NEW n, NEW t, InvOf(o, n, t), NEW b \in Destroyed(t)
  PROVE  b \in Addr /\ o[b] # Null /\ o[b].r = 0
BY DEF Destroyed, InvOf, StepsOK, StepOK

\* Nothing is given up.
LEMMA ReleaseNullKept ==
  ASSUME NEW o, NEW n, NEW t, InvOf(o, n, t), t # <<>>, Head(t).op = "release",
         Head(t).a = Null
  PROVE  InvOf(o, n, Tail(t))
<1> DEFINE h == Head(t)
           r == Tail(t)
<1>1. /\ h \in Step /\ r \in Seq(Step) /\ End(t, 1, r) /\ <<>> \o r = r
      /\ Carried(t) \subseteq Carried(r) /\ Destroyed(r) \subseteq Destroyed(t)
      /\ \A b \in Addr : Debt(t, b) = Debt(r, b) + (IF h.a = b THEN 1 ELSE 0)
      /\ \A b \in Addr : Debt(r, b) \in Int
  BY HeadIs
<1>2. \A b \in Addr : Debt(t, b) = Debt(r, b)
  BY <1>1, MmCollectionsAssumption
<1> HIDE DEF h, r
<1>3. o \in Objs /\ Counted(o, n, t)
  BY DEF InvOf, TypesOK
<1>4. Counted(o, n, r)
  BY <1>2, <1>3 DEF Counted, OwnersOf
<1>5. GoesOn(o, n, t, o, <<>>, r, 1, Null)
  <2>1. DOMAIN (<<>>) = {} /\ Destroyed(<<>>) = {} /\ <<>> \in Seq(Step)
    BY DEF Destroyed
  <2>2. Null \in Ptr /\ Null \notin Addr
    BY MmCollectionsAssumption DEF Ptr
  <2>3. \A b \in Destroyed(r) : b \in Addr /\ o[b] # Null /\ o[b].r = 0
    BY <1>1, DestroyedIs
  <2> QED
    BY <1>1, <1>3, <1>4, <2>1, <2>2, <2>3 DEF GoesOn
<1>6. InvOf(o, n, <<>> \o r)
  BY <1>5, GoOnKept
<1> QED
  BY <1>1, <1>6 DEF r

\* A count that is given up is one of at least one; without it, each object has
\* a count for each owner but one.
LEMMA ReleaseCounted ==
  ASSUME NEW o, NEW n, NEW t, InvOf(o, n, t), t # <<>>, Head(t).op = "release",
         NEW a, a = Head(t).a, a # Null
  PROVE  /\ a \in Addr /\ o[a] # Null /\ a \notin Destroyed(t) /\ o[a].r \in Nat \ {0}
         /\ Counted(WithR(o, a, o[a].r - 1), n, Tail(t))
         /\ o[a].r = 1 => Unowned(o, n, Tail(t), a)
<1> DEFINE h == Head(t)
           r == Tail(t)
           c == o[a].r - 1
           g == WithR(o, a, c)
<1>1. /\ r \in Seq(Step) /\ Whole(o, t, a) /\ End(t, 1, r)
      /\ \A p \in DOMAIN t : t[p].op # "retain"
      /\ \A b \in Addr : Debt(r, b) \in Int /\ Debt(t, b) = Debt(r, b) + (IF a = b THEN 1 ELSE 0)
  BY HeadIs
<1> HIDE DEF h, r
<1>2. o \in Objs /\ n \in [Var -> Ptr] /\ a \in Addr /\ o[a] # Null /\ a \notin Destroyed(t)
  BY <1>1 DEF Whole, InvOf, TypesOK, Owns
<1>3. \A p \in DOMAIN r : ~(r[p].op = "retain" /\ r[p].a = a)
  BY <1>1 DEF End
<1>4. Debt(r, a) \in Nat
  BY <1>1, <1>3, DebtZero
<1>5. ASSUME NEW b \in Addr, o[b] # Null
      PROVE  /\ o[b].r = Pointers(n, b) + Holds(ItemsOf(o), b) + Debt(r, b)
                           + (IF a = b THEN 1 ELSE 0)
             /\ Pointers(n, b) \in Nat /\ Holds(ItemsOf(o), b) \in Nat
             /\ Debt(r, b) \in Int /\ o[b].r \in Nat
  <2>1. /\ o[b].r = Pointers(n, b) + Holds(ItemsOf(o), b) + Debt(t, b)
        /\ Pointers(n, b) \in Nat /\ Holds(ItemsOf(o), b) \in Nat
        /\ o[b].r \in Nat
    <3> HIDE DEF g, c
    <3> QED
      BY <1>5, CountedIs
  <2>2. Debt(r, b) \in Int /\ Debt(t, b) = Debt(r, b) + (IF a = b THEN 1 ELSE 0)
    BY <1>1
  <2> QED
    BY <2>1, <2>2
<1>6. /\ o[a].r = Pointers(n, a) + Holds(ItemsOf(o), a) + Debt(r, a) + 1
      /\ Pointers(n, a) \in Nat /\ Holds(ItemsOf(o), a) \in Nat
  BY <1>2, <1>5
<1>7. o[a].r \in Nat \ {0} /\ c \in Nat
  BY <1>4, <1>6
<1> HIDE DEF c
<1>8. /\ g \in Objs /\ g[a] # Null /\ g[a].r = c
      /\ \A b \in Addr \ {a} : g[b] = o[b]
      /\ ItemsOf(g) = ItemsOf(o)
  BY <1>2, <1>7, SetR
<1> HIDE DEF g
<1>9. Counted(g, n, r)
  <2> SUFFICES ASSUME NEW b \in Addr, g[b] # Null PROVE g[b].r = OwnersOf(g, n, r, b)
    BY DEF Counted
  <2>1. g[b].r = Pointers(n, b) + Holds(ItemsOf(o), b) + Debt(r, b)
    <3>1. CASE a = b
      <4>1. c = Pointers(n, a) + Holds(ItemsOf(o), a) + Debt(r, a)
        BY <1>4, <1>6 DEF c
      <4> QED
        BY <1>8, <3>1, <4>1
    <3>2. CASE a # b
      <4>1. g[b].r = o[b].r /\ o[b] # Null
        BY <1>8, <3>2
      <4> QED
        BY <1>5, <3>2, <4>1
    <3> QED
      BY <3>1, <3>2
  <2> QED
    BY <1>8, <2>1 DEF OwnersOf
<1>10. ASSUME o[a].r = 1 PROVE Unowned(o, n, r, a)
  <2>1. OwnersOf(o, n, r, a) = 0
    BY <1>4, <1>6, <1>10 DEF OwnersOf
  <2> QED
    BY <1>1, <1>2, <1>3, <2>1, OwnersZero
<1> QED
  BY <1>2, <1>7, <1>9, <1>10 DEF c, g, r

\* A count that is not the last is given up.
LEMMA ReleaseSomeKept ==
  ASSUME NEW o, NEW n, NEW t, InvOf(o, n, t), t # <<>>, Head(t).op = "release",
         NEW a, a = Head(t).a, a # Null, o[a].r # 1
  PROVE  InvOf(WithR(o, a, o[a].r - 1), n, Tail(t))
<1> DEFINE r == Tail(t)
           c == o[a].r - 1
           g == WithR(o, a, c)
<1>1. /\ r \in Seq(Step) /\ End(t, 1, r) /\ <<>> \o r = r
      /\ Carried(t) \subseteq Carried(r) /\ Destroyed(r) \subseteq Destroyed(t)
  BY HeadIs
<1>2. /\ a \in Addr /\ o[a] # Null /\ a \notin Destroyed(t) /\ o[a].r \in Nat \ {0}
      /\ Counted(g, n, r)
  BY ReleaseCounted
<1> HIDE DEF r
<1>3. o \in Objs /\ c \in Nat
  BY <1>2 DEF InvOf, TypesOK
<1> HIDE DEF c
<1>4. /\ g \in Objs /\ g[a] # Null /\ g[a].r = c
      /\ g[a].kind = o[a].kind /\ g[a].val = o[a].val /\ g[a].items = o[a].items
      /\ \A b \in Addr \ {a} : g[b] = o[b]
  BY <1>2, <1>3, SetR
<1> HIDE DEF g
<1>5. GoesOn(o, n, t, g, <<>>, r, 1, Null)
  <2>1. DOMAIN (<<>>) = {} /\ Destroyed(<<>>) = {} /\ <<>> \in Seq(Step)
    BY DEF Destroyed
  <2>2. Null \in Ptr /\ Null \notin Addr
    BY MmCollectionsAssumption DEF Ptr
  <2>3. \A b \in Destroyed(r) : b \in Addr /\ g[b] # Null /\ g[b].r = 0
    <3> SUFFICES ASSUME NEW b \in Destroyed(r) PROVE b \in Addr /\ g[b] # Null /\ g[b].r = 0
      OBVIOUS
    <3>1. b \in Destroyed(t)
      BY <1>1
    <3>2. b \in Addr /\ o[b] # Null /\ o[b].r = 0 /\ b # a
      BY <1>2, <3>1, DestroyedIs
    <3> QED
      BY <1>4, <3>2
  <2>4. \A b \in Addr : o[b] = Null => g[b] = Null
    BY <1>2, <1>4
  <2>5. \A b \in Addr : o[b] # Null =>
          /\ g[b] # Null /\ g[b].kind = o[b].kind /\ g[b].val = o[b].val
          /\ g[b].items = o[b].items
          /\ b \notin Carried(t) /\ o[b].r = 0 => g[b].r = 0
    BY <1>2, <1>4
  <2> QED
    BY <1>1, <1>2, <1>4, <2>1, <2>2, <2>3, <2>4, <2>5 DEF GoesOn
<1>6. InvOf(g, n, <<>> \o r)
  BY <1>5, GoOnKept
<1> QED
  BY <1>1, <1>6 DEF r, g, c

\* The last count is given up.
LEMMA ReleaseLastKept ==
  ASSUME NEW o, NEW n, NEW t, InvOf(o, n, t), t # <<>>, Head(t).op = "release",
         NEW a, a = Head(t).a, a # Null, o[a].r = 1
  PROVE  InvOf(WithR(o, a, o[a].r - 1), n, <<Do("destroy", a)>> \o Tail(t))
<1> DEFINE r == Tail(t)
           c == o[a].r - 1
           g == WithR(o, a, c)
           f == Do("destroy", a)
           x == << f >>
<1>1. /\ r \in Seq(Step) /\ End(t, 1, r)
      /\ Carried(t) \subseteq Carried(r) /\ Destroyed(r) \subseteq Destroyed(t)
      /\ \A p \in DOMAIN t : t[p].op # "retain"
  BY HeadIs
<1>2. /\ a \in Addr /\ o[a] # Null /\ a \notin Destroyed(t)
      /\ Counted(g, n, r) /\ Unowned(o, n, r, a)
  BY ReleaseCounted
<1> HIDE DEF r
<1>3. o \in Objs /\ c \in Nat /\ c = 0
  BY DEF InvOf, TypesOK
<1> HIDE DEF c
<1>4. /\ g \in Objs /\ g[a] # Null /\ g[a].r = c
      /\ g[a].kind = o[a].kind /\ g[a].val = o[a].val /\ g[a].items = o[a].items
      /\ \A b \in Addr \ {a} : g[b] = o[b]
  BY <1>2, <1>3, SetR
<1>5. /\ x \in Seq(Step) /\ f.op = "destroy" /\ f.a = a /\ f.item = Elem(Null)
      /\ \A b \in Addr : Debt(x, b) = 0
  BY <1>2, DoIs DEF Ptr
<1>6. DOMAIN x = {1} /\ x[1] = f
  OBVIOUS
<1> HIDE DEF g, f, x
<1>7. Destroyed(x) = {a}
  BY <1>5, <1>6 DEF Destroyed
<1>8. Counted(g, n, x \o r)
  <2>1. \A b \in Addr : Debt(x \o r, b) = Debt(x, b) + Debt(r, b) /\ Debt(r, b) \in Int
    BY <1>1, <1>5, DebtConcat
  <2>2. \A b \in Addr : Debt(x \o r, b) = Debt(r, b)
    BY <1>5, <2>1
  <2> QED
    BY <1>2, <2>2 DEF Counted, OwnersOf
<1>9. GoesOn(o, n, t, g, x, r, 1, a)
  <2>1. a \in Ptr /\ a \notin Idles(o, t)
    BY <1>2 DEF Ptr, Idles
  <2>2. \A b \in Destroyed(x) \cup Destroyed(r) : b \in Addr /\ g[b] # Null /\ g[b].r = 0
    <3> SUFFICES ASSUME NEW b \in Destroyed(x) \cup Destroyed(r)
                 PROVE  b \in Addr /\ g[b] # Null /\ g[b].r = 0
      OBVIOUS
    <3>1. CASE b = a
      BY <1>2, <1>3, <1>4, <3>1
    <3>2. CASE b # a
      <4>1. b \in Addr /\ o[b] # Null /\ o[b].r = 0
        BY <1>1, <1>7, <3>2, DestroyedIs
      <4> QED
        BY <1>4, <3>2, <4>1
    <3> QED
      BY <3>1, <3>2
  <2>3. \A b \in Addr : o[b] = Null => g[b] = Null
    BY <1>2, <1>4
  <2>4. \A b \in Addr \ {a} : o[b] # Null =>
          /\ g[b] # Null /\ g[b].kind = o[b].kind /\ g[b].val = o[b].val
          /\ g[b].items = o[b].items
          /\ b \notin Carried(t) /\ o[b].r = 0 => g[b].r = 0
    BY <1>4
  <2>5. Shrunk(o[a].items, g[a].items)
    BY <1>2, <1>3, <1>4, ItemsOfType, ShrunkSame
  <2>6. \A p \in DOMAIN x :
          /\ x[p].op \in {"release", "destroy"} /\ x[p].item = Elem(Null)
          /\ x[p].op = "destroy" => x[p].a = a
          /\ x[p].op = "release" => FALSE
    BY <1>5, <1>6
  <2>7. \A p, q \in DOMAIN x : x[p].op = "destroy" /\ x[q].op = "destroy" => p = q
    BY <1>6
  <2>8. Destroyed(x) \cap Destroyed(r) = {}
    BY <1>1, <1>2, <1>7
  <2>9. \A q \in DOMAIN r : r[q].op # "retain"
    BY <1>1 DEF End
  <2> QED
    BY <1>1, <1>2, <1>4, <1>5, <1>8, <2>1, <2>2, <2>3, <2>4, <2>5, <2>6, <2>7, <2>8, <2>9 DEF GoesOn
<1>10. InvOf(g, n, x \o r)
  BY <1>9, GoOnKept
<1> QED
  BY <1>10 DEF r, g, c, x, f

\* What is being destroyed has no owner any more.
LEMMA DestroyUnowned ==
  ASSUME NEW o, NEW n, NEW t, InvOf(o, n, t), t # <<>>, Head(t).op = "destroy",
         NEW a, a = Head(t).a
  PROVE  /\ a \in Addr /\ o[a] # Null /\ o[a].r = 0 /\ a \in Destroyed(t)
         /\ Unowned(o, n, t, a) /\ a \notin Destroyed(Tail(t))
         /\ Unowned(o, n, Tail(t), a)
         /\ \A p \in DOMAIN t : t[p].op # "retain"
<1> DEFINE r == Tail(t)
<1>1. /\ r \in Seq(Step) /\ End(t, 1, r) /\ 1 \in DOMAIN t /\ Head(t) = t[1]
      /\ StepOK(o, n, t, Head(t)) /\ \A p \in DOMAIN t : t[p].op # "retain"
  BY HeadIs
<1> HIDE DEF r
<1>2. a \in Addr /\ o[a] # Null /\ o[a].r = 0 /\ a \in Destroyed(t)
  BY <1>1 DEF StepOK, Destroyed
<1>3. o \in Objs /\ n \in [Var -> Ptr] /\ t \in Seq(Step) /\ Counted(o, n, t)
  BY DEF InvOf, TypesOK, Owns
<1>4. OwnersOf(o, n, t, a) = 0
  BY <1>2, <1>3 DEF Counted
<1>5. Unowned(o, n, t, a)
  BY <1>1, <1>3, <1>4, OwnersZero
<1>6. Unowned(o, n, r, a)
  BY <1>1, <1>5 DEF Unowned, End
<1>7. a \notin Destroyed(r)
  <2> SUFFICES ASSUME NEW q \in DOMAIN r, r[q].op = "destroy", r[q].a = a PROVE FALSE
    BY DEF Destroyed
  <2>1. q + 1 \in DOMAIN t /\ t[q + 1] = r[q]
    BY <1>1 DEF End
  <2>2. 1 = q + 1
    BY <1>1, <2>1 DEF InvOf, Ordered
  <2>3. q \in Nat \ {0}
    BY <1>1
  <2> QED
    BY <2>2, <2>3
<1> QED
  BY <1>1, <1>2, <1>5, <1>6, <1>7 DEF r

\* An object without items is freed.
LEMMA FreeKept ==
  ASSUME NEW o, NEW n, NEW t, InvOf(o, n, t), t # <<>>, Head(t).op = "destroy",
         NEW a, a = Head(t).a, o[a].items = <<>>
  PROVE  InvOf(With(o, a, Null), n, Tail(t))
<1> DEFINE r == Tail(t)
           g == With(o, a, Null)
<1>1. /\ r \in Seq(Step) /\ End(t, 1, r) /\ <<>> \o r = r
      /\ Carried(t) \subseteq Carried(r) /\ Destroyed(r) \subseteq Destroyed(t)
      /\ \A b \in Addr : Debt(t, b) = Debt(r, b) /\ Debt(r, b) \in Int
  BY HeadIs
<1>2. /\ a \in Addr /\ o[a] # Null /\ a \in Destroyed(t) /\ a \notin Destroyed(r)
      /\ Unowned(o, n, r, a)
  BY DestroyUnowned
<1> HIDE DEF r
<1>3. o \in Objs /\ Counted(o, n, t)
  BY DEF InvOf, TypesOK
<1>4. /\ g \in Objs /\ g[a] = Null /\ \A b \in Addr \ {a} : g[b] = o[b]
      /\ ItemsOf(g)[a] = <<>> /\ \A b \in Addr \ {a} : ItemsOf(g)[b] = ItemsOf(o)[b]
  BY <1>2, <1>3, SetObject
<1> HIDE DEF g
<1>5. ItemsOf(g) = ItemsOf(o)
  <2>1. ItemsOf(o)[a] = <<>>
    BY <1>2 DEF ItemsOf
  <2>2. \A b \in Addr : ItemsOf(g)[b] = ItemsOf(o)[b]
    BY <1>4, <2>1
  <2> QED
    BY <2>2 DEF ItemsOf
<1>6. Counted(g, n, r)
  BY <1>1, <1>3, <1>4, <1>5 DEF Counted, OwnersOf
<1>7. GoesOn(o, n, t, g, <<>>, r, 1, a)
  <2>1. DOMAIN (<<>>) = {} /\ Destroyed(<<>>) = {} /\ <<>> \in Seq(Step)
    BY DEF Destroyed
  <2>2. a \in Ptr /\ a \notin Idles(o, t)
    BY <1>2 DEF Ptr, Idles
  <2>3. \A b \in Destroyed(r) : b \in Addr /\ g[b] # Null /\ g[b].r = 0
    <3> SUFFICES ASSUME NEW b \in Destroyed(r) PROVE b \in Addr /\ g[b] # Null /\ g[b].r = 0
      OBVIOUS
    <3>1. b \in Addr /\ o[b] # Null /\ o[b].r = 0 /\ b # a
      BY <1>1, <1>2, DestroyedIs
    <3> QED
      BY <1>4, <3>1
  <2>4. \A b \in Addr : o[b] = Null => g[b] = Null
    BY <1>2, <1>4
  <2>5. \A b \in Addr \ {a} : o[b] # Null =>
          /\ g[b] # Null /\ g[b].kind = o[b].kind /\ g[b].val = o[b].val
          /\ g[b].items = o[b].items
          /\ b \notin Carried(t) /\ o[b].r = 0 => g[b].r = 0
    BY <1>4
  <2> QED
    BY <1>1, <1>2, <1>4, <1>6, <2>1, <2>2, <2>3, <2>4, <2>5 DEF GoesOn
<1>8. InvOf(g, n, <<>> \o r)
  BY <1>7, GoOnKept
<1> QED
  BY <1>1, <1>8 DEF r, g

\* What the first item and the others hold.
LEMMA HeldTail ==
  ASSUME NEW s \in Seq(Item), s # <<>>, NEW a
  PROVE  /\ Head(s) \in Item /\ Tail(s) \in Seq(Item)
         /\ HeldBy(s, a) = One(Head(s).k, a) + One(Head(s).v, a) + HeldBy(Tail(s), a)
         /\ HeldBy(Tail(s), a) \in Nat
<1> DEFINE i == Head(s)
           z == << i >>
           r == Tail(s)
<1>1. /\ r \in Seq(Item) /\ i \in Item /\ s = z \o r
  BY TailIs
<1> HIDE DEF i, r
<1>2. HeldBy(z, a) = One(i.k, a) + One(i.v, a) /\ z \in Seq(Item)
  BY <1>1, HeldOne
<1> HIDE DEF z
<1>3. HeldBy(z \o r, a) = HeldBy(z, a) + HeldBy(r, a) /\ HeldBy(r, a) \in Nat
  BY <1>1, <1>2, HeldConcat, HeldZero
<1> QED
  BY <1>1, <1>2, <1>3 DEF i, r

\* An item is taken out of an object that is being destroyed.
LEMMA EmptyKept ==
  ASSUME NEW o, NEW n, NEW t, InvOf(o, n, t), t # <<>>, Head(t).op = "destroy",
         NEW a, a = Head(t).a, o[a].items # <<>>
  PROVE  InvOf(WithItems(o, a, Tail(o[a].items)), n, Releases(Head(o[a].items)) \o t)
<1> DEFINE s == o[a].items
           i == Head(s)
           y == Tail(s)
           g == WithItems(o, a, y)
           x == Releases(i)
<1>1. /\ a \in Addr /\ o[a] # Null /\ o[a].r = 0 /\ a \in Destroyed(t)
      /\ Unowned(o, n, t, a) /\ \A p \in DOMAIN t : t[p].op # "retain"
  BY DestroyUnowned
<1>2. o \in Objs /\ Counted(o, n, t) /\ t \in Seq(Step) /\ ItemsWhole(o, t)
  BY DEF InvOf, TypesOK, AllWhole
<1>3. s \in Seq(Item) /\ Len(s) <= MaxItems /\ ItemsOf(o) \in Tables /\ ItemsOf(o)[a] = s
  BY <1>1, <1>2, ItemsOfType
<1> HIDE DEF s
<1>4. s # <<>>
  BY DEF s
<1>5. /\ y \in Seq(Item) /\ i \in Item /\ i = s[1]
      /\ Len(s) \in Nat \ {0} /\ Len(y) = Len(s) - 1
      /\ \A q \in 1 .. Len(s) - 1 : y[q] = s[q + 1]
  BY <1>3, <1>4, TailIs
<1>6. \A b : /\ HeldBy(s, b) = One(i.k, b) + One(i.v, b) + HeldBy(y, b)
             /\ HeldBy(y, b) \in Nat
  BY <1>3, <1>4, HeldTail
<1> HIDE DEF i, y
<1>7. Len(y) <= MaxItems
  BY <1>3, <1>5, MmCollectionsAssumption
<1>8. /\ g \in Objs /\ g[a] # Null /\ g[a].r = o[a].r
      /\ g[a].kind = o[a].kind /\ g[a].val = o[a].val /\ g[a].items = y
      /\ \A b \in Addr \ {a} : g[b] = o[b]
      /\ ItemsOf(g)[a] = y
      /\ \A b \in Addr \ {a} : ItemsOf(g)[b] = ItemsOf(o)[b]
  BY <1>1, <1>2, <1>5, <1>7, SetItems
<1>9. /\ x \in Seq(Step)
      /\ \A b \in Addr : Debt(x, b) = One(i.k, b) + One(i.v, b)
      /\ \A p \in DOMAIN x : x[p].op = "release" /\ x[p].item = Elem(Null)
                             /\ x[p].a \in {i.k, i.v}
  BY <1>5, ReleasesIs
<1> HIDE DEF g, x
<1>10. ItemsOf(g) \in Tables
  BY <1>8, ItemsOfType
<1>11. Counted(g, n, x \o t)
  <2> SUFFICES ASSUME NEW b \in Addr, g[b] # Null PROVE g[b].r = OwnersOf(g, n, x \o t, b)
    BY DEF Counted
  <2>1. /\ Holds(ItemsOf(g), b) + HeldBy(s, b) = Holds(ItemsOf(o), b) + HeldBy(y, b)
        /\ Holds(ItemsOf(g), b) \in Nat /\ Holds(ItemsOf(o), b) \in Nat
    BY <1>1, <1>3, <1>8, <1>10, HoldsChange
  <2>2. Debt(x \o t, b) = Debt(x, b) + Debt(t, b) /\ Debt(t, b) \in Int
    BY <1>2, <1>9, DebtConcat
  <2>3. One(i.k, b) \in Nat /\ One(i.v, b) \in Nat
    BY DEF One
  <2>4. Holds(ItemsOf(g), b) + Debt(x \o t, b) = Holds(ItemsOf(o), b) + Debt(t, b)
    <3>1. HeldBy(s, b) = One(i.k, b) + One(i.v, b) + HeldBy(y, b) /\ HeldBy(y, b) \in Nat
      BY <1>6
    <3>2. Debt(x, b) = One(i.k, b) + One(i.v, b)
      BY <1>9
    <3>3. Holds(ItemsOf(g), b) + (One(i.k, b) + One(i.v, b)) = Holds(ItemsOf(o), b)
      BY <2>1, <2>3, <3>1
    <3>4. Debt(x \o t, b) = (One(i.k, b) + One(i.v, b)) + Debt(t, b)
      BY <2>2, <3>2
    <3> QED
      BY <2>1, <2>2, <2>3, <3>3, <3>4
  <2>5. o[b] # Null /\ g[b].r = o[b].r
    BY <1>1, <1>8
  <2>6. /\ o[b].r = Pointers(n, b) + Holds(ItemsOf(o), b) + Debt(t, b)
        /\ Pointers(n, b) \in Nat
    BY <2>5, CountedIs
  <2>7. Debt(x \o t, b) \in Int
    BY <1>9, <2>2, <2>3
  <2>8. g[b].r = Pointers(n, b) + Holds(ItemsOf(g), b) + Debt(x \o t, b)
    BY <2>1, <2>2, <2>4, <2>5, <2>6, <2>7
  <2> QED
    BY <2>8 DEF OwnersOf
<1>12. Shrunk(s, y)
  <2>1. 1 \in 1 .. Len(s)
    BY <1>5
  <2>2. \A q \in 1 .. 1 - 1 : y[q] = s[q]
    OBVIOUS
  <2> QED
    BY <1>3, <1>5, <2>1, <2>2, ShrunkRemove
<1>13. \A p \in DOMAIN x : Whole(o, t, x[p].a) /\ x[p].a # a
  <2>1. Whole(o, t, i.k) /\ Whole(o, t, i.v) /\ i.k # a /\ i.v # a
    <3>1. 1 \in DOMAIN o[a].items /\ i = o[a].items[1]
      BY <1>3, <1>5 DEF s
    <3> QED
      BY <1>1, <1>2, <3>1 DEF ItemsWhole, Unowned
  <2> QED
    BY <1>9, <2>1
<1>14. GoesOn(o, n, t, g, x, t, 0, a)
  <2>1. Destroyed(x) = {}
    BY <1>9 DEF Destroyed
  <2>2. a \in Ptr /\ a \notin Idles(o, t)
    BY <1>1 DEF Ptr, Idles
  <2>3. \A b \in Destroyed(t) : b \in Addr /\ g[b] # Null /\ g[b].r = 0
    <3> SUFFICES ASSUME NEW b \in Destroyed(t) PROVE b \in Addr /\ g[b] # Null /\ g[b].r = 0
      OBVIOUS
    <3>1. b \in Addr /\ o[b] # Null /\ o[b].r = 0
      BY DestroyedIs
    <3> QED
      BY <1>8, <3>1
  <2>4. \A b \in Addr : o[b] = Null => g[b] = Null
    BY <1>1, <1>8
  <2>5. \A b \in Addr \ {a} : o[b] # Null =>
          /\ g[b] # Null /\ g[b].kind = o[b].kind /\ g[b].val = o[b].val
          /\ g[b].items = o[b].items
          /\ b \notin Carried(t) /\ o[b].r = 0 => g[b].r = 0
    BY <1>8
  <2>6. End(t, 0, t)
    <3>1. DOMAIN t = 1 .. Len(t) /\ Len(t) \in Nat
      BY <1>2
    <3> QED
      BY <1>2, <3>1 DEF End
  <2>7. Shrunk(o[a].items, g[a].items)
    BY <1>8, <1>12 DEF s
  <2>8. \A p \in DOMAIN x :
          /\ x[p].op \in {"release", "destroy"} /\ x[p].item = Elem(Null)
          /\ x[p].op # "destroy"
          /\ Whole(o, t, x[p].a) /\ x[p].a # a
    BY <1>9, <1>13
  <2> QED
    BY <1>1, <1>8, <1>9, <1>11, <2>1, <2>2, <2>3, <2>4, <2>5, <2>6, <2>7, <2>8 DEF GoesOn
<1>15. InvOf(g, n, x \o t)
  BY <1>14, GoOnKept
<1> QED
  BY <1>15 DEF g, x, y, i, s

----------------------------------------------------------------------------
(* An item is inserted.                                                    *)

\* Differences are numbers.
LEMMA DiffType ==
  ASSUME NEW v \in Val, NEW w \in Val
  PROVE  v \in Int /\ w \in Int /\ Diff(v, w) \in Int
<1>1. Half \in Nat \ {0} /\ Val \subseteq -Half .. Half - 1
  BY MmCollectionsAssumption
<1>2. v \in Int /\ w \in Int
  BY <1>1
<1> DEFINE k == v - w + Half
           l == 2 * Half
<1>3. k \in Int /\ l \in Nat \ {0}
  BY <1>1, <1>2
<1> HIDE DEF k, l
<1>4. k % l \in Int
  BY <1>3
<1> QED
  BY <1>1, <1>2, <1>4 DEF Diff, Wrap, k, l

PlaceIn(o, m, i) ==
  IF o[m].kind = "map" THEN Len(o[m].items) + 1
  ELSE CHOOSE p \in 1 .. Len(o[m].items) + 1 :
         /\ p \in DOMAIN o[m].items => Diff(o[o[m].items[p].k].val, o[i.k].val) > 0
         /\ \A q \in 1 .. p - 1 : Diff(o[o[m].items[q].k].val, o[i.k].val) <= 0

\* There is a place for every key.
LEMMA PlaceIs ==
  ASSUME NEW o \in Objs, DataOK(o), NEW m \in Addr, o[m] # Null, o[m].kind \in Maps,
         NEW i, i.k \in Addr, o[i.k] # Null, o[i.k].kind = "int"
  PROVE  /\ PlaceIn(o, m, i) \in 1 .. Len(o[m].items) + 1
         /\ o[m].kind = "sorted" =>
              LET p == PlaceIn(o, m, i)
              IN  /\ p \in DOMAIN o[m].items => Diff(o[o[m].items[p].k].val, o[i.k].val) > 0
                  /\ \A q \in 1 .. p - 1 : Diff(o[o[m].items[q].k].val, o[i.k].val) <= 0
<1> DEFINE s == o[m].items
           D(q) == Diff(o[s[q].k].val, o[i.k].val)
<1>1. s \in Seq(Item) /\ Len(s) \in Nat /\ DOMAIN s = 1 .. Len(s)
  BY ItemsOfType
<1>2. ASSUME NEW q \in DOMAIN s PROVE D(q) \in Int
  <2>1. MapOK(o, m) /\ IntsOK(o)
    BY DEF DataOK, MapsOK
  <2>2. o[s[q].k].val \in Val /\ o[i.k].val \in Val
    BY <2>1 DEF MapOK, IntsOK
  <2> QED
    BY <2>2, DiffType
<1> HIDE DEF D
<1>3. CASE o[m].kind = "map"
  BY <1>1, <1>3 DEF PlaceIn
<1>4. CASE o[m].kind = "sorted"
  <2> DEFINE T == {p \in 1 .. Len(s) + 1 : p \in DOMAIN s => D(p) > 0}
             OK(p) == /\ p \in DOMAIN s => D(p) > 0
                      /\ \A q \in 1 .. p - 1 : D(q) <= 0
  <2>1. T \in SUBSET Nat /\ Len(s) + 1 \in T
    BY <1>1
  <2>2. PICK p \in T : \A q \in T : p <= q
    <3> HIDE DEF T
    <3> QED
      BY <2>1, NatsAssumptions, Nats!LeastNumber
  <2>3. ASSUME NEW q \in 1 .. p - 1 PROVE D(q) <= 0
    <3>1. q \notin T /\ q \in 1 .. Len(s) + 1 /\ q \in DOMAIN s
      BY <1>1, <2>1, <2>2
    <3>2. ~(D(q) > 0)
      BY <3>1
    <3> QED
      BY <1>2, <3>1, <3>2
  <2>4. p \in 1 .. Len(s) + 1 /\ OK(p)
    BY <2>2, <2>3
  <2>5. PlaceIn(o, m, i) = CHOOSE q \in 1 .. Len(s) + 1 : OK(q)
    BY <1>4 DEF PlaceIn, D
  <2> HIDE DEF OK, T
  <2>6. PlaceIn(o, m, i) \in 1 .. Len(s) + 1 /\ OK(PlaceIn(o, m, i))
    BY <2>4, <2>5
  <2> QED
    BY <2>6 DEF OK, D
<1> QED
  BY <1>3, <1>4 DEF Maps

\* Where each element of the longer sequence comes from.
LEMMA InsertFrom ==
  ASSUME NEW S, NEW s \in Seq(S), NEW p \in 1 .. Len(s) + 1, NEW e \in S
  PROVE  LET t == InsertAt(s, p, e)
         IN  \A q \in DOMAIN t :
               \/ q = p /\ t[q] = e
               \/ q < p /\ q \in DOMAIN s /\ q \in 1 .. p - 1 /\ t[q] = s[q]
               \/ q > p /\ q - 1 \in DOMAIN s /\ q - 1 \in p .. Len(s) /\ t[q] = s[q - 1]
<1> DEFINE t == InsertAt(s, p, e)
<1>1. /\ t \in Seq(S) /\ Len(t) = Len(s) + 1
      /\ t[p] = e
      /\ \A q \in 1 .. p - 1 : t[q] = s[q]
      /\ \A q \in p .. Len(s) : t[q + 1] = s[q]
  <2>1. p \in 1 .. Len(s) + 1 /\ e \in S
    OBVIOUS
  <2>2. /\ t \in Seq(S) /\ Len(t) = Len(s) + 1 /\ t[p] = e
        /\ \A q \in 1 .. p - 1 : t[q] = s[q]
        /\ \A q \in p .. Len(s) : t[q + 1] = s[q]
        /\ \A X : Count(t, X) = Count(s, X) + Count(<<e>>, X)
    BY <2>1, InsertIs
  <2> QED
    BY <2>2
<1> HIDE DEF t
<1>2. DOMAIN t = 1 .. Len(s) + 1 /\ DOMAIN s = 1 .. Len(s) /\ Len(s) \in Nat
  BY <1>1
<1>3. ASSUME NEW q \in DOMAIN t
      PROVE  \/ q = p /\ t[q] = e
             \/ q < p /\ q \in DOMAIN s /\ q \in 1 .. p - 1 /\ t[q] = s[q]
             \/ q > p /\ q - 1 \in DOMAIN s /\ q - 1 \in p .. Len(s) /\ t[q] = s[q - 1]
  <2>1. CASE q = p
    BY <1>1, <2>1
  <2>2. CASE q < p
    <3>1. q \in DOMAIN s /\ q \in 1 .. p - 1
      BY <1>2, <2>2
    <3> QED
      BY <1>1, <2>2, <3>1
  <2>3. CASE q > p
    <3>1. q - 1 \in DOMAIN s /\ q - 1 \in p .. Len(s) /\ (q - 1) + 1 = q
      BY <1>2, <2>3
    <3>2. t[(q - 1) + 1] = s[q - 1]
      BY <1>1, <3>1
    <3> QED
      BY <2>3, <3>1, <3>2
  <2> QED
    BY <1>2, <2>1, <2>2, <2>3
<1> QED
  BY <1>3 DEF t

\* Maps stay maps when a new key is inserted where it belongs.
LEMMA DataInserted ==
  ASSUME NEW o \in Objs, DataOK(o), NEW n, NEW t, NEW m, NEW i \in Item, InsertOK(o, n, t, m, i),
         NEW g \in Objs, NEW p, p = PlaceIn(o, m, i),
         g[m] # Null, g[m].kind = o[m].kind, g[m].items = InsertAt(o[m].items, p, i),
         \A b \in Addr \ {m} : g[b] = o[b]
  PROVE  DataOK(g)
<1> DEFINE s == o[m].items
           y == g[m].items
           K(x) == o[x.k].val
<1>1. /\ m \in Addr /\ o[m] # Null /\ o[m].kind \in Maps
      /\ i.k \in Addr /\ i.hk = i.k /\ o[i.k] # Null /\ o[i.k].kind = "int"
      /\ \A q \in DOMAIN s : K(s[q]) # K(i)
  BY DEF InsertOK
<1>2. s \in Seq(Item)
  BY <1>1, ItemsOfType
<1>3. /\ p \in 1 .. Len(s) + 1
      /\ o[m].kind = "sorted" => /\ p \in DOMAIN s => Diff(K(s[p]), K(i)) > 0
                                 /\ \A q \in 1 .. p - 1 : Diff(K(s[q]), K(i)) <= 0
  BY <1>1, PlaceIs
<1>4. \A q \in DOMAIN y :
         \/ q = p /\ y[q] = i
         \/ q < p /\ q \in DOMAIN s /\ q \in 1 .. p - 1 /\ y[q] = s[q]
         \/ q > p /\ q - 1 \in DOMAIN s /\ q - 1 \in p .. Len(s) /\ y[q] = s[q - 1]
  BY <1>2, <1>3, InsertFrom
<1>5. y \in Seq(Item) /\ DOMAIN y \subseteq Nat /\ DOMAIN s \subseteq Nat /\ p \in Nat
      /\ DOMAIN s = 1 .. Len(s) /\ Len(s) \in Nat
  BY <1>1, <1>2, <1>3, ItemsOfType
<1>6. ASSUME NEW a \in Addr, o[a] # Null, o[a].kind = "int"
      PROVE  g[a] # Null /\ g[a].kind = "int" /\ g[a].val = o[a].val
  <2>1. a # m
    BY <1>1, <1>6 DEF Maps
  <2> QED
    BY <1>6, <2>1
<1>7. MapOK(o, m) /\ MapsOK(o) /\ IntsOK(o) /\ MapsSorted(o)
  BY <1>1 DEF DataOK, MapsOK
<1>8. \A q \in DOMAIN s : /\ s[q].k \in Addr /\ s[q].hk = s[q].k
                          /\ o[s[q].k] # Null /\ o[s[q].k].kind = "int"
  BY <1>7 DEF MapOK
<1> HIDE DEF s, y, K
<1>9. ASSUME NEW q \in DOMAIN y
      PROVE  /\ y[q].k \in Addr /\ y[q].hk = y[q].k
             /\ g[y[q].k] # Null /\ g[y[q].k].kind = "int" /\ g[y[q].k].val = K(y[q])
  <2>1. /\ y[q].k \in Addr /\ y[q].hk = y[q].k
        /\ o[y[q].k] # Null /\ o[y[q].k].kind = "int"
    BY <1>1, <1>4, <1>8
  <2> QED
    BY <1>6, <2>1 DEF K
<1>10. ASSUME NEW q \in DOMAIN y, NEW r \in DOMAIN y, K(y[q]) = K(y[r]) PROVE q = r
  <2>1. \A j, l \in DOMAIN s : K(s[j]) = K(s[l]) => j = l
    BY <1>7 DEF MapOK, K, s
  <2>2. CASE q = p \/ r = p
    BY <1>1, <1>4, <1>5, <1>10, <2>2
  <2>3. CASE q # p /\ r # p
    <3>1. PICK j \in DOMAIN s : y[q] = s[j] /\ ((q < p /\ j = q) \/ (q > p /\ j = q - 1 /\ j >= p))
      BY <1>4, <1>5, <2>3
    <3>2. PICK l \in DOMAIN s : y[r] = s[l] /\ ((r < p /\ l = r) \/ (r > p /\ l = r - 1 /\ l >= p))
      BY <1>4, <1>5, <2>3
    <3>3. j = l
      BY <1>10, <2>1, <3>1, <3>2
    <3> QED
      BY <1>5, <3>1, <3>2, <3>3
  <2> QED
    BY <2>2, <2>3
<1>11. MapOK(g, m)
  <2>1. ASSUME NEW q \in DOMAIN y, NEW r \in DOMAIN y, g[y[q].k].val = g[y[r].k].val PROVE q = r
    BY <1>9, <1>10, <2>1
  <2> QED
    BY <1>9, <2>1 DEF MapOK, y
<1>12. ASSUME NEW a \in Addr, a # m, g[a] # Null, g[a].kind \in Maps
       PROVE  /\ MapOK(g, a)
              /\ \A q \in DOMAIN g[a].items : g[g[a].items[q].k].val = o[o[a].items[q].k].val
  <2>1. g[a] = o[a] /\ MapOK(o, a)
    BY <1>7, <1>12 DEF MapsOK
  <2>2. ASSUME NEW q \in DOMAIN g[a].items
        PROVE  /\ g[a].items[q].k \in Addr /\ g[a].items[q].hk = g[a].items[q].k
               /\ g[g[a].items[q].k] # Null /\ g[g[a].items[q].k].kind = "int"
               /\ g[g[a].items[q].k].val = o[o[a].items[q].k].val
    BY <1>6, <2>1 DEF MapOK
  <2>3. ASSUME NEW q \in DOMAIN g[a].items, NEW r \in DOMAIN g[a].items,
               g[g[a].items[q].k].val = g[g[a].items[r].k].val
        PROVE  q = r
    BY <2>1, <2>2, <2>3 DEF MapOK
  <2> QED
    BY <2>2, <2>3 DEF MapOK
<1>13. MapsOK(g)
  BY <1>11, <1>12 DEF MapsOK
<1>14. IntsOK(g)
  BY <1>1, <1>7 DEF IntsOK, Maps
<1>15. MapsSorted(g)
  <2> SUFFICES ASSUME \A v, w \in Val : Diff(v, w) = v - w,
                      NEW a \in Addr, g[a] # Null, g[a].kind = "sorted"
               PROVE  MapSorted(g, a)
    BY DEF MapsSorted
  <2>1. CASE a # m
    <3>1. g[a] = o[a] /\ MapSorted(o, a)
      BY <1>7, <2>1 DEF MapsSorted
    <3>2. \A q \in DOMAIN g[a].items : g[g[a].items[q].k].val = o[o[a].items[q].k].val
      BY <1>12, <2>1 DEF Maps
    <3> QED
      BY <3>1, <3>2 DEF MapSorted
  <2>2. CASE a = m
    <3>1. o[m].kind = "sorted" /\ MapSorted(o, m)
      BY <1>1, <1>7, <2>2 DEF MapsSorted
    <3>2. \A q, r \in DOMAIN s : q < r => K(s[q]) < K(s[r])
      BY <3>1 DEF MapSorted, K, s
    <3>3. K(i) \in Val /\ \A q \in DOMAIN s : K(s[q]) \in Val
      BY <1>1, <1>7, <1>8 DEF IntsOK, K
    <3>4. \A v \in Val : v \in Int
      BY DiffType
    <3>5. ASSUME NEW q \in 1 .. p - 1, q \in DOMAIN s PROVE K(s[q]) < K(i)
      <4>1. Diff(K(s[q]), K(i)) <= 0 /\ Diff(K(s[q]), K(i)) = K(s[q]) - K(i)
        BY <1>3, <3>1, <3>3, <3>5
      <4>2. K(s[q]) # K(i) /\ K(s[q]) \in Int /\ K(i) \in Int
        BY <1>1, <3>3, <3>4, <3>5
      <4> QED
        BY <4>1, <4>2
    <3>6. ASSUME NEW q \in p .. Len(s) PROVE K(i) < K(s[q])
      <4>1. p \in DOMAIN s /\ q \in DOMAIN s
        <5>1. p >= 1
          BY <1>3
        <5> QED
          BY <1>5, <3>6, <5>1
      <4>2. Diff(K(s[p]), K(i)) > 0 /\ Diff(K(s[p]), K(i)) = K(s[p]) - K(i)
        BY <1>3, <3>1, <3>3, <4>1
      <4>3. K(s[p]) \in Int /\ K(s[q]) \in Int /\ K(i) \in Int
        BY <3>3, <3>4, <4>1
      <4>4. K(i) < K(s[p])
        BY <4>2, <4>3
      <4>5. CASE p = q
        BY <4>4, <4>5
      <4>6. CASE p < q
        <5>1. K(s[p]) < K(s[q])
          BY <3>2, <4>1, <4>6
        <5> QED
          BY <4>3, <4>4, <5>1
      <4> QED
        BY <1>5, <4>5, <4>6
    <3>7. ASSUME NEW q \in DOMAIN y, NEW r \in DOMAIN y, q < r PROVE K(y[q]) < K(y[r])
      <4>1. q \in Nat /\ r \in Nat
        BY <1>5
      <4>2. CASE q = p
        <5>1. r > p /\ y[q] = i
          BY <1>4, <1>5, <3>7, <4>1, <4>2
        <5>2. r - 1 \in p .. Len(s) /\ y[r] = s[r - 1]
          BY <1>4, <1>5, <4>1, <5>1
        <5> QED
          BY <3>6, <5>1, <5>2
      <4>3. CASE q < p /\ r = p
        <5>1. y[r] = i /\ q \in DOMAIN s /\ q \in 1 .. p - 1 /\ y[q] = s[q]
          BY <1>4, <1>5, <4>1, <4>3
        <5> QED
          BY <3>5, <5>1
      <4>4. CASE q # p /\ r # p
        <5>1. PICK j \in DOMAIN s : y[q] = s[j] /\ ((q < p /\ j = q) \/ (q > p /\ j = q - 1 /\ j >= p))
          BY <1>4, <1>5, <4>4
        <5>2. PICK l \in DOMAIN s : y[r] = s[l] /\ ((r < p /\ l = r) \/ (r > p /\ l = r - 1 /\ l >= p))
          BY <1>4, <1>5, <4>4
        <5>3. j < l
          BY <1>5, <3>7, <4>1, <5>1, <5>2
        <5> QED
          BY <3>2, <5>1, <5>2, <5>3
      <4>5. CASE q > p /\ r = p
        BY <1>5, <3>7, <4>1, <4>5
      <4> QED
        BY <1>5, <4>1, <4>2, <4>3, <4>4, <4>5
    <3>8. \A q \in DOMAIN y : g[y[q].k].val = K(y[q])
      BY <1>9
    <3> QED
      BY <2>2, <3>7, <3>8 DEF MapSorted, y
  <2> QED
    BY <2>1, <2>2
<1> QED
  BY <1>13, <1>14, <1>15 DEF DataOK

\* The only step left is to insert an item.
LEMMA InsertionLast ==
  ASSUME NEW o, NEW n, NEW t, InvOf(o, n, t), t # <<>>, Head(t).op = "insert"
  PROVE  /\ Tail(t) = <<>> /\ DOMAIN t = {1} /\ t[1] = Head(t)
         /\ Destroyed(t) = {} /\ Destroyed(<<>>) = {}
         /\ Head(t).item \in Item
         /\ \A a \in Addr : Debt(t, a) = One(Head(t).item.k, a) + One(Head(t).item.v, a)
<1> DEFINE f == Head(t)
<1>1. /\ f \in Step /\ Tail(t) \in Seq(Step) /\ 1 \in DOMAIN t /\ f = t[1]
  BY HeadIs
<1>2. t \in Seq(Step) /\ Len(Tail(t)) = Len(t) - 1 /\ Len(t) \in Nat
  <2>1. t \in Seq(Step)
    BY DEF InvOf, TypesOK
  <2> QED
    BY <2>1, TailIs
<1>3. 1 = Len(t)
  BY <1>1 DEF InvOf, Ordered
<1>4. Tail(t) = <<>> /\ DOMAIN t = {1}
  <2> DEFINE u == Tail(t)
             l == Len(t)
  <2>1. l = 1 /\ Len(u) = l - 1 /\ u \in Seq(Step) /\ DOMAIN t = 1 .. l
    <3>1. l = 1
      BY <1>3
    <3>2. Len(u) = l - 1
      BY <1>2
    <3>3. u \in Seq(Step)
      BY <1>1
    <3>4. DOMAIN t = 1 .. l
      BY <1>2
    <3> QED
      BY <3>1, <3>2, <3>3, <3>4
  <2> HIDE DEF u, l
  <2>2. Len(u) = 0 /\ DOMAIN t = {1}
    BY <2>1
  <2>3. u = <<>>
    BY <2>1, <2>2, EmptySeq
  <2> QED
    BY <2>2, <2>3 DEF u
<1>5. Destroyed(t) = {} /\ Destroyed(<<>>) = {}
  BY <1>1, <1>4 DEF Destroyed
<1>6. t = << f >>
  <2> DEFINE u == << f >>
  <2>1. u \in Seq(Step) /\ Len(u) = 1 /\ u[1] = f
    BY <1>1
  <2> HIDE DEF u, f
  <2>2. \A q \in 1 .. Len(t) : u[q] = t[q]
    BY <1>1, <1>3, <2>1
  <2>3. u = t
    BY <1>2, <1>3, <2>1, <2>2, SeqEqual
  <2> QED
    BY <2>3 DEF u
<1>7. f.item \in Item
  BY <1>1 DEF Step
<1>8. ASSUME NEW a \in Addr PROVE Debt(t, a) = One(f.item.k, a) + One(f.item.v, a)
  <2>1. One(f.item.k, a) \in Int /\ One(f.item.v, a) \in Int
    BY DEF One
  <2>2. f.op # "release" /\ f.op # "retain"
    OBVIOUS
  <2> HIDE DEF f
  <2>3. Debt(<< f >>, a) = One(f.item.k, a) + One(f.item.v, a)
                             + (IF f.op = "release" /\ f.a = a THEN 1 ELSE 0)
                             - (IF f.op = "retain" /\ f.a = a THEN 1 ELSE 0)
    BY <1>1, DebtOne
  <2>4. Debt(<< f >>, a) = One(f.item.k, a) + One(f.item.v, a) + 0 - 0
    BY <2>2, <2>3
  <2> QED
    BY <1>6, <2>1, <2>4
<1> QED
  BY <1>1, <1>4, <1>5, <1>7, <1>8

\* What a map with one item more holds.
LEMMA InsertedCounted ==
  ASSUME NEW o \in Objs, NEW m \in Addr, o[m] # Null, NEW i \in Item,
         NEW p \in 1 .. Len(o[m].items) + 1, Len(o[m].items) < MaxItems,
         NEW s, s = InsertAt(o[m].items, p, i), NEW a
  PROVE  /\ s \in Seq(Item) /\ Len(s) <= MaxItems
         /\ Holds(ItemsOf(WithItems(o, m, s)), a)
              = Holds(ItemsOf(o), a) + One(i.k, a) + One(i.v, a)
         /\ Holds(ItemsOf(o), a) \in Nat
<1> DEFINE u == o[m].items
           g == WithItems(o, m, s)
<1>1. u \in Seq(Item) /\ ItemsOf(o) \in Tables /\ Len(u) \in Nat
  BY ItemsOfType
<1>2. /\ s \in Seq(Item) /\ Len(s) = Len(u) + 1
      /\ \A X : Count(s, X) = Count(u, X) + Count(<<i>>, X)
  <2> HIDE DEF u
  <2>1. p \in 1 .. Len(u) + 1 /\ s = InsertAt(u, p, i)
    BY DEF u
  <2> QED
    BY <1>1, <2>1, InsertIs
<1>3. MaxItems \in Nat
  BY MmCollectionsAssumption
<1>4. Len(s) <= MaxItems
  BY <1>1, <1>2, <1>3
<1>5. /\ g \in Objs /\ ItemsOf(g)[m] = s /\ ItemsOf(o)[m] = u
      /\ \A b \in Addr \ {m} : ItemsOf(g)[b] = ItemsOf(o)[b]
  BY <1>2, <1>4, SetItems
<1> HIDE DEF g
<1>6. ItemsOf(g) \in Tables
  BY <1>5, ItemsOfType
<1>7. /\ Holds(ItemsOf(g), a) + HeldBy(ItemsOf(o)[m], a) = Holds(ItemsOf(o), a) + HeldBy(ItemsOf(g)[m], a)
      /\ Holds(ItemsOf(o), a) \in Nat /\ Holds(ItemsOf(g), a) \in Nat
      /\ HeldBy(ItemsOf(o)[m], a) \in Nat /\ HeldBy(ItemsOf(g)[m], a) \in Nat
  <2> DEFINE v == ItemsOf(o)
             w == ItemsOf(g)
  <2>1. v \in Tables /\ w \in Tables /\ \A b \in Addr \ {m} : w[b] = v[b]
    BY <1>1, <1>5, <1>6
  <2> HIDE DEF v, w
  <2>2. /\ Holds(w, a) + HeldBy(v[m], a) = Holds(v, a) + HeldBy(w[m], a)
        /\ Holds(v, a) \in Nat /\ Holds(w, a) \in Nat
        /\ HeldBy(v[m], a) \in Nat /\ HeldBy(w[m], a) \in Nat
    BY <2>1, HoldsChange
  <2> QED
    BY <2>2 DEF v, w
<1>8. HeldBy(s, a) = HeldBy(u, a) + HeldBy(<<i>>, a)
  <2> DEFINE X == {j \in Item : j.k = a}
             Y == {j \in Item : j.v = a}
  <2>1. /\ Count(s, X) = Count(u, X) + Count(<<i>>, X) /\ Count(s, Y) = Count(u, Y) + Count(<<i>>, Y)
    BY <1>2
  <2>2. << i >> \in Seq(Item)
    OBVIOUS
  <2>3. Count(u, X) \in Nat /\ Count(u, Y) \in Nat
    <3> HIDE DEF X, Y, u
    <3> QED
      BY <1>1, CountType
  <2>4. Count(<<i>>, X) \in Nat /\ Count(<<i>>, Y) \in Nat
    BY CountOne
  <2> HIDE DEF X, Y, u
  <2> DEFINE c == Count(<<i>>, X)
             d == Count(<<i>>, Y)
  <2>5. Count(s, X) = Count(u, X) + c /\ Count(s, Y) = Count(u, Y) + d /\ c \in Nat /\ d \in Nat
    BY <2>1, <2>4
  <2> HIDE DEF c, d
  <2>6. Count(s, X) + Count(s, Y) = (Count(u, X) + Count(u, Y)) + (c + d)
    BY <2>3, <2>5
  <2> QED
    BY <2>6 DEF HeldBy, X, Y, c, d
<1>9. HeldBy(<<i>>, a) = One(i.k, a) + One(i.v, a) /\ One(i.k, a) \in Nat /\ One(i.v, a) \in Nat
  BY HeldOne DEF One
<1> HIDE DEF u
<1>10. /\ Holds(ItemsOf(g), a) + HeldBy(u, a) = Holds(ItemsOf(o), a) + HeldBy(s, a)
       /\ Holds(ItemsOf(o), a) \in Nat /\ Holds(ItemsOf(g), a) \in Nat
       /\ HeldBy(u, a) \in Nat /\ HeldBy(s, a) \in Nat
  BY <1>5, <1>7
<1>11. HeldBy(s, a) = HeldBy(u, a) + (One(i.k, a) + One(i.v, a))
  BY <1>8, <1>9
<1>12. Holds(ItemsOf(g), a) = Holds(ItemsOf(o), a) + One(i.k, a) + One(i.v, a)
  <2> DEFINE h == Holds(ItemsOf(g), a)
             j == Holds(ItemsOf(o), a)
             k == One(i.k, a)
             l == One(i.v, a)
             x == HeldBy(u, a)
  <2>1. h + x = j + (x + (k + l)) /\ h \in Nat /\ j \in Nat /\ k \in Nat /\ l \in Nat /\ x \in Nat
    BY <1>9, <1>10, <1>11
  <2> HIDE DEF h, j, k, l, x
  <2>2. h = j + k + l
    BY <2>1
  <2> QED
    BY <2>2 DEF h, j, k, l
<1> QED
  BY <1>2, <1>4, <1>10, <1>12 DEF g

\* An item is put into its map.
LEMMA InsertionKept ==
  ASSUME NEW o, NEW n, NEW t, InvOf(o, n, t), t # <<>>, Head(t).op = "insert",
         NEW m, m = Head(t).a, NEW i, i = Head(t).item
  PROVE  InvOf(WithItems(o, m, InsertAt(o[m].items, PlaceIn(o, m, i), i)), n, Tail(t))
<1>1. /\ Tail(t) = <<>> /\ DOMAIN t = {1} /\ t[1] = Head(t)
      /\ Destroyed(t) = {} /\ Destroyed(<<>>) = {} /\ i \in Item
      /\ \A a \in Addr : Debt(t, a) = One(i.k, a) + One(i.v, a)
  BY InsertionLast
<1>2. InsertOK(o, n, t, m, i)
  BY HeadIs DEF StepOK
<1>3. o \in Objs /\ DataOK(o) /\ n \in [Var -> Ptr] /\ AllWhole(o, n, t)
  BY DEF InvOf, TypesOK, Owns
<1>4. /\ m \in Addr /\ o[m] # Null /\ o[m].kind \in Maps /\ Len(o[m].items) < MaxItems
      /\ i.k \in Addr /\ o[i.k] # Null /\ o[i.k].kind = "int"
  BY <1>2 DEF InsertOK
<1> DEFINE p == PlaceIn(o, m, i)
           s == InsertAt(o[m].items, p, i)
           g == WithItems(o, m, s)
<1>5. p \in 1 .. Len(o[m].items) + 1
  BY <1>3, <1>4, PlaceIs
<1> HIDE DEF p
<1>6. /\ s \in Seq(Item) /\ Len(s) <= MaxItems
      /\ \A a : /\ Holds(ItemsOf(g), a) = Holds(ItemsOf(o), a) + One(i.k, a) + One(i.v, a)
                /\ Holds(ItemsOf(o), a) \in Nat
  <2> SUFFICES ASSUME NEW a
               PROVE  /\ s \in Seq(Item) /\ Len(s) <= MaxItems
                      /\ Holds(ItemsOf(g), a) = Holds(ItemsOf(o), a) + One(i.k, a) + One(i.v, a)
                      /\ Holds(ItemsOf(o), a) \in Nat
    OBVIOUS
  <2> QED
    BY <1>1, <1>3, <1>4, <1>5, InsertedCounted
<1>7. \A q \in DOMAIN s : s[q] = i \/ \E r \in DOMAIN o[m].items : s[q] = o[m].items[r]
  <2> DEFINE u == o[m].items
  <2>1. u \in Seq(Item)
    BY <1>3, <1>4, ItemsOfType
  <2> HIDE DEF u
  <2>2. p \in 1 .. Len(u) + 1 /\ s = InsertAt(u, p, i)
    BY <1>5 DEF u
  <2> HIDE DEF s
  <2>3. \A q \in DOMAIN s :
               \/ q = p /\ s[q] = i
               \/ q < p /\ q \in DOMAIN u /\ q \in 1 .. p - 1 /\ s[q] = u[q]
               \/ q > p /\ q - 1 \in DOMAIN u /\ q - 1 \in p .. Len(u) /\ s[q] = u[q - 1]
    BY <1>1, <2>1, <2>2, InsertFrom
  <2> QED
    BY <2>3 DEF u
<1> HIDE DEF s
<1>8. /\ g \in Objs /\ g[m] # Null /\ g[m].r = o[m].r /\ g[m].kind = o[m].kind /\ g[m].val = o[m].val
      /\ g[m].items = s /\ \A b \in Addr \ {m} : g[b] = o[b]
  BY <1>3, <1>4, <1>6, SetItems
<1> HIDE DEF g
<1>9. \A b \in Addr : o[b] # Null <=> g[b] # Null
  BY <1>4, <1>8
<1>10. \A a : Whole(o, t, a) => Whole(g, <<>>, a)
  BY <1>1, <1>9 DEF Whole
<1>11. Whole(o, t, i.k) /\ Whole(o, t, i.v)
  BY <1>1, <1>3 DEF AllWhole, StepsWhole
<1>12. ItemsWhole(g, <<>>)
  <2> SUFFICES ASSUME NEW a \in Addr, g[a] # Null, NEW q \in DOMAIN g[a].items
               PROVE  Whole(o, t, g[a].items[q].k) /\ Whole(o, t, g[a].items[q].v)
    BY <1>10 DEF ItemsWhole
  <2>1. CASE a = m
    BY <1>3, <1>4, <1>7, <1>8, <1>11, <2>1 DEF AllWhole, ItemsWhole
  <2>2. CASE a # m
    BY <1>3, <1>8, <2>2 DEF AllWhole, ItemsWhole
  <2> QED
    BY <2>1, <2>2
<1>13. AllWhole(g, n, <<>>)
  <2>1. OwnWhole(g, n, <<>>)
    BY <1>3, <1>10 DEF AllWhole, OwnWhole
  <2>2. StepsWhole(g, <<>>)
    BY DEF StepsWhole
  <2> QED
    BY <1>12, <2>1, <2>2 DEF AllWhole
<1>14. Counted(g, n, <<>>)
  <2> SUFFICES ASSUME NEW a \in Addr, g[a] # Null
               PROVE  g[a].r = OwnersOf(g, n, <<>>, a)
    BY DEF Counted
  <2>1. g[a].r = o[a].r /\ o[a] # Null
    BY <1>4, <1>8
  <2> DEFINE c == Pointers(n, a)
             h == Holds(ItemsOf(o), a)
             k == One(i.k, a)
             l == One(i.v, a)
  <2>2. o[a].r = c + h + Debt(t, a) /\ c \in Nat /\ h \in Nat
    BY <2>1, CountedIs
  <2>3. Debt(t, a) = k + l /\ k \in Nat /\ l \in Nat
    BY <1>1 DEF One
  <2>4. Holds(ItemsOf(g), a) = h + k + l
    BY <1>6
  <2>5. Debt(<<>>, a) = 0
    BY DebtNone
  <2> HIDE DEF c, h, k, l
  <2>6. o[a].r = c + (h + k + l) + 0
    BY <2>2, <2>3
  <2> QED
    BY <2>1, <2>4, <2>5, <2>6 DEF OwnersOf, c
<1>15. DataOK(g)
  <2>1. g[m].items = InsertAt(o[m].items, p, i) /\ p = PlaceIn(o, m, i)
    BY <1>8 DEF s, p
  <2> QED
    BY <1>1, <1>2, <1>3, <1>4, <1>8, <2>1, DataInserted
<1>16. <<>> \in Seq(Step) /\ Ordered(<<>>) /\ StepsOK(g, n, <<>>)
  BY DEF Ordered, StepsOK
<1>17. PlainOK(g)
  <2>1. PlainOK(o)
    BY DEF InvOf
  <2> QED
    BY <1>4, <1>8, <2>1 DEF PlainOK
<1>18. InvOf(g, n, <<>>)
  BY <1>3, <1>8, <1>13, <1>14, <1>15, <1>16, <1>17 DEF InvOf, TypesOK, Owns
<1> QED
  BY <1>1, <1>18 DEF g, s, p

----------------------------------------------------------------------------
(* What a call does, step by step.                                         *)

\* The place of an item, said of the objects.
LEMMA PlaceSame ==
  ASSUME NEW m, NEW i
  PROVE  Place(m, i) = PlaceIn(obj, m, i)
BY DEF Place, PlaceIn, KeyVal

\* Whatever a call does next, the invariant holds.
LEMMA GoOnStep ==
  ASSUME IInv, GoOn
  PROVE  IInv'
<1> DEFINE f == Head(todo)
           a == f.a
<1>1. InvOf(obj, own, todo) /\ todo # <<>> /\ own' = own
  BY DEF IInv, GoOn, Idle
<1> SUFFICES InvOf(obj', own, todo')
  BY <1>1 DEF IInv
<1>2. ASSUME DoRetain PROVE InvOf(obj', own, todo')
  <2>1. f.op = "retain" /\ obj' = WithR(obj, a, obj[a].r + 1) /\ todo' = Tail(todo)
    BY <1>2 DEF DoRetain, Retained, WithR
  <2> QED
    BY <1>1, <2>1, RetainKept
<1>3. ASSUME DoRelease PROVE InvOf(obj', own, todo')
  <2>1. f.op = "release"
    BY <1>3 DEF DoRelease
  <2>2. CASE a = Null
    <3>1. obj' = obj /\ todo' = Tail(todo)
      BY <1>3, <2>2 DEF DoRelease
    <3> QED
      BY <1>1, <2>1, <2>2, <3>1, ReleaseNullKept
  <2>3. CASE a # Null /\ obj[a].r = 1
    <3>1. obj' = WithR(obj, a, obj[a].r - 1) /\ todo' = <<Do("destroy", a)>> \o Tail(todo)
      BY <1>3, <2>3 DEF DoRelease, WithR
    <3> QED
      BY <1>1, <2>1, <2>3, <3>1, ReleaseLastKept
  <2>4. CASE a # Null /\ obj[a].r # 1
    <3>1. obj' = WithR(obj, a, obj[a].r - 1) /\ todo' = <<>> \o Tail(todo)
      BY <1>3, <2>4 DEF DoRelease, WithR
    <3>2. todo' = Tail(todo)
      BY <1>1, <3>1, HeadIs
    <3> QED
      BY <1>1, <2>1, <2>4, <3>1, <3>2, ReleaseSomeKept
  <2> QED
    BY <2>2, <2>3, <2>4
<1>4. ASSUME DoDestroy PROVE InvOf(obj', own, todo')
  <2>1. f.op = "destroy"
    BY <1>4 DEF DoDestroy
  <2>2. CASE obj[a].items = <<>>
    <3>1. obj' = With(obj, a, Null) /\ todo' = Tail(todo)
      BY <1>4, <2>2 DEF DoDestroy, With
    <3> QED
      BY <1>1, <2>1, <2>2, <3>1, FreeKept
  <2>3. CASE obj[a].items # <<>>
    <3>1. /\ obj' = WithItems(obj, a, Tail(obj[a].items))
          /\ todo' = Releases(Head(obj[a].items)) \o todo
      BY <1>4, <2>3 DEF DoDestroy, WithItems
    <3> QED
      BY <1>1, <2>1, <2>3, <3>1, EmptyKept
  <2> QED
    BY <2>2, <2>3
<1>5. ASSUME DoInsert PROVE InvOf(obj', own, todo')
  <2> DEFINE i == f.item
             s == InsertAt(obj[a].items, PlaceIn(obj, a, i), i)
  <2>1. f.op = "insert" /\ todo' = Tail(todo)
    BY <1>5 DEF DoInsert
  <2>2. obj' = WithItems(obj, a, s)
    <3>1. obj' = [obj EXCEPT ![a].items = InsertAt(@, Place(a, i), i)]
      BY <1>5 DEF DoInsert
    <3>2. Place(a, i) = PlaceIn(obj, a, i)
      BY PlaceSame
    <3> QED
      BY <3>1, <3>2 DEF WithItems
  <2>3. InvOf(WithItems(obj, a, s), own, Tail(todo))
    BY <1>1, <2>1, InsertionKept
  <2> QED
    BY <2>1, <2>2, <2>3
<1> QED
  BY <1>2, <1>3, <1>4, <1>5 DEF GoOn

----------------------------------------------------------------------------
(* What the program does between calls.                                    *)

Alive(o, a) == a = Null \/ (a \in Addr /\ o[a] # Null)
Holder(o) == \A a \in Addr : o[a] # Null => \A p \in DOMAIN o[a].items :
               Alive(o, o[a].items[p].k) /\ Alive(o, o[a].items[p].v)

\* Between calls.
LEMMA IdleIs ==
  ASSUME NEW o, NEW n, InvOf(o, n, <<>>)
  PROVE  /\ o \in Objs /\ n \in [Var -> Ptr] /\ DataOK(o) /\ PlainOK(o)
         /\ \A w \in Var : Alive(o, n[w])
         /\ Holder(o)
         /\ \A a \in Addr : o[a] # Null =>
              /\ o[a].r = Pointers(n, a) + Holds(ItemsOf(o), a)
              /\ Pointers(n, a) \in Nat /\ Holds(ItemsOf(o), a) \in Nat
              /\ o[a].r \in Nat
<1>1. o \in Objs /\ n \in [Var -> Ptr] /\ DataOK(o) /\ PlainOK(o) /\ AllWhole(o, n, <<>>)
  BY DEF InvOf, TypesOK, Owns
<1>2. \A w \in Var : Alive(o, n[w])
  BY <1>1 DEF AllWhole, OwnWhole, Whole, Alive
<1>3. Holder(o)
  BY <1>1 DEF AllWhole, ItemsWhole, Whole, Alive, Holder
<1>4. ASSUME NEW a \in Addr, o[a] # Null
      PROVE  /\ o[a].r = Pointers(n, a) + Holds(ItemsOf(o), a)
             /\ Pointers(n, a) \in Nat /\ Holds(ItemsOf(o), a) \in Nat
             /\ o[a].r \in Nat
  <2> DEFINE c == Pointers(n, a)
             h == Holds(ItemsOf(o), a)
  <2>1. /\ o[a].r = c + h + Debt(<<>>, a) /\ o[a].r \in Nat
        /\ c \in Nat /\ h \in Nat
    BY <1>4, CountedIs
  <2>2. Debt(<<>>, a) = 0
    BY DebtNone
  <2> HIDE DEF c, h
  <2>3. o[a].r = c + h
    BY <2>1, <2>2
  <2> QED
    BY <2>1, <2>3 DEF c, h
<1> QED
  BY <1>1, <1>2, <1>3, <1>4

\* No memory that is free is pointed to.
LEMMA FreeUnowned ==
  ASSUME NEW o, NEW n, InvOf(o, n, <<>>), NEW a \in Addr, o[a] = Null
  PROVE  /\ Pointers(n, a) = 0 /\ Holds(ItemsOf(o), a) = 0
         /\ ItemsOf(o)[a] = <<>>
<1>1. /\ o \in Objs /\ n \in [Var -> Ptr] /\ Holder(o)
      /\ \A w \in Var : Alive(o, n[w])
  BY IdleIs
<1>2. a # Null
  BY MmCollectionsAssumption
<1>3. \A w \in Var : n[w] # a
  BY <1>1, <1>2 DEF Alive
<1>4. Pointers(n, a) = 0
  BY <1>1, <1>3, OwnZero
<1>5. ItemsOf(o) \in Tables
  BY <1>1, ItemsOfType
<1>6. \A b \in Addr : \A p \in DOMAIN ItemsOf(o)[b] : ItemsOf(o)[b][p].k # a /\ ItemsOf(o)[b][p].v # a
  <2> SUFFICES ASSUME NEW b \in Addr, NEW p \in DOMAIN ItemsOf(o)[b]
               PROVE  ItemsOf(o)[b][p].k # a /\ ItemsOf(o)[b][p].v # a
    OBVIOUS
  <2>1. o[b] # Null /\ ItemsOf(o)[b] = o[b].items
    BY DEF ItemsOf
  <2> QED
    BY <1>1, <1>2, <2>1 DEF Holder, Alive
<1>7. Holds(ItemsOf(o), a) = 0
  <2> DEFINE f == ItemsOf(o)
  <2> HIDE DEF f
  <2>1. f \in Tables /\ \A b \in Addr : \A p \in DOMAIN f[b] : f[b][p].k # a /\ f[b][p].v # a
    BY <1>5, <1>6 DEF f
  <2>2. Holds(f, a) = 0
    BY <2>1, HoldsZero
  <2> QED
    BY <2>2 DEF f
<1> QED
  BY <1>4, <1>7 DEF ItemsOf

\* A call that begins.
LEMMA BeginKept ==
  ASSUME NEW o, NEW n, InvOf(o, n, <<>>), NEW g \in Objs, NEW n2 \in [Var -> Ptr],
         NEW x \in Seq(Step), Destroyed(x) = {},
         \A w \in Var : Alive(g, n2[w]), Holder(g),
         \A p \in DOMAIN x : /\ Alive(g, x[p].item.k) /\ Alive(g, x[p].item.v)
                             /\ Alive(g, x[p].a),
         ObjStep(o, g), PlainOK(g), Ordered(x), StepsOK(g, n2, x), Counted(g, n2, x)
  PROVE  InvOf(g, n2, x)
<1>1. \A a : Alive(g, a) => Whole(g, x, a)
  BY DEF Alive, Whole
<1>2. ItemsWhole(g, x)
  BY <1>1 DEF Holder, ItemsWhole
<1>3. AllWhole(g, n2, x)
  BY <1>1, <1>2 DEF AllWhole, OwnWhole, StepsWhole
<1>4. DataOK(g)
  <2>1. o \in Objs /\ DataOK(o)
    BY IdleIs
  <2> QED
    BY <1>2, <2>1, DataKept
<1> QED
  BY <1>3, <1>4 DEF InvOf, TypesOK, Owns

\* What is done at once.
LEMMA AtOnceKept ==
  ASSUME NEW o, NEW n, InvOf(o, n, <<>>), NEW g \in Objs, NEW n2 \in [Var -> Ptr],
         \A w \in Var : Alive(g, n2[w]), Holder(g), ObjStep(o, g), PlainOK(g),
         \A a \in Addr : g[a] # Null =>
           g[a].r = Pointers(n2, a) + Holds(ItemsOf(g), a)
  PROVE  InvOf(g, n2, <<>>)
<1>1. DOMAIN (<<>>) = {} /\ <<>> \in Seq(Step)
  OBVIOUS
<1>2. Destroyed(<<>>) = {} /\ Ordered(<<>>) /\ StepsOK(g, n2, <<>>)
  BY <1>1 DEF Destroyed, Ordered, StepsOK
<1>3. Counted(g, n2, <<>>)
  <2> SUFFICES ASSUME NEW a \in Addr, g[a] # Null PROVE g[a].r = OwnersOf(g, n2, <<>>, a)
    BY DEF Counted
  <2> DEFINE c == Pointers(n2, a)
             h == Holds(ItemsOf(g), a)
  <2>1. g[a].r = c + h
    OBVIOUS
  <2>2. c \in Nat
    BY OwnZero
  <2>3. ItemsOf(g) \in Tables
    BY ItemsOfType
  <2>4. h \in Nat
    <3> DEFINE f == ItemsOf(g)
    <3>1. f \in Tables
      BY <2>3
    <3> HIDE DEF f
    <3>2. Holds(f, a) \in Nat
      BY <3>1, HoldsZero
    <3> QED
      BY <3>2 DEF f
  <2>5. Debt(<<>>, a) = 0
    BY DebtNone
  <2> HIDE DEF c, h
  <2>6. g[a].r = c + h + 0
    BY <2>1, <2>2, <2>4
  <2> QED
    BY <2>5, <2>6 DEF OwnersOf, c, h
<1> QED
  BY <1>1, <1>2, <1>3, BeginKept

\* What is pointed to, in terms of the objects.
LEMMA PointsToIs ==
  ASSUME obj \in Objs, NEW a \in Addr
  PROVE  PointsTo(a) = Pointed(obj, a)
<1>0. obj \in Objs /\ Null \notin Addr
  BY MmCollectionsAssumption
<1>1. CASE obj[a] = Null
  BY <1>1 DEF PointsTo, Live, Pointed
<1>2. CASE obj[a] # Null
  <2> DEFINE s == obj[a].items
  <2>1. s \in Seq(Item)
    BY <1>0, <1>2, ItemsOfType
  <2>2. Range(s) = {s[p] : p \in DOMAIN s}
    BY DEF Range
  <2>3. \A p \in DOMAIN s : s[p].k \in Ptr /\ s[p].v \in Ptr
    <3> HIDE DEF s
    <3>1. \A p \in DOMAIN s : s[p] \in Item
      BY <2>1
    <3> QED
      BY <3>1 DEF Item
  <2>4. PointsTo(a) = (UNION {{i.k, i.v} : i \in Range(s)}) \ {Null}
    BY <1>2 DEF PointsTo, Live
  <2>5. Pointed(obj, a) = {x \in Addr : \E p \in DOMAIN s : x \in {s[p].k, s[p].v}}
    BY <1>2 DEF Pointed
  <2> HIDE DEF s
  <2>6. \A x : x \in PointsTo(a) <=> x # Null /\ \E p \in DOMAIN s : x \in {s[p].k, s[p].v}
    <3> DEFINE Q == Range(s)
    <3>1. \A i : i \in Q <=> \E p \in DOMAIN s : i = s[p]
      BY <2>2
    <3>2. PointsTo(a) = (UNION {{i.k, i.v} : i \in Q}) \ {Null}
      BY <2>4
    <3> HIDE DEF Q
    <3>3. \A x : x \in PointsTo(a) <=> x # Null /\ \E i \in Q : x \in {i.k, i.v}
      <4> DEFINE U == {{i.k, i.v} : i \in Q}
      <4>1. \A y : y \in U <=> \E i \in Q : y = {i.k, i.v}
        OBVIOUS
      <4>2. PointsTo(a) = (UNION U) \ {Null}
        BY <3>2
      <4> HIDE DEF U
      <4>3. \A x : x \in PointsTo(a) <=> x # Null /\ \E y \in U : x \in y
        BY <4>2
      <4> SUFFICES ASSUME NEW x
                   PROVE  (\E y \in U : x \in y) <=> \E i \in Q : x \in {i.k, i.v}
        BY <4>3
      <4>4. ASSUME NEW i \in Q, x \in {i.k, i.v} PROVE \E y \in U : x \in y
        <5>1. {i.k, i.v} \in U
          BY <4>1
        <5> QED
          BY <4>4, <5>1
      <4>5. ASSUME NEW y \in U, x \in y PROVE \E i \in Q : x \in {i.k, i.v}
        BY <4>1, <4>5
      <4> QED
        BY <4>4, <4>5
    <3> QED
      BY <3>1, <3>3
  <2> QED
    BY <1>0, <2>3, <2>5, <2>6 DEF Ptr
<1> QED
  BY <1>1, <1>2

\* What the program knows is there.
LEMMA KnownIs ==
  ASSUME IInv, Idle
  PROVE  /\ Known = Reached(obj, Roots(obj, own, <<>>))
         /\ \A a \in Known : a \in Addr /\ obj[a] # Null
         /\ Unused = Idles(obj, <<>>)
<1>1. InvOf(obj, own, <<>>) /\ todo = <<>>
  BY DEF IInv, Idle
<1>2. obj \in Objs /\ own \in [Var -> Ptr] /\ ItemsWhole(obj, <<>>) /\ OwnWhole(obj, own, <<>>)
  BY <1>1 DEF InvOf, TypesOK, Owns, AllWhole
<1>3. Null \notin Addr
  BY MmCollectionsAssumption
<1>4. \A a \in Addr : PointsTo(a) = Pointed(obj, a)
  BY <1>2, PointsToIs
<1>5. Destroying = {} /\ Destroyed(<<>>) = {} /\ Carried(<<>>) = {}
  BY <1>1 DEF Destroying, Destroyed, Carried, Range
<1>6. Unused = Idles(obj, <<>>)
  BY <1>5 DEF Unused, Idles, Live
<1> DEFINE S == (Range(own) \ {Null}) \cup Unused
<1>7. S = Roots(obj, own, <<>>)
  <2>1. Range(own) = {own[w] : w \in Var}
    BY <1>2 DEF Range
  <2> QED
    BY <1>2, <1>3, <1>5, <1>6, <2>1 DEF Roots, Ptr
<1>8. Known = Reached(obj, Roots(obj, own, <<>>))
  <2>1. Known = Reach(S)
    BY DEF Known
  <2> HIDE DEF S
  <2>2. Reach(S) = Reached(obj, S)
    <3>1. \A T \in SUBSET Addr : (\A b \in T : PointsTo(b) \subseteq T) <=> Closed(obj, T)
      BY <1>4 DEF Closed
    <3> QED
      BY <3>1 DEF Reach, Reached
  <2> QED
    BY <1>7, <2>1, <2>2
<1>9. \A a \in Known : a \in Addr /\ obj[a] # Null
  <2> DEFINE R == Roots(obj, own, <<>>)
  <2>1. R \in SUBSET Addr
    BY DEF Roots, Idles, Carried
  <2>2. \A a \in R : Whole(obj, <<>>, a)
    BY <1>2, <1>3, <1>5 DEF Roots, Idles, Whole, OwnWhole
  <2> HIDE DEF R
  <2>3. \A a \in Reached(obj, R) : a \in Addr /\ obj[a] # Null /\ Whole(obj, <<>>, a)
    BY <1>2, <2>1, <2>2, ReachWhole
  <2> QED
    BY <1>8, <2>3 DEF R
<1> QED
  BY <1>6, <1>8, <1>9

\* Objects that stay what they are.
LEMMA StepSame ==
  ASSUME NEW o \in Objs, NEW g \in Objs,
         \A b \in Addr : g[b] # Null =>
           \/ Fresh(o, g, b)
           \/ /\ o[b] # Null /\ g[b].kind = o[b].kind /\ g[b].val = o[b].val
              /\ o[b].kind \in Maps => g[b].items = o[b].items
  PROVE  ObjStep(o, g)
<1> SUFFICES ASSUME NEW b \in Addr, g[b] # Null, ~Fresh(o, g, b) PROVE Kept(o, g, b)
  BY DEF ObjStep
<1>1. /\ o[b] # Null /\ g[b].kind = o[b].kind /\ g[b].val = o[b].val
      /\ o[b].kind \in Maps => g[b].items = o[b].items
  OBVIOUS
<1>2. o[b].items \in Seq(Item)
  BY <1>1, ItemsOfType
<1>3. Shrunk(o[b].items, o[b].items)
  BY <1>2, ShrunkSame
<1> QED
  BY <1>1, <1>3 DEF Kept

\* The pointers, with one of them set.
Points(n, w, y) == [n EXCEPT ![w] = y]

\* A pointer that is set has its value, and the others keep theirs.
LEMMA PointerSet ==
  ASSUME NEW n \in [Var -> Ptr], NEW w \in Var, NEW y \in Ptr
  PROVE  /\ Points(n, w, y) \in [Var -> Ptr] /\ Points(n, w, y)[w] = y
         /\ \A u \in Var \ {w} : Points(n, w, y)[u] = n[u]
BY DEF Points

\* A count is taken or given up with a pointer.
LEMMA RecountKept ==
  ASSUME NEW o, NEW n, InvOf(o, n, <<>>), NEW x \in Addr, o[x] # Null, NEW c \in Nat,
         NEW w \in Var, NEW y, NEW n2, n2 = Points(n, w, y),
         \/ n[w] = Null /\ y = x /\ c = o[x].r + 1
         \/ n[w] = x /\ y = Null /\ o[x].r = c + 1
  PROVE  InvOf(WithR(o, x, c), n2, <<>>)
<1> DEFINE g == WithR(o, x, c)
<1>1. /\ o \in Objs /\ n \in [Var -> Ptr] /\ PlainOK(o) /\ Holder(o)
      /\ \A u \in Var : Alive(o, n[u])
      /\ \A a \in Addr : o[a] # Null =>
              /\ o[a].r = Pointers(n, a) + Holds(ItemsOf(o), a)
              /\ Pointers(n, a) \in Nat /\ Holds(ItemsOf(o), a) \in Nat
              /\ o[a].r \in Nat
  BY IdleIs
<1>2. /\ g \in Objs /\ g[x] # Null /\ g[x].r = c
      /\ g[x].kind = o[x].kind /\ g[x].val = o[x].val /\ g[x].items = o[x].items
      /\ \A b \in Addr \ {x} : g[b] = o[b]
      /\ ItemsOf(g) = ItemsOf(o)
  BY <1>1, SetR
<1> HIDE DEF g
<1>3. \A b \in Addr : o[b] # Null <=> g[b] # Null
  BY <1>2
<1>4. \A a : Alive(o, a) <=> Alive(g, a)
  BY <1>3 DEF Alive
<1>5. y \in Ptr /\ Alive(g, y) /\ Null \notin Addr
  BY <1>2, MmCollectionsAssumption DEF Alive, Ptr
<1>6. /\ n2 \in [Var -> Ptr] /\ n2[w] = y /\ \A u \in Var \ {w} : n2[u] = n[u]
      /\ \A u \in Var : Alive(g, n2[u])
  <2>1. n2 \in [Var -> Ptr] /\ n2[w] = y /\ \A u \in Var \ {w} : n2[u] = n[u]
    BY <1>1, <1>5, PointerSet
  <2> QED
    BY <1>1, <1>4, <1>5, <2>1
<1>7. Holder(g) /\ PlainOK(g)
  <2>1. \A b \in Addr : g[b] # Null => g[b].items = o[b].items /\ g[b].kind = o[b].kind
    BY <1>2
  <2> QED
    BY <1>1, <1>3, <1>4, <2>1 DEF Holder, PlainOK
<1>8. ObjStep(o, g)
  <2>1. \A b \in Addr : g[b] # Null =>
           /\ o[b] # Null /\ g[b].kind = o[b].kind /\ g[b].val = o[b].val
           /\ g[b].items = o[b].items
    BY <1>2, <1>3
  <2> QED
    BY <1>1, <1>2, <2>1, StepSame
<1>9. ASSUME NEW a \in Addr, g[a] # Null
      PROVE  g[a].r = Pointers(n2, a) + Holds(ItemsOf(g), a)
  <2> DEFINE j == Pointers(n, a)
             k == Pointers(n2, a)
             h == Holds(ItemsOf(o), a)
  <2>1. o[a].r = j + h /\ j \in Nat /\ h \in Nat /\ Holds(ItemsOf(g), a) = h
    BY <1>1, <1>2, <1>3, <1>9
  <2>2. k + One(n[w], a) = j + One(y, a) /\ k \in Nat
    <3>1. /\ n \in [Var -> Ptr] /\ y \in Ptr /\ n2 \in [Var -> Ptr]
          /\ n2[w] = y /\ \A u \in Var \ {w} : n2[u] = n[u]
      BY <1>1, <1>5, <1>6
    <3> QED
      BY <3>1, OwnChange
  <2> HIDE DEF j, k, h
  <2>3. CASE a # x
    <3>1. One(n[w], a) = 0 /\ One(y, a) = 0
      BY <1>5, <2>3 DEF One
    <3>2. g[a].r = o[a].r /\ k = j
      BY <1>2, <2>1, <2>2, <2>3, <3>1
    <3> QED
      BY <2>1, <3>2 DEF k, h
  <2>4. CASE a = x /\ n[w] = Null
    <3>1. One(n[w], a) = 0 /\ One(y, a) = 1 /\ c = o[x].r + 1
      BY <1>5, <2>4 DEF One
    <3>2. c = k + h
      BY <2>1, <2>2, <2>4, <3>1
    <3> QED
      BY <1>2, <2>1, <2>4, <3>2 DEF k, h
  <2>5. CASE a = x /\ n[w] = x
    <3>1. One(n[w], a) = 1 /\ One(y, a) = 0 /\ o[x].r = c + 1
      BY <1>5, <2>5 DEF One
    <3>2. c = k + h
      BY <2>1, <2>2, <2>5, <3>1
    <3> QED
      BY <1>2, <2>1, <2>5, <3>2 DEF k, h
  <2> QED
    BY <2>3, <2>4, <2>5
<1>10. InvOf(g, n2, <<>>)
  BY <1>2, <1>6, <1>7, <1>8, <1>9, AtOnceKept
<1> QED
  BY <1>10 DEF g

\* A new object.
LEMMA NewKept ==
  ASSUME NEW o, NEW n, InvOf(o, n, <<>>), NEW w \in Var, n[w] = Null, NEW a \in Addr, o[a] = Null,
         NEW n2, n2 = Points(n, w, a),
         NEW x \in Object, x.r = 1, x.items = <<>>, x.kind = "int" => x.val \in Val
  PROVE  InvOf(With(o, a, x), n2, <<>>)
<1> DEFINE g == With(o, a, x)
<1>1. /\ o \in Objs /\ n \in [Var -> Ptr] /\ PlainOK(o) /\ Holder(o)
      /\ \A u \in Var : Alive(o, n[u])
      /\ \A b \in Addr : o[b] # Null =>
              /\ o[b].r = Pointers(n, b) + Holds(ItemsOf(o), b)
              /\ Pointers(n, b) \in Nat /\ Holds(ItemsOf(o), b) \in Nat
              /\ o[b].r \in Nat
  BY IdleIs
<1>2. x # Null /\ Null \notin Addr /\ MaxItems \in Nat \ {0}
  BY MmCollectionsAssumption
<1>3. /\ g \in Objs /\ g[a] = x /\ \A b \in Addr \ {a} : g[b] = o[b]
      /\ ItemsOf(g)[a] = <<>> /\ \A b \in Addr \ {a} : ItemsOf(g)[b] = ItemsOf(o)[b]
  <2>1. Len(x.items) <= MaxItems
    BY <1>2
  <2> QED
    BY <1>1, <1>2, <2>1, SetObject
<1> HIDE DEF g
<1>4. /\ Pointers(n, a) = 0 /\ Holds(ItemsOf(o), a) = 0
      /\ ItemsOf(o)[a] = <<>>
  BY FreeUnowned
<1>5. ItemsOf(g) = ItemsOf(o)
  <2>1. \A b \in Addr : ItemsOf(g)[b] = ItemsOf(o)[b]
    BY <1>3, <1>4
  <2>2. ItemsOf(g) \in [Addr -> Seq(Item)] /\ ItemsOf(o) \in [Addr -> Seq(Item)]
    BY <1>1, <1>3, ItemsOfType DEF Tables
  <2> QED
    BY <2>1, <2>2
<1>6. \A b : Alive(o, b) => Alive(g, b)
  BY <1>3 DEF Alive
<1>7. a \in Ptr /\ Alive(g, a)
  BY <1>2, <1>3 DEF Alive, Ptr
<1>8. /\ n2 \in [Var -> Ptr] /\ n2[w] = a /\ \A u \in Var \ {w} : n2[u] = n[u]
      /\ \A u \in Var : Alive(g, n2[u])
  <2>1. n2 \in [Var -> Ptr] /\ n2[w] = a /\ \A u \in Var \ {w} : n2[u] = n[u]
    BY <1>1, <1>7, PointerSet
  <2> QED
    BY <1>1, <1>6, <1>7, <2>1
<1>9. Holder(g) /\ PlainOK(g)
  <2> SUFFICES ASSUME NEW b \in Addr, g[b] # Null, NEW p \in DOMAIN g[b].items
               PROVE  /\ Alive(g, g[b].items[p].k) /\ Alive(g, g[b].items[p].v)
                      /\ g[b].kind \notin Maps => g[b].items[p].k = Null
    BY DEF Holder, PlainOK
  <2>1. b # a
    BY <1>3
  <2> QED
    BY <1>1, <1>3, <1>6, <2>1 DEF Holder, PlainOK
<1>10. ObjStep(o, g)
  <2>1. Fresh(o, g, a)
    BY <1>2, <1>3 DEF Fresh
  <2> QED
    BY <1>1, <1>3, <2>1, StepSame
<1>11. ASSUME NEW b \in Addr, g[b] # Null
       PROVE  g[b].r = Pointers(n2, b) + Holds(ItemsOf(g), b)
  <2> DEFINE j == Pointers(n, b)
             k == Pointers(n2, b)
             h == Holds(ItemsOf(o), b)
  <2>1. k + One(n[w], b) = j + One(a, b) /\ k \in Nat /\ j \in Nat
    <3>1. /\ n \in [Var -> Ptr] /\ a \in Ptr /\ n2 \in [Var -> Ptr]
          /\ n2[w] = a /\ \A u \in Var \ {w} : n2[u] = n[u]
      BY <1>1, <1>7, <1>8
    <3> QED
      BY <3>1, OwnChange
  <2>2. One(n[w], b) = 0
    BY <1>2 DEF One
  <2>3. Holds(ItemsOf(g), b) = h
    BY <1>5
  <2>4. CASE b = a
    <3>1. j = 0 /\ h = 0 /\ One(a, b) = 1 /\ g[b].r = 1
      BY <1>2, <1>3, <1>4, <2>4 DEF One
    <3> HIDE DEF j, k, h
    <3>2. k = 1
      BY <2>1, <2>2, <3>1
    <3> QED
      BY <2>3, <3>1, <3>2 DEF k
  <2>5. CASE b # a
    <3>1. g[b].r = j + h /\ h \in Nat /\ One(a, b) = 0
      BY <1>1, <1>3, <1>11, <2>5 DEF One
    <3> HIDE DEF j, k, h
    <3>2. k = j
      BY <2>1, <2>2, <3>1
    <3> QED
      BY <2>3, <3>1, <3>2 DEF k
  <2> QED
    BY <2>4, <2>5
<1>12. InvOf(g, n2, <<>>)
  BY <1>3, <1>8, <1>9, <1>10, <1>11, AtOnceKept
<1> QED
  BY <1>12 DEF g

\* A call that begins by giving counts up.
LEMMA GiveUpKept ==
  ASSUME NEW o, NEW n, InvOf(o, n, <<>>), NEW g \in Objs, NEW n2 \in [Var -> Ptr],
         NEW x \in Seq(Step),
         \A p \in DOMAIN x : x[p].op = "release" /\ x[p].item = Elem(Null) /\ Alive(g, x[p].a),
         \A w \in Var : Alive(g, n2[w]), Holder(g), ObjStep(o, g), PlainOK(g),
         \A a \in Addr : g[a] # Null =>
           g[a].r = Pointers(n2, a) + Holds(ItemsOf(g), a) + Debt(x, a)
  PROVE  InvOf(g, n2, x)
<1>1. Elem(Null).k = Null /\ Elem(Null).v = Null
  BY DEF Elem
<1>2. \A p \in DOMAIN x : Alive(g, x[p].item.k) /\ Alive(g, x[p].item.v) /\ Alive(g, x[p].a)
  BY <1>1 DEF Alive
<1>3. Destroyed(x) = {}
  BY DEF Destroyed
<1>4. Ordered(x)
  BY DEF Ordered
<1>5. StepsOK(g, n2, x)
  BY DEF StepsOK, StepOK
<1>6. Counted(g, n2, x)
  BY DEF Counted, OwnersOf
<1> QED
  BY <1>2, <1>3, <1>4, <1>5, <1>6, BeginKept

\* A pointer's count is given up.
LEMMA LetGoKept ==
  ASSUME NEW o, NEW n, InvOf(o, n, <<>>), NEW w \in Var,
         NEW n2, n2 = Points(n, w, Null)
  PROVE  InvOf(o, n2, <<Do("release", n[w])>>)
<1> DEFINE y == n[w]
           x == <<Do("release", y)>>
<1>1. /\ o \in Objs /\ n \in [Var -> Ptr] /\ PlainOK(o) /\ Holder(o)
      /\ \A u \in Var : Alive(o, n[u])
      /\ \A a \in Addr : o[a] # Null =>
              /\ o[a].r = Pointers(n, a) + Holds(ItemsOf(o), a)
              /\ Pointers(n, a) \in Nat /\ Holds(ItemsOf(o), a) \in Nat
              /\ o[a].r \in Nat
  BY IdleIs
<1>2. y \in Ptr /\ Alive(o, y) /\ Null \in Ptr /\ Null \notin Addr /\ Alive(o, Null)
  BY <1>1, MmCollectionsAssumption DEF Ptr, Alive
<1>3. /\ n2 \in [Var -> Ptr] /\ n2[w] = Null /\ \A u \in Var \ {w} : n2[u] = n[u]
  BY <1>1, <1>2, PointerSet
<1>4. /\ x \in Seq(Step) /\ \A a \in Addr : Debt(x, a) = One(y, a)
      /\ Do("release", y).op = "release" /\ Do("release", y).a = y
      /\ Do("release", y).item = Elem(Null)
  <2> HIDE DEF y
  <2> QED
    BY <1>2, DoIs
<1>5. \A p \in DOMAIN x : x[p].op = "release" /\ x[p].item = Elem(Null) /\ Alive(o, x[p].a)
  BY <1>2, <1>4
<1> HIDE DEF x, y
<1>6. \A u \in Var : Alive(o, n2[u])
  BY <1>1, <1>2, <1>3
<1>7. ObjStep(o, o)
  BY <1>1, StepSame
<1>8. ASSUME NEW a \in Addr, o[a] # Null
      PROVE  o[a].r = Pointers(n2, a) + Holds(ItemsOf(o), a) + Debt(x, a)
  <2>1. Pointers(n2, a) + One(n[w], a) = Pointers(n, a) + One(Null, a) /\ Pointers(n2, a) \in Nat
    BY <1>1, <1>2, <1>3, OwnChange
  <2>2. One(Null, a) = 0 /\ One(y, a) \in Nat /\ Debt(x, a) = One(y, a)
    BY <1>2, <1>4 DEF One
  <2>3. Pointers(n2, a) + One(y, a) = Pointers(n, a)
    BY <1>1, <1>8, <2>1, <2>2 DEF y
  <2> QED
    BY <1>1, <1>8, <2>1, <2>2, <2>3
<1>9. InvOf(o, n2, x)
  BY <1>1, <1>3, <1>4, <1>5, <1>6, <1>7, <1>8, GiveUpKept
<1> QED
  BY <1>9 DEF x, y

\* An object without counts is destroyed.
LEMMA DrainKept ==
  ASSUME NEW o, NEW n, InvOf(o, n, <<>>), NEW a \in Addr, o[a] # Null, o[a].r = 0
  PROVE  InvOf(o, n, <<Do("destroy", a)>>)
<1> DEFINE x == <<Do("destroy", a)>>
<1>1. /\ o \in Objs /\ n \in [Var -> Ptr] /\ PlainOK(o) /\ DataOK(o) /\ Holder(o)
      /\ \A u \in Var : Alive(o, n[u])
      /\ \A b \in Addr : o[b] # Null =>
              /\ o[b].r = Pointers(n, b) + Holds(ItemsOf(o), b)
              /\ Pointers(n, b) \in Nat /\ Holds(ItemsOf(o), b) \in Nat
              /\ o[b].r \in Nat
  BY IdleIs
<1>2. a \in Ptr /\ Null \notin Addr /\ Elem(Null).k = Null /\ Elem(Null).v = Null
  BY MmCollectionsAssumption DEF Ptr, Elem
<1>3. /\ x \in Seq(Step) /\ \A b \in Addr : Debt(x, b) = 0
      /\ Do("destroy", a).op = "destroy" /\ Do("destroy", a).a = a
      /\ Do("destroy", a).item = Elem(Null)
  BY <1>2, DoIs
<1>4. \A p \in DOMAIN x : p = 1 /\ x[p].op = "destroy" /\ x[p].a = a /\ x[p].item = Elem(Null)
  BY <1>3
<1> HIDE DEF x
<1>5. Destroyed(x) \subseteq {a}
  BY <1>4 DEF Destroyed
<1>6. Unowned(o, n, <<>>, a)
  <2>1. <<>> \in Seq(Step) /\ DOMAIN (<<>>) = {}
    OBVIOUS
  <2>2. OwnersOf(o, n, <<>>, a) = 0
    BY DEF InvOf, Counted
  <2> DEFINE t == <<>>
  <2>3. t \in Seq(Step) /\ OwnersOf(o, n, t, a) = 0 /\ \A p \in DOMAIN t : ~(t[p].op = "retain" /\ t[p].a = a)
    BY <2>1, <2>2
  <2> HIDE DEF t
  <2>4. Unowned(o, n, t, a)
    BY <1>1, <2>3, OwnersZero
  <2> QED
    BY <2>4 DEF t
<1>7. \A b : Alive(o, b) /\ b # a => Whole(o, x, b)
  BY <1>5 DEF Alive, Whole
<1>8. AllWhole(o, n, x)
  <2>1. OwnWhole(o, n, x)
    BY <1>1, <1>6, <1>7 DEF OwnWhole, Unowned
  <2>2. ItemsWhole(o, x)
    BY <1>1, <1>6, <1>7 DEF ItemsWhole, Unowned, Holder
  <2>3. StepsWhole(o, x)
    BY <1>2, <1>4 DEF StepsWhole, Whole
  <2> QED
    BY <2>1, <2>2, <2>3 DEF AllWhole
<1>9. Ordered(x)
  BY <1>4 DEF Ordered
<1>10. StepsOK(o, n, x)
  BY <1>2, <1>4 DEF StepsOK, StepOK
<1>11. Counted(o, n, x)
  <2> SUFFICES ASSUME NEW b \in Addr, o[b] # Null PROVE o[b].r = OwnersOf(o, n, x, b)
    BY DEF Counted
  <2>1. /\ o[b].r = Pointers(n, b) + Holds(ItemsOf(o), b) /\ Debt(x, b) = 0
        /\ Pointers(n, b) \in Nat /\ Holds(ItemsOf(o), b) \in Nat
    BY <1>1, <1>3
  <2> QED
    BY <2>1 DEF OwnersOf
<1>12. InvOf(o, n, x)
  BY <1>1, <1>3, <1>8, <1>9, <1>10, <1>11 DEF InvOf, TypesOK, Owns
<1> QED
  BY <1>12 DEF x

\* What all hold changes with the items of one object.
LEMMA ItemsChange ==
  ASSUME NEW o \in Objs, NEW g \in Objs, NEW m \in Addr, NEW a,
         \A b \in Addr \ {m} : ItemsOf(g)[b] = ItemsOf(o)[b]
  PROVE  /\ Holds(ItemsOf(g), a) + HeldBy(ItemsOf(o)[m], a)
              = Holds(ItemsOf(o), a) + HeldBy(ItemsOf(g)[m], a)
         /\ Holds(ItemsOf(o), a) \in Nat /\ Holds(ItemsOf(g), a) \in Nat
         /\ HeldBy(ItemsOf(o)[m], a) \in Nat /\ HeldBy(ItemsOf(g)[m], a) \in Nat
<1> DEFINE v == ItemsOf(o)
           w == ItemsOf(g)
<1>1. v \in Tables /\ w \in Tables /\ \A b \in Addr \ {m} : w[b] = v[b]
  BY ItemsOfType
<1> HIDE DEF v, w
<1>2. /\ Holds(w, a) + HeldBy(v[m], a) = Holds(v, a) + HeldBy(w[m], a)
      /\ Holds(v, a) \in Nat /\ Holds(w, a) \in Nat
      /\ HeldBy(v[m], a) \in Nat /\ HeldBy(w[m], a) \in Nat
  BY <1>1, HoldsChange
<1> QED
  BY <1>2 DEF v, w

\* A new reference to an object.
LEMMA NewReferenceKept ==
  ASSUME NEW o, NEW n, InvOf(o, n, <<>>), NEW w \in Var, n[w] = Null, NEW a \in Addr, o[a] = Null,
         NEW z \in Addr, o[z] # Null,
         NEW n2, n2 = Points(n, w, a),
         NEW x \in Object, x.r = 1, x.items = <<Elem(z)>>, x.kind = "ref"
  PROVE  InvOf(With(WithR(o, z, o[z].r + 1), a, x), n2, <<>>)
<1> DEFINE c == o[z].r + 1
           y == WithR(o, z, c)
           g == With(y, a, x)
<1>1. /\ o \in Objs /\ n \in [Var -> Ptr] /\ PlainOK(o) /\ Holder(o)
      /\ \A u \in Var : Alive(o, n[u])
      /\ \A b \in Addr : o[b] # Null =>
              /\ o[b].r = Pointers(n, b) + Holds(ItemsOf(o), b)
              /\ Pointers(n, b) \in Nat /\ Holds(ItemsOf(o), b) \in Nat
              /\ o[b].r \in Nat
  BY IdleIs
<1>2. x # Null /\ Null \notin Addr /\ a # z /\ z \in Ptr /\ MaxItems \in Nat \ {0}
  BY MmCollectionsAssumption DEF Ptr
<1>3. /\ y \in Objs /\ y[z] # Null /\ y[z].r = c
      /\ y[z].kind = o[z].kind /\ y[z].val = o[z].val /\ y[z].items = o[z].items
      /\ \A b \in Addr \ {z} : y[b] = o[b]
      /\ ItemsOf(y) = ItemsOf(o)
  <2>1. c \in Nat
    BY <1>1
  <2> HIDE DEF c
  <2> QED
    BY <1>1, <2>1, SetR
<1> HIDE DEF y
<1>4. /\ g \in Objs /\ g[a] = x /\ \A b \in Addr \ {a} : g[b] = y[b]
      /\ ItemsOf(g)[a] = <<Elem(z)>> /\ \A b \in Addr \ {a} : ItemsOf(g)[b] = ItemsOf(o)[b]
  <2>1. x # Null /\ x \in Object \cup {Null} /\ Len(x.items) <= MaxItems /\ y \in Objs
    BY <1>2, <1>3
  <2>2. /\ With(y, a, x) \in Objs /\ With(y, a, x)[a] = x
        /\ \A b \in Addr \ {a} : With(y, a, x)[b] = y[b]
        /\ ItemsOf(With(y, a, x))[a] = (IF x # Null THEN x.items ELSE <<>>)
        /\ \A b \in Addr \ {a} : ItemsOf(With(y, a, x))[b] = ItemsOf(y)[b]
    BY <2>1, SetObject
  <2> QED
    BY <1>3, <2>1, <2>2
<1> HIDE DEF g
<1>5. Pointers(n, a) = 0 /\ Holds(ItemsOf(o), a) = 0 /\ ItemsOf(o)[a] = <<>>
  BY FreeUnowned
<1>6. \A b \in Addr : o[b] # Null => g[b] # Null
  BY <1>3, <1>4
<1>7. \A b : Alive(o, b) => Alive(g, b)
  BY <1>6 DEF Alive
<1>8. a \in Ptr /\ Alive(g, a)
  BY <1>2, <1>4 DEF Alive, Ptr
<1>9. /\ n2 \in [Var -> Ptr] /\ n2[w] = a /\ \A u \in Var \ {w} : n2[u] = n[u]
      /\ \A u \in Var : Alive(g, n2[u])
  <2>1. n2 \in [Var -> Ptr] /\ n2[w] = a /\ \A u \in Var \ {w} : n2[u] = n[u]
    BY <1>1, <1>8, PointerSet
  <2> QED
    BY <1>1, <1>7, <1>8, <2>1
<1>10. /\ Elem(z).k = Null /\ Elem(z).v = z
       /\ \A b \in Addr : HeldBy(<<Elem(z)>>, b) = One(z, b)
  BY <1>2, ElemIs
<1>11. \A b \in Addr \ {a} : g[b] # Null =>
         o[b] # Null /\ g[b].kind = o[b].kind /\ g[b].val = o[b].val /\ g[b].items = o[b].items
  BY <1>3, <1>4
<1>12. Holder(g) /\ PlainOK(g)
  <2> SUFFICES ASSUME NEW b \in Addr, g[b] # Null, NEW p \in DOMAIN g[b].items
               PROVE  /\ Alive(g, g[b].items[p].k) /\ Alive(g, g[b].items[p].v)
                      /\ g[b].kind \notin Maps => g[b].items[p].k = Null
    BY DEF Holder, PlainOK
  <2>1. CASE b = a
    <3>1. g[b].items = <<Elem(z)>>
      BY <1>4, <2>1
    <3>2. g[b].items[p] = Elem(z)
      BY <3>1
    <3> QED
      BY <1>6, <1>10, <3>2 DEF Alive
  <2>2. CASE b # a
    BY <1>1, <1>7, <1>11, <2>2 DEF Holder, PlainOK
  <2> QED
    BY <2>1, <2>2
<1>13. ObjStep(o, g)
  <2>1. Fresh(o, g, a)
    BY <1>2, <1>4 DEF Fresh, Maps
  <2> QED
    BY <1>1, <1>4, <1>11, <2>1, StepSame
<1>14. ASSUME NEW b \in Addr, g[b] # Null
       PROVE  g[b].r = Pointers(n2, b) + Holds(ItemsOf(g), b)
  <2>1. /\ Pointers(n2, b) + One(n[w], b) = Pointers(n, b) + One(a, b)
        /\ Pointers(n2, b) \in Nat /\ Pointers(n, b) \in Nat
    BY <1>1, <1>8, <1>9, OwnChange
  <2>2. One(n[w], b) = 0
    BY <1>2 DEF One
  <2>3. /\ Holds(ItemsOf(g), b) + HeldBy(<<>>, b) = Holds(ItemsOf(o), b) + One(z, b)
        /\ Holds(ItemsOf(g), b) \in Nat /\ Holds(ItemsOf(o), b) \in Nat
    <3>1. /\ Holds(ItemsOf(g), b) + HeldBy(ItemsOf(o)[a], b)
              = Holds(ItemsOf(o), b) + HeldBy(ItemsOf(g)[a], b)
          /\ Holds(ItemsOf(o), b) \in Nat /\ Holds(ItemsOf(g), b) \in Nat
      BY <1>1, <1>4, ItemsChange
    <3> QED
      BY <1>4, <1>5, <1>10, <3>1
  <2>4. HeldBy(<<>>, b) = 0
    BY HeldNone
  <2>5. Holds(ItemsOf(g), b) = Holds(ItemsOf(o), b) + One(z, b)
    BY <2>3, <2>4
  <2>6. CASE b = a
    <3>1. Pointers(n, b) = 0 /\ Holds(ItemsOf(o), b) = 0 /\ One(a, b) = 1 /\ g[b].r = 1 /\ One(z, b) = 0
      BY <1>2, <1>4, <1>5, <2>6 DEF One
    <3> QED
      BY <2>1, <2>2, <2>5, <3>1
  <2>7. CASE b # a
    <3>1. One(a, b) = 0 /\ g[b] = y[b] /\ o[b] # Null
      BY <1>4, <1>11, <1>14, <2>7 DEF One
    <3>2. y[b].r = o[b].r + One(z, b)
      <4>1. CASE b = z
        BY <1>3, <4>1 DEF One
      <4>2. CASE b # z
        BY <1>1, <1>3, <3>1, <4>2 DEF One
      <4> QED
        BY <4>1, <4>2
    <3>3. One(z, b) \in Nat /\ o[b].r = Pointers(n, b) + Holds(ItemsOf(o), b)
      BY <1>1, <3>1 DEF One
    <3> QED
      BY <2>1, <2>2, <2>3, <2>5, <3>1, <3>2, <3>3
  <2> QED
    BY <2>6, <2>7
<1>15. InvOf(g, n2, <<>>)
  BY <1>4, <1>9, <1>12, <1>13, <1>14, AtOnceKept
<1> QED
  BY <1>15 DEF g, y, c

\* An object that loses items, or none.
LEMMA StepOne ==
  ASSUME NEW o \in Objs, NEW g \in Objs, NEW m \in Addr,
         \A b \in Addr \ {m} : g[b] = o[b],
         o[m] # Null, g[m] # Null, g[m].kind = o[m].kind, g[m].val = o[m].val,
         Shrunk(o[m].items, g[m].items)
  PROVE  ObjStep(o, g)
<1> SUFFICES ASSUME NEW b \in Addr, g[b] # Null PROVE Kept(o, g, b)
  BY DEF ObjStep
<1>1. CASE b = m
  BY <1>1 DEF Kept
<1>2. CASE b # m
  <2>1. o[b].items \in Seq(Item)
    BY <1>2, ItemsOfType
  <2>2. Shrunk(o[b].items, o[b].items)
    BY <2>1, ShrunkSame
  <2> QED
    BY <1>2, <2>2 DEF Kept
<1> QED
  BY <1>1, <1>2

\* What items hold without one of them.
LEMMA HeldWithout ==
  ASSUME NEW s \in Seq(Item), NEW p \in 1 .. Len(s), NEW t, t = RemoveAt(s, p)
  PROVE  /\ t \in Seq(Item) /\ Len(t) = Len(s) - 1 /\ Shrunk(s, t) /\ s[p] \in Item
         /\ \A q \in DOMAIN t : \E r \in DOMAIN s : r # p /\ t[q] = s[r]
         /\ \A a : /\ HeldBy(s, a) = HeldBy(t, a) + One(s[p].k, a) + One(s[p].v, a)
                   /\ HeldBy(t, a) \in Nat
<1>1. /\ t \in Seq(Item) /\ Len(t) = Len(s) - 1
      /\ \A q \in 1 .. p - 1 : t[q] = s[q]
      /\ \A q \in p .. Len(s) - 1 : t[q] = s[q + 1]
      /\ \A X : Count(s, X) = Count(t, X) + Count(<<s[p]>>, X)
  BY RemoveIs
<1>2. Shrunk(s, t)
  BY <1>1, ShrunkRemove
<1>3. s[p] \in Item /\ Len(s) \in Nat
  OBVIOUS
<1>4. ASSUME NEW q \in DOMAIN t PROVE \E r \in DOMAIN s : r # p /\ t[q] = s[r]
  <2>1. q \in 1 .. Len(s) - 1 /\ DOMAIN s = 1 .. Len(s)
    BY <1>1
  <2>2. CASE q < p
    <3>1. q \in 1 .. p - 1 /\ q \in DOMAIN s /\ q # p
      BY <1>3, <2>1, <2>2
    <3> QED
      BY <1>1, <3>1
  <2>3. CASE ~(q < p)
    <3>1. q \in p .. Len(s) - 1 /\ q + 1 \in DOMAIN s /\ q + 1 # p
      BY <1>3, <2>1, <2>3
    <3> QED
      BY <1>1, <3>1
  <2> QED
    BY <2>2, <2>3
<1>5. ASSUME NEW a
      PROVE  /\ HeldBy(s, a) = HeldBy(t, a) + One(s[p].k, a) + One(s[p].v, a)
             /\ HeldBy(t, a) \in Nat
  <2> DEFINE i == s[p]
             X == {j \in Item : j.k = a}
             Y == {j \in Item : j.v = a}
             e == Count(<<i>>, X)
             f == Count(<<i>>, Y)
  <2>1. Count(s, X) = Count(t, X) + e /\ Count(s, Y) = Count(t, Y) + f
    BY <1>1
  <2>2. e \in Nat /\ f \in Nat
    BY CountOne
  <2>3. Count(t, X) \in Nat /\ Count(t, Y) \in Nat
    <3> HIDE DEF X, Y
    <3> QED
      BY <1>1, CountType
  <2>4. HeldBy(<<i>>, a) = One(i.k, a) + One(i.v, a)
    <3> HIDE DEF i, e, f
    <3>1. i \in Item
      BY <1>3 DEF i
    <3> QED
      BY <3>1, HeldOne
  <2>5. HeldBy(<<i>>, a) = e + f
    BY DEF HeldBy
  <2>6. One(i.k, a) \in Nat /\ One(i.v, a) \in Nat
    BY DEF One
  <2> HIDE DEF i, X, Y, e, f
  <2> DEFINE j == Count(t, X)
             k == Count(t, Y)
             c == One(i.k, a)
             d == One(i.v, a)
  <2>7. /\ Count(s, X) = j + e /\ Count(s, Y) = k + f /\ e + f = c + d
        /\ j \in Nat /\ k \in Nat /\ c \in Nat /\ d \in Nat /\ e \in Nat /\ f \in Nat
    BY <2>1, <2>2, <2>3, <2>4, <2>5, <2>6
  <2> HIDE DEF j, k, c, d
  <2>8. Count(s, X) + Count(s, Y) = (j + k) + c + d
    BY <2>7
  <2>9. Count(s, X) + Count(s, Y) = (Count(t, X) + Count(t, Y)) + One(i.k, a) + One(i.v, a)
    BY <2>8 DEF j, k, c, d
  <2> QED
    BY <2>3, <2>9 DEF HeldBy, i, X, Y
<1> QED
  BY <1>1, <1>2, <1>3, <1>4, <1>5

\* An item is taken out of a map.
LEMMA RemoveItemKept ==
  ASSUME NEW o, NEW n, InvOf(o, n, <<>>), NEW m \in Addr, o[m] # Null,
         NEW p \in DOMAIN o[m].items, o[m].kind \in Maps
  PROVE  InvOf(WithItems(o, m, RemoveAt(o[m].items, p)), n, Releases(o[m].items[p]))
<1> DEFINE s == o[m].items
           t == RemoveAt(s, p)
           i == s[p]
           g == WithItems(o, m, t)
           x == Releases(i)
<1>1. /\ o \in Objs /\ n \in [Var -> Ptr] /\ PlainOK(o) /\ Holder(o)
      /\ \A u \in Var : Alive(o, n[u])
      /\ \A a \in Addr : o[a] # Null =>
              /\ o[a].r = Pointers(n, a) + Holds(ItemsOf(o), a)
              /\ Pointers(n, a) \in Nat /\ Holds(ItemsOf(o), a) \in Nat
              /\ o[a].r \in Nat
  BY IdleIs
<1>2. s \in Seq(Item) /\ Len(s) <= MaxItems /\ ItemsOf(o)[m] = s /\ MaxItems \in Nat
  BY <1>1, ItemsOfType, MmCollectionsAssumption
<1>3. Alive(o, i.k) /\ Alive(o, i.v)
  BY <1>1 DEF Holder
<1> HIDE DEF s
<1>4. /\ t \in Seq(Item) /\ Len(t) = Len(s) - 1 /\ Shrunk(s, t) /\ i \in Item
      /\ \A q \in DOMAIN t : \E r \in DOMAIN s : r # p /\ t[q] = s[r]
      /\ \A a : /\ HeldBy(s, a) = HeldBy(t, a) + One(i.k, a) + One(i.v, a)
                /\ HeldBy(t, a) \in Nat
  <2>1. p \in 1 .. Len(s)
    BY <1>2 DEF s
  <2> QED
    BY <1>2, <2>1, HeldWithout
<1>5. Len(t) <= MaxItems
  BY <1>2, <1>4
<1> HIDE DEF t, i
<1>6. /\ g \in Objs /\ g[m] # Null /\ g[m].r = o[m].r /\ g[m].kind = o[m].kind /\ g[m].val = o[m].val
      /\ g[m].items = t /\ \A b \in Addr \ {m} : g[b] = o[b]
      /\ ItemsOf(g)[m] = t /\ \A b \in Addr \ {m} : ItemsOf(g)[b] = ItemsOf(o)[b]
  <2>1. o \in Objs /\ t \in Seq(Item)
    BY <1>1, <1>4
  <2> QED
    BY <1>5, <2>1, SetItems
<1>7. /\ x \in Seq(Step)
      /\ \A a \in Addr : Debt(x, a) = One(i.k, a) + One(i.v, a)
      /\ \A q \in DOMAIN x : x[q].op = "release" /\ x[q].item = Elem(Null) /\ x[q].a \in {i.k, i.v}
  BY <1>4, ReleasesIs
<1> HIDE DEF g, x
<1>8. \A b \in Addr : o[b] # Null <=> g[b] # Null
  BY <1>6
<1>9. \A b : Alive(o, b) => Alive(g, b)
  BY <1>8 DEF Alive
<1>10. Holder(g) /\ PlainOK(g)
  <2> SUFFICES ASSUME NEW b \in Addr, g[b] # Null, NEW q \in DOMAIN g[b].items
               PROVE  /\ Alive(g, g[b].items[q].k) /\ Alive(g, g[b].items[q].v)
                      /\ g[b].kind \notin Maps => g[b].items[q].k = Null
    BY DEF Holder, PlainOK
  <2>1. \E r \in DOMAIN o[b].items : g[b].items[q] = o[b].items[r]
    BY <1>4, <1>6 DEF s
  <2>2. o[b] # Null /\ g[b].kind = o[b].kind
    BY <1>6
  <2> QED
    BY <1>1, <1>9, <2>1, <2>2 DEF Holder, PlainOK
<1>11. ObjStep(o, g)
  BY <1>1, <1>4, <1>6, StepOne DEF s
<1>12. ASSUME NEW a \in Addr, g[a] # Null
       PROVE  g[a].r = Pointers(n, a) + Holds(ItemsOf(g), a) + Debt(x, a)
  <2>1. g[a].r = o[a].r /\ o[a] # Null
    BY <1>6, <1>12
  <2>2. /\ o[a].r = Pointers(n, a) + Holds(ItemsOf(o), a)
        /\ Pointers(n, a) \in Nat /\ Holds(ItemsOf(o), a) \in Nat
    BY <1>1, <2>1
  <2>3. /\ Holds(ItemsOf(g), a) + HeldBy(s, a) = Holds(ItemsOf(o), a) + HeldBy(t, a)
        /\ Holds(ItemsOf(g), a) \in Nat
    <3>1. /\ Holds(ItemsOf(g), a) + HeldBy(ItemsOf(o)[m], a)
              = Holds(ItemsOf(o), a) + HeldBy(ItemsOf(g)[m], a)
          /\ Holds(ItemsOf(o), a) \in Nat /\ Holds(ItemsOf(g), a) \in Nat
      BY <1>1, <1>6, ItemsChange
    <3> QED
      BY <1>2, <1>6, <3>1
  <2>4. HeldBy(s, a) = HeldBy(t, a) + One(i.k, a) + One(i.v, a) /\ HeldBy(t, a) \in Nat
    BY <1>4
  <2>5. Debt(x, a) = One(i.k, a) + One(i.v, a) /\ One(i.k, a) \in Nat /\ One(i.v, a) \in Nat
    BY <1>7 DEF One
  <2> DEFINE c == Pointers(n, a)
             h == Holds(ItemsOf(o), a)
             l == Holds(ItemsOf(g), a)
             j == HeldBy(s, a)
             k == HeldBy(t, a)
             e == One(i.k, a)
             f == One(i.v, a)
  <2>6. /\ o[a].r = c + h /\ l + j = h + k /\ j = k + e + f
        /\ c \in Nat /\ h \in Nat /\ l \in Nat /\ k \in Nat /\ e \in Nat /\ f \in Nat
    BY <2>2, <2>3, <2>4, <2>5
  <2> HIDE DEF c, h, l, j, k, e, f
  <2>7. o[a].r = c + l + (e + f)
    BY <2>6
  <2> QED
    BY <2>1, <2>5, <2>7 DEF c, l, e, f
<1>13. \A q \in DOMAIN x : x[q].op = "release" /\ x[q].item = Elem(Null) /\ Alive(g, x[q].a)
  BY <1>3, <1>7, <1>9
<1>14. InvOf(g, n, x)
  BY <1>1, <1>6, <1>7, <1>9, <1>10, <1>11, <1>12, <1>13, GiveUpKept
<1> QED
  BY <1>14 DEF g, x, t, i, s

\* The steps that put an item into a map: counts of the key and the value are
\* taken, those of what was there are given up, and the item is inserted.
PutSteps(k, v, r, m, i) ==
  (<<Do("retain", k), Do("retain", v)>> \o r) \o <<Insertion(m, i)>>

\* Such steps are in order, owe what the releases among them owe, and insert
\* one item, last.
LEMMA PutStepsAre ==
  ASSUME NEW k \in Addr, NEW v \in Addr, NEW m \in Addr, NEW i \in Item, i.k = k, i.v = v,
         NEW r \in Seq(Step), \A p \in DOMAIN r : r[p].op = "release" /\ r[p].item = Elem(Null),
         NEW x, x = PutSteps(k, v, r, m, i)
  PROVE  /\ x \in Seq(Step) /\ Ordered(x) /\ Destroyed(x) = {}
         /\ \A a \in Addr : Debt(x, a) = Debt(r, a) /\ Debt(r, a) \in Int
         /\ \A p \in DOMAIN x :
              \/ x[p].op = "retain" /\ x[p].a \in {k, v} /\ x[p].item = Elem(Null)
              \/ \E q \in DOMAIN r : x[p] = r[q]
              \/ x[p].op = "insert" /\ x[p].a = m /\ x[p].item = i
<1> DEFINE f == Do("retain", k)
           g == Do("retain", v)
           h == Insertion(m, i)
           y == <<f, g>>
           e == << h >>
           z == y \o r
<1>1. k \in Ptr /\ v \in Ptr /\ m \in Ptr
  BY DEF Ptr
<1>2. /\ f \in Step /\ f.op = "retain" /\ f.a = k /\ f.item = Elem(Null)
      /\ << f >> \in Seq(Step) /\ \A a \in Addr : Debt(<< f >>, a) = -One(k, a)
  BY <1>1, DoIs
<1>3. /\ g \in Step /\ g.op = "retain" /\ g.a = v /\ g.item = Elem(Null)
      /\ << g >> \in Seq(Step) /\ \A a \in Addr : Debt(<< g >>, a) = -One(v, a)
  BY <1>1, DoIs
<1>4. /\ h \in Step /\ h.op = "insert" /\ h.a = m /\ h.item = i
      /\ e \in Seq(Step) /\ \A a \in Addr : Debt(e, a) = One(i.k, a) + One(i.v, a)
  BY <1>1, InsertionIs
<1> HIDE DEF f, g, h
<1>5. y = << f >> \o << g >>
  <2> DEFINE s == << f >>
             t == << g >>
             u == s \o t
  <2>1. /\ s \in Seq(Step) /\ t \in Seq(Step) /\ Len(s) = 1 /\ Len(t) = 1 /\ s[1] = f /\ t[1] = g
        /\ y \in Seq(Step) /\ Len(y) = 2 /\ y[1] = f /\ y[2] = g
    BY <1>2, <1>3
  <2> HIDE DEF s, t, y
  <2>2. /\ u \in Seq(Step) /\ Len(u) = Len(s) + Len(t)
        /\ \A p \in 1 .. Len(s) : u[p] = s[p]
        /\ \A p \in 1 .. Len(t) : u[Len(s) + p] = t[p]
    <3> s \in Seq(Step) /\ t \in Seq(Step)
      BY <2>1
    <3> QED
      BY ConcatIs
  <2> HIDE DEF u
  <2>3. Len(u) = 2 /\ u[1] = f /\ u[1 + 1] = g
    BY <2>1, <2>2
  <2>4. \A p \in 1 .. Len(u) : y[p] = u[p]
    BY <2>1, <2>3
  <2>5. y = u
    BY <2>1, <2>2, <2>3, <2>4, SeqEqual
  <2> QED
    BY <2>5 DEF s, t, u
<1>6. y \in Seq(Step) /\ Len(y) = 2 /\ DOMAIN y = {1, 2} /\ y[1] = f /\ y[2] = g
  BY <1>2, <1>3
<1>7. \A a \in Addr : Debt(y, a) = -One(k, a) + -One(v, a) /\ Debt(y, a) \in Int
  <2> SUFFICES ASSUME NEW a \in Addr
               PROVE  Debt(y, a) = -One(k, a) + -One(v, a) /\ Debt(y, a) \in Int
    OBVIOUS
  <2> DEFINE s == << f >>
             t == << g >>
  <2>1. s \in Seq(Step) /\ t \in Seq(Step) /\ y = s \o t
    BY <1>2, <1>3, <1>5
  <2>2. Debt(s, a) = -One(k, a) /\ Debt(t, a) = -One(v, a) /\ One(k, a) \in Int /\ One(v, a) \in Int
    <3>1. One(k, a) \in Int /\ One(v, a) \in Int
      BY DEF One
    <3> QED
      BY <1>2, <1>3, <3>1
  <2> HIDE DEF s, t, y
  <2>3. Debt(s \o t, a) = Debt(s, a) + Debt(t, a)
    BY <2>1, DebtConcat
  <2> QED
    BY <2>1, <2>2, <2>3
<1>8. Len(e) = 1 /\ DOMAIN e = {1} /\ e[1] = h
  OBVIOUS
<1>9. x = z \o e
  BY DEF PutSteps, f, g, h
<1> HIDE DEF y, e
<1>10. /\ z \in Seq(Step) /\ Len(z) = Len(r) + 2 /\ Len(r) \in Nat
       /\ \A p \in DOMAIN z : (\E q \in DOMAIN y : p = q /\ z[p] = y[q])
                             \/ \E q \in DOMAIN r : p = 2 + q /\ z[p] = r[q]
       /\ Destroyed(z) = Destroyed(y) \cup Destroyed(r)
  <2>1. /\ y \o r \in Seq(Step)
        /\ \A p \in DOMAIN (y \o r) : (\E q \in DOMAIN y : p = q /\ (y \o r)[p] = y[q])
                                     \/ \E q \in DOMAIN r : p = Len(y) + q /\ (y \o r)[p] = r[q]
        /\ Destroyed(y \o r) = Destroyed(y) \cup Destroyed(r)
    BY <1>6, ConcatSteps
  <2>2. Len(y \o r) = Len(y) + Len(r) /\ Len(r) \in Nat
    <3> y \in Seq(Step)
      BY <1>6
    <3> QED
      BY ConcatIs
  <2> QED
    BY <1>6, <2>1, <2>2
<1>11. \A a \in Addr : Debt(z, a) = Debt(y, a) + Debt(r, a) /\ Debt(r, a) \in Int
  BY <1>6, DebtConcat
<1> HIDE DEF z
<1>12. /\ x \in Seq(Step) /\ Len(x) = Len(z) + 1
       /\ \A p \in DOMAIN x : (\E q \in DOMAIN z : p = q /\ x[p] = z[q])
                             \/ \E q \in DOMAIN e : p = Len(z) + q /\ x[p] = e[q]
       /\ \A q \in DOMAIN e : Len(z) + q \in DOMAIN x /\ x[Len(z) + q] = e[q]
       /\ Destroyed(x) = Destroyed(z) \cup Destroyed(e)
  <2>1. /\ z \o e \in Seq(Step)
        /\ \A p \in DOMAIN (z \o e) : (\E q \in DOMAIN z : p = q /\ (z \o e)[p] = z[q])
                                     \/ \E q \in DOMAIN e : p = Len(z) + q /\ (z \o e)[p] = e[q]
        /\ \A q \in DOMAIN e : Len(z) + q \in DOMAIN (z \o e) /\ (z \o e)[Len(z) + q] = e[q]
        /\ Destroyed(z \o e) = Destroyed(z) \cup Destroyed(e)
    BY <1>4, <1>10, ConcatSteps
  <2>2. Len(z \o e) = Len(z) + Len(e)
    <3> z \in Seq(Step) /\ e \in Seq(Step)
      BY <1>4, <1>10
    <3> QED
      BY ConcatIs
  <2> QED
    BY <1>8, <1>9, <2>1, <2>2
<1>13. \A a \in Addr : Debt(x, a) = Debt(r, a) /\ Debt(r, a) \in Int
  <2> SUFFICES ASSUME NEW a \in Addr PROVE Debt(x, a) = Debt(r, a) /\ Debt(r, a) \in Int
    OBVIOUS
  <2>1. Debt(z \o e, a) = Debt(z, a) + Debt(e, a)
    BY <1>4, <1>10, DebtConcat
  <2>2. Debt(e, a) = One(k, a) + One(v, a) /\ One(k, a) \in Int /\ One(v, a) \in Int
    BY <1>4 DEF One
  <2>3. Debt(y, a) = -One(k, a) + -One(v, a) /\ Debt(z, a) = Debt(y, a) + Debt(r, a) /\ Debt(r, a) \in Int
    BY <1>7, <1>11
  <2> DEFINE c == One(k, a)
             d == One(v, a)
             j == Debt(r, a)
  <2>4. Debt(x, a) = ((-c + -d) + j) + (c + d) /\ c \in Int /\ d \in Int /\ j \in Int
    BY <1>9, <2>1, <2>2, <2>3
  <2> HIDE DEF c, d, j
  <2>5. Debt(x, a) = j /\ j \in Int
    BY <2>4
  <2> QED
    BY <2>5 DEF j
<1>14. \A p \in DOMAIN x :
         \/ p \in {1, 2} /\ x[p].op = "retain" /\ x[p].a \in {k, v} /\ x[p].item = Elem(Null)
         \/ p > 2 /\ \E q \in DOMAIN r : x[p] = r[q]
         \/ p > 2 /\ p = Len(x) /\ x[p].op = "insert" /\ x[p].a = m /\ x[p].item = i
  <2> SUFFICES ASSUME NEW p \in DOMAIN x
               PROVE  \/ p \in {1, 2} /\ x[p].op = "retain" /\ x[p].a \in {k, v} /\ x[p].item = Elem(Null)
                      \/ p > 2 /\ \E q \in DOMAIN r : x[p] = r[q]
                      \/ p > 2 /\ p = Len(x) /\ x[p].op = "insert" /\ x[p].a = m /\ x[p].item = i
    OBVIOUS
  <2>1. CASE \E q \in DOMAIN z : p = q /\ x[p] = z[q]
    <3>1. p \in DOMAIN z /\ x[p] = z[p]
      BY <2>1
    <3>2. CASE \E q \in DOMAIN y : p = q /\ z[p] = y[q]
      BY <1>2, <1>3, <1>6, <3>1, <3>2
    <3>3. CASE \E q \in DOMAIN r : p = 2 + q /\ z[p] = r[q]
      <4>1. PICK q \in DOMAIN r : p = 2 + q /\ z[p] = r[q]
        BY <3>3
      <4>2. q \in Nat /\ q > 0
        OBVIOUS
      <4>3. p > 2
        BY <4>1, <4>2
      <4> QED
        BY <3>1, <4>1, <4>3
    <3> QED
      BY <1>10, <3>1, <3>2, <3>3
  <2>2. CASE \E q \in DOMAIN e : p = Len(z) + q /\ x[p] = e[q]
    <3>1. p = Len(x) /\ x[p] = h
      BY <1>8, <1>12, <2>2
    <3>2. Len(x) > 2
      BY <1>10, <1>12
    <3> QED
      BY <1>4, <3>1, <3>2
  <2> QED
    BY <1>12, <2>1, <2>2
<1>15. Len(x) \in DOMAIN x /\ x[Len(x)].item = i
  <2>1. 1 \in DOMAIN e /\ Len(z) + 1 = Len(x)
    BY <1>8, <1>12
  <2> QED
    BY <1>4, <1>8, <1>12, <2>1
<1>16. Destroyed(x) = {}
  BY <1>14 DEF Destroyed
<1>17. Ordered(x)
  <2>0. DOMAIN x \subseteq Nat \ {0}
    BY <1>12
  <2>1. \A p \in DOMAIN x : x[p].op = "insert" => p = Len(x)
    BY <1>14
  <2>2. ASSUME NEW p \in DOMAIN x, NEW q \in DOMAIN x, p < q, x[q].op = "retain"
        PROVE  x[p].op = "retain"
    <3>1. q \in {1, 2}
      BY <1>14, <2>2
    <3>2. p = 1
      BY <2>0, <2>2, <3>1
    <3> QED
      BY <1>14, <3>2
  <2>3. \A p \in DOMAIN x : x[p].op # "destroy"
    BY <1>14
  <2>4. k \in Carried(x) /\ v \in Carried(x)
    BY <1>15 DEF Carried
  <2>5. \A p \in DOMAIN x : x[p].op = "retain" => x[p].a \in Carried(x)
    BY <1>14, <2>4
  <2> QED
    BY <2>1, <2>2, <2>3, <2>5 DEF Ordered
<1> QED
  BY <1>12, <1>13, <1>14, <1>16, <1>17

\* An item is put, and the one that was there taken out.
LEMMA PutKept ==
  ASSUME NEW o, NEW n, InvOf(o, n, <<>>), NEW g \in Objs,
         NEW m \in Addr, NEW k \in Addr, NEW v \in Addr,
         o[m] # Null, o[k] # Null, o[v] # Null, o[k].kind = "int", o[m].kind \in Maps,
         m \in Reached(o, Roots(o, n, <<>>)),
         \A b \in Addr \ {m} : g[b] = o[b],
         g[m] # Null, g[m].kind = o[m].kind, g[m].val = o[m].val, g[m].r = o[m].r,
         Shrunk(o[m].items, g[m].items), Len(g[m].items) < MaxItems,
         \A q \in DOMAIN g[m].items : \E p \in DOMAIN o[m].items :
           g[m].items[q] = o[m].items[p] /\ o[o[m].items[p].k].val # o[k].val,
         NEW r \in Seq(Step),
         \A p \in DOMAIN r : r[p].op = "release" /\ r[p].item = Elem(Null) /\ Alive(o, r[p].a),
         \A a \in Addr : HeldBy(o[m].items, a) = HeldBy(g[m].items, a) + Debt(r, a),
         NEW i \in Item, i.k = k, i.v = v, i.hk = k,
         NEW x, x = PutSteps(k, v, r, m, i)
  PROVE  InvOf(g, n, x)
<1>1. /\ o \in Objs /\ n \in [Var -> Ptr] /\ PlainOK(o) /\ Holder(o) /\ DataOK(o)
      /\ \A u \in Var : Alive(o, n[u])
      /\ \A a \in Addr : o[a] # Null =>
              /\ o[a].r = Pointers(n, a) + Holds(ItemsOf(o), a)
              /\ Pointers(n, a) \in Nat /\ Holds(ItemsOf(o), a) \in Nat
              /\ o[a].r \in Nat
  BY IdleIs
<1>2. /\ x \in Seq(Step) /\ Ordered(x) /\ Destroyed(x) = {}
      /\ \A a \in Addr : Debt(x, a) = Debt(r, a) /\ Debt(r, a) \in Int
      /\ \A p \in DOMAIN x :
           \/ x[p].op = "retain" /\ x[p].a \in {k, v} /\ x[p].item = Elem(Null)
           \/ \E q \in DOMAIN r : x[p] = r[q]
           \/ x[p].op = "insert" /\ x[p].a = m /\ x[p].item = i
  BY PutStepsAre
<1>3. \A b \in Addr : o[b] # Null <=> g[b] # Null
  OBVIOUS
<1>4. \A b : Alive(o, b) => Alive(g, b)
  BY <1>3 DEF Alive
<1>5. Null \notin Addr /\ Elem(Null).k = Null /\ Elem(Null).v = Null
  BY MmCollectionsAssumption DEF Elem
<1>6. Holder(g) /\ PlainOK(g)
  <2> SUFFICES ASSUME NEW b \in Addr, g[b] # Null, NEW q \in DOMAIN g[b].items
               PROVE  /\ Alive(g, g[b].items[q].k) /\ Alive(g, g[b].items[q].v)
                      /\ g[b].kind \notin Maps => g[b].items[q].k = Null
    BY DEF Holder, PlainOK
  <2>1. \E p \in DOMAIN o[b].items : g[b].items[q] = o[b].items[p]
    OBVIOUS
  <2>2. o[b] # Null /\ g[b].kind = o[b].kind
    OBVIOUS
  <2> QED
    BY <1>1, <1>4, <2>1, <2>2 DEF Holder, PlainOK
<1>7. ObjStep(o, g)
  BY <1>1, StepOne
<1>8. \A u \in Var : Alive(g, n[u])
  BY <1>1, <1>4
<1>9. Alive(g, k) /\ Alive(g, v) /\ Alive(g, m) /\ Alive(g, Null)
  BY <1>3 DEF Alive
<1>10. \A p \in DOMAIN x : Alive(g, x[p].item.k) /\ Alive(g, x[p].item.v) /\ Alive(g, x[p].a)
  <2> SUFFICES ASSUME NEW p \in DOMAIN x
               PROVE  Alive(g, x[p].item.k) /\ Alive(g, x[p].item.v) /\ Alive(g, x[p].a)
    OBVIOUS
  <2>1. CASE x[p].op = "retain" /\ x[p].a \in {k, v} /\ x[p].item = Elem(Null)
    BY <1>5, <1>9, <2>1
  <2>2. CASE \E q \in DOMAIN r : x[p] = r[q]
    BY <1>4, <1>5, <1>9, <2>2
  <2>3. CASE x[p].op = "insert" /\ x[p].a = m /\ x[p].item = i
    BY <1>9, <2>3
  <2> QED
    BY <1>2, <2>1, <2>2, <2>3
<1>11. m \in Reached(g, Roots(g, n, x))
  <2> DEFINE S == Roots(o, n, <<>>)
             T == Roots(g, n, x)
  <2>1. Carried(<<>>) = {}
    BY DEF Carried
  <2>2. Idles(o, <<>>) \subseteq Idles(g, x)
    <3>1. \A b \in Addr : o[b] # Null => g[b].r = o[b].r
      OBVIOUS
    <3> QED
      BY <1>2, <1>3, <3>1 DEF Idles
  <2>3. S \subseteq T /\ S \subseteq Addr
    BY <2>1, <2>2 DEF Roots, Idles
  <2>4. Null \notin S /\ \A b \in Addr : Null \notin Pointed(o, b)
    BY <1>5, <2>3 DEF Pointed
  <2>5. \A b \in Addr \ {Null, m} : Pointed(o, b) \subseteq Pointed(g, b)
    BY DEF Pointed
  <2>6. m \in Reached(o, S)
    OBVIOUS
  <2> HIDE DEF S, T
  <2>7. m \in Reached(g, T)
    BY <2>3, <2>4, <2>5, <2>6, ReachKept
  <2> QED
    BY <2>7 DEF T
<1>12. InsertOK(g, n, x, m, i)
  <2>1. k # m /\ g[k] = o[k]
    BY DEF Maps
  <2>2. MapOK(o, m)
    BY <1>1 DEF DataOK, MapsOK
  <2>3. ASSUME NEW q \in DOMAIN g[m].items PROVE g[g[m].items[q].k].val # g[k].val
    <3>1. PICK p \in DOMAIN o[m].items :
             g[m].items[q] = o[m].items[p] /\ o[o[m].items[p].k].val # o[k].val
      OBVIOUS
    <3> DEFINE l == o[m].items[p].k
    <3>2. l \in Addr /\ o[l] # Null /\ o[l].kind = "int"
      BY <2>2 DEF MapOK
    <3>3. l # m
      BY <3>2 DEF Maps
    <3> HIDE DEF l
    <3>4. g[l] = o[l]
      BY <3>2, <3>3
    <3> QED
      BY <2>1, <3>1, <3>4 DEF l
  <2> QED
    BY <1>11, <2>1, <2>3 DEF InsertOK
<1>13. StepsOK(g, n, x)
  <2> SUFFICES ASSUME NEW p \in DOMAIN x PROVE StepOK(g, n, x, x[p])
    BY DEF StepsOK
  <2>1. CASE x[p].op = "retain" /\ x[p].a \in {k, v} /\ x[p].item = Elem(Null)
    BY <1>5, <2>1 DEF StepOK
  <2>2. CASE \E q \in DOMAIN r : x[p] = r[q]
    BY <2>2 DEF StepOK
  <2>3. CASE x[p].op = "insert" /\ x[p].a = m /\ x[p].item = i
    BY <1>5, <1>12, <2>3 DEF StepOK
  <2> QED
    BY <1>2, <2>1, <2>2, <2>3
<1>14. Counted(g, n, x)
  <2> SUFFICES ASSUME NEW a \in Addr, g[a] # Null PROVE g[a].r = OwnersOf(g, n, x, a)
    BY DEF Counted
  <2> DEFINE c == Pointers(n, a)
             h == Holds(ItemsOf(o), a)
             l == Holds(ItemsOf(g), a)
             j == HeldBy(o[m].items, a)
             s == HeldBy(g[m].items, a)
             d == Debt(r, a)
  <2>1. g[a].r = o[a].r /\ o[a] # Null
    OBVIOUS
  <2>2. o[a].r = c + h /\ c \in Nat /\ h \in Nat
    BY <1>1, <2>1
  <2>3. l + j = h + s /\ l \in Nat /\ s \in Nat /\ j \in Nat
    <3>1. \A b \in Addr \ {m} : ItemsOf(g)[b] = ItemsOf(o)[b]
      BY DEF ItemsOf
    <3>2. ItemsOf(g)[m] = g[m].items /\ ItemsOf(o)[m] = o[m].items
      BY DEF ItemsOf
    <3>3. /\ Holds(ItemsOf(g), a) + HeldBy(ItemsOf(o)[m], a)
              = Holds(ItemsOf(o), a) + HeldBy(ItemsOf(g)[m], a)
          /\ Holds(ItemsOf(o), a) \in Nat /\ Holds(ItemsOf(g), a) \in Nat
          /\ HeldBy(ItemsOf(o)[m], a) \in Nat /\ HeldBy(ItemsOf(g)[m], a) \in Nat
      <4> o \in Objs
        BY <1>1
      <4> QED
        BY <3>1, ItemsChange
    <3> QED
      BY <3>2, <3>3
  <2>4. j = s + d /\ d \in Int /\ Debt(x, a) = d
    BY <1>2
  <2> HIDE DEF c, h, l, j, s, d
  <2>5. o[a].r = c + l + d
    BY <2>2, <2>3, <2>4
  <2> QED
    BY <2>1, <2>4, <2>5 DEF OwnersOf, c, l
<1> QED
  BY <1>1, <1>2, <1>6, <1>7, <1>8, <1>10, <1>13, <1>14, BeginKept

\* The items of a list change, and the counts of what they hold with them.
LEMMA ListKept ==
  ASSUME NEW o, NEW n, InvOf(o, n, <<>>), NEW g \in Objs, NEW l \in Addr,
         o[l] # Null, o[l].kind \notin Maps,
         \A b \in Addr : o[b] # Null <=> g[b] # Null,
         \A b \in Addr : o[b] # Null =>
           /\ g[b].kind = o[b].kind /\ g[b].val = o[b].val
           /\ b # l => g[b].items = o[b].items
           /\ g[b].r + HeldBy(o[l].items, b) = o[b].r + HeldBy(g[l].items, b),
         \A p \in DOMAIN g[l].items : g[l].items[p].k = Null /\ Alive(o, g[l].items[p].v)
  PROVE  InvOf(g, n, <<>>)
<1>1. /\ o \in Objs /\ n \in [Var -> Ptr] /\ PlainOK(o) /\ Holder(o)
      /\ \A u \in Var : Alive(o, n[u])
      /\ \A a \in Addr : o[a] # Null =>
              /\ o[a].r = Pointers(n, a) + Holds(ItemsOf(o), a)
              /\ Pointers(n, a) \in Nat /\ Holds(ItemsOf(o), a) \in Nat
              /\ o[a].r \in Nat
  BY IdleIs
<1>2. \A b : Alive(o, b) => Alive(g, b)
  BY DEF Alive
<1>3. Alive(g, Null)
  BY DEF Alive
<1>4. Holder(g) /\ PlainOK(g)
  <2> SUFFICES ASSUME NEW b \in Addr, g[b] # Null, NEW p \in DOMAIN g[b].items
               PROVE  /\ Alive(g, g[b].items[p].k) /\ Alive(g, g[b].items[p].v)
                      /\ g[b].kind \notin Maps => g[b].items[p].k = Null
    BY DEF Holder, PlainOK
  <2>1. CASE b = l
    BY <1>2, <1>3, <2>1
  <2>2. CASE b # l
    <3>1. o[b] # Null /\ g[b].items = o[b].items /\ g[b].kind = o[b].kind
      BY <2>2
    <3> QED
      BY <1>1, <1>2, <3>1 DEF Holder, PlainOK
  <2> QED
    BY <2>1, <2>2
<1>5. ObjStep(o, g)
  <2>1. \A b \in Addr : g[b] # Null =>
          /\ o[b] # Null /\ g[b].kind = o[b].kind /\ g[b].val = o[b].val
          /\ o[b].kind \in Maps => g[b].items = o[b].items
    OBVIOUS
  <2>2. o \in Objs
    BY <1>1
  <2> QED
    BY <2>1, <2>2, StepSame
<1>6. ASSUME NEW a \in Addr, g[a] # Null
      PROVE  g[a].r = Pointers(n, a) + Holds(ItemsOf(g), a)
  <2> DEFINE c == Pointers(n, a)
             h == Holds(ItemsOf(o), a)
             j == Holds(ItemsOf(g), a)
             s == HeldBy(o[l].items, a)
             t == HeldBy(g[l].items, a)
  <2>1. o[a] # Null /\ g[a].r + s = o[a].r + t
    BY <1>6
  <2>2. o[a].r = c + h /\ c \in Nat /\ h \in Nat
    BY <1>1, <2>1
  <2>3. j + s = h + t /\ j \in Nat /\ s \in Nat /\ t \in Nat
    <3>1. \A b \in Addr \ {l} : ItemsOf(g)[b] = ItemsOf(o)[b]
      BY DEF ItemsOf
    <3>2. ItemsOf(g)[l] = g[l].items /\ ItemsOf(o)[l] = o[l].items
      BY DEF ItemsOf
    <3>3. o \in Objs
      BY <1>1
    <3>4. /\ Holds(ItemsOf(g), a) + HeldBy(ItemsOf(o)[l], a)
              = Holds(ItemsOf(o), a) + HeldBy(ItemsOf(g)[l], a)
          /\ Holds(ItemsOf(o), a) \in Nat /\ Holds(ItemsOf(g), a) \in Nat
          /\ HeldBy(ItemsOf(o)[l], a) \in Nat /\ HeldBy(ItemsOf(g)[l], a) \in Nat
      BY <3>1, <3>3, ItemsChange
    <3> QED
      BY <3>2, <3>4
  <2>4. g[a].r \in Nat
    BY <1>6, ItemsOfType
  <2> HIDE DEF c, h, j, s, t
  <2>5. g[a].r = c + j
    BY <2>1, <2>2, <2>3, <2>4
  <2> QED
    BY <2>5 DEF c, j
<1>7. \A u \in Var : Alive(g, n[u])
  BY <1>1, <1>2
<1> QED
  BY <1>1, <1>4, <1>5, <1>6, <1>7, AtOnceKept

\* What the items of a sequence without keys count for is added to the counts.
LEMMA CopiedIs ==
  ASSUME NEW o \in Objs, NEW s \in Seq(Item), \A p \in DOMAIN s : s[p].k = Null
  PROVE  /\ Copied(o, s) \in Objs
         /\ \A b \in Addr : o[b] # Null <=> Copied(o, s)[b] # Null
         /\ \A b \in Addr : o[b] # Null =>
              /\ Copied(o, s)[b].kind = o[b].kind /\ Copied(o, s)[b].val = o[b].val
              /\ Copied(o, s)[b].items = o[b].items
              /\ Copied(o, s)[b].r = o[b].r + HeldBy(s, b) /\ HeldBy(s, b) \in Nat
<1> DEFINE V(b) == Cardinality({p \in DOMAIN s : s[p].v = b})
           g == Copied(o, s)
<1>1. Null \notin Object /\ Null \notin Addr
  BY MmCollectionsAssumption
<1>2. ASSUME NEW b \in Addr PROVE V(b) = HeldBy(s, b) /\ HeldBy(s, b) \in Nat
  <2> DEFINE X == {i \in Item : i.k = b}
             Y == {i \in Item : i.v = b}
  <2>1. \A p \in DOMAIN s : s[p] \notin X
    BY <1>1
  <2>2. {p \in DOMAIN s : s[p].v = b} = {p \in DOMAIN s : s[p] \in Y}
    OBVIOUS
  <2>3. V(b) = Count(s, Y)
    BY <2>2 DEF Count
  <2> HIDE DEF X, Y, V
  <2>4. Count(s, X) = 0
    BY <2>1, CountZero
  <2>5. Count(s, Y) \in Nat
    BY CountType
  <2>6. HeldBy(s, b) = Count(s, X) + Count(s, Y)
    BY DEF HeldBy, X, Y
  <2> QED
    BY <2>3, <2>4, <2>5, <2>6
<1>3. g = [b \in Addr |-> IF o[b] = Null THEN Null ELSE [o[b] EXCEPT !.r = @ + V(b)]]
  BY DEF Copied
<1> HIDE DEF V, g
<1>4. ASSUME NEW b \in Addr, o[b] # Null
      PROVE  /\ g[b] \in Object /\ g[b] # Null /\ g[b].kind = o[b].kind /\ g[b].val = o[b].val
             /\ g[b].items = o[b].items /\ g[b].r = o[b].r + HeldBy(s, b)
             /\ Len(g[b].items) <= MaxItems
  <2>1. o[b] \in Object /\ o[b].r \in Nat /\ Len(o[b].items) <= MaxItems
    BY <1>4, ItemsOfType
  <2>2. g[b] = [o[b] EXCEPT !.r = @ + V(b)]
    BY <1>3, <1>4
  <2> DEFINE x == o[b]
             c == x.r + V(b)
  <2>3. c \in Nat /\ c = x.r + HeldBy(s, b)
    BY <1>2, <2>1
  <2>4. g[b] = [x EXCEPT !.r = c] /\ x \in Object
    BY <2>1, <2>2
  <2> HIDE DEF x, c
  <2>5. /\ g[b] \in Object /\ g[b].kind = x.kind /\ g[b].val = x.val
        /\ g[b].items = x.items /\ g[b].r = c
    BY <2>3, <2>4 DEF Object
  <2> QED
    BY <1>1, <2>1, <2>3, <2>5 DEF x
<1>5. \A b \in Addr : o[b] = Null => g[b] = Null
  BY <1>3
<1>6. g \in Objs
  <2>1. g \in [Addr -> Object \cup {Null}]
    <3>1. \A b \in Addr : g[b] \in Object \cup {Null}
      BY <1>4, <1>5
    <3> QED
      BY <1>3, <3>1
  <2> QED
    BY <1>4, <1>5, <2>1 DEF Objs
<1> QED
  BY <1>2, <1>4, <1>5, <1>6 DEF g

\* The counts of objects change, and the items of one of them.
LEMMA SetCopied ==
  ASSUME NEW o, NEW n, InvOf(o, n, <<>>), NEW l \in Addr, o[l] # Null, o[l].kind \notin Maps,
         NEW s \in Seq(Item), \A p \in DOMAIN s : s[p].k = Null,
         NEW t \in Seq(Item), Len(t) <= MaxItems,
         \A p \in DOMAIN t : t[p].k = Null /\ Alive(o, t[p].v),
         \A b \in Addr : HeldBy(t, b) = HeldBy(o[l].items, b) + HeldBy(s, b)
  PROVE  InvOf(WithItems(Copied(o, s), l, t), n, <<>>)
<1> DEFINE y == Copied(o, s)
           g == WithItems(y, l, t)
<1>1. o \in Objs
  BY IdleIs
<1>2. /\ y \in Objs
      /\ \A b \in Addr : o[b] # Null <=> y[b] # Null
      /\ \A b \in Addr : o[b] # Null =>
              /\ y[b].kind = o[b].kind /\ y[b].val = o[b].val
              /\ y[b].items = o[b].items
              /\ y[b].r = o[b].r + HeldBy(s, b) /\ HeldBy(s, b) \in Nat
  BY <1>1, CopiedIs
<1> HIDE DEF y
<1>3. /\ g \in Objs /\ g[l] # Null /\ g[l].r = y[l].r
      /\ g[l].kind = y[l].kind /\ g[l].val = y[l].val /\ g[l].items = t
      /\ \A b \in Addr \ {l} : g[b] = y[b]
  <2>1. y \in Objs /\ y[l] # Null
    BY <1>2
  <2> QED
    BY <2>1, SetItems
<1> HIDE DEF g
<1>4. \A b \in Addr : o[b] # Null <=> g[b] # Null
  BY <1>2, <1>3
<1>5. ASSUME NEW b \in Addr, o[b] # Null
      PROVE  /\ g[b].kind = o[b].kind /\ g[b].val = o[b].val
             /\ b # l => g[b].items = o[b].items
             /\ g[b].r + HeldBy(o[l].items, b) = o[b].r + HeldBy(g[l].items, b)
  <2>1. /\ g[b].kind = o[b].kind /\ g[b].val = o[b].val
        /\ b # l => g[b].items = o[b].items
        /\ g[b].r = y[b].r
    BY <1>2, <1>3, <1>5
  <2> DEFINE c == o[b].r
             d == HeldBy(s, b)
             e == HeldBy(o[l].items, b)
  <2>2. g[b].r = c + d /\ d \in Nat
    BY <1>2, <1>5, <2>1
  <2>3. c \in Nat /\ o[l].items \in Seq(Item)
    BY <1>1, <1>5, ItemsOfType
  <2>4. HeldBy(g[l].items, b) = e + d
    BY <1>3
  <2>5. e \in Nat
    <3> DEFINE u == o[l].items
    <3> HIDE DEF u
    <3>1. u \in Seq(Item)
      BY <2>3 DEF u
    <3>2. HeldBy(u, b) \in Nat
      BY <3>1, HeldZero
    <3> QED
      BY <3>2 DEF u
  <2> HIDE DEF c, d, e
  <2>6. g[b].r + e = c + HeldBy(g[l].items, b)
    BY <2>2, <2>3, <2>4, <2>5
  <2> QED
    BY <2>1, <2>6 DEF c, e
<1>6. \A p \in DOMAIN g[l].items : g[l].items[p].k = Null /\ Alive(o, g[l].items[p].v)
  BY <1>3
<1>7. g \in Objs
  BY <1>3
<1>8. InvOf(g, n, <<>>)
  BY <1>4, <1>5, <1>6, <1>7, ListKept
<1> QED
  BY <1>8 DEF g, y

\* A list is put after another.
LEMMA ConcatKept ==
  ASSUME NEW o, NEW n, InvOf(o, n, <<>>), NEW l \in Addr, o[l] # Null, o[l].kind \notin Maps,
         NEW m \in Addr, o[m] # Null, o[m].kind \notin Maps,
         Len(o[l].items) + Len(o[m].items) <= MaxItems
  PROVE  InvOf(WithItems(Copied(o, o[m].items), l, o[l].items \o o[m].items), n, <<>>)
<1> DEFINE u == o[l].items
           s == o[m].items
           t == u \o s
<1>1. o \in Objs /\ PlainOK(o) /\ Holder(o)
  BY IdleIs
<1>2. u \in Seq(Item) /\ s \in Seq(Item) /\ Len(u) + Len(s) <= MaxItems
  BY <1>1, ItemsOfType
<1>3. /\ \A p \in DOMAIN u : u[p].k = Null /\ Alive(o, u[p].v)
      /\ \A p \in DOMAIN s : s[p].k = Null /\ Alive(o, s[p].v)
  BY <1>1 DEF PlainOK, Holder
<1>4. \A b : HeldBy(u, b) \in Nat
  <2> HIDE DEF u
  <2> QED
    BY <1>2, HeldZero
<1> HIDE DEF u, s
<1>5. /\ t \in Seq(Item) /\ Len(t) = Len(u) + Len(s)
      /\ Len(u) \in Nat /\ Len(s) \in Nat /\ DOMAIN t = 1 .. Len(u) + Len(s)
      /\ \A p \in 1 .. Len(u) : t[p] = u[p]
      /\ \A p \in 1 .. Len(s) : t[Len(u) + p] = s[p]
  BY <1>2, ConcatIs
<1>6. \A b : HeldBy(t, b) = HeldBy(u, b) + HeldBy(s, b)
  BY <1>2, HeldConcat
<1> HIDE DEF t
<1>7. ASSUME NEW p \in DOMAIN t PROVE t[p].k = Null /\ Alive(o, t[p].v)
  <2>0. DOMAIN u = 1 .. Len(u) /\ DOMAIN s = 1 .. Len(s)
    BY <1>2
  <2>1. CASE p <= Len(u)
    <3>1. p \in DOMAIN u /\ p \in 1 .. Len(u)
      BY <1>5, <2>0, <2>1
    <3> QED
      BY <1>3, <1>5, <3>1
  <2>2. CASE ~(p <= Len(u))
    <3> DEFINE q == p - Len(u)
    <3>1. q \in 1 .. Len(s) /\ Len(u) + q = p
      BY <1>5, <2>2
    <3> HIDE DEF q
    <3>2. t[p] = s[q] /\ q \in DOMAIN s
      BY <1>5, <2>0, <3>1
    <3> QED
      BY <1>3, <3>2
  <2> QED
    BY <2>1, <2>2
<1>8. Len(t) <= MaxItems /\ \A b \in Addr : HeldBy(t, b) = HeldBy(o[l].items, b) + HeldBy(s, b)
  BY <1>2, <1>5, <1>6 DEF u
<1>9. InvOf(WithItems(Copied(o, s), l, t), n, <<>>)
  <2>1. s \in Seq(Item) /\ \A p \in DOMAIN s : s[p].k = Null
    BY <1>2, <1>3
  <2> QED
    BY <1>5, <1>7, <1>8, <2>1, SetCopied
<1> QED
  BY <1>9 DEF t, u, s

\* Nulls that fill a gap.
Gap(c) == [p \in 1 .. c |-> Elem(Null)]

\* A gap is a sequence of nulls that holds nobody.
LEMMA GapIs ==
  ASSUME NEW c \in Int, NEW s, s = Gap(c)
  PROVE  /\ s \in Seq(Item) /\ Len(s) = (IF c > 0 THEN c ELSE 0)
         /\ \A p \in DOMAIN s : s[p] = Elem(Null)
         /\ \A b \in Addr : HeldBy(s, b) = 0
<1>1. Null \in Ptr /\ Null \notin Addr
  BY MmCollectionsAssumption DEF Ptr
<1>2. Elem(Null) \in Item /\ Elem(Null).k = Null /\ Elem(Null).v = Null
  BY <1>1, ElemIs
<1> DEFINE d == IF c > 0 THEN c ELSE 0
<1>3. d \in Nat /\ 1 .. c = 1 .. d
  OBVIOUS
<1> HIDE DEF d
<1>4. s = [p \in 1 .. d |-> Elem(Null)]
  BY <1>3 DEF Gap
<1>5. s \in Seq(Item) /\ Len(s) = d /\ DOMAIN s = 1 .. d
  <2> DEFINE e == Elem(Null)
  <2>1. s = [p \in 1 .. d |-> e] /\ e \in Item
    BY <1>2, <1>4
  <2> HIDE DEF e
  <2>2. s \in Seq(Item)
    BY <1>3, <2>1
  <2>3. DOMAIN s = 1 .. d
    BY <2>1
  <2> QED
    BY <1>3, <2>2, <2>3
<1>6. \A p \in DOMAIN s : s[p] = Elem(Null)
  BY <1>4, <1>5
<1>7. ASSUME NEW b \in Addr PROVE HeldBy(s, b) = 0
  <2>1. \A p \in DOMAIN s : s[p].k # b /\ s[p].v # b
    BY <1>1, <1>2, <1>6
  <2> QED
    BY <1>5, <2>1, HeldZero
<1> QED
  BY <1>5, <1>6, <1>7 DEF d

\* What items hold with one of them more.
LEMMA HeldWith ==
  ASSUME NEW s \in Seq(Item), NEW p \in 1 .. Len(s) + 1, NEW i \in Item, NEW t, t = InsertAt(s, p, i)
  PROVE  /\ t \in Seq(Item) /\ Len(t) = Len(s) + 1
         /\ \A q \in DOMAIN t : t[q] = i \/ \E r \in DOMAIN s : t[q] = s[r]
         /\ \A a : HeldBy(t, a) = HeldBy(s, a) + HeldBy(<<i>>, a) /\ HeldBy(s, a) \in Nat
<1>1. /\ t \in Seq(Item) /\ Len(t) = Len(s) + 1
      /\ \A X : Count(t, X) = Count(s, X) + Count(<<i>>, X)
  BY InsertIs
<1>2. \A q \in DOMAIN t :
         \/ q = p /\ t[q] = i
         \/ q < p /\ q \in DOMAIN s /\ q \in 1 .. p - 1 /\ t[q] = s[q]
         \/ q > p /\ q - 1 \in DOMAIN s /\ q - 1 \in p .. Len(s) /\ t[q] = s[q - 1]
  BY InsertFrom
<1>3. ASSUME NEW a
      PROVE  HeldBy(t, a) = HeldBy(s, a) + HeldBy(<<i>>, a) /\ HeldBy(s, a) \in Nat
  <2> DEFINE X == {j \in Item : j.k = a}
             Y == {j \in Item : j.v = a}
             e == Count(<<i>>, X)
             f == Count(<<i>>, Y)
             j == Count(s, X)
             k == Count(s, Y)
  <2>1. Count(t, X) = j + e /\ Count(t, Y) = k + f
    BY <1>1
  <2>2. e \in Nat /\ f \in Nat
    BY CountOne
  <2>3. j \in Nat /\ k \in Nat
    <3> HIDE DEF X, Y
    <3> QED
      BY CountType
  <2>4. HeldBy(<<i>>, a) = e + f /\ HeldBy(s, a) = j + k /\ HeldBy(t, a) = Count(t, X) + Count(t, Y)
    BY DEF HeldBy
  <2> HIDE DEF X, Y, e, f, j, k
  <2> QED
    BY <2>1, <2>2, <2>3, <2>4
<1> QED
  BY <1>1, <1>2, <1>3

\* An object is put into a list, maybe beyond its end.
LEMMA PushKept ==
  ASSUME NEW o, NEW n, InvOf(o, n, <<>>), NEW l \in Addr, o[l] # Null, o[l].kind \notin Maps,
         NEW x \in Addr, o[x] # Null, NEW idx \in Nat, idx < MaxItems, Len(o[l].items) < MaxItems,
         NEW gap, gap = Gap(idx - Len(o[l].items))
  PROVE  InvOf(WithItems(Copied(o, <<Elem(x)>>), l, InsertAt(o[l].items \o gap, idx + 1, Elem(x))),
               n, <<>>)
<1> DEFINE u == o[l].items
           y == u \o gap
           i == Elem(x)
           t == InsertAt(y, idx + 1, i)
           s == << i >>
<1>1. o \in Objs /\ PlainOK(o) /\ Holder(o)
  BY IdleIs
<1>2. u \in Seq(Item) /\ Len(u) \in Nat /\ Len(u) < MaxItems /\ MaxItems \in Nat
  BY <1>1, ItemsOfType, MmCollectionsAssumption
<1>3. \A p \in DOMAIN u : u[p].k = Null /\ Alive(o, u[p].v)
  BY <1>1 DEF PlainOK, Holder
<1>4. /\ gap \in Seq(Item) /\ Len(gap) = (IF idx - Len(u) > 0 THEN idx - Len(u) ELSE 0)
      /\ \A p \in DOMAIN gap : gap[p] = Elem(Null)
      /\ \A b \in Addr : HeldBy(gap, b) = 0
  <2> DEFINE c == idx - Len(u)
  <2>1. c \in Int /\ gap = Gap(c)
    BY <1>2
  <2> HIDE DEF c
  <2>2. /\ gap \in Seq(Item) /\ Len(gap) = (IF c > 0 THEN c ELSE 0)
        /\ \A p \in DOMAIN gap : gap[p] = Elem(Null)
        /\ \A b \in Addr : HeldBy(gap, b) = 0
    BY <2>1, GapIs
  <2> QED
    BY <2>2 DEF c
<1>5. x \in Ptr /\ Elem(Null).k = Null /\ Elem(Null).v = Null
  BY DEF Ptr, Elem
<1>6. /\ i \in Item /\ i.k = Null /\ i.v = x
      /\ s \in Seq(Item) /\ \A p \in DOMAIN s : s[p].k = Null
  BY <1>5, ElemIs
<1> HIDE DEF u, i
<1>7. /\ y \in Seq(Item) /\ Len(y) = Len(u) + Len(gap)
      /\ DOMAIN y = 1 .. Len(u) + Len(gap)
      /\ \A p \in 1 .. Len(u) : y[p] = u[p]
      /\ \A p \in 1 .. Len(gap) : y[Len(u) + p] = gap[p]
      /\ Len(gap) \in Nat
  BY <1>2, <1>4, ConcatIs
<1>8. \A b : HeldBy(y, b) = HeldBy(u, b) + HeldBy(gap, b) /\ HeldBy(u, b) \in Nat
  BY <1>2, <1>4, HeldConcat
<1>9. \A p \in DOMAIN y : y[p].k = Null /\ Alive(o, y[p].v)
  <2> SUFFICES ASSUME NEW p \in DOMAIN y PROVE y[p].k = Null /\ Alive(o, y[p].v)
    OBVIOUS
  <2>0. DOMAIN u = 1 .. Len(u) /\ DOMAIN gap = 1 .. Len(gap)
    BY <1>2, <1>4
  <2>1. CASE p <= Len(u)
    <3>1. p \in DOMAIN u /\ p \in 1 .. Len(u)
      BY <1>2, <1>7, <2>0, <2>1
    <3> QED
      BY <1>3, <1>7, <3>1
  <2>2. CASE ~(p <= Len(u))
    <3> DEFINE q == p - Len(u)
    <3>1. q \in 1 .. Len(gap) /\ Len(u) + q = p
      BY <1>2, <1>7, <2>2
    <3> HIDE DEF q
    <3>2. y[p] = Elem(Null)
      BY <1>4, <1>7, <2>0, <3>1
    <3> QED
      BY <1>5, <3>2 DEF Alive
  <2> QED
    BY <2>1, <2>2
<1> HIDE DEF y
<1>10. idx + 1 \in 1 .. Len(y) + 1 /\ Len(y) + 1 <= MaxItems
  <2> DEFINE c == Len(u)
             d == Len(gap)
  <2>1. Len(y) = c + d /\ c \in Nat /\ c < MaxItems /\ d = (IF idx - c > 0 THEN idx - c ELSE 0)
    BY <1>2, <1>4, <1>7
  <2> HIDE DEF c, d
  <2> QED
    BY <1>2, <2>1
<1>11. /\ t \in Seq(Item) /\ Len(t) = Len(y) + 1
       /\ \A q \in DOMAIN t : t[q] = i \/ \E r \in DOMAIN y : t[q] = y[r]
       /\ \A a : HeldBy(t, a) = HeldBy(y, a) + HeldBy(s, a) /\ HeldBy(y, a) \in Nat
  BY <1>6, <1>7, <1>10, HeldWith
<1> HIDE DEF t, s
<1>12. \A p \in DOMAIN t : t[p].k = Null /\ Alive(o, t[p].v)
  BY <1>6, <1>9, <1>11 DEF Alive
<1>13. Len(t) <= MaxItems
  BY <1>10, <1>11
<1>14. ASSUME NEW b \in Addr PROVE HeldBy(t, b) = HeldBy(o[l].items, b) + HeldBy(s, b)
  <2>1. HeldBy(gap, b) = 0 /\ HeldBy(y, b) = HeldBy(u, b) + HeldBy(gap, b) /\ HeldBy(u, b) \in Nat
    BY <1>4, <1>8
  <2>2. HeldBy(y, b) = HeldBy(u, b)
    BY <2>1
  <2> QED
    BY <1>11, <2>2 DEF u
<1>15. InvOf(WithItems(Copied(o, s), l, t), n, <<>>)
  BY <1>6, <1>11, <1>12, <1>13, <1>14, SetCopied
<1> QED
  BY <1>15 DEF t, s, y, i, u

\* The last object of a list is taken out.
LEMMA PopKept ==
  ASSUME NEW o, NEW n, InvOf(o, n, <<>>), NEW l \in Addr, o[l] # Null, o[l].kind \notin Maps,
         o[l].items # <<>>,
         NEW z, z = Last(o[l].items).v,
         NEW y, y = WithItems(o, l, Front(o[l].items))
  PROVE  /\ z = Null => InvOf(y, n, <<>>)
         /\ z # Null => InvOf(WithR(y, z, y[z].r - 1), n, <<>>)
<1> DEFINE u == o[l].items
           t == Front(u)
           i == Last(u)
<1>1. o \in Objs /\ PlainOK(o) /\ Holder(o)
  BY IdleIs
<1>2. u \in Seq(Item) /\ Len(u) <= MaxItems /\ MaxItems \in Nat
  BY <1>1, ItemsOfType, MmCollectionsAssumption
<1>3. \A p \in DOMAIN u : u[p].k = Null /\ Alive(o, u[p].v)
  BY <1>1 DEF PlainOK, Holder
<1>4. u # <<>> /\ z = i.v /\ i = u[Len(u)]
  BY DEF Last
<1> HIDE DEF u
<1>5. /\ t \in Seq(Item) /\ i \in Item
      /\ Len(u) \in Nat \ {0} /\ Len(t) = Len(u) - 1
      /\ \A q \in 1 .. Len(u) - 1 : t[q] = u[q]
      /\ \A X : Count(u, X) = Count(t, X) + Count(<<i>>, X)
  BY <1>2, <1>4, FrontIs
<1> HIDE DEF t, i
<1>6. i.k = Null /\ Alive(o, z)
  <2>1. Len(u) \in DOMAIN u
    BY <1>2, <1>5
  <2> QED
    BY <1>3, <1>4, <2>1
<1>7. ASSUME NEW b \in Addr
      PROVE  HeldBy(u, b) = HeldBy(t, b) + One(z, b) /\ HeldBy(t, b) \in Nat
  <2> DEFINE X == {j \in Item : j.k = b}
             Y == {j \in Item : j.v = b}
             e == Count(<<i>>, X)
             f == Count(<<i>>, Y)
             j == Count(t, X)
             k == Count(t, Y)
  <2>1. Count(u, X) = j + e /\ Count(u, Y) = k + f
    BY <1>5
  <2>2. e \in Nat /\ f \in Nat
    BY CountOne
  <2>3. j \in Nat /\ k \in Nat
    <3> HIDE DEF X, Y
    <3> QED
      BY <1>5, CountType
  <2>4. HeldBy(<<i>>, b) = e + f /\ HeldBy(t, b) = j + k /\ HeldBy(u, b) = Count(u, X) + Count(u, Y)
    BY DEF HeldBy
  <2>5. HeldBy(<<i>>, b) = One(i.k, b) + One(i.v, b)
    BY <1>5, HeldOne
  <2>6. One(i.k, b) = 0 /\ One(i.v, b) = One(z, b) /\ One(z, b) \in Nat
    BY <1>4, <1>6, MmCollectionsAssumption DEF One
  <2> HIDE DEF X, Y, e, f, j, k
  <2> QED
    BY <2>1, <2>2, <2>3, <2>4, <2>5, <2>6
<1>8. \A p \in DOMAIN t : t[p].k = Null /\ Alive(o, t[p].v)
  <2> SUFFICES ASSUME NEW p \in DOMAIN t PROVE t[p].k = Null /\ Alive(o, t[p].v)
    OBVIOUS
  <2>1. p \in 1 .. Len(u) - 1 /\ p \in DOMAIN u
    BY <1>2, <1>5
  <2> QED
    BY <1>3, <1>5, <2>1
<1>9. Len(t) <= MaxItems
  BY <1>2, <1>5
<1>10. /\ y \in Objs /\ y[l] # Null /\ y[l].r = o[l].r
       /\ y[l].kind = o[l].kind /\ y[l].val = o[l].val /\ y[l].items = t
       /\ \A b \in Addr \ {l} : y[b] = o[b]
  <2>1. y = WithItems(o, l, t)
    BY DEF t, u
  <2> QED
    BY <1>1, <1>5, <1>9, <2>1, SetItems
<1>11. \A b \in Addr : (o[b] # Null <=> y[b] # Null)
  BY <1>10
<1>12. \A b \in Addr : o[b] # Null =>
         /\ y[b].kind = o[b].kind /\ y[b].val = o[b].val /\ y[b].r = o[b].r
         /\ b # l => y[b].items = o[b].items
  BY <1>10
<1>13. \A b \in Addr : o[b] # Null => o[b].r \in Nat
  BY <1>1, ItemsOfType
<1>14. ASSUME z = Null PROVE InvOf(y, n, <<>>)
  <2>1. ASSUME NEW b \in Addr, o[b] # Null
        PROVE  y[b].r + HeldBy(o[l].items, b) = o[b].r + HeldBy(y[l].items, b)
    <3>1. One(z, b) = 0
      BY <1>14, MmCollectionsAssumption DEF One
    <3>2. HeldBy(u, b) = HeldBy(t, b)
      BY <1>7, <3>1
    <3> QED
      BY <1>10, <1>12, <2>1, <3>2 DEF u
  <2>2. y \in Objs /\ \A p \in DOMAIN y[l].items : y[l].items[p].k = Null /\ Alive(o, y[l].items[p].v)
    BY <1>8, <1>10
  <2> QED
    BY <1>11, <1>12, <2>1, <2>2, ListKept
<1>15. ASSUME z # Null PROVE InvOf(WithR(y, z, y[z].r - 1), n, <<>>)
  <2> DEFINE c == y[z].r - 1
             g == WithR(y, z, c)
  <2>1. z \in Addr /\ o[z] # Null /\ y[z] # Null /\ y[z].r = o[z].r
    BY <1>6, <1>10, <1>12, <1>15 DEF Alive
  <2>2. o[z].r \in Nat \ {0}
    <3>1. o[z].r = Pointers(n, z) + Holds(ItemsOf(o), z) /\ Pointers(n, z) \in Nat
      BY <2>1, IdleIs
    <3>2. HeldBy(u, z) <= Holds(ItemsOf(o), z) /\ Holds(ItemsOf(o), z) \in Nat /\ HeldBy(u, z) \in Nat
      <4> DEFINE f == ItemsOf(o)
      <4>1. f \in Tables /\ f[l] = u
        BY <1>1, ItemsOfType DEF u
      <4> HIDE DEF f
      <4>2. HeldBy(f[l], z) <= Holds(f, z) /\ Holds(f, z) \in Nat /\ HeldBy(f[l], z) \in Nat
        BY <4>1, HoldsMore
      <4> QED
        BY <4>1, <4>2 DEF f
    <3>3. HeldBy(u, z) = HeldBy(t, z) + 1 /\ HeldBy(t, z) \in Nat
      BY <1>7, <2>1 DEF One
    <3> QED
      BY <3>1, <3>2, <3>3
  <2>3. c \in Nat /\ o[z].r = c + 1
    BY <2>1, <2>2
  <2> HIDE DEF c
  <2>4. /\ g \in Objs /\ g[z] # Null /\ g[z].r = c
        /\ g[z].kind = y[z].kind /\ g[z].val = y[z].val /\ g[z].items = y[z].items
        /\ \A b \in Addr \ {z} : g[b] = y[b]
    BY <1>10, <2>1, <2>3, SetR
  <2> HIDE DEF g
  <2>5. \A b \in Addr : (o[b] # Null <=> g[b] # Null)
    BY <1>11, <2>1, <2>4
  <2>6. g[l].items = t
    BY <1>10, <2>4
  <2>7. ASSUME NEW b \in Addr, o[b] # Null
        PROVE  /\ g[b].kind = o[b].kind /\ g[b].val = o[b].val
               /\ b # l => g[b].items = o[b].items
               /\ g[b].r + HeldBy(o[l].items, b) = o[b].r + HeldBy(g[l].items, b)
    <3>1. /\ g[b].kind = o[b].kind /\ g[b].val = o[b].val
          /\ b # l => g[b].items = o[b].items
      BY <1>12, <2>4, <2>7
    <3>2. g[b].r + One(z, b) = o[b].r
      <4>1. CASE b = z
        BY <2>3, <2>4, <4>1 DEF One
      <4>2. CASE b # z
        BY <1>12, <1>13, <2>4, <2>7, <4>2 DEF One
      <4> QED
        BY <4>1, <4>2
    <3>3. HeldBy(u, b) = HeldBy(t, b) + One(z, b) /\ HeldBy(t, b) \in Nat
      BY <1>7
    <3> DEFINE e == One(z, b)
               h == HeldBy(t, b)
               d == g[b].r
    <3>4. d + e = o[b].r /\ HeldBy(u, b) = h + e /\ d \in Nat /\ e \in Nat /\ h \in Nat
      <4>1. e \in Nat
        BY DEF One
      <4>2. g[b] # Null
        BY <2>5, <2>7
      <4>3. d \in Nat
        BY <2>4, <4>2, ItemsOfType
      <4> QED
        BY <3>2, <3>3, <4>1, <4>3
    <3> HIDE DEF e, h, d
    <3>5. d + HeldBy(u, b) = o[b].r + h
      BY <3>4
    <3> QED
      BY <2>6, <3>1, <3>5 DEF d, h, u
  <2>8. \A p \in DOMAIN g[l].items : g[l].items[p].k = Null /\ Alive(o, g[l].items[p].v)
    BY <1>8, <2>6
  <2>9. g \in Objs
    BY <2>4
  <2>10. InvOf(g, n, <<>>)
    BY <2>5, <2>7, <2>8, <2>9, ListKept
  <2> QED
    BY <2>10 DEF g, c
<1> QED
  BY <1>14, <1>15

----------------------------------------------------------------------------
(* Every step preserves the invariant.                                     *)

\* The steps of a put, as they are written.
LEMMA PutWritten ==
  ASSUME NEW f \in Step, NEW g \in Step, NEW h \in Step, NEW r \in Seq(Step)
  PROVE  /\ Append(<<f, g>> \o r, h) = (<<f, g>> \o r) \o << h >>
         /\ <<f, g, h>> = (<<f, g>> \o <<>>) \o << h >>
<1> DEFINE y == <<f, g>>
           z == y \o r
           x == <<f, g, h>>
<1>1. /\ y \in Seq(Step) /\ Len(y) = 2 /\ y[1] = f /\ y[2] = g
      /\ x \in Seq(Step) /\ Len(x) = 3 /\ x[1] = f /\ x[2] = g /\ x[3] = h
  OBVIOUS
<1> HIDE DEF y, x
<1>2. z \in Seq(Step)
  BY <1>1, ConcatProperties
<1> HIDE DEF z
<1>3. Append(z, h) = z \o << h >>
  BY <1>2, AppendIsConcat
<1>4. y \o <<>> = y
  BY <1>1, ConcatEmptySeq
<1> DEFINE e == << h >>
           u == y \o e
<1>6. u \in Seq(Step) /\ Len(u) = 3 /\ u[1] = f /\ u[2] = g /\ u[3] = h
  <2>0. e \in Seq(Step) /\ Len(e) = 1 /\ e[1] = h
    OBVIOUS
  <2> HIDE DEF e
  <2>1. /\ u \in Seq(Step) /\ Len(u) = Len(y) + Len(e)
        /\ \A i \in 1 .. Len(y) : u[i] = y[i]
        /\ \A i \in 1 .. Len(e) : u[Len(y) + i] = e[i]
    <3> y \in Seq(Step) /\ e \in Seq(Step)
      BY <1>1, <2>0
    <3> QED
      BY ConcatIs
  <2> HIDE DEF u
  <2>2. Len(u) = 3 /\ 1 \in 1 .. Len(y) /\ 2 \in 1 .. Len(y) /\ 1 \in 1 .. Len(e)
    BY <1>1, <2>0, <2>1
  <2>3. u[1] = y[1] /\ u[2] = y[2] /\ u[Len(y) + 1] = e[1]
    BY <2>1, <2>2
  <2>4. u[3] = h
    BY <1>1, <2>0, <2>3
  <2>5. u[1] = f /\ u[2] = g
    BY <1>1, <2>3
  <2> QED
    BY <2>1, <2>2, <2>4, <2>5
<1> HIDE DEF u
<1>7. x = u
  <2>1. \A i \in 1 .. Len(x) : x[i] = u[i]
    BY <1>1, <1>6
  <2> QED
    BY <1>1, <1>6, <2>1, SeqEqual
<1> QED
  BY <1>3, <1>4, <1>7 DEF u, e, x, z, y

\* What is put, replaced or removed.
LEMMA AddItemStep ==
  ASSUME IInv, NEW m \in Known, NEW k \in Known, NEW v \in Known, AddItem(m, k, v)
  PROVE  IInv'
<1> DEFINE s == obj[m].items
           i == [k |-> k, v |-> v, hk |-> k]
<1>1. InvOf(obj, own, <<>>) /\ Idle
  BY DEF IInv, AddItem, Idle
<1>2. /\ m \in Addr /\ obj[m] # Null /\ k \in Addr /\ obj[k] # Null /\ v \in Addr /\ obj[v] # Null
      /\ m \in Reached(obj, Roots(obj, own, <<>>))
  BY <1>1, KnownIs
<1>3. /\ obj[m].kind \in Maps /\ obj[k].kind = "int" /\ own' = own
      /\ Len(s) < MaxItems \/ WithKey(m, k) # {}
  BY DEF AddItem, Is
<1>4. /\ obj \in Objs /\ DataOK(obj) /\ s \in Seq(Item) /\ Len(s) <= MaxItems /\ Holder(obj)
  BY <1>1, <1>2, IdleIs, ItemsOfType
<1>5. i \in Item /\ i.k = k /\ i.v = v /\ i.hk = k
  BY <1>2 DEF Item, Ptr
<1> HIDE DEF i
<1>6. WithKey(m, k) = {p \in DOMAIN s : obj[s[p].k].val = obj[k].val}
  BY DEF WithKey, KeyVal
<1> DEFINE f == Do("retain", k)
           g == Do("retain", v)
           h == Insertion(m, i)
<1>7. f \in Step /\ g \in Step /\ h \in Step
  <2>1. k \in Ptr /\ v \in Ptr /\ m \in Ptr
    BY <1>2 DEF Ptr
  <2> QED
    BY <1>5, <2>1, DoIs, InsertionIs
<1> SUFFICES InvOf(obj', own, todo')
  BY <1>3 DEF IInv
<1>8. CASE WithKey(m, k) = {}
  <2>1. obj' = obj /\ todo' = <<f, g, h>>
    BY <1>8 DEF AddItem, HashKey, i
  <2> DEFINE r == <<>>
  <2>2. todo' = PutSteps(k, v, r, m, i)
    <3> HIDE DEF f, g, h
    <3>1. r \in Seq(Step)
      OBVIOUS
    <3>2. <<f, g, h>> = (<<f, g>> \o <<>>) \o << h >>
      BY <1>7, <3>1, PutWritten
    <3> QED
      BY <2>1, <3>2 DEF PutSteps, f, g, h
  <2>3. r \in Seq(Step) /\ DOMAIN r = {} /\ \A a \in Addr : Debt(r, a) = 0
    BY DebtNone
  <2> HIDE DEF r, f, g, h
  <2>4. \A a \in Addr : HeldBy(s, a) = HeldBy(s, a) + Debt(r, a)
    <3> HIDE DEF s
    <3>1. \A a \in Addr : HeldBy(s, a) \in Nat
      BY <1>4, HeldZero
    <3> QED
      BY <2>3, <3>1
  <2>5. Shrunk(s, s)
    <3> HIDE DEF s
    <3> QED
      BY <1>4, ShrunkSame
  <2>6. \A q \in DOMAIN s : \E p \in DOMAIN s : s[q] = s[p] /\ obj[s[p].k].val # obj[k].val
    BY <1>6, <1>8
  <2>7. Len(s) < MaxItems
    BY <1>3, <1>8
  <2>8. \A p \in DOMAIN r : r[p].op = "release" /\ r[p].item = Elem(Null) /\ Alive(obj, r[p].a)
    BY <2>3
  <2> DEFINE y == obj
             x == PutSteps(k, v, r, m, i)
  <2>9. /\ y \in Objs /\ y[m] # Null /\ y[m].r = obj[m].r
        /\ y[m].kind = obj[m].kind /\ y[m].val = obj[m].val /\ y[m].items = s
        /\ \A b \in Addr \ {m} : y[b] = obj[b]
    BY <1>2, <1>4
  <2> HIDE DEF x, y
  <2>10. x = PutSteps(k, v, r, m, i)
    BY DEF x
  <2>11. \A a \in Addr : HeldBy(obj[m].items, a) = HeldBy(y[m].items, a) + Debt(r, a)
    BY <2>4, <2>9
  <2>12. Shrunk(obj[m].items, y[m].items) /\ Len(y[m].items) < MaxItems
    BY <2>5, <2>7, <2>9
  <2>13. \A q \in DOMAIN y[m].items : \E j \in DOMAIN obj[m].items :
           y[m].items[q] = obj[m].items[j] /\ obj[obj[m].items[j].k].val # obj[k].val
    BY <2>6, <2>9
  <2> HIDE DEF s
  <2>14. InvOf(y, own, x)
    <3>1. /\ y \in Objs /\ y[m] # Null /\ y[m].r = obj[m].r
          /\ y[m].kind = obj[m].kind /\ y[m].val = obj[m].val
          /\ \A b \in Addr \ {m} : y[b] = obj[b]
      BY <2>9
    <3>2. r \in Seq(Step)
      BY <2>3
    <3> QED
      BY <1>1, <1>2, <1>3, <1>5, <2>8, <2>10, <2>11, <2>12, <2>13, <3>1, <3>2, PutKept
  <2> QED
    BY <2>1, <2>2, <2>14 DEF x, y
<1>9. CASE WithKey(m, k) # {}
  <2> DEFINE p == CHOOSE p \in WithKey(m, k) : TRUE
             t == RemoveAt(s, p)
             e == s[p]
             r == Releases(e)
             y == WithItems(obj, m, t)
  <2>1. p \in WithKey(m, k)
    BY <1>9
  <2>2. obj' = y /\ todo' = Append(<<f, g>> \o r, h)
    BY <1>9 DEF AddItem, HashKey, Replace, WithItems, i
  <2>3. p \in DOMAIN s /\ obj[e.k].val = obj[k].val
    BY <1>6, <2>1
  <2>4. Alive(obj, e.k) /\ Alive(obj, e.v)
    BY <1>2, <1>4, <2>3 DEF Holder
  <2>5. \A q \in DOMAIN s : obj[s[q].k].val = obj[k].val => q = p
    <3>1. MapOK(obj, m)
      BY <1>2, <1>3, <1>4 DEF DataOK, MapsOK
    <3> QED
      BY <2>3, <3>1 DEF MapOK
  <2> HIDE DEF p, s
  <2>6. /\ t \in Seq(Item) /\ Len(t) = Len(s) - 1 /\ Shrunk(s, t) /\ e \in Item
        /\ \A q \in DOMAIN t : \E j \in DOMAIN s : j # p /\ t[q] = s[j]
        /\ \A a : /\ HeldBy(s, a) = HeldBy(t, a) + One(e.k, a) + One(e.v, a)
                  /\ HeldBy(t, a) \in Nat
    <3>1. p \in 1 .. Len(s)
      BY <1>4, <2>3
    <3> QED
      BY <1>4, <3>1, HeldWithout
  <2> HIDE DEF t, e
  <2>7. /\ r \in Seq(Step)
        /\ \A a \in Addr : Debt(r, a) = One(e.k, a) + One(e.v, a)
        /\ \A q \in DOMAIN r : r[q].op = "release" /\ r[q].item = Elem(Null) /\ r[q].a \in {e.k, e.v}
    BY <2>6, ReleasesIs
  <2> HIDE DEF r
  <2>8. todo' = PutSteps(k, v, r, m, i)
    <3> HIDE DEF f, g, h
    <3>1. Append(<<f, g>> \o r, h) = (<<f, g>> \o r) \o << h >>
      BY <1>7, <2>7, PutWritten
    <3> QED
      BY <2>2, <3>1 DEF PutSteps, f, g, h
  <2> HIDE DEF f, g, h
  <2>9. Len(t) < MaxItems /\ Len(t) <= MaxItems
    <3>1. Len(s) \in Nat /\ MaxItems \in Nat /\ Len(s) <= MaxItems
      BY <1>4, MmCollectionsAssumption DEF s
    <3> QED
      BY <2>6, <3>1
  <2>10. /\ y \in Objs /\ y[m] # Null /\ y[m].r = obj[m].r
         /\ y[m].kind = obj[m].kind /\ y[m].val = obj[m].val /\ y[m].items = t
         /\ \A b \in Addr \ {m} : y[b] = obj[b]
    BY <1>2, <1>4, <2>6, <2>9, SetItems
  <2>11. \A a \in Addr : HeldBy(obj[m].items, a) = HeldBy(y[m].items, a) + Debt(r, a)
    <3> SUFFICES ASSUME NEW a \in Addr
                 PROVE  HeldBy(s, a) = HeldBy(t, a) + Debt(r, a)
      BY <2>10 DEF s
    <3>1. One(e.k, a) \in Nat /\ One(e.v, a) \in Nat
      BY DEF One
    <3>2. HeldBy(s, a) = HeldBy(t, a) + One(e.k, a) + One(e.v, a) /\ HeldBy(t, a) \in Nat
          /\ Debt(r, a) = One(e.k, a) + One(e.v, a)
      BY <2>6, <2>7
    <3> DEFINE c == One(e.k, a)
               d == One(e.v, a)
               j == HeldBy(t, a)
    <3>3. HeldBy(s, a) = j + c + d /\ Debt(r, a) = c + d /\ j \in Nat /\ c \in Nat /\ d \in Nat
      BY <3>1, <3>2
    <3> HIDE DEF c, d, j
    <3>4. HeldBy(s, a) = j + Debt(r, a)
      BY <3>3
    <3> QED
      BY <3>4 DEF j
  <2>12. \A q \in DOMAIN y[m].items : \E j \in DOMAIN obj[m].items :
           y[m].items[q] = obj[m].items[j] /\ obj[obj[m].items[j].k].val # obj[k].val
    <3>1. ASSUME NEW q \in DOMAIN t
          PROVE  \E j \in DOMAIN s : t[q] = s[j] /\ obj[s[j].k].val # obj[k].val
      <4>1. PICK j \in DOMAIN s : j # p /\ t[q] = s[j]
        BY <2>6
      <4> QED
        BY <2>5, <4>1
    <3> QED
      BY <2>10, <3>1 DEF s
  <2>13. Shrunk(obj[m].items, y[m].items) /\ Len(y[m].items) < MaxItems
    BY <2>6, <2>9, <2>10 DEF s
  <2>14. \A q \in DOMAIN r : r[q].op = "release" /\ r[q].item = Elem(Null) /\ Alive(obj, r[q].a)
    BY <2>4, <2>7
  <2> DEFINE x == PutSteps(k, v, r, m, i)
  <2> HIDE DEF x, y
  <2>15. x = PutSteps(k, v, r, m, i)
    BY DEF x
  <2>16. InvOf(y, own, x)
    BY <1>1, <1>2, <1>3, <1>5, <2>7, <2>10, <2>11, <2>12, <2>13, <2>14, <2>15, PutKept
  <2>17. obj' = y
    BY <2>2
  <2> QED
    BY <2>8, <2>16, <2>17 DEF x
<1> QED
  BY <1>8, <1>9

\* A number or a collection is made.
LEMMA NewStep ==
  ASSUME IInv, NEW w \in Var, NEW a \in Addr, NEW kind \in {"int", "map", "sorted", "list"},
         NEW val \in Val \cup {Null}, kind = "int" => val \in Val, New(w, a, kind, val)
  PROVE  IInv'
<1> DEFINE x == [kind |-> kind, r |-> 1, val |-> val, items |-> <<>>]
<1>1. InvOf(obj, own, <<>>) /\ todo' = <<>>
  BY DEF IInv, New, Idle
<1>2. own[w] = Null /\ obj[a] = Null
  BY DEF New, Live
<1>3. obj' = With(obj, a, x) /\ own' = Points(own, w, a)
  BY DEF New, With, Points
<1>4. x \in Object /\ x.r = 1 /\ x.items = <<>> /\ (x.kind = "int" => x.val \in Val)
  BY DEF Object, Kinds
<1> HIDE DEF x
<1>5. InvOf(With(obj, a, x), Points(own, w, a), <<>>)
  BY <1>1, <1>2, <1>4, NewKept
<1> QED
  BY <1>1, <1>3, <1>5 DEF IInv

\* A reference is made.
LEMMA NewReferenceStep ==
  ASSUME IInv, NEW w \in Var, NEW a \in Addr, NEW z \in Known, NewReference(w, a, z)
  PROVE  IInv'
<1> DEFINE x == [kind |-> "ref", r |-> 1, val |-> Null, items |-> <<Elem(z)>>]
<1>1. InvOf(obj, own, <<>>) /\ Idle /\ todo' = <<>>
  BY DEF IInv, NewReference, Idle
<1>2. own[w] = Null /\ obj[a] = Null
  BY DEF NewReference, Live
<1>3. z \in Addr /\ obj[z] # Null
  BY <1>1, KnownIs
<1>4. obj' = With(WithR(obj, z, obj[z].r + 1), a, x) /\ own' = Points(own, w, a)
  BY DEF NewReference, With, WithR, Retained, Points
<1>5. x \in Object /\ x.r = 1 /\ x.items = <<Elem(z)>> /\ x.kind = "ref"
  <2>1. Elem(z) \in Item
    BY <1>3 DEF Elem, Item, Ptr
  <2> QED
    BY <2>1 DEF Object, Kinds
<1> HIDE DEF x
<1>6. InvOf(With(WithR(obj, z, obj[z].r + 1), a, x), Points(own, w, a), <<>>)
  BY <1>1, <1>2, <1>3, <1>5, NewReferenceKept
<1> QED
  BY <1>1, <1>4, <1>6 DEF IInv

\* A count is taken.
LEMMA RetainStep ==
  ASSUME IInv, NEW w \in Var, NEW z \in Known, Retain(w, z)
  PROVE  IInv'
<1> DEFINE c == obj[z].r + 1
<1>1. InvOf(obj, own, <<>>) /\ Idle /\ todo' = <<>> /\ own[w] = Null
  BY DEF IInv, Retain, Idle
<1>2. z \in Addr /\ obj[z] # Null
  BY <1>1, KnownIs
<1>3. obj' = WithR(obj, z, c) /\ own' = Points(own, w, z)
  BY DEF Retain, WithR, Retained, Points
<1>4. c \in Nat
  BY <1>1, <1>2, IdleIs
<1>5. InvOf(WithR(obj, z, c), Points(own, w, z), <<>>)
  <2>1. c = obj[z].r + 1
    OBVIOUS
  <2> HIDE DEF c
  <2> QED
    BY <1>1, <1>2, <1>4, <2>1, RecountKept
<1> QED
  BY <1>1, <1>3, <1>5 DEF IInv

\* A count is given up.
LEMMA ReleaseStep ==
  ASSUME IInv, NEW w \in Var, Release(w)
  PROVE  IInv'
<1>1. InvOf(obj, own, <<>>)
  BY DEF IInv, Release, Idle
<1>2. obj' = obj /\ own' = Points(own, w, Null) /\ todo' = <<Do("release", own[w])>>
  BY DEF Release, Points
<1>3. InvOf(obj, Points(own, w, Null), <<Do("release", own[w])>>)
  BY <1>1, LetGoKept
<1> QED
  BY <1>2, <1>3 DEF IInv

\* A count is given up, and the object destroyed later.
LEMMA AutoreleaseStep ==
  ASSUME IInv, NEW w \in Var, Autorelease(w)
  PROVE  IInv'
<1> DEFINE z == own[w]
           c == obj[z].r - 1
<1>1. InvOf(obj, own, <<>>) /\ todo' = <<>> /\ z # Null
  BY DEF IInv, Autorelease, Idle
<1>2. obj' = WithR(obj, z, c) /\ own' = Points(own, w, Null)
  BY DEF Autorelease, WithR, Points
<1>3. own \in [Var -> Ptr] /\ z \in Addr /\ obj[z] # Null
  BY <1>1, IdleIs DEF Alive
<1>4. c \in Nat /\ obj[z].r = c + 1
  <2>1. Pointers(own, z) \in Nat /\ Pointers(own, z) # 0
    BY <1>3, OwnZero
  <2>2. obj[z].r = Pointers(own, z) + Holds(ItemsOf(obj), z) /\ Holds(ItemsOf(obj), z) \in Nat
    BY <1>1, <1>3, IdleIs
  <2> QED
    BY <2>1, <2>2
<1>5. own[w] = z
  OBVIOUS
<1> HIDE DEF z, c
<1>6. InvOf(WithR(obj, z, c), Points(own, w, Null), <<>>)
  BY <1>1, <1>3, <1>4, <1>5, RecountKept
<1> QED
  BY <1>1, <1>2, <1>6 DEF IInv

\* An unused object begins to be destroyed.
LEMMA DrainStep ==
  ASSUME IInv, NEW a \in Known, Drain(a)
  PROVE  IInv'
<1>1. InvOf(obj, own, <<>>) /\ Idle /\ a \in Unused
  BY DEF IInv, Drain, Idle
<1>2. obj' = obj /\ own' = own /\ todo' = <<Do("destroy", a)>>
  BY DEF Drain
<1>3. a \in Addr /\ obj[a] # Null /\ obj[a].r = 0
  BY <1>1 DEF Unused, Live
<1>4. InvOf(obj, own, <<Do("destroy", a)>>)
  BY <1>1, <1>3, DrainKept
<1> QED
  BY <1>2, <1>4 DEF IInv

\* An item is taken out of a map.
LEMMA RemoveItemStep ==
  ASSUME IInv, NEW m \in Known, NEW k \in Known, RemoveItem(m, k)
  PROVE  IInv'
<1>1. InvOf(obj, own, <<>>) /\ Idle /\ own' = own
  BY DEF IInv, RemoveItem, Idle
<1>2. m \in Addr /\ obj[m] # Null /\ obj[m].kind \in Maps
  BY <1>1, KnownIs DEF RemoveItem, Is
<1>3. PICK p \in WithKey(m, k) :
         /\ obj' = [obj EXCEPT ![m].items = RemoveAt(@, p)]
         /\ todo' = Releases(obj[m].items[p])
  BY DEF RemoveItem
<1>4. p \in DOMAIN obj[m].items
  BY <1>3 DEF WithKey
<1>5. obj' = WithItems(obj, m, RemoveAt(obj[m].items, p))
  BY <1>3 DEF WithItems
<1>6. InvOf(WithItems(obj, m, RemoveAt(obj[m].items, p)), own, Releases(obj[m].items[p]))
  BY <1>1, <1>2, <1>4, RemoveItemKept
<1> QED
  BY <1>1, <1>3, <1>5, <1>6 DEF IInv

\* An object is put into a list.
LEMMA InsertItemStep ==
  ASSUME IInv, NEW l \in Known, NEW x \in Known, NEW idx \in 0 .. MaxItems - 1, InsertItem(l, x, idx)
  PROVE  IInv'
<1> DEFINE s == <<Elem(x)>>
           y == Copied(obj, s)
           gap == Gap(idx - Len(obj[l].items))
           t == InsertAt(obj[l].items \o gap, idx + 1, Elem(x))
<1>1. InvOf(obj, own, <<>>) /\ Idle /\ own' = own /\ todo' = <<>>
  BY DEF IInv, InsertItem, Idle
<1>2. l \in Addr /\ obj[l] # Null /\ obj[l].kind = "list" /\ x \in Addr /\ obj[x] # Null
  BY <1>1, KnownIs DEF InsertItem, Is
<1>3. idx \in Nat /\ idx < MaxItems /\ Len(obj[l].items) < MaxItems
  BY MmCollectionsAssumption DEF InsertItem
<1>4. obj \in Objs /\ s \in Seq(Item) /\ \A p \in DOMAIN s : s[p].k = Null
  <2>1. Elem(x) \in Item /\ Elem(x).k = Null
    BY <1>2 DEF Elem, Item, Ptr
  <2>2. obj \in Objs
    BY <1>1, IdleIs
  <2> QED
    BY <2>1, <2>2
<1>5. y[l] # Null /\ y[l].items = obj[l].items
  <2> HIDE DEF s
  <2>1. y = Copied(obj, s)
    OBVIOUS
  <2> HIDE DEF y
  <2> QED
    BY <1>2, <1>4, <2>1, CopiedIs
<1>6. obj' = WithItems(y, l, t)
  <2>1. obj' = [y EXCEPT ![l].items = InsertAt(@ \o gap, idx + 1, Elem(x))]
    BY DEF InsertItem, Gap
  <2> HIDE DEF y, gap
  <2> QED
    BY <1>5, <2>1 DEF WithItems
<1>7. obj[l].kind \notin Maps
  BY <1>2 DEF Maps
<1>8. gap = Gap(idx - Len(obj[l].items))
  OBVIOUS
<1> HIDE DEF gap
<1>9. InvOf(WithItems(y, l, t), own, <<>>)
  BY <1>1, <1>2, <1>3, <1>7, <1>8, PushKept
<1> QED
  BY <1>1, <1>6, <1>9 DEF IInv

\* A list is put at the end of a list.
LEMMA ConcatListStep ==
  ASSUME IInv, NEW l \in Known, NEW m \in Known, ConcatList(l, m)
  PROVE  IInv'
<1> DEFINE s == obj[m].items
           y == Copied(obj, s)
<1>1. InvOf(obj, own, <<>>) /\ Idle /\ own' = own /\ todo' = <<>>
  BY DEF IInv, ConcatList, Idle
<1>2. /\ l \in Addr /\ obj[l] # Null /\ obj[l].kind = "list"
      /\ m \in Addr /\ obj[m] # Null /\ obj[m].kind = "list"
      /\ Len(obj[l].items) + Len(obj[m].items) <= MaxItems
  BY <1>1, KnownIs DEF ConcatList, Is
<1>3. obj \in Objs /\ s \in Seq(Item) /\ \A p \in DOMAIN s : s[p].k = Null
  <2>1. obj \in Objs /\ PlainOK(obj) /\ obj[m].kind \notin Maps
    BY <1>1, <1>2, IdleIs DEF Maps
  <2>2. s \in Seq(Item)
    BY <1>2, <2>1, ItemsOfType
  <2> QED
    BY <1>2, <2>1, <2>2 DEF PlainOK
<1>4. y[l] # Null /\ y[l].items = obj[l].items
  <2> HIDE DEF s
  <2>1. y = Copied(obj, s)
    OBVIOUS
  <2> HIDE DEF y
  <2> QED
    BY <1>2, <1>3, <2>1, CopiedIs
<1>5. obj' = WithItems(y, l, obj[l].items \o s)
  <2>1. obj' = [y EXCEPT ![l].items = @ \o s]
    BY DEF ConcatList
  <2> HIDE DEF y, s
  <2> QED
    BY <1>4, <2>1 DEF WithItems
<1>6. obj[l].kind \notin Maps /\ obj[m].kind \notin Maps
  BY <1>2 DEF Maps
<1>7. InvOf(WithItems(y, l, obj[l].items \o s), own, <<>>)
  BY <1>1, <1>2, <1>6, ConcatKept
<1> QED
  BY <1>1, <1>5, <1>7 DEF IInv

\* The last object is taken out of a list.
LEMMA PopItemStep ==
  ASSUME IInv, NEW l \in Known, PopItem(l)
  PROVE  IInv'
<1> DEFINE z == Last(obj[l].items).v
           y == WithItems(obj, l, Front(obj[l].items))
<1>1. InvOf(obj, own, <<>>) /\ Idle /\ own' = own /\ todo' = <<>>
  BY DEF IInv, PopItem, Idle
<1>2. l \in Addr /\ obj[l] # Null /\ obj[l].kind = "list" /\ obj[l].items # <<>>
  BY <1>1, KnownIs DEF PopItem, Is
<1>3. obj' = IF z = Null THEN y ELSE WithR(y, z, y[z].r - 1)
  BY DEF PopItem, WithItems, WithR
<1>4. obj[l].kind \notin Maps
  BY <1>2 DEF Maps
<1>5. z = Last(obj[l].items).v /\ y = WithItems(obj, l, Front(obj[l].items))
  OBVIOUS
<1> HIDE DEF z, y
<1>6. /\ z = Null => InvOf(y, own, <<>>)
      /\ z # Null => InvOf(WithR(y, z, y[z].r - 1), own, <<>>)
  BY <1>1, <1>2, <1>4, <1>5, PopKept
<1> QED
  BY <1>1, <1>3, <1>6 DEF IInv

\* Every call of the program keeps the invariant.
LEMMA ProgramStep == ASSUME IInv, Program PROVE IInv'
<1>1. \/ \E w \in Var :
           \/ \E a \in Addr :
                \/ \E v \in Val : New(w, a, "int", v)
                \/ \E kind \in {"map", "sorted", "list"} : New(w, a, kind, Null)
                \/ \E o \in Known : NewReference(w, a, o)
           \/ \E o \in Known : Retain(w, o)
           \/ Release(w) \/ Autorelease(w)
      \/ \E a \in Known :
           \/ Drain(a) \/ PopItem(a)
           \/ \E b \in Known :
                \/ RemoveItem(a, b) \/ ConcatList(a, b)
                \/ \E c \in Known : AddItem(a, b, c)
                \/ \E idx \in 0 .. MaxItems - 1 : InsertItem(a, b, idx)
  BY DEF Program
<1>2. ASSUME NEW w \in Var, NEW a \in Addr, NEW v \in Val, New(w, a, "int", v) PROVE IInv'
  BY <1>2, NewStep
<1>3. ASSUME NEW w \in Var, NEW a \in Addr, NEW kind \in {"map", "sorted", "list"}, New(w, a, kind, Null)
      PROVE  IInv'
  <2>1. kind \in {"int", "map", "sorted", "list"} /\ kind # "int" /\ Null \in Val \cup {Null}
    OBVIOUS
  <2> QED
    BY <1>3, <2>1, NewStep
<1>4. ASSUME NEW w \in Var, NEW a \in Addr, NEW o \in Known, NewReference(w, a, o) PROVE IInv'
  BY <1>4, NewReferenceStep
<1>5. ASSUME NEW w \in Var, NEW o \in Known, Retain(w, o) PROVE IInv'
  BY <1>5, RetainStep
<1>6. ASSUME NEW w \in Var, Release(w) PROVE IInv'
  BY <1>6, ReleaseStep
<1>7. ASSUME NEW w \in Var, Autorelease(w) PROVE IInv'
  BY <1>7, AutoreleaseStep
<1>8. ASSUME NEW a \in Known, Drain(a) PROVE IInv'
  BY <1>8, DrainStep
<1>9. ASSUME NEW a \in Known, PopItem(a) PROVE IInv'
  BY <1>9, PopItemStep
<1>10. ASSUME NEW a \in Known, NEW b \in Known, RemoveItem(a, b) PROVE IInv'
  BY <1>10, RemoveItemStep
<1>11. ASSUME NEW a \in Known, NEW b \in Known, ConcatList(a, b) PROVE IInv'
  BY <1>11, ConcatListStep
<1>12. ASSUME NEW a \in Known, NEW b \in Known, NEW c \in Known, AddItem(a, b, c) PROVE IInv'
  BY <1>12, AddItemStep
<1>13. ASSUME NEW a \in Known, NEW b \in Known, NEW idx \in 0 .. MaxItems - 1, InsertItem(a, b, idx)
       PROVE  IInv'
  BY <1>13, InsertItemStep
<1> QED
  BY <1>1, <1>2, <1>3, <1>4, <1>5, <1>6, <1>7, <1>8, <1>9, <1>10, <1>11, <1>12, <1>13

\* Initially there are no objects.
LEMMA InitInv == ASSUME Init PROVE IInv
<1> DEFINE o == [a \in Addr |-> Null]
           n == [w \in Var |-> Null]
           t == <<>>
<1>1. obj = o /\ own = n /\ todo = t
  BY DEF Init
<1>2. /\ \A a \in Addr : o[a] = Null
      /\ o \in Objs
  BY DEF Objs
<1>3. n \in Owns /\ \A w \in Var : n[w] = Null
  BY DEF Owns, Ptr
<1>4. t \in Seq(Step) /\ DOMAIN t = {}
  OBVIOUS
<1> HIDE DEF o, n, t
<1>5. AllWhole(o, n, t)
  BY <1>2, <1>3, <1>4 DEF AllWhole, OwnWhole, ItemsWhole, StepsWhole, Whole
<1>6. Counted(o, n, t)
  BY <1>2 DEF Counted
<1>7. Ordered(t) /\ StepsOK(o, n, t)
  BY <1>4 DEF Ordered, StepsOK
<1>8. DataOK(o) /\ PlainOK(o)
  BY <1>2 DEF DataOK, MapsOK, IntsOK, MapsSorted, PlainOK
<1>9. InvOf(o, n, t)
  BY <1>2, <1>3, <1>4, <1>5, <1>6, <1>7, <1>8 DEF InvOf, TypesOK
<1> QED
  BY <1>1, <1>9 DEF IInv

\* The inductive invariant is one: every call that begins, and every step of a
\* call, keeps it.
THEOREM Invariant == Spec => []IInv
<1>1. Init => IInv
  BY InitInv
<1>2. IInv /\ [Next]_vars => IInv'
  <2> SUFFICES ASSUME IInv, [Next]_vars PROVE IInv'
    OBVIOUS
  <2>1. CASE Program
    BY <2>1, ProgramStep
  <2>2. CASE GoOn
    BY <2>2, GoOnStep
  <2>3. CASE UNCHANGED vars
    BY <2>3 DEF vars, IInv
  <2> QED
    BY <2>1, <2>2, <2>3 DEF Next
<1> QED
  BY <1>1, <1>2, PTL DEF Spec

\* The invariant speaks of types.
LEMMA TypeFollows == ASSUME IInv PROVE TypeOK
<1>1. obj \in Objs /\ own \in [Var -> Ptr] /\ todo \in Seq(Step)
  BY DEF IInv, InvOf, TypesOK, Owns
<1> QED
  BY <1>1 DEF TypeOK, Objs, Live

\* All state has its type: no list or map outgrows its bound, and nothing but a
\* pointer or a step of a call is ever where one belongs.
THEOREM TypesKept == Spec => []TypeOK
BY Invariant, TypeFollows, PTL

\* Whoever owns a count, or is about to take one or to give one up, points to an
\* object that is there and not being destroyed, at every step of every call
\* (mmo_ext.h:596: the key and the value that replace others are retained first).
THEOREM NothingDangles == Spec => []NoDangling
<1>1. ASSUME IInv PROVE NoDangling
  <2>1. /\ TypeOK /\ OwnWhole(obj, own, todo) /\ ItemsWhole(obj, todo) /\ StepsWhole(obj, todo)
    BY <1>1, TypeFollows DEF IInv, InvOf, AllWhole
  <2>2. Range(todo) = {todo[p] : p \in DOMAIN todo}
    BY DEF Range
  <2>3. Destroying = Destroyed(todo)
    BY <2>2 DEF Destroying, Destroyed
  <2>4. \A a : Whole(obj, todo, a) <=> (a = Null \/ (Live(a) /\ a \notin Destroying))
    BY <2>3 DEF Whole, Live
  <2>5. ASSUME NEW w \in Var PROVE own[w] = Null \/ (Live(own[w]) /\ own[w] \notin Destroying)
    BY <2>1, <2>4 DEF OwnWhole
  <2>6. ASSUME NEW a \in Addr, Live(a), NEW i \in Range(obj[a].items)
        PROVE  /\ i.k = Null \/ (Live(i.k) /\ i.k \notin Destroying)
               /\ i.v = Null \/ (Live(i.v) /\ i.v \notin Destroying)
    <3>1. PICK p \in DOMAIN obj[a].items : i = obj[a].items[p]
      BY <2>6 DEF Range
    <3> QED
      BY <2>1, <2>4, <2>6, <3>1 DEF ItemsWhole, Live
  <2>7. ASSUME NEW f \in Range(todo)
        PROVE  /\ f.item.k = Null \/ (Live(f.item.k) /\ f.item.k \notin Destroying)
               /\ f.item.v = Null \/ (Live(f.item.v) /\ f.item.v \notin Destroying)
               /\ f.op # "destroy" => f.a = Null \/ (Live(f.a) /\ f.a \notin Destroying)
    <3>1. PICK p \in DOMAIN todo : f = todo[p]
      BY <2>2
    <3> QED
      BY <2>1, <2>4, <3>1 DEF StepsWhole
  <2> QED
    BY <2>1, <2>5, <2>6, <2>7 DEF NoDangling
<1> QED
  BY <1>1, Invariant, PTL

\* Each object has one count for every pointer of the program, every place of a
\* key or of a value and every step of a call that owns one (mmo_ext.h:590, 595,
\* 777, 785, 838).
THEOREM CountsAreRight == Spec => []CountsAreOwners
<1>1. ASSUME IInv PROVE CountsAreOwners
  <2>1. Counted(obj, own, todo)
    BY <1>1 DEF IInv, InvOf
  <2>2. Items = ItemsOf(obj)
    BY DEF Items, ItemsOf, Live
  <2>3. \A a \in Addr : Owners(a) = OwnersOf(obj, own, todo, a)
    BY <2>2 DEF Owners, OwnersOf, Pointers
  <2> QED
    BY <2>1, <2>3 DEF CountsAreOwners, Counted, Live
<1> QED
  BY <1>1, Invariant, PTL

\* A table has each key once, in the memory of a key that its own item holds
\* (mmo_ext.h:705), and a sorted map is in order (mmo_ext.h:704).
THEOREM MapsStayInOrder == Spec => []MapsInOrder
<1>1. ASSUME IInv PROVE MapsInOrder
  <2>1. MapsOK(obj) /\ MapsSorted(obj)
    BY <1>1 DEF IInv, InvOf, DataOK
  <2>2. KeysHeld
    BY <2>1 DEF KeysHeld, MapsOK, MapOK, KeyVal, Live
  <2>3. SortedInOrder
    BY <2>1 DEF SortedInOrder, MapsSorted, MapSorted, KeyVal, Live
  <2> QED
    BY <2>2, <2>3 DEF MapsInOrder
<1> QED
  BY <1>1, Invariant, PTL

----------------------------------------------------------------------------
(* What no call can reach.                                                 *)

\* What is reached.
LEMMA ReachIs ==
  ASSUME NEW o, NEW S \in SUBSET Addr
  PROVE  /\ Reached(o, S) \in SUBSET Addr /\ S \subseteq Reached(o, S)
         /\ \A b \in Reached(o, S) : Pointed(o, b) \subseteq Reached(o, S)
         /\ \A T \in SUBSET Addr : S \subseteq T /\ Closed(o, T) => Reached(o, S) \subseteq T
<1>1. Reached(o, S) \in SUBSET Addr /\ S \subseteq Reached(o, S)
  BY DEF Reached
<1>2. \A T \in SUBSET Addr : S \subseteq T /\ Closed(o, T) => Reached(o, S) \subseteq T
  BY DEF Reached
<1>3. ASSUME NEW b \in Reached(o, S), NEW x \in Pointed(o, b)
      PROVE  x \in Reached(o, S)
  <2>1. x \in Addr
    BY <1>3 DEF Pointed
  <2>2. ASSUME NEW T \in SUBSET Addr, S \subseteq T, Closed(o, T) PROVE x \in T
    <3>1. b \in T
      BY <1>2, <2>2
    <3> QED
      BY <2>2, <3>1 DEF Closed
  <2> QED
    BY <2>1, <2>2 DEF Reached
<1> QED
  BY <1>1, <1>2, <1>3

\* What is reached from what is reached.
LEMMA ReachOn ==
  ASSUME NEW o, NEW R \in SUBSET Addr, NEW S \in SUBSET Addr, S \subseteq Reached(o, R)
  PROVE  Reached(o, S) \subseteq Reached(o, R)
<1> DEFINE T == Reached(o, R)
<1>1. T \in SUBSET Addr /\ \A b \in T : Pointed(o, b) \subseteq T
  BY ReachIs
<1>2. S \subseteq T
  OBVIOUS
<1> HIDE DEF T
<1>3. Closed(o, T)
  BY <1>1 DEF Closed
<1>4. Reached(o, S) \subseteq T
  BY <1>1, <1>2, <1>3, ReachIs
<1> QED
  BY <1>4 DEF T

\* An object that is not reached is held by another one that is not.
LEMMA HolderUnreached ==
  ASSUME NEW o, NEW n, InvOf(o, n, <<>>), NEW K, K = Reached(o, Roots(o, n, <<>>)),
         NEW a \in Addr, o[a] # Null, a \notin K
  PROVE  \E c \in Addr : o[c] # Null /\ c \notin K /\ a \in Pointed(o, c)
<1> DEFINE R == Roots(o, n, <<>>)
<1>1. /\ o \in Objs /\ n \in [Var -> Ptr]
      /\ o[a].r = Pointers(n, a) + Holds(ItemsOf(o), a)
      /\ Pointers(n, a) \in Nat /\ Holds(ItemsOf(o), a) \in Nat
  BY IdleIs
<1>2. R \in SUBSET Addr
  BY DEF Roots, Idles, Carried
<1>3. R \subseteq K /\ \A b \in K : Pointed(o, b) \subseteq K
  <2> HIDE DEF R
  <2>1. K = Reached(o, R)
    BY DEF R
  <2> QED
    BY <1>2, <2>1, ReachIs
<1>4. a \notin R
  BY <1>3
<1>5. Pointers(n, a) = 0
  <2>1. \A w \in Var : n[w] # a
    BY <1>4 DEF Roots
  <2> QED
    BY <1>1, <2>1, OwnZero
<1>6. o[a].r # 0
  <2>1. Destroyed(<<>>) = {}
    BY DEF Destroyed
  <2> QED
    BY <1>4, <2>1 DEF Roots, Idles
<1>7. Holds(ItemsOf(o), a) # 0
  BY <1>1, <1>5, <1>6
<1> DEFINE f == ItemsOf(o)
<1>8. f \in Tables
  BY <1>1, ItemsOfType
<1>9. \E c \in Addr : \E p \in DOMAIN f[c] : f[c][p].k = a \/ f[c][p].v = a
  <2> HIDE DEF f
  <2>1. Holds(f, a) # 0
    BY <1>7 DEF f
  <2> QED
    BY <1>8, <2>1, HoldsZero
<1>10. PICK c \in Addr : \E p \in DOMAIN f[c] : f[c][p].k = a \/ f[c][p].v = a
  BY <1>9
<1>11. o[c] # Null /\ f[c] = o[c].items
  BY <1>10 DEF ItemsOf
<1>12. a \in Pointed(o, c)
  BY <1>10, <1>11 DEF Pointed
<1> QED
  BY <1>3, <1>10, <1>11, <1>12

\* Going back from object to object in a finite memory comes to a cycle.
LEMMA CycleBehind ==
  ASSUME NEW o, NEW U \in SUBSET Addr, \A x \in U : \E c \in U : x \in Pointed(o, c),
         NEW a \in U
  PROVE  \E b \in U : b \in Reached(o, Pointed(o, b)) /\ a \in Reached(o, {b})
<1> DEFINE A(x) == {y \in U : x \in Reached(o, Pointed(o, y))}
           W == {x \in U : a \in Reached(o, {x})}
           T == {k \in Nat : \E x \in W : k = Cardinality(A(x))}
<1>1. \A x : Pointed(o, x) \in SUBSET Addr
  BY DEF Pointed
<1>2. IsFiniteSet(U)
  BY FS_Subset, MmCollectionsAssumption
<1>3. \A x : A(x) \in SUBSET U /\ IsFiniteSet(A(x)) /\ Cardinality(A(x)) \in Nat
  <2> SUFFICES ASSUME NEW x PROVE A(x) \in SUBSET U /\ IsFiniteSet(A(x)) /\ Cardinality(A(x)) \in Nat
    OBVIOUS
  <2> DEFINE Y == A(x)
  <2>1. Y \in SUBSET U
    OBVIOUS
  <2> HIDE DEF Y
  <2>2. IsFiniteSet(Y) /\ Cardinality(Y) \in Nat
    BY <1>2, <2>1, FS_Subset, FS_CardinalityType
  <2> QED
    BY <2>1, <2>2 DEF Y
<1>4. a \in W
  <2>1. {a} \in SUBSET Addr
    OBVIOUS
  <2>2. a \in Reached(o, {a})
    BY <2>1, ReachIs
  <2> QED
    BY <2>2
<1>5. T \in SUBSET Nat /\ T # {}
  BY <1>3, <1>4
<1>6. PICK k \in T : \A m \in T : k <= m
  BY <1>5, NatsAssumptions, Nats!LeastNumber
<1>7. PICK x \in W : k = Cardinality(A(x))
  BY <1>6
<1>8. PICK c \in U : x \in Pointed(o, c)
  BY <1>7
<1>9. x \in Reached(o, Pointed(o, c))
  BY <1>1, <1>8, ReachIs
<1>10. c \in A(x)
  BY <1>9
<1>11. c \in W
  <2>1. {c} \in SUBSET Addr /\ {x} \in SUBSET Addr
    BY <1>7
  <2>2. x \in Reached(o, {c})
    BY <1>8, <2>1, ReachIs
  <2>3. {x} \subseteq Reached(o, {c})
    BY <2>2
  <2>4. Reached(o, {x}) \subseteq Reached(o, {c})
    BY <2>1, <2>3, ReachOn
  <2> QED
    BY <1>7, <2>4
<1>12. A(c) \subseteq A(x)
  <2> SUFFICES ASSUME NEW y \in U, c \in Reached(o, Pointed(o, y))
               PROVE  x \in Reached(o, Pointed(o, y))
    OBVIOUS
  <2> DEFINE S == Pointed(o, y)
  <2>1. S \in SUBSET Addr /\ c \in Reached(o, S)
    BY <1>1
  <2> HIDE DEF S
  <2>2. x \in Reached(o, S)
    BY <1>8, <2>1, ReachIs
  <2> QED
    BY <2>2 DEF S
<1>13. Cardinality(A(c)) \in T
  BY <1>3, <1>11
<1>14. k <= Cardinality(A(c))
  BY <1>6, <1>13
<1>15. c \in A(c)
  <2> DEFINE X == A(x)
             Y == A(c)
  <2>1. /\ IsFiniteSet(X) /\ Cardinality(X) \in Nat /\ Cardinality(Y) \in Nat /\ Y \in SUBSET X
        /\ Cardinality(X) <= Cardinality(Y)
    BY <1>3, <1>7, <1>12, <1>14
  <2>2. c \in X
    BY <1>10
  <2> HIDE DEF X, Y
  <2>3. Cardinality(Y) <= Cardinality(X)
    BY <2>1, FS_Subset
  <2>4. Cardinality(Y) = Cardinality(X)
    BY <2>1, <2>3
  <2>5. X = Y
    BY <2>1, <2>4, FS_Subset
  <2>6. c \in Y
    BY <2>2, <2>5
  <2> QED
    BY <2>6 DEF Y
<1> QED
  BY <1>11, <1>15

\* Between calls, what the program cannot reach is held by a cycle of objects:
\* the library loses no other memory.
THEOREM OnlyCyclesAreLost == Spec => []GarbageIsCyclic
<1>1. ASSUME IInv PROVE GarbageIsCyclic
  <2> SUFFICES ASSUME Idle, NEW a \in Addr, Live(a), a \notin Known
               PROVE  \E b \in Addr : b \in Reach(PointsTo(b)) /\ a \in Reach({b})
    BY DEF GarbageIsCyclic
  <2>1. InvOf(obj, own, <<>>) /\ obj \in Objs
    BY <1>1, IdleIs DEF IInv, Idle
  <2>2. \A b \in Addr : PointsTo(b) = Pointed(obj, b)
    BY <2>1, PointsToIs
  <2>3. \A S : Reach(S) = Reached(obj, S)
    <3>1. \A T \in SUBSET Addr : (\A b \in T : PointsTo(b) \subseteq T) <=> Closed(obj, T)
      BY <2>2 DEF Closed
    <3> QED
      BY <3>1 DEF Reach, Reached
  <2> DEFINE K == Known
             U == {x \in Addr : obj[x] # Null /\ x \notin K}
  <2>4. K = Reached(obj, Roots(obj, own, <<>>))
    BY <1>1, KnownIs
  <2> HIDE DEF K
  <2>5. ASSUME NEW x \in U PROVE \E c \in U : x \in Pointed(obj, c)
    BY <2>1, <2>4, HolderUnreached
  <2>6. a \in U
    BY DEF K, Live
  <2>7. U \in SUBSET Addr
    OBVIOUS
  <2> HIDE DEF U
  <2>8. \E b \in U : b \in Reached(obj, Pointed(obj, b)) /\ a \in Reached(obj, {b})
    BY <2>5, <2>6, <2>7, CycleBehind
  <2> QED
    BY <2>2, <2>3, <2>7, <2>8
<1> QED
  BY <1>1, Invariant, PTL

----------------------------------------------------------------------------
(* The maps are dictionaries.  One dictionary is that of the objects o and *)
(* the steps t; for each kind of step there is a lemma that says what      *)
(* becomes of it.                                                          *)

\* The maps there are, and what they hold: their items and those about to be
\* inserted.
DictMaps(o, t) == {a \in Addr : o[a] # Null /\ o[a].kind \in Maps /\ a \notin Destroyed(t)}
Inserts(t, m) == {i \in Item : \E p \in DOMAIN t : t[p].op = "insert" /\ t[p].a = m /\ t[p].item = i}
ItemsIn(o, t, m) == {i \in Item : \E p \in DOMAIN o[m].items : o[m].items[p] = i} \cup Inserts(t, m)
PairsOf(o, S) == {<<o[i.k].val, i.v>> : i \in S}
EntriesOf(o, t, m) == PairsOf(o, ItemsIn(o, t, m))
DictOf(o, t) == [m \in DictMaps(o, t) |-> EntriesOf(o, t, m)]

\* What objects there are keep their kinds and values.
ValsKept(o, g) == \A b \in Addr : o[b] # Null /\ g[b] # Null => g[b].kind = o[b].kind /\ g[b].val = o[b].val

\* The mapping, said of the objects and steps.
LEMMA ContentsAre ==
  ASSUME TypesOK(obj, own, todo)
  PROVE  Contents = DictOf(obj, todo)
<1>1. obj \in Objs /\ todo \in Seq(Step)
  BY DEF TypesOK
<1>2. Destroying = Destroyed(todo)
  <2>1. Range(todo) = {todo[p] : p \in DOMAIN todo}
    BY DEF Range
  <2> QED
    BY <2>1 DEF Destroying, Destroyed
<1>3. {a \in Addr : Live(a) /\ obj[a].kind \in Maps} \ Destroying = DictMaps(obj, todo)
  BY <1>2 DEF DictMaps, Live
<1>4. ASSUME NEW m \in DictMaps(obj, todo)
      PROVE  Entries(m) = EntriesOf(obj, todo, m)
  <2> DEFINE s == obj[m].items
             S == Range(s) \cup {f.item : f \in {g \in Range(todo) : g.op = "insert" /\ g.a = m}}
             T == ItemsIn(obj, todo, m)
  <2>1. s \in Seq(Item)
    BY <1>1, ItemsOfType DEF DictMaps
  <2>2. Range(s) = {s[p] : p \in DOMAIN s} /\ Range(todo) = {todo[p] : p \in DOMAIN todo}
    BY DEF Range
  <2>3. \A p \in DOMAIN s : s[p] \in Item
    BY <2>1
  <2>4. \A p \in DOMAIN todo : todo[p].item \in Item
    <3> SUFFICES ASSUME NEW p \in DOMAIN todo PROVE todo[p].item \in Item
      OBVIOUS
    <3>1. todo[p] \in Step
      BY <1>1
    <3> QED
      BY <3>1 DEF Step
  <2>5. S = T
    BY <2>2, <2>3, <2>4 DEF ItemsIn, Inserts
  <2>6. Entries(m) = {<<obj[i.k].val, i.v>> : i \in S}
    BY DEF Entries, KeyVal
  <2> HIDE DEF S, T
  <2>7. Entries(m) = PairsOf(obj, T)
    BY <2>5, <2>6 DEF PairsOf
  <2> QED
    BY <2>7 DEF EntriesOf, T
<1>5. \A m \in DictMaps(obj, todo) : Entries(m) = EntriesOf(obj, todo, m)
  BY <1>4
<1> QED
  BY <1>3, <1>5 DEF Contents, DictOf

\* The keys of a map are numbers that are there.
LEMMA KeyOf ==
  ASSUME NEW o, NEW n, NEW t, InvOf(o, n, t), NEW m \in DictMaps(o, t), NEW i \in ItemsIn(o, t, m)
  PROVE  i.k \in Addr /\ o[i.k] # Null /\ o[i.k].kind = "int"
<1>1. m \in Addr /\ o[m] # Null /\ o[m].kind \in Maps
  BY DEF DictMaps
<1>2. CASE \E p \in DOMAIN o[m].items : o[m].items[p] = i
  <2>1. MapOK(o, m)
    BY <1>1 DEF InvOf, DataOK, MapsOK
  <2> QED
    BY <1>2, <2>1 DEF MapOK
<1>3. CASE i \in Inserts(t, m)
  <2>1. PICK p \in DOMAIN t : t[p].op = "insert" /\ t[p].a = m /\ t[p].item = i
    BY <1>3 DEF Inserts
  <2>2. StepOK(o, n, t, t[p])
    BY DEF InvOf, StepsOK
  <2>3. InsertOK(o, n, t, m, i)
    BY <2>1, <2>2 DEF StepOK
  <2> QED
    BY <2>3 DEF InsertOK
<1> QED
  BY <1>2, <1>3 DEF ItemsIn

\* A map with the same items has the same entries.
LEMMA EntriesSame ==
  ASSUME NEW o, NEW n, NEW t, InvOf(o, n, t), NEW g, NEW u, NEW r, InvOf(g, u, r),
         ValsKept(o, g), NEW m \in DictMaps(o, t), m \in DictMaps(g, r),
         ItemsIn(g, r, m) = ItemsIn(o, t, m)
  PROVE  EntriesOf(g, r, m) = EntriesOf(o, t, m)
<1> DEFINE S == ItemsIn(o, t, m)
<1>1. \A i \in S : i.k \in Addr /\ o[i.k] # Null
  BY KeyOf
<1>2. \A i \in S : g[i.k] # Null
  <2>1. \A i \in ItemsIn(g, r, m) : i.k \in Addr /\ g[i.k] # Null /\ g[i.k].kind = "int"
    BY KeyOf
  <2> QED
    BY <2>1
<1>3. \A i \in S : g[i.k].val = o[i.k].val
  BY <1>1, <1>2 DEF ValsKept
<1> HIDE DEF S
<1>4. PairsOf(g, S) = PairsOf(o, S)
  BY <1>3 DEF PairsOf
<1> QED
  BY <1>4 DEF EntriesOf, S

\* The objects other than those of X stay what they are, and all keep their
\* kinds and values.
Alike(o, g, X) ==
  /\ ValsKept(o, g)
  /\ \A b \in Addr \ X :
       /\ o[b] # Null <=> g[b] # Null
       /\ o[b] # Null => g[b].kind = o[b].kind /\ g[b].items = o[b].items

\* Which maps there are, and what they hold, where objects stay what they are.
LEMMA AlikeMaps ==
  ASSUME NEW o, NEW n, NEW t, InvOf(o, n, t), NEW g, NEW u, NEW r, InvOf(g, u, r),
         NEW X, Alike(o, g, X), NEW m \in Addr \ X
  PROVE  /\ m \in DictMaps(g, r) <=> o[m] # Null /\ o[m].kind \in Maps /\ m \notin Destroyed(r)
         /\ m \in DictMaps(o, t) /\ m \in DictMaps(g, r) /\ Inserts(r, m) = Inserts(t, m) =>
              EntriesOf(g, r, m) = EntriesOf(o, t, m)
<1>1. /\ ValsKept(o, g) /\ (o[m] # Null <=> g[m] # Null)
      /\ o[m] # Null => g[m].kind = o[m].kind /\ g[m].items = o[m].items
  BY DEF Alike
<1>2. m \in DictMaps(g, r) <=> o[m] # Null /\ o[m].kind \in Maps /\ m \notin Destroyed(r)
  BY <1>1 DEF DictMaps
<1>3. ASSUME m \in DictMaps(o, t), m \in DictMaps(g, r), Inserts(r, m) = Inserts(t, m)
      PROVE  EntriesOf(g, r, m) = EntriesOf(o, t, m)
  <2>1. ItemsIn(g, r, m) = ItemsIn(o, t, m)
    BY <1>1, <1>3 DEF ItemsIn, DictMaps
  <2> QED
    BY <1>1, <1>3, <2>1, EntriesSame
<1> QED
  BY <1>2, <1>3

\* What the steps of a call are to destroy and to insert.
Drops(t, r, X, D) == \A b \in Addr \ X : b \in Destroyed(r) <=> b \in Destroyed(t) \/ b \in D
InsertsSame(t, r, S) == \A m \in S : Inserts(r, m) = Inserts(t, m)
NoMaps(o, t, X) == \A b \in X : b \notin DictMaps(o, t)

\* Maps are given up, or one is changed.
GivesUp(d, e, D) == e = [m \in DOMAIN d \ D |-> d[m]]
Changes(d, e, m, S) == e = [d EXCEPT ![m] = S]

\* Maps may be given up, the others hold what they held.
LEMMA DictDiscards ==
  ASSUME NEW o, NEW n, NEW t, InvOf(o, n, t), NEW g, NEW u, NEW r, InvOf(g, u, r),
         NEW X, Alike(o, g, X), NoMaps(o, t, X), NoMaps(g, r, X),
         NEW D, Drops(t, r, X, D), InsertsSame(t, r, Addr)
  PROVE  GivesUp(DictOf(o, t), DictOf(g, r), D)
<1>1. DictMaps(g, r) = DictMaps(o, t) \ D
  <2> SUFFICES ASSUME NEW m \in Addr
               PROVE  m \in DictMaps(g, r) <=> m \in DictMaps(o, t) \ D
    BY DEF DictMaps
  <2>1. CASE m \in X
    BY <2>1 DEF NoMaps
  <2>2. CASE m \notin X
    <3>1. m \in DictMaps(g, r) <=> o[m] # Null /\ o[m].kind \in Maps /\ m \notin Destroyed(r)
      BY <2>2, AlikeMaps
    <3> QED
      BY <2>2, <3>1 DEF DictMaps, Drops
  <2> QED
    BY <2>1, <2>2
<1>2. ASSUME NEW m \in DictMaps(g, r)
      PROVE  EntriesOf(g, r, m) = EntriesOf(o, t, m)
  <2>1. m \in Addr \ X /\ m \in DictMaps(o, t)
    BY <1>1, <1>2 DEF DictMaps, NoMaps
  <2>2. Inserts(r, m) = Inserts(t, m)
    BY <2>1 DEF InsertsSame
  <2> QED
    BY <1>2, <2>1, <2>2, AlikeMaps
<1>3. DOMAIN DictOf(o, t) = DictMaps(o, t) /\ \A m \in DictMaps(o, t) : DictOf(o, t)[m] = EntriesOf(o, t, m)
  BY DEF DictOf
<1>4. DictOf(g, r) = [m \in DictMaps(g, r) |-> EntriesOf(o, t, m)]
  BY <1>2 DEF DictOf
<1> QED
  BY <1>1, <1>3, <1>4 DEF GivesUp

\* Where no map is given up, nothing changes.
LEMMA DictSame ==
  ASSUME NEW o, NEW n, NEW t, InvOf(o, n, t), NEW g, NEW u, NEW r, InvOf(g, u, r),
         NEW X, Alike(o, g, X), NoMaps(o, t, X), NoMaps(g, r, X),
         Drops(t, r, X, {}), InsertsSame(t, r, Addr)
  PROVE  DictOf(g, r) = DictOf(o, t)
<1>1. GivesUp(DictOf(o, t), DictOf(g, r), {})
  BY DictDiscards
<1>2. DictOf(o, t) = [m \in DOMAIN DictOf(o, t) |-> DictOf(o, t)[m]]
  BY DEF DictOf
<1> QED
  BY <1>1, <1>2 DEF GivesUp

\* One map changes.
LEMMA DictOne ==
  ASSUME NEW o, NEW n, NEW t, InvOf(o, n, t), NEW g, NEW u, NEW r, InvOf(g, u, r),
         NEW a \in DictMaps(o, t), Alike(o, g, {a}), a \in DictMaps(g, r),
         Drops(t, r, {}, {}), InsertsSame(t, r, Addr \ {a})
  PROVE  Changes(DictOf(o, t), DictOf(g, r), a, EntriesOf(g, r, a))
<1>1. ASSUME NEW m \in Addr \ {a}
      PROVE  /\ m \in DictMaps(g, r) <=> m \in DictMaps(o, t)
             /\ m \in DictMaps(o, t) => EntriesOf(g, r, m) = EntriesOf(o, t, m)
  <2>1. /\ m \in DictMaps(g, r) <=> o[m] # Null /\ o[m].kind \in Maps /\ m \notin Destroyed(r)
        /\ m \in DictMaps(o, t) /\ m \in DictMaps(g, r) /\ Inserts(r, m) = Inserts(t, m) =>
             EntriesOf(g, r, m) = EntriesOf(o, t, m)
    BY AlikeMaps
  <2>2. m \in DictMaps(g, r) <=> m \in DictMaps(o, t)
    BY <2>1 DEF DictMaps, Drops
  <2> QED
    BY <2>1, <2>2 DEF InsertsSame
<1>2. DictMaps(g, r) = DictMaps(o, t)
  <2>1. \A m \in DictMaps(g, r) : m \in Addr
    BY DEF DictMaps
  <2>2. \A m \in DictMaps(o, t) : m \in Addr
    BY DEF DictMaps
  <2> QED
    BY <1>1, <2>1, <2>2
<1>3. \A m \in DictMaps(o, t) : EntriesOf(g, r, m) = IF m = a THEN EntriesOf(g, r, a) ELSE EntriesOf(o, t, m)
  BY <1>1 DEF DictMaps
<1>4. DictOf(g, r) = [m \in DictMaps(o, t) |-> IF m = a THEN EntriesOf(g, r, a) ELSE EntriesOf(o, t, m)]
  BY <1>2, <1>3 DEF DictOf
<1> QED
  BY <1>4 DEF DictOf, Changes

\* The steps of two sequences, one after the other, insert what both do.
LEMMA InsertsOf ==
  ASSUME NEW x \in Seq(Step), NEW r \in Seq(Step), NEW m
  PROVE  Inserts(x \o r, m) = Inserts(x, m) \cup Inserts(r, m)
<1> DEFINE u == x \o r
<1>1. /\ \A p \in DOMAIN u : (\E q \in DOMAIN x : p = q /\ u[p] = x[q])
                          \/ \E q \in DOMAIN r : p = Len(x) + q /\ u[p] = r[q]
      /\ \A q \in DOMAIN x : q \in DOMAIN u /\ u[q] = x[q]
      /\ \A q \in DOMAIN r : Len(x) + q \in DOMAIN u /\ u[Len(x) + q] = r[q]
  BY ConcatSteps
<1> HIDE DEF u
<1>2. ASSUME NEW i \in Item, i \in Inserts(u, m) PROVE i \in Inserts(x, m) \cup Inserts(r, m)
  <2>1. PICK p \in DOMAIN u : u[p].op = "insert" /\ u[p].a = m /\ u[p].item = i
    BY <1>2 DEF Inserts
  <2> QED
    BY <1>1, <2>1 DEF Inserts
<1>3. ASSUME NEW i \in Item, i \in Inserts(x, m) \cup Inserts(r, m) PROVE i \in Inserts(u, m)
  BY <1>1, <1>3 DEF Inserts
<1>4. \A i \in Inserts(u, m) \cup Inserts(x, m) \cup Inserts(r, m) : i \in Item
  BY DEF Inserts
<1>5. Inserts(u, m) = Inserts(x, m) \cup Inserts(r, m)
  BY <1>2, <1>3, <1>4
<1> QED
  BY <1>5 DEF u

\* What is destroyed and inserted after the first step is done.
LEMMA TailDoes ==
  ASSUME NEW o, NEW n, NEW t, InvOf(o, n, t), t # <<>>
  PROVE  /\ Head(t).op # "destroy" => Destroyed(Tail(t)) = Destroyed(t)
         /\ Head(t).op = "destroy" => /\ Head(t).a \in Destroyed(t)
                                      /\ Destroyed(Tail(t)) = Destroyed(t) \ {Head(t).a}
         /\ Head(t).op # "insert" => \A m : Inserts(Tail(t), m) = Inserts(t, m)
<1> DEFINE r == Tail(t)
           h == Head(t)
<1>1. /\ 1 \in DOMAIN t /\ h = t[1] /\ r \in Seq(Step)
      /\ \A p \in DOMAIN t : p = 1 \/ \E q \in DOMAIN r : p = q + 1 /\ r[q] = t[p]
      /\ \A q \in DOMAIN r : q + 1 \in DOMAIN t /\ r[q] = t[q + 1]
      /\ Destroyed(r) \subseteq Destroyed(t)
  BY HeadIs DEF End
<1> HIDE DEF r, h
<1>2. \A q \in DOMAIN r : q + 1 # 1
  BY <1>1
<1>3. \A p, q \in DOMAIN t :
        t[p].op = "destroy" /\ t[q].op = "destroy" /\ t[q].a = t[p].a => p = q
  BY DEF InvOf, Ordered
<1>4. ASSUME h.op # "destroy" PROVE Destroyed(r) = Destroyed(t)
  <2>1. ASSUME NEW b \in Destroyed(t) PROVE b \in Destroyed(r)
    <3>1. PICK p \in DOMAIN t : t[p].op = "destroy" /\ t[p].a = b
      BY <2>1 DEF Destroyed
    <3>2. p # 1
      BY <1>1, <1>4, <3>1
    <3>3. PICK q \in DOMAIN r : r[q] = t[p]
      BY <1>1, <3>2
    <3> QED
      BY <3>1, <3>3 DEF Destroyed
  <2> QED
    BY <1>1, <2>1
<1>5. ASSUME h.op = "destroy" PROVE h.a \in Destroyed(t) /\ Destroyed(r) = Destroyed(t) \ {h.a}
  <2>1. h.a \in Destroyed(t)
    BY <1>1, <1>5 DEF Destroyed
  <2>2. h.a \notin Destroyed(r)
    <3> SUFFICES ASSUME NEW q \in DOMAIN r, r[q].op = "destroy", r[q].a = h.a PROVE FALSE
      BY DEF Destroyed
    <3> QED
      BY <1>1, <1>2, <1>3, <1>5
  <2>3. ASSUME NEW b \in Destroyed(t), b # h.a PROVE b \in Destroyed(r)
    <3>1. PICK p \in DOMAIN t : t[p].op = "destroy" /\ t[p].a = b
      BY <2>3 DEF Destroyed
    <3>2. p # 1
      BY <1>1, <2>3, <3>1
    <3>3. PICK q \in DOMAIN r : r[q] = t[p]
      BY <1>1, <3>2
    <3> QED
      BY <3>1, <3>3 DEF Destroyed
  <2> QED
    BY <1>1, <2>1, <2>2, <2>3
<1>6. ASSUME h.op # "insert", NEW m PROVE Inserts(r, m) = Inserts(t, m)
  <2>1. ASSUME NEW i \in Item, NEW p \in DOMAIN t, t[p].op = "insert", t[p].a = m, t[p].item = i
        PROVE  \E q \in DOMAIN r : r[q].op = "insert" /\ r[q].a = m /\ r[q].item = i
    <3>1. p # 1
      BY <1>1, <1>6, <2>1
    <3> QED
      BY <1>1, <2>1, <3>1
  <2>2. ASSUME NEW i \in Item, NEW q \in DOMAIN r, r[q].op = "insert", r[q].a = m, r[q].item = i
        PROVE  \E p \in DOMAIN t : t[p].op = "insert" /\ t[p].a = m /\ t[p].item = i
    BY <1>1, <2>2
  <2> QED
    BY <2>1, <2>2 DEF Inserts
<1> QED
  BY <1>4, <1>5, <1>6 DEF r, h

\* One object gets another count.
LEMMA AlikeR ==
  ASSUME NEW o \in Objs, NEW a \in Addr, o[a] # Null, NEW c \in Nat
  PROVE  Alike(o, WithR(o, a, c), {})
<1> DEFINE g == WithR(o, a, c)
<1>1. /\ g[a] # Null /\ g[a].kind = o[a].kind /\ g[a].val = o[a].val
      /\ g[a].items = o[a].items /\ \A b \in Addr \ {a} : g[b] = o[b]
  BY SetR
<1> HIDE DEF g
<1>2. ASSUME NEW b \in Addr
      PROVE  /\ o[b] # Null <=> g[b] # Null
             /\ o[b] # Null => g[b].kind = o[b].kind /\ g[b].items = o[b].items /\ g[b].val = o[b].val
  BY <1>1
<1> QED
  BY <1>2 DEF Alike, ValsKept, g

\* An object is made.
LEMMA AlikeNew ==
  ASSUME NEW o \in Objs, NEW a \in Addr, o[a] = Null, NEW x \in Object, Len(x.items) <= MaxItems
  PROVE  Alike(o, With(o, a, x), {a}) /\ With(o, a, x)[a] = x
<1>1. With(o, a, x)[a] = x /\ \A b \in Addr \ {a} : With(o, a, x)[b] = o[b]
  BY SetObject
<1> QED
  BY <1>1 DEF Alike, ValsKept

\* An object gets other items.
LEMMA AlikeItems ==
  ASSUME NEW o \in Objs, NEW a \in Addr, o[a] # Null, NEW s
  PROVE  /\ Alike(o, WithItems(o, a, s), {a})
         /\ WithItems(o, a, s)[a].items = s
<1> DEFINE g == WithItems(o, a, s)
           x == [o[a] EXCEPT !.items = s]
<1>1. o \in [Addr -> Object \cup {Null}] /\ o[a] \in Object
  BY DEF Objs
<1>2. x.kind = o[a].kind /\ x.val = o[a].val /\ x.items = s
  BY <1>1 DEF Object
<1>3. g = [o EXCEPT ![a] = x]
  BY DEF WithItems
<1> HIDE DEF x, g
<1>4. g[a] = x /\ \A b \in Addr \ {a} : g[b] = o[b]
  BY <1>1, <1>3
<1> QED
  BY <1>2, <1>4 DEF Alike, ValsKept, g

\* What objects stay after two changes they stayed after each.
LEMMA AlikeBoth ==
  ASSUME NEW o, NEW y, NEW g, NEW X, Alike(o, y, {}), Alike(y, g, X), X \subseteq Addr
  PROVE  Alike(o, g, X)
BY DEF Alike, ValsKept

\* Copying the items of a list changes counts only.
LEMMA AlikeCopied ==
  ASSUME NEW o \in Objs, NEW s \in Seq(Item), \A p \in DOMAIN s : s[p].k = Null
  PROVE  Alike(o, Copied(o, s), {})
<1> DEFINE g == Copied(o, s)
<1>1. /\ \A b \in Addr : o[b] # Null <=> g[b] # Null
      /\ \A b \in Addr : o[b] # Null =>
           g[b].kind = o[b].kind /\ g[b].val = o[b].val /\ g[b].items = o[b].items
  BY CopiedIs
<1> HIDE DEF g
<1> QED
  BY <1>1 DEF Alike, ValsKept, g

----------------------------------------------------------------------------
(* What the steps of a call do to maps.                                    *)

\* A count is taken or given up; the last one gives up a map.
LEMMA CountsMaps ==
  ASSUME NEW o, NEW n, NEW t, InvOf(o, n, t), t # <<>>, NEW op \in {"retain", "release"},
         Head(t).op = op, NEW a, a = Head(t).a, NEW c \in Nat, NEW g,
         g = IF a = Null THEN o ELSE WithR(o, a, c),
         NEW r, InvOf(g, n, r), NEW last \in BOOLEAN,
         r = IF last THEN <<Do("destroy", a)>> \o Tail(t) ELSE Tail(t), last => a # Null
  PROVE  GivesUp(DictOf(o, t), DictOf(g, r), IF last THEN {a} ELSE {})
<1> DEFINE z == Tail(t)
           x == <<Do("destroy", a)>>
           D == IF last THEN {a} ELSE {}
<1>1. /\ z \in Seq(Step) /\ (a = Null \/ (a \in Addr /\ o[a] # Null))
  BY HeadIs DEF Whole
<1>2. o \in Objs
  BY DEF InvOf, TypesOK
<1>3. Alike(o, g, {})
  <2>1. CASE a = Null
    BY <2>1 DEF Alike, ValsKept
  <2>2. CASE a # Null
    BY <1>1, <1>2, <2>2, AlikeR
  <2> QED
    BY <2>1, <2>2
<1>4. Destroyed(z) = Destroyed(t) /\ \A m : Inserts(z, m) = Inserts(t, m)
  BY TailDoes
<1> HIDE DEF z
<1>0. NoMaps(o, t, {}) /\ NoMaps(g, r, {})
  BY DEF NoMaps
<1>5. CASE last
  <2>1. /\ x \in Seq(Step) /\ Destroyed(x) = {a} /\ \A m : Inserts(x, m) = {}
    <3>1. a \in Ptr
      BY <1>1, <1>5 DEF Ptr
    <3> DEFINE f == Do("destroy", a)
    <3>2. f.op = "destroy" /\ f.a = a /\ << f >> \in Seq(Step)
      BY <3>1, DoIs
    <3> HIDE DEF f
    <3>3. DOMAIN << f >> = {1} /\ << f >>[1] = f
      OBVIOUS
    <3>4. Destroyed(<< f >>) = {a} /\ \A m : Inserts(<< f >>, m) = {}
      BY <3>2, <3>3 DEF Destroyed, Inserts
    <3> QED
      BY <3>2, <3>4 DEF f
  <2> HIDE DEF x
  <2>2. r = x \o z
    BY <1>5 DEF x, z
  <2>3. Destroyed(r) = Destroyed(t) \cup {a} /\ \A m : Inserts(r, m) = Inserts(t, m)
    <3>1. Destroyed(x \o z) = Destroyed(x) \cup Destroyed(z)
      BY <1>1, <2>1, ConcatSteps DEF z
    <3>2. \A m : Inserts(x \o z, m) = Inserts(x, m) \cup Inserts(z, m)
      BY <1>1, <2>1, InsertsOf DEF z
    <3> QED
      BY <1>4, <2>1, <2>2, <3>1, <3>2
  <2>4. Drops(t, r, {}, D) /\ InsertsSame(t, r, Addr)
    BY <1>5, <2>3 DEF Drops, InsertsSame
  <2> QED
    BY <1>0, <1>3, <2>4, DictDiscards
<1>6. CASE ~last
  <2>1. r = z
    BY <1>6 DEF z
  <2>2. Drops(t, r, {}, D) /\ InsertsSame(t, r, Addr)
    BY <1>4, <1>6, <2>1 DEF Drops, InsertsSame
  <2> QED
    BY <1>0, <1>3, <2>2, DictDiscards
<1> QED
  BY <1>5, <1>6

\* An object that is being destroyed loses an item or is freed: it was given up
\* before.
LEMMA DestroyMaps ==
  ASSUME NEW o, NEW n, NEW t, InvOf(o, n, t), t # <<>>, Head(t).op = "destroy",
         NEW a, a = Head(t).a
  PROVE  /\ InvOf(With(o, a, Null), n, Tail(t)) =>
              DictOf(With(o, a, Null), Tail(t)) = DictOf(o, t)
         /\ \A x \in Seq(Step) : \A s :
              (\A p \in DOMAIN x : x[p].op = "release") /\ InvOf(WithItems(o, a, s), n, x \o t) =>
              DictOf(WithItems(o, a, s), x \o t) = DictOf(o, t)
<1>1. a \in Destroyed(t) /\ Destroyed(Tail(t)) = Destroyed(t) \ {a}
      /\ \A m : Inserts(Tail(t), m) = Inserts(t, m)
  BY TailDoes
<1>2. a \in Addr /\ o[a] # Null /\ o \in Objs /\ t \in Seq(Step)
  BY <1>1, DestroyedIs DEF InvOf, TypesOK
<1>3. ASSUME InvOf(With(o, a, Null), n, Tail(t))
      PROVE  DictOf(With(o, a, Null), Tail(t)) = DictOf(o, t)
  <2> DEFINE g == With(o, a, Null)
             r == Tail(t)
  <2>1. g[a] = Null /\ \A b \in Addr \ {a} : g[b] = o[b]
    BY <1>2, SetObject
  <2> HIDE DEF g, r
  <2>2. Alike(o, g, {a})
    BY <2>1 DEF Alike, ValsKept
  <2>3. a \notin DictMaps(o, t) /\ a \notin DictMaps(g, r)
    BY <1>1, <2>1 DEF DictMaps
  <2> DEFINE X == {a}
  <2>4. /\ NoMaps(o, t, X) /\ NoMaps(g, r, X) /\ Drops(t, r, X, {}) /\ InsertsSame(t, r, Addr)
        /\ Alike(o, g, X) /\ InvOf(g, n, r)
    BY <1>1, <1>3, <2>2, <2>3 DEF r, g, NoMaps, Drops, InsertsSame
  <2> HIDE DEF X
  <2>5. DictOf(g, r) = DictOf(o, t)
    BY <2>4, DictSame
  <2> QED
    BY <2>5 DEF g, r
<1>4. ASSUME NEW x \in Seq(Step), NEW s, \A p \in DOMAIN x : x[p].op = "release",
             InvOf(WithItems(o, a, s), n, x \o t)
      PROVE  DictOf(WithItems(o, a, s), x \o t) = DictOf(o, t)
  <2> DEFINE g == WithItems(o, a, s)
             r == x \o t
             X == {a}
  <2>1. Alike(o, g, X)
    BY <1>2, AlikeItems
  <2>2. Destroyed(x) = {} /\ \A m : Inserts(x, m) = {}
    BY <1>4 DEF Destroyed, Inserts
  <2>3. Destroyed(r) = Destroyed(x) \cup Destroyed(t)
    BY <1>2, ConcatSteps
  <2>4. \A m : Inserts(r, m) = Inserts(x, m) \cup Inserts(t, m)
    BY <1>2, InsertsOf
  <2> HIDE DEF g, r
  <2>5. a \notin DictMaps(o, t) /\ a \notin DictMaps(g, r)
    BY <1>1, <2>2, <2>3 DEF DictMaps
  <2>6. /\ NoMaps(o, t, X) /\ NoMaps(g, r, X) /\ Drops(t, r, X, {}) /\ InsertsSame(t, r, Addr)
        /\ InvOf(g, n, r)
    BY <1>4, <2>2, <2>3, <2>4, <2>5 DEF r, g, NoMaps, Drops, InsertsSame
  <2> HIDE DEF X
  <2>7. DictOf(g, r) = DictOf(o, t)
    BY <2>1, <2>6, DictSame
  <2> QED
    BY <2>7 DEF g, r
<1> QED
  BY <1>3, <1>4

\* The elements of a sequence after one is inserted.
LEMMA InsertElems ==
  ASSUME NEW s \in Seq(Item), NEW p \in 1 .. Len(s) + 1, NEW e \in Item, NEW u, u = InsertAt(s, p, e)
  PROVE  /\ u \in Seq(Item) /\ Len(u) = Len(s) + 1 /\ Len(s) \in Nat
         /\ \A q \in DOMAIN s : \E j \in DOMAIN u : u[j] = s[q]
         /\ \E j \in DOMAIN u : u[j] = e
         /\ \A j \in DOMAIN u : u[j] = e \/ \E q \in DOMAIN s : u[j] = s[q]
<1>1. /\ u \in Seq(Item) /\ Len(u) = Len(s) + 1 /\ u[p] = e /\ Len(s) \in Nat
      /\ \A q \in 1 .. p - 1 : u[q] = s[q]
      /\ \A q \in p .. Len(s) : u[q + 1] = s[q]
  <2> DEFINE t == InsertAt(s, p, e)
  <2>1. p \in 1 .. Len(s) + 1 /\ e \in Item
    OBVIOUS
  <2>2. /\ t \in Seq(Item) /\ Len(t) = Len(s) + 1 /\ t[p] = e
        /\ \A q \in 1 .. p - 1 : t[q] = s[q]
        /\ \A q \in p .. Len(s) : t[q + 1] = s[q]
        /\ \A X : Count(t, X) = Count(s, X) + Count(<<e>>, X)
    BY <2>1, InsertIs
  <2>3. u = t
    OBVIOUS
  <2> HIDE DEF t
  <2> QED
    BY <2>2, <2>3
<1>2. DOMAIN u = 1 .. Len(s) + 1 /\ DOMAIN s = 1 .. Len(s)
  BY <1>1
<1>3. ASSUME NEW q \in DOMAIN s PROVE \E j \in DOMAIN u : u[j] = s[q]
  <2>1. CASE q \in 1 .. p - 1
    <3>1. q \in DOMAIN u
      BY <1>1, <1>2
    <3> QED
      BY <1>1, <2>1, <3>1
  <2>2. CASE q \in p .. Len(s)
    <3>1. q + 1 \in DOMAIN u
      BY <1>1, <1>2
    <3> QED
      BY <1>1, <2>2, <3>1
  <2> QED
    BY <1>1, <1>2, <2>1, <2>2
<1>4. p \in DOMAIN u
  BY <1>2
<1>5. \A j \in DOMAIN u : u[j] = e \/ \E q \in DOMAIN s : u[j] = s[q]
  BY <1>1, InsertFrom
<1> QED
  BY <1>1, <1>3, <1>4, <1>5

\* An insertion puts the item where it was expected: the map is what it was.
LEMMA InsertionMaps ==
  ASSUME NEW o, NEW n, NEW t, InvOf(o, n, t), NEW m \in Addr, NEW i \in Item, InsertOK(o, n, t, m, i),
         Destroyed(t) = {}, Destroyed(<<>>) = {}, Inserts(t, m) = {i},
         \A b : Inserts(<<>>, b) = {}, \A b : b # m => Inserts(t, b) = {},
         NEW p \in 1 .. Len(o[m].items) + 1, NEW u, u = InsertAt(o[m].items, p, i),
         NEW g, g = WithItems(o, m, u), InvOf(g, n, <<>>)
  PROVE  DictOf(g, <<>>) = DictOf(o, t)
<1> DEFINE s == o[m].items
           r == <<>>
<1>1. /\ o[m] # Null /\ o[m].kind \in Maps /\ o \in Objs /\ Len(s) < MaxItems
      /\ s \in Seq(Item)
  <2>1. o[m] # Null /\ o[m].kind \in Maps /\ o \in Objs /\ Len(s) < MaxItems
    BY DEF InsertOK, InvOf, TypesOK
  <2> QED
    BY <2>1, ItemsOfType
<1>2. /\ Alike(o, WithItems(o, m, u), {m})
      /\ WithItems(o, m, u)[m].items = u
  BY <1>1, AlikeItems
<1>3. Alike(o, g, {m}) /\ g[m].items = u
  BY <1>2
<1> HIDE DEF s
<1>4. u = InsertAt(s, p, i) /\ p \in 1 .. Len(s) + 1
  BY DEF s
<1>5. /\ u \in Seq(Item) /\ Len(u) = Len(s) + 1 /\ Len(s) \in Nat
      /\ \A q \in DOMAIN s : \E j \in DOMAIN u : u[j] = s[q]
      /\ \E j \in DOMAIN u : u[j] = i
      /\ \A j \in DOMAIN u : u[j] = i \/ \E q \in DOMAIN s : u[j] = s[q]
  BY <1>1, <1>4, InsertElems
<1>6. ItemsIn(g, r, m) = ItemsIn(o, t, m)
  <2>1. ItemsIn(g, r, m) = {x \in Item : \E q \in DOMAIN u : u[q] = x} \cup {}
    BY <1>3 DEF ItemsIn
  <2>2. ItemsIn(o, t, m) = {x \in Item : \E q \in DOMAIN s : s[q] = x} \cup {i}
    BY DEF ItemsIn, s
  <2>3. {x \in Item : \E q \in DOMAIN u : u[q] = x} = {x \in Item : \E q \in DOMAIN s : s[q] = x} \cup {i}
    BY <1>5
  <2> QED
    BY <2>1, <2>2, <2>3
<1>7. m \in DictMaps(o, t) /\ m \in DictMaps(g, r)
  <2>1. Len(u) <= MaxItems
    BY <1>1, <1>5, MmCollectionsAssumption
  <2>2. WithItems(o, m, u)[m] # Null
    BY <1>1, <1>5, <2>1, SetItems
  <2> QED
    BY <1>1, <1>3, <2>2 DEF DictMaps, Alike, ValsKept
<1>8. InvOf(g, n, r) /\ Drops(t, r, {}, {}) /\ InsertsSame(t, r, Addr \ {m})
  BY DEF Drops, InsertsSame
<1> HIDE DEF r
<1>9. EntriesOf(g, r, m) = EntriesOf(o, t, m)
  <2>1. ValsKept(o, g)
    BY <1>3 DEF Alike
  <2> QED
    BY <1>6, <1>7, <1>8, <2>1, EntriesSame
<1>10. Changes(DictOf(o, t), DictOf(g, r), m, EntriesOf(g, r, m))
  BY <1>3, <1>7, <1>8, DictOne
<1>11. DictOf(g, r) = DictOf(o, t)
  BY <1>7, <1>9, <1>10 DEF DictOf, Changes
<1> QED
  BY <1>11 DEF r

\* Nothing is given up if what is given up is not a map.
LEMMA GivesUpNone ==
  ASSUME NEW o, NEW t, NEW e, NEW a, GivesUp(DictOf(o, t), e, {a}), a \notin DictMaps(o, t)
  PROVE  e = DictOf(o, t)
<1>1. DOMAIN DictOf(o, t) = DictMaps(o, t) /\ DictOf(o, t) = [m \in DictMaps(o, t) |-> DictOf(o, t)[m]]
  BY DEF DictOf
<1>2. DictMaps(o, t) \ {a} = DictMaps(o, t)
  OBVIOUS
<1> QED
  BY <1>1, <1>2 DEF GivesUp

\* The next step of a call changes no map, or gives one up.
LEMMA GoOnMaps ==
  ASSUME IInv, InvOf(obj', own', todo'), GoOn
  PROVE  \/ DictOf(obj', todo') = DictOf(obj, todo)
         \/ \E a \in DictMaps(obj, todo) :
              GivesUp(DictOf(obj, todo), DictOf(obj', todo'), {a}) /\ todo' # <<>>
<1> DEFINE f == Head(todo)
           a == f.a
           d == DictOf(obj, todo)
           e == DictOf(obj', todo')
<1>1. InvOf(obj, own, todo) /\ todo # <<>> /\ own' = own /\ InvOf(obj', own, todo')
  BY DEF IInv, GoOn, Idle
<1>2. ASSUME f.op = "retain" \/ f.op = "release", a # Null
      PROVE  a \in Addr /\ obj[a] # Null /\ obj[a].r \in Nat
  <2>1. Whole(obj, todo, a)
    BY <1>1, <1>2, HeadIs
  <2>2. a \in Addr /\ obj[a] # Null /\ obj \in Objs
    BY <1>1, <1>2, <2>1 DEF Whole, InvOf, TypesOK
  <2> QED
    BY <2>2, ItemsOfType
<1>3. ASSUME GivesUp(d, e, {}) PROVE e = d
  <2>1. d = [m \in DOMAIN d |-> d[m]]
    BY DEF DictOf
  <2> HIDE DEF d, e
  <2> QED
    BY <1>3, <2>1 DEF GivesUp
<1>4. ASSUME DoRetain PROVE e = d
  <2> DEFINE c == obj[a].r + 1
             last == FALSE
  <2>1. f.op = "retain" /\ obj' = WithR(obj, a, c) /\ todo' = Tail(todo)
    BY <1>4 DEF DoRetain, Retained, WithR
  <2>2. a # Null
    BY <1>1, <2>1, HeadIs DEF StepOK
  <2>3. c \in Nat
    BY <1>2, <2>1, <2>2
  <2>4. obj' = IF a = Null THEN obj ELSE WithR(obj, a, c)
    BY <2>1, <2>2
  <2> HIDE DEF c, d, e
  <2>5. GivesUp(DictOf(obj, todo), DictOf(obj', todo'), IF last THEN {a} ELSE {})
    <3>1. todo' = IF last THEN <<Do("destroy", a)>> \o Tail(todo) ELSE Tail(todo)
      BY <2>1
    <3>2. last \in BOOLEAN /\ (last => a # Null)
      OBVIOUS
    <3> HIDE DEF last
    <3> QED
      BY <1>1, <2>1, <2>3, <2>4, <3>1, <3>2, CountsMaps
  <2> QED
    BY <1>3, <2>5 DEF d, e
<1>5. ASSUME DoRelease
      PROVE  e = d \/ \E m \in DictMaps(obj, todo) : GivesUp(d, e, {m}) /\ todo' # <<>>
  <2> DEFINE last == a # Null /\ obj[a].r = 1
             c == IF a = Null THEN 0 ELSE obj[a].r - 1
  <2>1. f.op = "release"
    BY <1>5 DEF DoRelease
  <2>2. c \in Nat
    <3>1. CASE a # Null
      <4>1. obj[a].r \in Nat \ {0}
        BY <1>1, <2>1, <3>1, ReleaseCounted
      <4> QED
        BY <3>1, <4>1
    <3> QED
      BY <3>1
  <2>3. /\ obj' = IF a = Null THEN obj ELSE WithR(obj, a, c)
        /\ todo' = IF last THEN <<Do("destroy", a)>> \o Tail(todo) ELSE Tail(todo)
    <3>1. CASE a = Null
      BY <1>5, <3>1 DEF DoRelease
    <3>2. CASE a # Null /\ obj[a].r = 1
      BY <1>5, <3>2 DEF DoRelease, WithR
    <3>3. CASE a # Null /\ obj[a].r # 1
      <4>1. obj' = WithR(obj, a, c) /\ todo' = <<>> \o Tail(todo)
        BY <1>5, <3>3 DEF DoRelease, WithR
      <4>2. todo' = Tail(todo)
        BY <1>1, <4>1, HeadIs
      <4> QED
        BY <3>3, <4>1, <4>2
    <3> QED
      BY <3>1, <3>2, <3>3
  <2>4. last \in BOOLEAN /\ (last => a # Null)
    OBVIOUS
  <2>5. last => todo' # <<>>
    <3> SUFFICES ASSUME last PROVE todo' # <<>>
      OBVIOUS
    <3>1. a \in Ptr
      BY <1>2, <2>1 DEF Ptr
    <3> DEFINE g == Do("destroy", a)
               x == << g >>
               z == Tail(todo)
    <3>2. x \in Seq(Step) /\ 1 \in DOMAIN x
      <4>1. x \in Seq(Step)
        BY <3>1, DoIs
      <4> HIDE DEF g
      <4> QED
        BY <4>1
    <3>3. z \in Seq(Step)
      BY <1>1, HeadIs
    <3>4. todo' = x \o z
      BY <2>3
    <3> HIDE DEF x, z
    <3>5. 1 \in DOMAIN (x \o z)
      BY <3>2, <3>3, ConcatSteps
    <3> QED
      BY <3>4, <3>5
  <2> HIDE DEF c, last
  <2>6. GivesUp(DictOf(obj, todo), DictOf(obj', todo'), IF last THEN {a} ELSE {})
    BY <1>1, <2>1, <2>2, <2>3, <2>4, CountsMaps
  <2> HIDE DEF d, e
  <2>7. CASE ~last
    BY <1>3, <2>6, <2>7 DEF d, e
  <2>8. CASE last
    <3>1. GivesUp(DictOf(obj, todo), DictOf(obj', todo'), {a})
      BY <2>6, <2>8
    <3>2. CASE a \in DictMaps(obj, todo)
      BY <2>5, <2>8, <3>1, <3>2 DEF d, e
    <3>3. CASE a \notin DictMaps(obj, todo)
      BY <3>1, <3>3, GivesUpNone DEF d, e
    <3> QED
      BY <3>2, <3>3
  <2> QED
    BY <2>7, <2>8
<1>6. ASSUME DoDestroy PROVE e = d
  <2>1. f.op = "destroy"
    BY <1>6 DEF DoDestroy
  <2>2. /\ InvOf(With(obj, a, Null), own, Tail(todo)) =>
             DictOf(With(obj, a, Null), Tail(todo)) = DictOf(obj, todo)
        /\ \A x \in Seq(Step) : \A s :
             (\A p \in DOMAIN x : x[p].op = "release") /\ InvOf(WithItems(obj, a, s), own, x \o todo) =>
             DictOf(WithItems(obj, a, s), x \o todo) = DictOf(obj, todo)
    BY <1>1, <2>1, DestroyMaps
  <2>3. CASE obj[a].items = <<>>
    <3>1. obj' = With(obj, a, Null) /\ todo' = Tail(todo)
      BY <1>6, <2>3 DEF DoDestroy, With
    <3> QED
      BY <1>1, <2>2, <3>1
  <2>4. CASE obj[a].items # <<>>
    <3> DEFINE s == Tail(obj[a].items)
               x == Releases(Head(obj[a].items))
    <3>1. obj' = WithItems(obj, a, s) /\ todo' = x \o todo
      BY <1>6, <2>4 DEF DoDestroy, WithItems
    <3>2. x \in Seq(Step) /\ \A p \in DOMAIN x : x[p].op = "release"
      <4>1. a \in Addr /\ obj[a] # Null
        BY <1>1, <2>1, HeadIs DEF StepOK
      <4>2. obj \in Objs
        BY <1>1 DEF InvOf, TypesOK
      <4>3. obj[a].items \in Seq(Item)
        BY <4>1, <4>2, ItemsOfType
      <4>4. Head(obj[a].items) \in Item
        BY <2>4, <4>3, TailIs
      <4> QED
        BY <4>4, ReleasesIs
    <3> HIDE DEF s, x
    <3> QED
      BY <1>1, <2>2, <3>1, <3>2
  <2> QED
    BY <2>3, <2>4
<1>7. ASSUME DoInsert PROVE e = d
  <2> DEFINE i == f.item
             p == PlaceIn(obj, a, i)
             u == InsertAt(obj[a].items, p, i)
  <2>1. f.op = "insert" /\ todo' = Tail(todo)
    BY <1>7 DEF DoInsert
  <2>2. obj' = WithItems(obj, a, u)
    <3>1. obj' = [obj EXCEPT ![a].items = InsertAt(@, Place(a, i), i)]
      BY <1>7 DEF DoInsert
    <3>2. Place(a, i) = PlaceIn(obj, a, i)
      BY PlaceSame
    <3> QED
      BY <3>1, <3>2 DEF WithItems
  <2>3. /\ Tail(todo) = <<>> /\ DOMAIN todo = {1} /\ todo[1] = f
        /\ Destroyed(todo) = {} /\ Destroyed(<<>>) = {} /\ i \in Item
    BY <1>1, <2>1, InsertionLast
  <2>4. InsertOK(obj, own, todo, a, i)
    BY <1>1, <2>1, HeadIs DEF StepOK
  <2>5. a \in Addr /\ p \in 1 .. Len(obj[a].items) + 1
    <3>1. a \in Addr /\ obj[a] # Null /\ obj[a].kind \in Maps /\ i.k \in Addr /\ obj[i.k] # Null
          /\ obj[i.k].kind = "int"
      BY <2>4 DEF InsertOK
    <3>2. obj \in Objs /\ DataOK(obj)
      BY <1>1 DEF InvOf, TypesOK
    <3> HIDE DEF i
    <3> QED
      BY <3>1, <3>2, PlaceIs
  <2>6. Inserts(todo, a) = {i} /\ (\A b : Inserts(<<>>, b) = {}) /\ \A b : b # a => Inserts(todo, b) = {}
    BY <2>1, <2>3 DEF Inserts
  <2> HIDE DEF p, d, e
  <2>7. u = InsertAt(obj[a].items, p, i) /\ InvOf(obj', own, <<>>)
    BY <1>1, <2>1, <2>3
  <2> HIDE DEF u, i
  <2>8. DictOf(obj', <<>>) = DictOf(obj, todo)
    <3> HIDE DEF a
    <3> QED
      BY <1>1, <2>2, <2>3, <2>4, <2>5, <2>6, <2>7, InsertionMaps
  <2> QED
    BY <2>1, <2>3, <2>8 DEF d, e
<1> QED
  BY <1>4, <1>5, <1>6, <1>7 DEF GoOn

----------------------------------------------------------------------------
(* What calls do to maps.                                                  *)

\* Where nothing is to be done.
LEMMA NothingToDo ==
  Destroyed(<<>>) = {} /\ \A m : Inserts(<<>>, m) = {}
BY DEF Destroyed, Inserts

\* Objects other than maps are made or change.
LEMMA QuietMaps ==
  ASSUME NEW o, NEW n, InvOf(o, n, <<>>), NEW g, NEW u, InvOf(g, u, <<>>),
         NEW X, Alike(o, g, X), NoMaps(o, <<>>, X), NoMaps(g, <<>>, X)
  PROVE  DictOf(g, <<>>) = DictOf(o, <<>>)
<1>1. Drops(<<>>, <<>>, X, {}) /\ InsertsSame(<<>>, <<>>, Addr)
  BY DEF Drops, InsertsSame
<1> QED
  BY <1>1, DictSame

\* A call begins: maps are what they were until it goes on, but for one that is
\* destroyed.
LEMMA BeginMaps ==
  ASSUME NEW o, NEW n, InvOf(o, n, <<>>), NEW u, NEW op \in {"release", "destroy"}, NEW a \in Ptr,
         InvOf(o, u, <<Do(op, a)>>)
  PROVE  GivesUp(DictOf(o, <<>>), DictOf(o, <<Do(op, a)>>), IF op = "destroy" THEN {a} ELSE {})
<1> DEFINE f == Do(op, a)
           r == << f >>
           D == IF op = "destroy" THEN {a} ELSE {}
<1>1. f.op = op /\ f.a = a
  BY DoIs
<1> HIDE DEF f
<1>2. DOMAIN r = {1} /\ r[1] = f
  OBVIOUS
<1>3. Destroyed(r) = D /\ \A m : Inserts(r, m) = {}
  BY <1>1, <1>2 DEF Destroyed, Inserts
<1>4. InvOf(o, u, r)
  BY DEF f
<1> HIDE DEF r, D
<1>5. Drops(<<>>, r, {}, D) /\ InsertsSame(<<>>, r, Addr)
  BY <1>3, NothingToDo DEF Drops, InsertsSame
<1>6. Alike(o, o, {}) /\ NoMaps(o, <<>>, {}) /\ NoMaps(o, r, {})
  BY DEF Alike, ValsKept, NoMaps
<1>7. GivesUp(DictOf(o, <<>>), DictOf(o, r), D)
  BY <1>4, <1>5, <1>6, DictDiscards
<1> QED
  BY <1>7 DEF D, r, f

\* A dictionary of no pairs is added.
Makes(d, e, a) == a \notin DOMAIN d /\ e = [m \in DOMAIN d \cup {a} |-> IF m = a THEN {} ELSE d[m]]

\* A map is made, and all others are as before.
LEMMA MakeMaps ==
  ASSUME NEW o, NEW n, InvOf(o, n, <<>>), NEW a \in Addr, o[a] = Null,
         NEW x \in Object, x.kind \in Maps, x.items = <<>>,
         NEW g, g = With(o, a, x), NEW u, InvOf(g, u, <<>>)
  PROVE  Makes(DictOf(o, <<>>), DictOf(g, <<>>), a)
<1> DEFINE r == <<>>
<1>1. Alike(o, With(o, a, x), {a}) /\ With(o, a, x)[a] = x
  <2>1. o \in Objs /\ Len(x.items) <= MaxItems
    BY MmCollectionsAssumption DEF InvOf, TypesOK
  <2> QED
    BY <2>1, AlikeNew
<1>2. Alike(o, g, {a}) /\ g[a] = x
  BY <1>1
<1>3. x # Null
  BY MmCollectionsAssumption
<1>4. /\ Destroyed(r) = {} /\ \A m : Inserts(r, m) = {}
  BY NothingToDo
<1>5. a \in DictMaps(g, r) /\ a \notin DictMaps(o, r)
  BY <1>2, <1>3, <1>4 DEF DictMaps
<1>6. ItemsIn(g, r, a) = {}
  <2>1. DOMAIN g[a].items = {}
    BY <1>2
  <2> QED
    BY <1>4, <2>1 DEF ItemsIn
<1>7. EntriesOf(g, r, a) = {}
  BY <1>6 DEF EntriesOf, PairsOf
<1>8. InvOf(o, n, r) /\ InvOf(g, u, r)
  OBVIOUS
<1> HIDE DEF r
<1>9. ASSUME NEW m \in Addr \ {a}
      PROVE  /\ m \in DictMaps(g, r) <=> m \in DictMaps(o, r)
             /\ m \in DictMaps(o, r) => EntriesOf(g, r, m) = EntriesOf(o, r, m)
  <2>1. /\ m \in DictMaps(g, r) <=> o[m] # Null /\ o[m].kind \in Maps /\ m \notin Destroyed(r)
        /\ m \in DictMaps(o, r) /\ m \in DictMaps(g, r) /\ Inserts(r, m) = Inserts(r, m) =>
             EntriesOf(g, r, m) = EntriesOf(o, r, m)
    BY <1>2, <1>8, AlikeMaps
  <2>2. m \in DictMaps(g, r) <=> m \in DictMaps(o, r)
    BY <2>1 DEF DictMaps
  <2> QED
    BY <2>1, <2>2
<1>10. DictMaps(g, r) = DictMaps(o, r) \cup {a}
  <2>1. \A m \in DictMaps(g, r) : m \in Addr
    BY DEF DictMaps
  <2>2. \A m \in DictMaps(o, r) : m \in Addr
    BY DEF DictMaps
  <2> QED
    BY <1>5, <1>9, <2>1, <2>2
<1>11. \A m \in DictMaps(g, r) : EntriesOf(g, r, m) = IF m = a THEN {} ELSE EntriesOf(o, r, m)
  <2> SUFFICES ASSUME NEW m \in DictMaps(g, r), m # a PROVE EntriesOf(g, r, m) = EntriesOf(o, r, m)
    BY <1>7
  <2>1. m \in Addr
    BY DEF DictMaps
  <2> QED
    BY <1>9, <2>1
<1>12. DOMAIN DictOf(o, r) = DictMaps(o, r) /\ \A m \in DictMaps(o, r) : DictOf(o, r)[m] = EntriesOf(o, r, m)
  BY DEF DictOf
<1>13. DictOf(g, r) = [m \in DictMaps(o, r) \cup {a} |-> IF m = a THEN {} ELSE EntriesOf(o, r, m)]
  BY <1>10, <1>11 DEF DictOf
<1>14. Makes(DictOf(o, r), DictOf(g, r), a)
  BY <1>5, <1>12, <1>13 DEF Makes
<1> QED
  BY <1>14 DEF r

\* The sequence s are the items of m whose keys are not v, and the steps r
\* insert into no other map.
Without(o, m, v, s) ==
  /\ \A q \in DOMAIN s : \E j \in DOMAIN o[m].items : s[q] = o[m].items[j] /\ o[s[q].k].val # v
  /\ \A j \in DOMAIN o[m].items :
       o[o[m].items[j].k].val # v => \E q \in DOMAIN s : s[q] = o[m].items[j]
Edits(d, e, m, v, S) == Changes(d, e, m, {x \in d[m] : x[1] # v} \cup S)
OnlyInto(r, m) == Destroyed(r) = {} /\ \A b : b # m => Inserts(r, b) = {}

\* An item is taken out of a map, and another may be on its way into it.
LEMMA EditMaps ==
  ASSUME NEW o, NEW n, InvOf(o, n, <<>>), NEW m \in Addr, o[m] # Null, o[m].kind \in Maps,
         NEW v, NEW s, Without(o, m, v, s),
         NEW g, Alike(o, g, {m}), g[m] # Null, g[m].kind = o[m].kind, g[m].items = s,
         NEW u, NEW r, InvOf(g, u, r), OnlyInto(r, m)
  PROVE  Edits(DictOf(o, <<>>), DictOf(g, r), m, v, PairsOf(o, Inserts(r, m)))
<1> DEFINE t == <<>>
           A == {i \in Item : \E q \in DOMAIN s : s[q] = i}
           B == {i \in Item : \E q \in DOMAIN o[m].items : o[m].items[q] = i}
           I == Inserts(r, m)
<1>1. Destroyed(t) = {} /\ \A b : Inserts(t, b) = {}
  BY NothingToDo
<1>2. InvOf(o, n, t)
  OBVIOUS
<1> HIDE DEF t
<1>3. m \in DictMaps(o, t) /\ m \in DictMaps(g, r)
  BY <1>1 DEF DictMaps, OnlyInto
<1>4. Drops(t, r, {}, {}) /\ InsertsSame(t, r, Addr \ {m})
  BY <1>1 DEF Drops, InsertsSame, OnlyInto
<1>5. Changes(DictOf(o, t), DictOf(g, r), m, EntriesOf(g, r, m))
  BY <1>2, <1>3, <1>4, DictOne
<1>6. A = {i \in B : o[i.k].val # v}
  <2>1. ASSUME NEW i \in A PROVE i \in B /\ o[i.k].val # v
    BY DEF Without
  <2>2. ASSUME NEW i \in B, o[i.k].val # v PROVE i \in A
    <3>1. PICK j \in DOMAIN o[m].items : o[m].items[j] = i
      OBVIOUS
    <3>2. \E q \in DOMAIN s : s[q] = i
      BY <2>2, <3>1 DEF Without
    <3> QED
      BY <3>2
  <2> HIDE DEF A, B
  <2> QED
    BY <2>1, <2>2
<1>7. ItemsIn(g, r, m) = A \cup I /\ ItemsIn(o, t, m) = B
  BY <1>1 DEF ItemsIn
<1> HIDE DEF A, B, I
<1>8. EntriesOf(g, r, m) = PairsOf(o, A \cup I)
  <2>1. ASSUME NEW i \in A \cup I PROVE g[i.k].val = o[i.k].val
    <3>1. i.k \in Addr /\ g[i.k] # Null
      <4>1. i \in ItemsIn(g, r, m)
        BY <1>7
      <4> QED
        BY <1>3, <4>1, KeyOf
    <3>2. o[i.k] # Null
      <4>1. CASE i.k = m
        BY <4>1
      <4>2. CASE i.k # m
        BY <3>1, <4>2 DEF Alike
      <4> QED
        BY <4>1, <4>2
    <3> QED
      BY <3>1, <3>2 DEF Alike, ValsKept
  <2> QED
    BY <1>7, <2>1 DEF EntriesOf, PairsOf
<1>9. PairsOf(o, A) = {e \in PairsOf(o, B) : e[1] # v}
  BY <1>6 DEF PairsOf
<1>10. PairsOf(o, A \cup I) = PairsOf(o, A) \cup PairsOf(o, I)
  BY DEF PairsOf
<1>11. DictOf(o, t)[m] = PairsOf(o, B)
  BY <1>3, <1>7 DEF DictOf, EntriesOf
<1>12. EntriesOf(g, r, m) = {e \in DictOf(o, t)[m] : e[1] # v} \cup PairsOf(o, I)
  BY <1>8, <1>9, <1>10, <1>11
<1> QED
  BY <1>5, <1>12 DEF t, I, Edits

\* The elements of a sequence after one is taken out.
LEMMA RemoveElems ==
  ASSUME NEW s \in Seq(Item), NEW p \in 1 .. Len(s), NEW u, u = RemoveAt(s, p)
  PROVE  /\ u \in Seq(Item) /\ Len(u) = Len(s) - 1 /\ Len(s) \in Nat
         /\ \A q \in DOMAIN u : \E j \in DOMAIN s : j # p /\ u[q] = s[j]
         /\ \A j \in DOMAIN s : j # p => \E q \in DOMAIN u : u[q] = s[j]
<1>1. /\ u \in Seq(Item) /\ Len(u) = Len(s) - 1 /\ Len(s) \in Nat
      /\ \A q \in 1 .. p - 1 : u[q] = s[q]
      /\ \A q \in p .. Len(s) - 1 : u[q] = s[q + 1]
  <2> DEFINE t == RemoveAt(s, p)
  <2>1. p \in 1 .. Len(s)
    OBVIOUS
  <2>2. /\ t \in Seq(Item) /\ Len(t) = Len(s) - 1
        /\ \A q \in 1 .. p - 1 : t[q] = s[q]
        /\ \A q \in p .. Len(s) - 1 : t[q] = s[q + 1]
        /\ \A X : Count(s, X) = Count(t, X) + Count(<<s[p]>>, X)
    BY <2>1, RemoveIs
  <2>3. u = t
    OBVIOUS
  <2> HIDE DEF t
  <2> QED
    BY <2>2, <2>3
<1>2. DOMAIN u = 1 .. Len(s) - 1 /\ DOMAIN s = 1 .. Len(s)
  BY <1>1
<1>3. \A q \in DOMAIN u : \E j \in DOMAIN s : j # p /\ u[q] = s[j]
  BY HeldWithout
<1>4. ASSUME NEW j \in DOMAIN s, j # p PROVE \E q \in DOMAIN u : u[q] = s[j]
  <2>1. CASE j < p
    <3>1. j \in 1 .. p - 1 /\ j \in DOMAIN u
      BY <1>1, <1>2, <2>1
    <3> QED
      BY <1>1, <3>1
  <2>2. CASE j > p
    <3>1. j - 1 \in p .. Len(s) - 1 /\ j - 1 \in DOMAIN u /\ (j - 1) + 1 = j
      BY <1>1, <1>2, <2>2
    <3> QED
      BY <1>1, <3>1
  <2> QED
    BY <1>2, <1>4, <2>1, <2>2
<1> QED
  BY <1>1, <1>3, <1>4

\* The items of a map without the one of a key.
LEMMA MapWithout ==
  ASSUME NEW o \in Objs, NEW m \in Addr, o[m] # Null, MapOK(o, m),
         NEW p \in DOMAIN o[m].items, NEW u, u = RemoveAt(o[m].items, p)
  PROVE  LET v == o[o[m].items[p].k].val
             g == WithItems(o, m, u)
         IN  /\ Without(o, m, v, u)
             /\ Alike(o, g, {m}) /\ g[m] # Null /\ g[m].kind = o[m].kind /\ g[m].items = u
<1> DEFINE s == o[m].items
           v == o[s[p].k].val
           g == WithItems(o, m, u)
<1>1. s \in Seq(Item) /\ Len(s) <= MaxItems
  BY ItemsOfType
<1>2. /\ \A j \in DOMAIN s : o[s[j].k].val = v => j = p
      /\ p \in DOMAIN s
  BY DEF MapOK
<1>3. p \in 1 .. Len(s) /\ u = RemoveAt(s, p)
  BY <1>1
<1> HIDE DEF s
<1>4. /\ u \in Seq(Item) /\ Len(u) = Len(s) - 1 /\ Len(s) \in Nat
      /\ \A q \in DOMAIN u : \E j \in DOMAIN s : j # p /\ u[q] = s[j]
      /\ \A j \in DOMAIN s : j # p => \E q \in DOMAIN u : u[q] = s[j]
  BY <1>1, <1>3, RemoveElems
<1>5. \A q \in DOMAIN u : \E j \in DOMAIN s : u[q] = s[j] /\ o[u[q].k].val # v
  <2> SUFFICES ASSUME NEW q \in DOMAIN u
               PROVE  \E j \in DOMAIN s : u[q] = s[j] /\ o[u[q].k].val # v
    OBVIOUS
  <2>1. PICK j \in DOMAIN s : j # p /\ u[q] = s[j]
    BY <1>4
  <2>2. o[s[j].k].val # v
    BY <1>2, <2>1
  <2> QED
    BY <2>1, <2>2
<1>6. \A j \in DOMAIN s : o[s[j].k].val # v => \E q \in DOMAIN u : u[q] = s[j]
  BY <1>4
<1>7. Alike(o, g, {m})
  BY AlikeItems
<1>8. g[m] # Null /\ g[m].kind = o[m].kind /\ g[m].items = u
  <2>1. Len(u) <= MaxItems
    BY <1>1, <1>4, MmCollectionsAssumption
  <2> QED
    BY <1>4, <2>1, SetItems
<1> HIDE DEF g, v
<1>9. Without(o, m, v, u)
  BY <1>5, <1>6 DEF Without, s
<1> QED
  BY <1>7, <1>8, <1>9 DEF s, g, v

\* An item is removed.
LEMMA RemoveItemMaps ==
  ASSUME IInv, InvOf(obj', own', todo'), NEW m \in Known, NEW k \in Known, RemoveItem(m, k)
  PROVE  /\ todo = <<>> /\ todo' # <<>> /\ m \in DictMaps(obj, <<>>) /\ obj[k].val \in Val
         /\ Edits(DictOf(obj, <<>>), DictOf(obj', todo'), m, obj[k].val, {})
<1>1. /\ InvOf(obj, own, <<>>) /\ Idle /\ own' = own /\ todo = <<>> /\ InvOf(obj', own, todo')
  BY DEF IInv, RemoveItem, Idle
<1>2. /\ m \in Addr /\ obj[m] # Null /\ obj[m].kind \in Maps
      /\ k \in Addr /\ obj[k] # Null /\ obj[k].kind = "int"
  BY <1>1, KnownIs DEF RemoveItem, Is
<1>3. PICK p \in WithKey(m, k) :
         /\ obj' = [obj EXCEPT ![m].items = RemoveAt(@, p)]
         /\ todo' = Releases(obj[m].items[p])
  BY DEF RemoveItem
<1> DEFINE i == obj[m].items[p]
           u == RemoveAt(obj[m].items, p)
           v == obj[k].val
           x == Releases(i)
<1>4. p \in DOMAIN obj[m].items /\ obj[i.k].val = v
  BY <1>3 DEF WithKey, KeyVal
<1>5. obj \in Objs /\ MapOK(obj, m) /\ v \in Val
  BY <1>1, <1>2 DEF InvOf, TypesOK, DataOK, MapsOK, IntsOK
<1>6. obj[m].items \in Seq(Item) /\ i \in Item
  <2>1. obj[m].items \in Seq(Item)
    BY <1>2, <1>5, ItemsOfType
  <2> QED
    BY <1>4, <2>1
<1>7. obj' = WithItems(obj, m, u) /\ todo' = x
  BY <1>3 DEF WithItems
<1>8. /\ x \in Seq(Step)
      /\ \A q \in DOMAIN x : x[q].op = "release"
  BY <1>6, ReleasesIs
<1>9. x # <<>>
  <2> DEFINE f == Do("release", i.v)
             y == IF i.k = Null THEN <<>> ELSE <<Do("release", i.k)>>
  <2>1. i.k \in Ptr /\ i.v \in Ptr
    BY <1>6 DEF Item
  <2>2. << f >> \in Seq(Step) /\ y \in Seq(Step)
    <3> DEFINE e == Do("release", i.k)
    <3>1. << f >> \in Seq(Step)
      BY <2>1, DoIs
    <3>2. << e >> \in Seq(Step)
      BY <2>1, DoIs
    <3>3. y = IF i.k = Null THEN <<>> ELSE << e >>
      OBVIOUS
    <3> HIDE DEF e, f, y
    <3> QED
      BY <3>1, <3>2, <3>3
  <2>3. x = y \o << f >>
    BY DEF Releases
  <2> HIDE DEF f, y, x
  <2>4. 1 \in DOMAIN << f >>
    BY <2>2
  <2>5. Len(y) + 1 \in DOMAIN (y \o << f >>)
    BY <2>2, <2>4, ConcatSteps
  <2> QED
    BY <2>3, <2>5
<1>10. /\ Without(obj, m, v, u)
       /\ Alike(obj, obj', {m}) /\ obj'[m] # Null /\ obj'[m].kind = obj[m].kind /\ obj'[m].items = u
  <2> HIDE DEF u
  <2>1. u = RemoveAt(obj[m].items, p)
    BY DEF u
  <2>2. obj[obj[m].items[p].k].val = v
    BY <1>4
  <2> QED
    BY <1>2, <1>4, <1>5, <1>7, <2>1, <2>2, MapWithout
<1> HIDE DEF i, u, x, v
<1>11. Inserts(x, m) = {} /\ OnlyInto(x, m)
  BY <1>8 DEF Destroyed, Inserts, OnlyInto
<1>12. Edits(DictOf(obj, <<>>), DictOf(obj', x), m, v, PairsOf(obj, Inserts(x, m)))
  <2>1. InvOf(obj', own', x)
    BY <1>1, <1>7
  <2> QED
    BY <1>1, <1>2, <1>10, <1>11, <2>1, EditMaps
<1>13. PairsOf(obj, Inserts(x, m)) = {}
  BY <1>11 DEF PairsOf
<1>14. m \in DictMaps(obj, <<>>)
  BY <1>2, NothingToDo DEF DictMaps
<1> QED
  BY <1>1, <1>5, <1>7, <1>9, <1>12, <1>13, <1>14 DEF v

\* The steps of a put insert its item and no other.
LEMMA PutInto ==
  ASSUME NEW k \in Addr, NEW v \in Addr, NEW m \in Addr, NEW i \in Item, i.k = k, i.v = v,
         NEW r \in Seq(Step), \A p \in DOMAIN r : r[p].op = "release" /\ r[p].item = Elem(Null),
         NEW x, x = PutSteps(k, v, r, m, i)
  PROVE  Inserts(x, m) = {i} /\ OnlyInto(x, m) /\ x # <<>>
<1> DEFINE h == Insertion(m, i)
           y == <<Do("retain", k), Do("retain", v)>> \o r
<1>1. /\ x \in Seq(Step) /\ Destroyed(x) = {}
      /\ \A p \in DOMAIN x :
           \/ x[p].op = "retain" /\ x[p].a \in {k, v} /\ x[p].item = Elem(Null)
           \/ \E q \in DOMAIN r : x[p] = r[q]
           \/ x[p].op = "insert" /\ x[p].a = m /\ x[p].item = i
  BY PutStepsAre
<1>2. /\ \A b : b # m => Inserts(x, b) = {}
      /\ Inserts(x, m) \subseteq {i}
  <2>1. \A p \in DOMAIN x : x[p].op = "insert" => x[p].a = m /\ x[p].item = i
    BY <1>1
  <2> QED
    BY <2>1 DEF Inserts
<1>3. y \in Seq(Step)
  <2> DEFINE f == Do("retain", k)
             g == Do("retain", v)
             z == << f, g >>
  <2>1. f \in Step /\ g \in Step
    <3>1. k \in Ptr /\ v \in Ptr
      BY DEF Ptr
    <3> QED
      BY <3>1, DoIs
  <2>2. y = z \o r
    OBVIOUS
  <2> HIDE DEF f, g
  <2>3. z \in Seq(Step)
    BY <2>1
  <2> HIDE DEF z, y
  <2> QED
    BY <2>2, <2>3, ConcatSteps
<1>4. h.op = "insert" /\ h.a = m /\ h.item = i /\ << h >> \in Seq(Step)
  <2>1. m \in Ptr
    BY DEF Ptr
  <2>2. h.op = "insert" /\ h.a = m /\ h.item = i
    BY DEF Insertion
  <2>3. << h >> \in Seq(Step)
    BY <2>1, InsertionIs
  <2> QED
    BY <2>2, <2>3
<1>5. x = y \o << h >>
  BY DEF PutSteps
<1> HIDE DEF y, h
<1>6. 1 \in DOMAIN << h >> /\ << h >>[1] = h
  OBVIOUS
<1>7. Len(y) + 1 \in DOMAIN x /\ x[Len(y) + 1] = h
  BY <1>3, <1>4, <1>5, <1>6, ConcatSteps
<1>8. x # <<>>
  BY <1>7
<1>9. i \in Inserts(x, m)
  BY <1>4, <1>7 DEF Inserts
<1> QED
  BY <1>1, <1>2, <1>8, <1>9 DEF OnlyInto

\* An item is put.
LEMMA AddItemMaps ==
  ASSUME IInv, InvOf(obj', own', todo'), NEW m \in Known, NEW k \in Known, NEW v \in Known,
         AddItem(m, k, v)
  PROVE  /\ todo = <<>> /\ todo' # <<>> /\ m \in DictMaps(obj, <<>>) /\ obj[k].val \in Val /\ v \in Addr
         /\ Edits(DictOf(obj, <<>>), DictOf(obj', todo'), m, obj[k].val, {<<obj[k].val, v>>})
<1> DEFINE s == obj[m].items
           i == [k |-> k, v |-> v, hk |-> k]
           w == obj[k].val
           f == Do("retain", k)
           g == Do("retain", v)
           h == Insertion(m, i)
<1>1. InvOf(obj, own, <<>>) /\ Idle /\ todo = <<>> /\ InvOf(obj', own', todo')
  BY DEF IInv, AddItem, Idle
<1>2. /\ m \in Addr /\ obj[m] # Null /\ k \in Addr /\ obj[k] # Null /\ v \in Addr /\ obj[v] # Null
  BY <1>1, KnownIs
<1>3. obj[m].kind \in Maps /\ obj[k].kind = "int"
  BY DEF AddItem, Is
<1>4. /\ obj \in Objs /\ MapOK(obj, m) /\ w \in Val /\ s \in Seq(Item)
  <2>1. obj \in Objs /\ MapOK(obj, m) /\ w \in Val
    BY <1>1, <1>2, <1>3 DEF InvOf, TypesOK, DataOK, MapsOK, IntsOK
  <2> QED
    BY <1>2, <2>1, ItemsOfType
<1>5. i \in Item /\ i.k = k /\ i.v = v
  BY <1>2 DEF Item, Ptr
<1> HIDE DEF i
<1>6. WithKey(m, k) = {p \in DOMAIN s : obj[s[p].k].val = w}
  BY DEF WithKey, KeyVal
<1>7. f \in Step /\ g \in Step /\ h \in Step
  <2>1. k \in Ptr /\ v \in Ptr /\ m \in Ptr
    BY <1>2 DEF Ptr
  <2> QED
    BY <1>5, <2>1, DoIs, InsertionIs
<1>8. m \in DictMaps(obj, <<>>)
  BY <1>2, <1>3, NothingToDo DEF DictMaps
<1>9. ASSUME NEW r \in Seq(Step), \A p \in DOMAIN r : r[p].op = "release" /\ r[p].item = Elem(Null),
             todo' = PutSteps(k, v, r, m, i), NEW u, Without(obj, m, w, u),
             Alike(obj, obj', {m}), obj'[m] # Null, obj'[m].kind = obj[m].kind, obj'[m].items = u
      PROVE  todo' # <<>> /\ Edits(DictOf(obj, <<>>), DictOf(obj', todo'), m, w, {<<w, v>>})
  <2> DEFINE x == PutSteps(k, v, r, m, i)
  <2>1. x = PutSteps(k, v, r, m, i)
    OBVIOUS
  <2>2. todo' = x
    BY <1>9
  <2> HIDE DEF x, w
  <2>3. Inserts(x, m) = {i} /\ OnlyInto(x, m) /\ x # <<>>
    BY <1>2, <1>5, <1>9, <2>1, PutInto
  <2>4. InvOf(obj', own', x)
    BY <1>1, <2>2
  <2>5. Edits(DictOf(obj, <<>>), DictOf(obj', x), m, w, PairsOf(obj, Inserts(x, m)))
    BY <1>1, <1>2, <1>3, <1>9, <2>3, <2>4, EditMaps
  <2>6. PairsOf(obj, Inserts(x, m)) = {<<w, v>>}
    BY <1>5, <2>3 DEF PairsOf, w
  <2> QED
    BY <2>2, <2>3, <2>5, <2>6
<1>10. CASE WithKey(m, k) = {}
  <2>1. obj' = obj /\ todo' = <<f, g, h>>
    BY <1>10 DEF AddItem, HashKey, i
  <2> DEFINE r == <<>>
  <2>2. todo' = PutSteps(k, v, r, m, i)
    <3> HIDE DEF f, g, h
    <3>1. r \in Seq(Step)
      OBVIOUS
    <3>2. <<f, g, h>> = (<<f, g>> \o <<>>) \o << h >>
      BY <1>7, <3>1, PutWritten
    <3> QED
      BY <2>1, <3>2 DEF PutSteps, f, g, h
  <2>3. r \in Seq(Step) /\ DOMAIN r = {}
    OBVIOUS
  <2> HIDE DEF r
  <2>4. \A p \in DOMAIN r : r[p].op = "release" /\ r[p].item = Elem(Null)
    BY <2>3
  <2>5. Without(obj, m, w, s)
    BY <1>6, <1>10 DEF Without
  <2>6. Alike(obj, obj', {m})
    BY <2>1 DEF Alike, ValsKept
  <2> HIDE DEF w
  <2>7. obj'[m] # Null /\ obj'[m].kind = obj[m].kind /\ obj'[m].items = s
    BY <1>2, <2>1
  <2> HIDE DEF s
  <2>8. todo' # <<>> /\ Edits(DictOf(obj, <<>>), DictOf(obj', todo'), m, w, {<<w, v>>})
    BY <1>9, <2>2, <2>3, <2>4, <2>5, <2>6, <2>7
  <2> QED
    BY <1>1, <1>2, <1>4, <1>8, <2>8 DEF w
<1>11. CASE WithKey(m, k) # {}
  <2> DEFINE p == CHOOSE p \in WithKey(m, k) : TRUE
             u == RemoveAt(s, p)
             r == Releases(s[p])
  <2>1. p \in WithKey(m, k)
    BY <1>11
  <2>2. obj' = WithItems(obj, m, u) /\ todo' = Append(<<f, g>> \o r, h)
    BY <1>11 DEF AddItem, HashKey, Replace, WithItems, i
  <2>3. p \in DOMAIN s /\ obj[s[p].k].val = w
    BY <1>6, <2>1
  <2> HIDE DEF p, f, g, h
  <2>4. s[p] \in Item
    <3> HIDE DEF s
    <3> QED
      BY <1>4, <2>3
  <2>5. r \in Seq(Step) /\ \A q \in DOMAIN r : r[q].op = "release" /\ r[q].item = Elem(Null)
    BY <2>4, ReleasesIs
  <2> HIDE DEF r
  <2>6. todo' = PutSteps(k, v, r, m, i)
    <3>1. Append(<<f, g>> \o r, h) = (<<f, g>> \o r) \o << h >>
      BY <1>7, <2>5, PutWritten
    <3> QED
      BY <2>2, <3>1 DEF PutSteps, f, g, h
  <2> HIDE DEF u, w
  <2>7. /\ Without(obj, m, w, u)
        /\ Alike(obj, obj', {m}) /\ obj'[m] # Null /\ obj'[m].kind = obj[m].kind /\ obj'[m].items = u
    <3>1. u = RemoveAt(obj[m].items, p) /\ p \in DOMAIN obj[m].items /\ obj[obj[m].items[p].k].val = w
      BY <2>3 DEF u
    <3> HIDE DEF s
    <3>2. obj \in Objs /\ MapOK(obj, m) /\ m \in Addr /\ obj[m] # Null
      BY <1>2, <1>4
    <3>3. /\ Without(obj, m, w, u) /\ Alike(obj, WithItems(obj, m, u), {m})
          /\ WithItems(obj, m, u)[m] # Null /\ WithItems(obj, m, u)[m].kind = obj[m].kind
          /\ WithItems(obj, m, u)[m].items = u
      BY <3>1, <3>2, MapWithout
    <3>4. obj' = WithItems(obj, m, u)
      BY <2>2
    <3> QED
      BY <3>3, <3>4
  <2>8. todo' # <<>> /\ Edits(DictOf(obj, <<>>), DictOf(obj', todo'), m, w, {<<w, v>>})
    BY <1>9, <2>5, <2>6, <2>7
  <2> QED
    BY <1>1, <1>2, <1>4, <1>8, <2>8 DEF w
<1> QED
  BY <1>10, <1>11

\* What popping an item changes.
LEMMA PopChanges ==
  ASSUME NEW o, NEW n, InvOf(o, n, <<>>), NEW l \in Addr, o[l] # Null, o[l].kind \notin Maps,
         o[l].items # <<>>,
         NEW z, z = Last(o[l].items).v,
         NEW y, y = WithItems(o, l, Front(o[l].items))
  PROVE  /\ y \in Objs /\ Alike(o, y, {l})
         /\ z # Null => z \in Addr /\ y[z] # Null /\ y[z].r - 1 \in Nat
<1> DEFINE u == o[l].items
           t == Front(u)
           i == Last(u)
<1>1. o \in Objs /\ PlainOK(o) /\ Holder(o)
  BY IdleIs
<1>2. u \in Seq(Item) /\ Len(u) <= MaxItems /\ MaxItems \in Nat
  BY <1>1, ItemsOfType, MmCollectionsAssumption
<1>3. u # <<>> /\ z = i.v /\ i = u[Len(u)]
  BY DEF Last
<1> HIDE DEF u
<1>4. /\ t \in Seq(Item) /\ i \in Item
      /\ Len(u) \in Nat \ {0} /\ Len(t) = Len(u) - 1
  BY <1>2, <1>3, FrontIs
<1> HIDE DEF t, i
<1>5. y = WithItems(o, l, t)
  BY DEF t, u
<1>6. Len(t) <= MaxItems
  BY <1>2, <1>4
<1>7. /\ y \in Objs /\ y[l] # Null /\ y[l].r = o[l].r /\ \A b \in Addr \ {l} : y[b] = o[b]
  BY <1>1, <1>4, <1>5, <1>6, SetItems
<1>8. Alike(o, WithItems(o, l, t), {l})
  BY <1>1, AlikeItems
<1>9. Alike(o, y, {l})
  BY <1>5, <1>8
<1>10. ASSUME z # Null PROVE z \in Addr /\ y[z] # Null /\ y[z].r - 1 \in Nat
  <2>1. Len(u) \in DOMAIN u
    BY <1>2, <1>4
  <2>2. Alive(o, u[Len(u)].v)
    BY <1>1, <2>1 DEF Holder, u
  <2>3. z \in Addr /\ o[z] # Null
    BY <1>3, <1>10, <2>2 DEF Alive
  <2>4. ~Unowned(o, n, <<>>, z)
    BY <1>3, <2>1, <2>3 DEF Unowned, u
  <2>5. o[z].r \in Nat /\ o[z].r # 0
    <3> DEFINE r == <<>>
    <3>1. r \in Seq(Step) /\ DOMAIN r = {}
      OBVIOUS
    <3>2. InvOf(o, n, r) /\ ~Unowned(o, n, r, z)
      BY <2>4
    <3> HIDE DEF r
    <3>3. n \in [Var -> Ptr]
      BY <3>2 DEF InvOf, TypesOK, Owns
    <3>4. OwnersOf(o, n, r, z) \in Nat /\ (OwnersOf(o, n, r, z) = 0 <=> Unowned(o, n, r, z))
      BY <1>1, <3>1, <3>3, OwnersZero
    <3>5. o[z].r = OwnersOf(o, n, r, z)
      BY <2>3, <3>2, CountedIs
    <3> QED
      BY <3>2, <3>4, <3>5
  <2>6. y[z] # Null /\ y[z].r = o[z].r
    BY <1>7, <2>3
  <2> QED
    BY <2>3, <2>5, <2>6
<1> QED
  BY <1>7, <1>9, <1>10

\* What a call of the program does to the maps before it goes on.
LEMMA ProgramMaps ==
  ASSUME IInv, InvOf(obj', own', todo'), Program
  PROVE  LET d == DictOf(obj, todo)
             e == DictOf(obj', todo')
         IN  /\ todo = <<>>
             /\ \/ e = d
                \/ \E a \in DictMaps(obj, todo) : GivesUp(d, e, {a}) /\ todo' # <<>>
                \/ \E a \in Addr : Makes(d, e, a) /\ todo' = <<>>
                \/ \E m \in DictMaps(obj, todo), w \in Val :
                     /\ todo' # <<>>
                     /\ Edits(d, e, m, w, {}) \/ \E v \in Addr : Edits(d, e, m, w, {<<w, v>>})
<1> DEFINE d == DictOf(obj, todo)
           e == DictOf(obj', todo')
           Goal == \/ e = d
                   \/ \E a \in DictMaps(obj, todo) : GivesUp(d, e, {a}) /\ todo' # <<>>
                   \/ \E a \in Addr : Makes(d, e, a) /\ todo' = <<>>
                   \/ \E m \in DictMaps(obj, todo), w \in Val :
                        /\ todo' # <<>>
                        /\ Edits(d, e, m, w, {}) \/ \E v \in Addr : Edits(d, e, m, w, {<<w, v>>})
<1>1. todo = <<>>
  BY DEF Program, New, NewReference, Retain, Release, Autorelease, Drain, PopItem, RemoveItem,
         ConcatList, AddItem, InsertItem, Idle
<1>2. InvOf(obj, own, <<>>) /\ Idle /\ InvOf(obj', own', todo') /\ obj \in Objs /\ own \in [Var -> Ptr]
  BY <1>1 DEF IInv, Idle, InvOf, TypesOK, Owns
<1>3. \A a \in Known : a \in Addr /\ obj[a] # Null
  BY <1>2, KnownIs
<1>4. ASSUME NEW X, Alike(obj, obj', X), NoMaps(obj, <<>>, X), NoMaps(obj', <<>>, X), todo' = <<>>
      PROVE  Goal
  <2>1. InvOf(obj', own', <<>>)
    BY <1>2, <1>4
  <2>2. DictOf(obj', <<>>) = DictOf(obj, <<>>)
    BY <1>2, <1>4, <2>1, QuietMaps
  <2> QED
    BY <1>1, <1>4, <2>2
<1>5. NoMaps(obj, <<>>, {}) /\ NoMaps(obj', <<>>, {})
  BY DEF NoMaps
<1>6. ASSUME NEW a \in Addr, NEW c \in Nat, obj[a] # Null, obj' = WithR(obj, a, c), todo' = <<>>
      PROVE  Goal
  <2>1. Alike(obj, obj', {})
    BY <1>2, <1>6, AlikeR
  <2> HIDE DEF Goal
  <2> QED
    BY <1>4, <1>5, <1>6, <2>1
<1>7. ASSUME NEW w \in Var, NEW a \in Addr, NEW kind \in {"int", "map", "sorted", "list"},
             NEW val \in Val \cup {Null}, New(w, a, kind, val)
      PROVE  Goal
  <2> DEFINE x == [kind |-> kind, r |-> 1, val |-> val, items |-> <<>>]
  <2>1. obj' = With(obj, a, x) /\ obj[a] = Null /\ todo' = <<>>
    BY <1>1, <1>7 DEF New, With, Live
  <2>2. x \in Object /\ x.items = <<>> /\ x.kind = kind
    BY DEF Object, Kinds
  <2> HIDE DEF x, Goal
  <2>3. Len(x.items) <= MaxItems /\ x # Null
    BY <2>2, MmCollectionsAssumption
  <2>4. CASE kind \in Maps
    <3>1. InvOf(obj', own', <<>>) /\ x.kind \in Maps
      BY <1>2, <2>1, <2>2, <2>4
    <3>2. Makes(DictOf(obj, <<>>), DictOf(obj', <<>>), a)
      BY <1>2, <2>1, <2>2, <3>1, MakeMaps
    <3> QED
      BY <1>1, <2>1, <3>2 DEF Goal
  <2>5. CASE kind \notin Maps
    <3>1. Alike(obj, obj', {a}) /\ obj'[a] = x
      BY <1>2, <2>1, <2>2, <2>3, AlikeNew
    <3>2. NoMaps(obj, <<>>, {a}) /\ NoMaps(obj', <<>>, {a})
      BY <2>1, <2>2, <2>5, <3>1 DEF NoMaps, DictMaps
    <3> QED
      BY <1>4, <2>1, <3>1, <3>2
  <2> QED
    BY <2>4, <2>5
<1>8. ASSUME NEW w \in Var, NEW a \in Addr, NEW z \in Known, NewReference(w, a, z)
      PROVE  Goal
  <2> DEFINE x == [kind |-> "ref", r |-> 1, val |-> Null, items |-> <<Elem(z)>>]
             c == obj[z].r + 1
             y == WithR(obj, z, c)
  <2>1. obj' = With(y, a, x) /\ obj[a] = Null /\ todo' = <<>>
    BY <1>1, <1>8 DEF NewReference, With, WithR, Retained, Live
  <2>2. x \in Object /\ x.kind = "ref" /\ Len(x.items) <= MaxItems
    <3>1. Elem(z) \in Item
      BY <1>3 DEF Elem, Item, Ptr
    <3>2. x \in Object /\ x.kind = "ref" /\ x.items = <<Elem(z)>>
      BY <3>1 DEF Object, Kinds
    <3> QED
      BY <3>2, MmCollectionsAssumption
  <2>3. z \in Addr /\ obj[z] # Null /\ c \in Nat
    BY <1>2, <1>3, IdleIs
  <2> HIDE DEF x, c, Goal
  <2>4. y \in Objs /\ y[a] = obj[a] /\ Alike(obj, y, {})
    BY <1>2, <2>1, <2>3, SetR, AlikeR
  <2> HIDE DEF y
  <2>5. Alike(y, obj', {a}) /\ obj'[a] = x
    BY <2>1, <2>2, <2>4, AlikeNew
  <2>6. Alike(obj, obj', {a})
    BY <2>4, <2>5, AlikeBoth
  <2>7. NoMaps(obj, <<>>, {a}) /\ NoMaps(obj', <<>>, {a})
    BY <2>1, <2>2, <2>5 DEF NoMaps, DictMaps, Maps
  <2> QED
    BY <1>4, <2>1, <2>6, <2>7
<1>9. ASSUME NEW w \in Var, NEW z \in Known, Retain(w, z)
      PROVE  Goal
  <2> DEFINE c == obj[z].r + 1
  <2>1. obj' = WithR(obj, z, c) /\ todo' = <<>>
    BY <1>1, <1>9 DEF Retain, WithR, Retained
  <2>2. z \in Addr /\ obj[z] # Null /\ c \in Nat
    BY <1>2, <1>3, IdleIs
  <2> HIDE DEF c, Goal
  <2> QED
    BY <1>6, <2>1, <2>2
<1>10. ASSUME NEW w \in Var, Release(w)
       PROVE  Goal
  <2> DEFINE op == "release"
             a == own[w]
             r == <<Do(op, a)>>
  <2>1. obj' = obj /\ todo' = r
    BY <1>10 DEF Release
  <2>2. a \in Ptr /\ op \in {"release", "destroy"} /\ op # "destroy"
    BY <1>2
  <2> HIDE DEF op, a
  <2>3. InvOf(obj, own', <<Do(op, a)>>)
    BY <1>2, <2>1
  <2>4. GivesUp(DictOf(obj, <<>>), DictOf(obj, <<Do(op, a)>>), IF op = "destroy" THEN {a} ELSE {})
    BY <1>2, <2>2, <2>3, BeginMaps
  <2>5. DictOf(obj, <<Do(op, a)>>) = DictOf(obj, <<>>)
    <3>1. DictOf(obj, <<>>) = [m \in DOMAIN DictOf(obj, <<>>) |-> DictOf(obj, <<>>)[m]]
      BY DEF DictOf
    <3> QED
      BY <2>2, <2>4, <3>1 DEF GivesUp
  <2> QED
    BY <1>1, <2>1, <2>5
<1>11. ASSUME NEW w \in Var, Autorelease(w)
       PROVE  Goal
  <2> DEFINE z == own[w]
             c == obj[z].r - 1
  <2>1. obj' = WithR(obj, z, c) /\ todo' = <<>> /\ z # Null
    BY <1>1, <1>11 DEF Autorelease, WithR
  <2>2. z \in Addr /\ obj[z] # Null
    BY <1>2, <2>1, IdleIs DEF Alive
  <2>3. c \in Nat
    <3>1. Pointers(own, z) \in Nat /\ Pointers(own, z) # 0
      BY <1>2, <2>2, OwnZero
    <3>2. obj[z].r = Pointers(own, z) + Holds(ItemsOf(obj), z) /\ Holds(ItemsOf(obj), z) \in Nat
      BY <1>2, <2>2, IdleIs
    <3> QED
      BY <3>1, <3>2
  <2> HIDE DEF z, c, Goal
  <2> QED
    BY <1>6, <2>1, <2>2, <2>3
<1>12. ASSUME NEW a \in Known, Drain(a)
       PROVE  Goal
  <2> DEFINE op == "destroy"
             r == <<Do(op, a)>>
  <2>1. obj' = obj /\ todo' = r /\ todo' # <<>>
    BY <1>12 DEF Drain
  <2>2. a \in Ptr /\ op \in {"release", "destroy"} /\ op = "destroy"
    BY <1>3 DEF Ptr
  <2> HIDE DEF op
  <2>3. InvOf(obj, own', <<Do(op, a)>>)
    BY <1>2, <2>1
  <2>4. GivesUp(DictOf(obj, <<>>), DictOf(obj, <<Do(op, a)>>), IF op = "destroy" THEN {a} ELSE {})
    BY <1>2, <2>2, <2>3, BeginMaps
  <2>5. GivesUp(d, e, {a})
    BY <1>1, <2>1, <2>2, <2>4
  <2>6. CASE a \in DictMaps(obj, todo)
    BY <2>1, <2>5, <2>6
  <2>7. CASE a \notin DictMaps(obj, todo)
    <3>1. DictOf(obj', todo') = DictOf(obj, todo)
      BY <2>5, <2>7, GivesUpNone
    <3> QED
      BY <3>1
  <2> QED
    BY <2>6, <2>7
<1>13. ASSUME NEW a \in Known, PopItem(a)
       PROVE  Goal
  <2> DEFINE z == Last(obj[a].items).v
             y == WithItems(obj, a, Front(obj[a].items))
  <2>1. a \in Addr /\ obj[a] # Null /\ obj[a].kind = "list" /\ obj[a].items # <<>> /\ todo' = <<>>
    BY <1>1, <1>3, <1>13 DEF PopItem, Is
  <2>2. obj' = IF z = Null THEN y ELSE WithR(y, z, y[z].r - 1)
    BY <1>13 DEF PopItem, WithItems, WithR
  <2>3. obj[a].kind \notin Maps
    BY <2>1 DEF Maps
  <2>4. z = Last(obj[a].items).v /\ y = WithItems(obj, a, Front(obj[a].items))
    OBVIOUS
  <2> HIDE DEF z, y, Goal
  <2>5. y \in Objs /\ Alike(obj, y, {a}) /\ (z # Null => z \in Addr /\ y[z] # Null /\ y[z].r - 1 \in Nat)
    BY <1>2, <2>1, <2>3, <2>4, PopChanges
  <2>6. Alike(y, obj', {})
    <3>1. CASE z = Null
      BY <2>2, <3>1 DEF Alike, ValsKept
    <3>2. CASE z # Null
      <4> DEFINE c == y[z].r - 1
      <4>1. obj' = WithR(y, z, c) /\ c \in Nat
        BY <2>2, <2>5, <3>2
      <4> HIDE DEF c
      <4> QED
        BY <2>5, <3>2, <4>1, AlikeR
    <3> QED
      BY <3>1, <3>2
  <2>7. Alike(obj, obj', {a})
    BY <2>5, <2>6 DEF Alike, ValsKept
  <2>8. NoMaps(obj, <<>>, {a}) /\ NoMaps(obj', <<>>, {a})
    BY <2>1, <2>3, <2>7 DEF NoMaps, DictMaps, Alike, ValsKept
  <2> QED
    BY <1>4, <2>1, <2>7, <2>8
<1>14. ASSUME NEW l \in Addr, obj[l] # Null, obj[l].kind = "list", NEW s \in Seq(Item),
              \A p \in DOMAIN s : s[p].k = Null, NEW u,
              obj' = [Copied(obj, s) EXCEPT ![l].items = u], todo' = <<>>
       PROVE  Goal
  <2> DEFINE y == Copied(obj, s)
  <2>1. y \in Objs /\ y[l] # Null /\ y[l].kind = "list" /\ obj' = WithItems(y, l, u)
    BY <1>2, <1>14, CopiedIs DEF WithItems
  <2>2. Alike(obj, y, {})
    BY <1>2, <1>14, AlikeCopied
  <2> HIDE DEF y, Goal
  <2>3. Alike(y, WithItems(y, l, u), {l})
    <3>1. y \in Objs /\ y[l] # Null /\ l \in Addr
      BY <2>1
    <3> QED
      BY <3>1, AlikeItems
  <2>4. Alike(obj, obj', {l})
    <3>1. Alike(y, obj', {l})
      BY <2>1, <2>3
    <3> QED
      BY <1>14, <2>2, <3>1, AlikeBoth
  <2>5. NoMaps(obj, <<>>, {l}) /\ NoMaps(obj', <<>>, {l})
    BY <1>14, <2>4 DEF NoMaps, DictMaps, Alike, ValsKept, Maps
  <2> QED
    BY <1>4, <1>14, <2>4, <2>5
<1>15. ASSUME NEW l \in Known, NEW x \in Known, NEW idx \in 0 .. MaxItems - 1, InsertItem(l, x, idx)
       PROVE  Goal
  <2> DEFINE s == <<Elem(x)>>
             gap == [p \in 1 .. idx - Len(obj[l].items) |-> Elem(Null)]
             y == Copied(obj, s)
             u == InsertAt(y[l].items \o gap, idx + 1, Elem(x))
  <2>1. obj' = [Copied(obj, s) EXCEPT ![l].items = u] /\ todo' = <<>> /\ obj[l].kind = "list"
    BY <1>1, <1>15 DEF InsertItem, Is
  <2>2. s \in Seq(Item) /\ \A p \in DOMAIN s : s[p].k = Null
    <3>1. Elem(x) \in Item /\ Elem(x).k = Null
      BY <1>3 DEF Elem, Item, Ptr
    <3> QED
      BY <3>1
  <2>3. l \in Addr /\ obj[l] # Null
    BY <1>3
  <2> HIDE DEF s, u, Goal
  <2> QED
    BY <1>14, <2>1, <2>2, <2>3
<1>16. ASSUME NEW l \in Known, NEW z \in Known, ConcatList(l, z)
       PROVE  Goal
  <2> DEFINE s == obj[z].items
             y == Copied(obj, s)
             u == y[l].items \o s
  <2>1. /\ obj' = [Copied(obj, s) EXCEPT ![l].items = u] /\ todo' = <<>>
        /\ obj[l].kind = "list" /\ obj[z].kind = "list"
    BY <1>1, <1>16 DEF ConcatList, Is
  <2>2. s \in Seq(Item) /\ \A p \in DOMAIN s : s[p].k = Null
    <3>1. PlainOK(obj) /\ obj[z].kind \notin Maps /\ z \in Addr /\ obj[z] # Null
      BY <1>2, <1>3, <2>1, IdleIs DEF Maps
    <3>2. s \in Seq(Item)
      BY <1>2, <3>1, ItemsOfType
    <3> QED
      BY <3>1, <3>2 DEF PlainOK
  <2>3. l \in Addr /\ obj[l] # Null
    BY <1>3
  <2> HIDE DEF s, u, Goal
  <2> QED
    BY <1>14, <2>1, <2>2, <2>3
<1>17. ASSUME NEW m \in Known, NEW k \in Known, RemoveItem(m, k)
       PROVE  Goal
  <2> DEFINE w == obj[k].val
  <2>1. /\ todo' # <<>> /\ m \in DictMaps(obj, <<>>) /\ w \in Val
        /\ Edits(DictOf(obj, <<>>), DictOf(obj', todo'), m, w, {})
    BY <1>2, <1>17, RemoveItemMaps
  <2> HIDE DEF w
  <2> QED
    BY <1>1, <2>1
<1>18. ASSUME NEW m \in Known, NEW k \in Known, NEW v \in Known, AddItem(m, k, v)
       PROVE  Goal
  <2> DEFINE w == obj[k].val
  <2>1. /\ todo' # <<>> /\ m \in DictMaps(obj, <<>>) /\ w \in Val /\ v \in Addr
        /\ Edits(DictOf(obj, <<>>), DictOf(obj', todo'), m, w, {<<w, v>>})
    BY <1>2, <1>18, AddItemMaps
  <2> HIDE DEF w
  <2> QED
    BY <1>1, <2>1
<1> HIDE DEF Goal
<1>19. Goal
  BY <1>7, <1>8, <1>9, <1>10, <1>11, <1>12, <1>13, <1>15, <1>16, <1>17, <1>18 DEF Program
<1> QED
  BY <1>1, <1>19 DEF Goal

----------------------------------------------------------------------------
(* Maps are dictionaries.                                                  *)

\* The mapping, after a step.
LEMMA ContentsNext ==
  (IInv => Contents = DictOf(obj, todo))'
<1>1. IInv => Contents = DictOf(obj, todo)
  BY ContentsAre DEF IInv, InvOf
<1> QED
  BY <1>1, PTL

\* A step of the program or of a call is a step of a dictionary or none.
LEMMA DictStep ==
  ASSUME IInv, IInv', Next
  PROVE  [Dict!Next]_(Dict!vars)
<1> DEFINE d == DictOf(obj, todo)
           e == DictOf(obj', todo')
<1>1. Contents = d
  BY ContentsAre DEF IInv, InvOf
<1>2. Contents' = e
  BY ContentsNext
<1>3. InvOf(obj', own', todo')
  BY DEF IInv
<1>4. DOMAIN d = DictMaps(obj, todo) /\ DictMaps(obj, todo) \subseteq Addr
  BY DEF DictOf, DictMaps
<1> HIDE DEF d, e
<1>5. Idle <=> todo = <<>>
  BY DEF Idle
<1>6. Idle' <=> todo' = <<>>
  BY DEF Idle
<1>7. ASSUME e = d PROVE [Dict!Next]_(Dict!vars)
  <2>1. Contents' = Contents
    BY <1>1, <1>2, <1>7
  <2>2. CASE Idle' <=> Idle
    <3>1. (~Idle)' = ~Idle
      BY <2>2, Zenon
    <3> QED
      BY <2>1, <3>1 DEF Dict!vars
  <2>3. CASE ~(Idle' <=> Idle)
    <3>1. (~Idle)' = ~(~Idle)
      BY <2>3, Zenon
    <3>2. Dict!CallOrReturn
      BY <2>1, <3>1 DEF Dict!CallOrReturn
    <3> QED
      BY <3>2 DEF Dict!Next
  <2> QED
    BY <2>2, <2>3
<1>8. ASSUME NEW a \in DictMaps(obj, todo), GivesUp(d, e, {a}), todo' # <<>>
      PROVE  Dict!Next
  <2>1. Contents' = [m \in DOMAIN Contents \ {a} |-> Contents[m]]
    BY <1>1, <1>2, <1>8 DEF GivesUp
  <2>2. (~Idle)' = TRUE
    BY <1>6, <1>8
  <2>3. Dict!Discard(a)
    BY <2>1, <2>2 DEF Dict!Discard
  <2>4. a \in DOMAIN Contents
    BY <1>1, <1>4
  <2> QED
    BY <2>3, <2>4 DEF Dict!Next
<1>9. ASSUME todo = <<>>, NEW a \in Addr, Makes(d, e, a), todo' = <<>>
      PROVE  Dict!Next
  <2>1. /\ a \notin DOMAIN Contents
        /\ Contents' = [m \in DOMAIN Contents \cup {a} |-> IF m = a THEN {} ELSE Contents[m]]
    BY <1>1, <1>2, <1>9 DEF Makes
  <2>2. Idle /\ Idle'
    BY <1>5, <1>6, <1>9
  <2>3. ~(~Idle) /\ (~Idle)' = ~Idle
    BY <2>2, Zenon
  <2>4. Dict!Make(a)
    BY <2>1, <2>3 DEF Dict!Make
  <2> QED
    BY <2>4 DEF Dict!Next
<1>10. ASSUME todo = <<>>, NEW m \in DictMaps(obj, todo), NEW w \in Val, todo' # <<>>,
              Edits(d, e, m, w, {})
       PROVE  Dict!Next
  <2>1. Contents' = [Contents EXCEPT ![m] = Dict!Others(m, w)]
    BY <1>1, <1>2, <1>10 DEF Edits, Changes, Dict!Others
  <2>2. Idle /\ (~Idle)' = TRUE
    BY <1>5, <1>6, <1>10
  <2>3. Dict!Delete(m, w)
    BY <2>1, <2>2 DEF Dict!Delete
  <2>4. m \in DOMAIN Contents
    BY <1>1, <1>4
  <2> QED
    BY <2>3, <2>4 DEF Dict!Next
<1>11. ASSUME todo = <<>>, NEW m \in DictMaps(obj, todo), NEW w \in Val, todo' # <<>>,
              NEW v \in Addr, Edits(d, e, m, w, {<<w, v>>})
       PROVE  Dict!Next
  <2>1. Contents' = [Contents EXCEPT ![m] = Dict!Others(m, w) \cup {<<w, v>>}]
    BY <1>1, <1>2, <1>11 DEF Edits, Changes, Dict!Others
  <2>2. Idle /\ (~Idle)' = TRUE
    BY <1>5, <1>6, <1>11
  <2>3. Dict!Put(m, w, v)
    BY <2>1, <2>2 DEF Dict!Put
  <2>4. m \in DOMAIN Contents
    BY <1>1, <1>4
  <2> QED
    BY <2>3, <2>4 DEF Dict!Next
<1>12. CASE GoOn
  <2>1. \/ e = d
        \/ \E a \in DictMaps(obj, todo) : GivesUp(d, e, {a}) /\ todo' # <<>>
    BY <1>3, <1>12, GoOnMaps DEF d, e
  <2> QED
    BY <1>7, <1>8, <2>1
<1>13. CASE Program
  <2>1. /\ todo = <<>>
        /\ \/ e = d
           \/ \E a \in DictMaps(obj, todo) : GivesUp(d, e, {a}) /\ todo' # <<>>
           \/ \E a \in Addr : Makes(d, e, a) /\ todo' = <<>>
           \/ \E m \in DictMaps(obj, todo), w \in Val :
                /\ todo' # <<>>
                /\ Edits(d, e, m, w, {}) \/ \E v \in Addr : Edits(d, e, m, w, {<<w, v>>})
    BY <1>3, <1>13, ProgramMaps DEF d, e
  <2> QED
    BY <1>7, <1>8, <1>9, <1>10, <1>11, <2>1
<1> QED
  BY <1>12, <1>13 DEF Next

\* Maps are dictionaries (mmo_ext.h:684): whatever objects are keys and values,
\* a put or delete takes effect on one key of one map when it is called, and
\* what the call still does until it returns, however far its destructions
\* cascade, changes no map that is in use.
THEOREM MapsAreDictionaries == Spec => ImplementsDictionary
<1>1. Init => Dict!Init
  <2> SUFFICES ASSUME Init PROVE Dict!Init
    OBVIOUS
  <2>1. IInv
    BY InitInv
  <2>2. Contents = DictOf(obj, todo)
    BY <2>1, ContentsAre DEF IInv, InvOf
  <2>3. DictMaps(obj, todo) = {} /\ todo = <<>>
    BY DEF Init, DictMaps
  <2>4. Contents = [m \in {} |-> {}]
    BY <2>2, <2>3 DEF DictOf
  <2>5. (~Idle) = FALSE
    BY <2>3 DEF Idle
  <2> QED
    BY <2>4, <2>5 DEF Dict!Init
<1>2. IInv /\ IInv' /\ [Next]_vars => [Dict!Next]_(Dict!vars)
  <2> SUFFICES ASSUME IInv, IInv', [Next]_vars PROVE [Dict!Next]_(Dict!vars)
    OBVIOUS
  <2>1. CASE Next
    BY <2>1, DictStep
  <2>2. CASE UNCHANGED vars
    BY <2>2 DEF vars, Dict!vars, Contents, Entries, KeyVal, Live, Destroying, Idle
  <2> QED
    BY <2>1, <2>2
<1> QED
  BY <1>1, <1>2, Invariant, PTL DEF Spec, ImplementsDictionary, Dict!Spec
==============================================================================
