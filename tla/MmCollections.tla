---------------------------- MODULE MmCollections ----------------------------
(***************************************************************************)
(* Collections of counted objects (mmo_ext.h): maps with a number as key,  *)
(* sorted or in order of insertion, lists, and strong references.  They    *)
(* own one count of each object they hold.  A release may destroy an       *)
(* object, which releases what it holds, and so on: todo is what the       *)
(* thread has still to do before the call of the program returns.          *)
(*                                                                         *)
(* An MMMapItem is an object too, but its map is its only owner: it is a   *)
(* part of the map here, and releases its key and then its value when it   *)
(* is removed.  The table of a map finds a key by its value; hk is the     *)
(* object in whose memory the table has the key.                           *)
(***************************************************************************)
EXTENDS Integers, Sequences, SequencesExt, FiniteSets

CONSTANTS
  Addr,      \* memory for objects
  Var,       \* pointers of the program that own a count
  Val,       \* values of numbers
  Half,      \* half the range of int, which is -Half .. Half - 1
  MaxItems,  \* bound: items of a map or list
  Null

Kinds == {"int", "map", "sorted", "list", "ref"}
Maps == {"map", "sorted"}
Ptr == Addr \cup {Null}
Item == [k : Ptr, v : Ptr, hk : Ptr]
Elem(v) == [k |-> Null, v |-> v, hk |-> Null]
Object == [kind : Kinds, r : Nat, val : Val \cup {Null}, items : Seq(Item)]

\* A step of a call: what is done, and to which object.
Step == [op : {"retain", "release", "destroy", "insert"}, a : Ptr, item : Item]

ASSUME MmCollectionsAssumption ==
  /\ IsFiniteSet(Addr) /\ IsFiniteSet(Var)
  /\ Half \in Nat \ {0} /\ MaxItems \in Nat \ {0}
  /\ Val \subseteq -Half .. Half - 1
  /\ Null \notin Addr \cup Object

VARIABLES
  obj,    \* the objects
  own,    \* what the pointers of the program point to
  todo    \* what the thread has still to do

vars == <<obj, own, todo>>

Live(a) == a \in Addr /\ obj[a] # Null
Destroying == {f.a : f \in {g \in Range(todo) : g.op = "destroy"}}
Unused == {a \in Addr : Live(a) /\ a \notin Destroying /\ obj[a].r = 0}

\* What an object holds.
PointsTo(a) ==
  IF Live(a) THEN (UNION {{i.k, i.v} : i \in Range(obj[a].items)}) \ {Null} ELSE {}

\* The objects of S, those they hold, and so on.
Reach(S) ==
  {a \in Addr : \A T \in SUBSET Addr : S \subseteq T /\ (\A b \in T : PointsTo(b) \subseteq T) => a \in T}

\* What the program may name: what it owns, what it has autoreleased and not
\* drained, and what it gets at through these.
Known == Reach((Range(own) \ {Null}) \cup Unused)

Idle == todo = <<>>
Is(a, kinds) == obj[a].kind \in kinds

----------------------------------------------------------------------------
(* What a call does, step by step *)

Do(op, a) == [op |-> op, a |-> a, item |-> Elem(Null)]
Insertion(m, i) == [op |-> "insert", a |-> m, item |-> i]

\* A slip: the value of an item is forgotten.
ReleasesOfKey(i) == <<Do("release", i.k)>>

\* destroyMMMapItem, ut_ast_del.
Releases(i) ==
  (IF i.k = Null THEN <<>> ELSE <<Do("release", i.k)>>) \o <<Do("release", i.v)>>

Retained(a) == [obj EXCEPT ![a].r = @ + 1]

DoRetain ==
  /\ Head(todo).op = "retain"
  /\ obj' = Retained(Head(todo).a)
  /\ todo' = Tail(todo)

\* release_mmobj, up to the destructor.
DoRelease ==
  /\ Head(todo).op = "release"
  /\ LET a == Head(todo).a IN
     IF a = Null THEN obj' = obj /\ todo' = Tail(todo) ELSE
     /\ obj' = [obj EXCEPT ![a].r = @ - 1]
     /\ todo' = (IF obj[a].r = 1 THEN <<Do("destroy", a)>> ELSE <<>>) \o Tail(todo)

\* destroyMMMap, destroyMMList, destroyMMReference: one item after the other,
\* and then the object is freed.
DoDestroy ==
  /\ Head(todo).op = "destroy"
  /\ LET a == Head(todo).a
         items == obj[a].items
     IN  IF items = <<>>
         THEN obj' = [obj EXCEPT ![a] = Null] /\ todo' = Tail(todo)
         ELSE /\ obj' = [obj EXCEPT ![a].items = Tail(@)]
              /\ todo' = Releases(Head(items)) \o todo

\* int arithmetic.
Wrap(n) == ((n + Half) % (2 * Half)) - Half

\* compareForMMInt.
Diff(x, y) == Wrap(x - y)

KeyVal(i) == obj[i.k].val

\* A slip: always at the end.
PlaceLast(m, i) == Len(obj[m].items) + 1

\* HASH_ADD_KEYPTR_INORDER: before the first item with a greater key;
\* HASH_ADD_KEYPTR: at the end.
Place(m, i) ==
  IF obj[m].kind = "map" THEN Len(obj[m].items) + 1
  ELSE CHOOSE p \in 1 .. Len(obj[m].items) + 1 :
         /\ p \in DOMAIN obj[m].items => Diff(KeyVal(obj[m].items[p]), KeyVal(i)) > 0
         /\ \A q \in 1 .. p - 1 : Diff(KeyVal(obj[m].items[q]), KeyVal(i)) <= 0

DoInsert ==
  /\ Head(todo).op = "insert"
  /\ LET m == Head(todo).a
         i == Head(todo).item
     IN  obj' = [obj EXCEPT ![m].items = InsertAt(@, Place(m, i), i)]
  /\ todo' = Tail(todo)

GoOn ==
  /\ ~Idle
  /\ DoRetain \/ DoRelease \/ DoDestroy \/ DoInsert
  /\ UNCHANGED own

----------------------------------------------------------------------------
(* The program and its pointers *)

\* alloc_ of a number or a collection.
New(w, a, kind, val) ==
  /\ Idle /\ own[w] = Null /\ ~Live(a)
  /\ obj' = [obj EXCEPT ![a] = [kind |-> kind, r |-> 1, val |-> val, items |-> <<>>]]
  /\ own' = [own EXCEPT ![w] = a]
  /\ UNCHANGED todo

\* allocMMReferenceWithStrongReference.
NewReference(w, a, o) ==
  /\ Idle /\ own[w] = Null /\ ~Live(a)
  /\ obj' = [Retained(o) EXCEPT ![a] =
               [kind |-> "ref", r |-> 1, val |-> Null, items |-> <<Elem(o)>>]]
  /\ own' = [own EXCEPT ![w] = a]
  /\ UNCHANGED todo

Retain(w, o) ==
  /\ Idle /\ own[w] = Null
  /\ obj' = Retained(o)
  /\ own' = [own EXCEPT ![w] = o]
  /\ UNCHANGED todo

Release(w) ==
  /\ Idle /\ own[w] # Null
  /\ todo' = <<Do("release", own[w])>>
  /\ own' = [own EXCEPT ![w] = Null]
  /\ UNCHANGED obj

Autorelease(w) ==
  /\ Idle /\ own[w] # Null
  /\ obj' = [obj EXCEPT ![own[w]].r = @ - 1]
  /\ own' = [own EXCEPT ![w] = Null]
  /\ UNCHANGED todo

\* mgn_mem_release_unused comes to a.
Drain(a) ==
  /\ Idle /\ a \in Unused
  /\ todo' = <<Do("destroy", a)>>
  /\ UNCHANGED <<obj, own>>

----------------------------------------------------------------------------
(* Maps *)

\* A slip: a key is found by its address.
WithKeyObject(m, k) == {p \in DOMAIN obj[m].items : obj[m].items[p].k = k}

\* HASH_FIND: the item of the same key value.
WithKey(m, k) == {p \in DOMAIN obj[m].items : KeyVal(obj[m].items[p]) = obj[k].val}

\* A slip: the old key and value are released first.
ReplaceEarly(i, k, v) == Releases(i) \o <<Do("retain", k), Do("retain", v)>>

\* replaceMMMapItemKeyValue.
Replace(i, k, v) == <<Do("retain", k), Do("retain", v)>> \o Releases(i)

\* Slips: the table keeps the memory of the key it had.
HashKeyOld(m, k) ==
  IF WithKey(m, k) = {} THEN k ELSE obj[m].items[CHOOSE p \in WithKey(m, k) : TRUE].hk

\* The key given is the one the table uses from now on.
HashKey(m, k) == k

\* addMMMapItem.
AddItem(m, k, v) ==
  /\ Idle /\ Is(m, Maps) /\ Is(k, {"int"})
  /\ Len(obj[m].items) < MaxItems \/ WithKey(m, k) # {}
  /\ LET new == [k |-> k, v |-> v, hk |-> HashKey(m, k)]
     IN  IF WithKey(m, k) = {}
         THEN /\ todo' = <<Do("retain", k), Do("retain", v), Insertion(m, new)>>
              /\ UNCHANGED obj
         ELSE LET p == CHOOSE p \in WithKey(m, k) : TRUE
              IN  /\ obj' = [obj EXCEPT ![m].items = RemoveAt(@, p)]
                  /\ todo' = Append(Replace(obj[m].items[p], k, v), Insertion(m, new))
  /\ UNCHANGED own

\* removeMMMapItem.
RemoveItem(m, k) ==
  /\ Idle /\ Is(m, Maps) /\ Is(k, {"int"})
  /\ \E p \in WithKey(m, k) :
       /\ obj' = [obj EXCEPT ![m].items = RemoveAt(@, p)]
       /\ todo' = Releases(obj[m].items[p])
  /\ UNCHANGED own

----------------------------------------------------------------------------
(* Lists *)

\* A slip: items are copied but not retained.
CopiedOnly(held, s) == held

\* ut_ast_copy of the items of s: null, which fills a gap, has no count.
Copied(held, s) ==
  [a \in Addr |-> IF held[a] = Null THEN Null ELSE
     [held[a] EXCEPT !.r = @ + Cardinality({p \in DOMAIN s : s[p].v = a})]]

\* pushMMListItem, and insertMMListItem at idx: beyond the end nulls are put
\* between.
InsertItem(l, o, idx) ==
  /\ Idle /\ Is(l, {"list"})
  /\ Len(obj[l].items) < MaxItems /\ idx < MaxItems
  /\ LET gap == [p \in 1 .. idx - Len(obj[l].items) |-> Elem(Null)]
     IN  obj' = [Copied(obj, <<Elem(o)>>) EXCEPT ![l].items = InsertAt(@ \o gap, idx + 1, Elem(o))]
  /\ UNCHANGED <<own, todo>>

\* concatMMList, of a list with itself too.
ConcatList(l, s) ==
  /\ Idle /\ Is(l, {"list"}) /\ Is(s, {"list"})
  /\ Len(obj[l].items) + Len(obj[s].items) <= MaxItems
  /\ obj' = [Copied(obj, obj[s].items) EXCEPT ![l].items = @ \o obj[s].items]
  /\ UNCHANGED <<own, todo>>

\* popMMListItem, of a list that is not empty: the list's count is given up,
\* and the one taken in between is autoreleased.
PopItem(l) ==
  /\ Idle /\ Is(l, {"list"}) /\ obj[l].items # <<>>
  /\ LET o == Last(obj[l].items).v
         rest == [obj EXCEPT ![l].items = Front(@)]
     IN  obj' = IF o = Null THEN rest ELSE [rest EXCEPT ![o].r = @ - 1]
  /\ UNCHANGED <<own, todo>>

----------------------------------------------------------------------------
Program ==
  LET known == Known
  IN  \/ \E w \in Var :
           \/ \E a \in Addr :
                \/ \E v \in Val : New(w, a, "int", v)
                \/ \E kind \in {"map", "sorted", "list"} : New(w, a, kind, Null)
                \/ \E o \in known : NewReference(w, a, o)
           \/ \E o \in known : Retain(w, o)
           \/ Release(w) \/ Autorelease(w)
      \/ \E a \in known :
           \/ Drain(a) \/ PopItem(a)
           \/ \E b \in known :
                \/ RemoveItem(a, b) \/ ConcatList(a, b)
                \/ \E c \in known : AddItem(a, b, c)
                \/ \E idx \in 0 .. MaxItems - 1 : InsertItem(a, b, idx)

Init == obj = [a \in Addr |-> Null] /\ own = [w \in Var |-> Null] /\ todo = <<>>
Next == Program \/ GoOn
Spec == Init /\ [][Next]_vars

----------------------------------------------------------------------------
(* Properties *)

TypeOK ==
  /\ obj \in [Addr -> Object \cup {Null}]
  /\ \A a \in Addr : Live(a) => Len(obj[a].items) <= MaxItems
  /\ own \in [Var -> Ptr]
  /\ todo \in Seq(Step)

\* How many elements a sequence has in X, and all sequences of f together.
Count(s, X) == Cardinality({p \in DOMAIN s : s[p] \in X})
Total(f, X) ==
  Cardinality({q \in Addr \X (1 .. MaxItems) :
                 q[2] \in DOMAIN f[q[1]] /\ f[q[1]][q[2]] \in X})

\* How often the items of all objects point to a.
Items == [b \in Addr |-> IF Live(b) THEN obj[b].items ELSE <<>>]
Holds(f, a) == Total(f, {i \in Item : i.k = a}) + Total(f, {i \in Item : i.v = a})

\* How many counts of a the steps of s are to give up, less those they are to
\* take: an item about to be inserted is an owner.
Debt(s, a) ==
  Count(s, {f \in Step : f.item.k = a}) + Count(s, {f \in Step : f.item.v = a})
    + Count(s, {f \in Step : f.op = "release" /\ f.a = a})
    - Count(s, {f \in Step : f.op = "retain" /\ f.a = a})

Owners(a) == Cardinality({w \in Var : own[w] = a}) + Holds(Items, a) + Debt(todo, a)

\* Whatever is put, replaced, copied and removed, and however keys and values
\* coincide, each object has one count for every pointer that owns one
\* (mmo_ext.h:590, 595, 777, 785, 838).
CountsAreOwners == \A a \in Addr : Live(a) => obj[a].r = Owners(a)

\* Whoever owns a count, or is about to take one or to give one up, points to
\* an object that is not being destroyed: a replacement survives even if the
\* old value was the last to hold the new one (mmo_ext.h:596).
NoDangling ==
  LET whole(a) == a = Null \/ (Live(a) /\ a \notin Destroying)
  IN  /\ TypeOK
      /\ \A w \in Var : whole(own[w])
      /\ \A a \in Addr : Live(a) => \A i \in Range(obj[a].items) : whole(i.k) /\ whole(i.v)
      /\ \A f \in Range(todo) : whole(f.item.k) /\ whole(f.item.v)
                                /\ (f.op # "destroy" => whole(f.a))

\* The table of a map has each key once, in the memory of the item's own key.
KeysHeld ==
  \A m \in Addr : Live(m) /\ obj[m].kind \in Maps =>
    \A p, q \in DOMAIN obj[m].items :
      /\ obj[m].items[p].hk = obj[m].items[p].k
      /\ KeyVal(obj[m].items[p]) = KeyVal(obj[m].items[q]) => p = q

\* A sorted map is sorted by the values of its keys, as long as no two numbers
\* are farther apart than half the range.
SortedInOrder ==
  (\A x, y \in Val : Diff(x, y) = x - y) =>
  \A m \in Addr : Live(m) /\ obj[m].kind = "sorted" =>
    \A p, q \in DOMAIN obj[m].items :
      p < q => KeyVal(obj[m].items[p]) < KeyVal(obj[m].items[q])

\* Whatever was put, replaced and removed in whatever order, a table points
\* into keys that its own items hold (mmo_ext.h:705), and a sorted map is in
\* order (mmo_ext.h:704).
MapsInOrder == KeysHeld /\ SortedInOrder

\* What no call can reach any more is held by a cycle of objects: the library
\* loses no other memory.
GarbageIsCyclic ==
  Idle => \A a \in Addr : Live(a) /\ a \notin Known =>
            \E b \in Addr : b \in Reach(PointsTo(b)) /\ a \in Reach({b})

\* A map is a dictionary, whatever objects keys and values are: a put takes
\* effect on its key alone, and neither the counts it moves nor the
\* destructions it sets off change a map that is still in use (mmo_ext.h:684).
Entries(m) ==
  {<<KeyVal(i), i.v>> : i \in Range(obj[m].items)
     \cup {f.item : f \in {g \in Range(todo) : g.op = "insert" /\ g.a = m}}}

Contents == [m \in {a \in Addr : Live(a) /\ obj[a].kind \in Maps} \ Destroying |-> Entries(m)]

Dict == INSTANCE Dictionary WITH Name <- Addr, Key <- Val, Value <- Addr,
          running <- ~Idle, dict <- Contents
ImplementsDictionary == Dict!Spec
=============================================================================
