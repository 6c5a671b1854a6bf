----------------------------- MODULE MCMmUnpack -----------------------------
(* Graphs of three objects: numbers, lists, maps, and objects of a class    *)
(* of the program that is a list with a number and a reference of its own.  *)
EXTENDS MmUnpack, TLC

CONSTANTS o1, o2, o3, x0

Classes == {"MMContainer", "MMInt", "MMList", "MMMap", "MMPrimary", "Quiet", "Tagged"}

Plain(name) == [name |-> name, pack |-> FALSE, init |-> FALSE, fields |-> <<>>]
Hooked(name, fields) == [name |-> name, pack |-> TRUE, init |-> TRUE, fields |-> fields]

\* The allocator of numbers was forgotten.
NotAll == Classes \ {"MMInt"}

F(k, t) == [k |-> k, t |-> t]

\* MMInt, MMList and MMMap are those of mmo_ext.h.  Tagged is a list with a
\* layer that has an fn_init and packs nothing, and one of its own.
ListLayer == Hooked("MMList", <<F(0, "array")>>)
QuietLayer == [Plain("Quiet") EXCEPT !.init = TRUE]
ClassLayers == [n \in Classes |->
  CASE n \in {"MMContainer", "MMPrimary"} -> <<Plain(n)>>
    [] n = "MMInt" -> <<Plain("MMPrimary"), Hooked("MMInt", <<F(0, "integer")>>)>>
    [] n = "MMList" -> <<Plain("MMContainer"), ListLayer>>
    [] n = "MMMap" -> <<Plain("MMContainer"), Hooked("MMMap", <<F(0, "integer"), F(1, "array")>>)>>
    [] n = "Quiet" -> <<ListLayer, QuietLayer>>
    [] n = "Tagged" -> <<ListLayer, QuietLayer,
                         Hooked("Tagged", <<F(0, "integer"), F(1, "ref")>>)>>]

O(cls, body) == [cls |-> cls, body |-> body]
Number == O("MMInt", <<Empty, 0 :> x0>>)
List(items) == O("MMList", <<Empty, 0 :> items>>)
Map(items) == O("MMMap", <<Empty, (0 :> x0) @@ (1 :> items)>>)
Tag(items, ref) == O("Tagged", <<0 :> items, Empty, (0 :> x0) @@ (1 :> ref)>>)

Objects == {o1, o2, o3}

ShapesOfA == {Number, O("MMContainer", <<Empty>>)}
  \cup {List(s) : s \in {<<>>, <<o1>>, <<o2>>, <<o1, o2>>, <<o2, o2>>, <<o3, o2>>}}
  \cup {Map(s) : s \in {<<o3, o1>>, <<o3, o2>>, <<o3, o3>>}}
  \cup {Tag(s, r) : s \in {<<>>, <<o3, o2>>}, r \in Objects \cup {Null}}

ShapesOfB == {Number, O("MMContainer", <<Empty>>)}
  \cup {List(s) : s \in {<<>>, <<o1>>, <<o3, o1>>}}
  \cup {Map(s) : s \in {<<o3, o1>>}}
  \cup {Tag(s, r) : s \in {<<o3>>, <<o1>>}, r \in Objects \cup {Null}}

MCInit ==
  /\ \E u \in ShapesOfA, v \in ShapesOfB :
       graph = (o1 :> u) @@ (o2 :> v) @@ (o3 :> Number)
  /\ Init

MCSpec == MCInit /\ [][Next]_vars /\ WF_vars(Busy /\ Next)
=============================================================================
