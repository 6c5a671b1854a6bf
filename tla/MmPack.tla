------------------------------- MODULE MmPack -------------------------------
(***************************************************************************)
(* The packer of mmo_pack.c.  A graph of objects is written as a stream of *)
(* tagged values: every object once, under the number it got when it was   *)
(* met, and a reference by number wherever another one refers to it.       *)
(* Tokens stand for their bytes; how those are written and read back is    *)
(* the subject of modules Typdex, VarCodec and Dypkt.                      *)
(*                                                                         *)
(* An object has the layers of its class.  The hooks fn_pack and fn_init   *)
(* of a layer are code of the program: its fields say what the first       *)
(* writes, in this order, and the second reads, in any order.              *)
(***************************************************************************)
EXTENDS Integers, Sequences, SequencesExt, FiniteSets

CONSTANTS
  Obj,        \* objects of the program that packs
  Class,      \* names of classes
  Layers,     \* the layers of each class, the root first
  RootKey,    \* bound: keys 0 .. RootKey - 1 of what the program packs
  Leaf,       \* values of numbers and data
  Null

Leaves == {"integer", "float", "double", "raw"}

Layer == [name : Class, pack : BOOLEAN, init : BOOLEAN,
          fields : Seq([k : Nat, t : Leaves \cup {"ref", "array"}])]

ASSUME MmPackAssumption ==
  /\ Layers \in [Class -> Seq(Layer)]
  /\ \A c \in Class : \A l \in DOMAIN Layers[c] : \A i, j \in DOMAIN Layers[c][l].fields :
       Layers[c][l].fields[i].k = Layers[c][l].fields[j].k => i = j
  /\ \A c \in Class : \A l, m \in DOMAIN Layers[c] :
       Layers[c][l].name = Layers[c][m].name => l = m
  /\ IsFiniteSet(Class)
  /\ RootKey \in Nat
  /\ Null \notin Obj \cup Leaf \cup Nat \cup [i : Nat, l : Nat]

VARIABLES
  graph,      \* class and fields of each object: body[l][k]
  num,        \* obj_to_id and id_to_obj: the objects met, number 0 first
  names,      \* class_name_to_id: the names met, number 0 first
  out,        \* the stream
  doing,      \* processing_i and the layer to be packed next, or Null
  roots       \* what the program packed under each key

packer == <<num, names, out, doing, roots>>

\* The value of a field of type t.
IsValue(t, v) ==
  CASE t = "array" -> v \in Seq(Obj)
    [] t = "ref" -> v \in Obj \cup {Null}
    [] OTHER -> v \in Leaf

IsObject(x) ==
  /\ x.cls \in Class /\ DOMAIN x.body = DOMAIN Layers[x.cls]
  /\ \A l \in DOMAIN x.body : LET fs == Layers[x.cls][l].fields IN
       /\ DOMAIN x.body[l] = {fs[i].k : i \in DOMAIN fs}
       /\ \A i \in DOMAIN fs : IsValue(fs[i].t, x.body[l][fs[i].k])

----------------------------------------------------------------------------
\* f with v under k, in place of what was there.
Under(f, k, v) == [x \in DOMAIN f \cup {k} |-> IF x = k THEN v ELSE f[x]]

Tok(t, k, v) == [t |-> t, k |-> k, v |-> v]

\* The number of o among those met.
Id(met, o) == (CHOOSE i \in DOMAIN met : met[i] = o) - 1

\* o gets the next number unless it has one.
Numbered(met, o) == IF o \in Range(met) THEN met ELSE Append(met, o)

\* One object after the other.
AllNumbered(met, os) ==
  LET m[i \in 0 .. Len(os)] == IF i = 0 THEN met ELSE Numbered(m[i - 1], os[i])
  IN  m[Len(os)]

\* db_save_object_name: the name is in the stream before its first use.
NameTokens(n) ==
  IF n \in Range(names) THEN <<>> ELSE <<Tok("name", Len(names), n)>>
Named(n) == IF n \in Range(names) THEN names ELSE Append(names, n)

\* The objects a field refers to, in the order it packs them.
Refs(f, v) ==
  CASE f.t = "array" -> v
    [] f.t = "ref" /\ v # Null -> <<v>>
    [] OTHER -> <<>>

\* What the pack_ calls for a field write; those met have their numbers.
FieldTokens(met, f, v) ==
  CASE f.t = "array" ->
         <<Tok("array", f.k, Len(v) + 1)>>
           \o [i \in DOMAIN v |-> Tok("ref", 0, Id(met, v[i]))]
           \o <<Tok("array", f.k, 0)>>
    [] f.t = "ref" -> IF v = Null THEN <<>> ELSE <<Tok("ref", f.k, Id(met, v))>>
    [] OTHER -> <<Tok(f.t, f.k, v)>>

----------------------------------------------------------------------------
\* Slips: all objects are packed again for each root; an object that has just
\* got its number is taken for one that is in the stream.
StartAnew(o) == 0
StartAfter(o) == Len(Numbered(num, o))

\* The first object a call of pack_mmobj has to pack: those met before are in
\* the stream already.
Start(o) == Len(num)

\* pack_mmobj of the program: a reference, and then all the objects it leads
\* to.
PackRoot(o) ==
  /\ doing = Null /\ Cardinality(DOMAIN roots) < RootKey
  /\ LET k == Cardinality(DOMAIN roots)
         met == Numbered(num, o)
     IN  /\ num' = met
         /\ out' = Append(out, Tok("ref", k, Id(met, o)))
         /\ roots' = Under(roots, k, [t |-> "ref", v |-> o])
  /\ doing' = [i |-> Start(o), l |-> 0]
  /\ UNCHANGED names

\* pack_varint and its siblings, called by the program.
PackRootLeaf(v) ==
  /\ doing = Null /\ Cardinality(DOMAIN roots) < RootKey
  /\ LET k == Cardinality(DOMAIN roots)
     IN  /\ out' = Append(out, Tok("integer", k, v))
         /\ roots' = Under(roots, k, [t |-> "integer", v |-> v])
  /\ UNCHANGED <<num, names, doing>>

Current == num[doing.i + 1]
CurrentLayers == Layers[graph[Current].cls]
Packing == doing # Null /\ doing.i < Len(num)

\* The loop comes to the next object.
PackObject ==
  /\ Packing /\ doing.l = 0
  /\ LET c == graph[Current].cls
     IN  /\ names' = Named(c)
         /\ out' = out \o NameTokens(c) \o <<Tok("object", doing.i, Id(names', c))>>
  /\ doing' = [doing EXCEPT !.l = 1]
  /\ UNCHANGED <<num, roots>>

\* pack_ of a layer: packNextContext and the hook.  References in it are
\* numbered, and their objects are left to the loop.
PackLayer ==
  /\ Packing /\ doing.l \in DOMAIN CurrentLayers
  /\ LET layer == CurrentLayers[doing.l]
         body == graph[Current].body[doing.l]
         fs == layer.fields
         refs == FlattenSeq([i \in DOMAIN fs |-> Refs(fs[i], body[fs[i].k])])
         met == AllNumbered(num, refs)
         fields == FlattenSeq([i \in DOMAIN fs |-> FieldTokens(met, fs[i], body[fs[i].k])])
     IN  IF layer.pack
         THEN /\ num' = met
              /\ names' = Named(layer.name)
              /\ out' = out \o NameTokens(layer.name)
                            \o <<Tok("context", Id(names', layer.name), Null)>> \o fields
         ELSE UNCHANGED <<num, names, out>>
  /\ doing' = [doing EXCEPT !.l = @ + 1]
  /\ UNCHANGED roots

PackEnd ==
  /\ Packing /\ doing.l > Len(CurrentLayers)
  /\ out' = Append(out, Tok("object", doing.i, Null))
  /\ doing' = [i |-> doing.i + 1, l |-> 0]
  /\ UNCHANGED <<num, names, roots>>

PackDone ==
  /\ doing # Null /\ doing.i >= Len(num)
  /\ doing' = Null
  /\ UNCHANGED <<num, names, out, roots>>

Pack == PackObject \/ PackLayer \/ PackEnd \/ PackDone

PackInit ==
  /\ \A o \in Obj : IsObject(graph[o])
  /\ num = <<>> /\ names = <<>>
  /\ out = <<Tok("function", 1, 1)>>
  /\ doing = Null
  /\ roots = <<>>

----------------------------------------------------------------------------
(* Properties of the stream *)

Starts(n) == {p \in DOMAIN out : out[p].t = "object" /\ out[p].k = n /\ out[p].v # Null}

\* Whenever the packer is not at work, every number that was given out stands
\* for one object of the stream, referred to as often as need be and by
\* whichever root (mmo_pack.c:124, "to avoid redundant serialization").
WrittenOnce ==
  doing = Null =>
    /\ \A n \in 0 .. Len(num) - 1 : Cardinality(Starts(n)) = 1
    /\ \A p \in DOMAIN out : out[p].t = "ref" => out[p].v \in 0 .. Len(num) - 1
=============================================================================
