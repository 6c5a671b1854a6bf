----------------------------- MODULE MmReadProofs -----------------------------
(***************************************************************************)
(* What the unpacker does with the packer's stream, for every graph of     *)
(* objects and every class the process registered: process() accepts the   *)
(* stream (ParserInvariance), the unpack_ calls follow the calls pack_mmobj*)
(* made (ReadState), and what they leave behind is a copy of the graph     *)
(* (CopyInv).                                                              *)
(***************************************************************************)
EXTENDS MmUnpackProofs

----------------------------------------------------------------------------
(* What the unpack_ calls have made so far                                 *)

\* What they do not change.
World == [graph |-> graph, num |-> num, box |-> box, roots |-> roots]

\* The object that id is made of.
Source(w, m, id) == w.graph[w.num[m[id].num + 1]]

\* id is the one made of o.
IsTwin(w, m, id, o) == id \in DOMAIN m /\ w.num[m[id].num + 1] = o

\* All properties of object o are in box b.
Whole(w, b, o) == ObjectOK(w.box, w.num, b, o, Len(Layers[o.cls]))

\* A field of type t, whose value is v in the source, got r.
Copies(w, m, t, v, r) ==
  CASE t = "array" -> IsSeq(r) /\ Len(r) = Len(v) /\ \A j \in 1 .. Len(v) : IsTwin(w, m, r[j], v[j])
    [] t = "ref" -> IF v = Null THEN r = Null ELSE IsTwin(w, m, r, v)
    [] OTHER -> r = v

\* What field s of object i got.
SlotOK(w, m, i, s) ==
  \E l \in DOMAIN Layers[m[i].cls] : \E x \in Range(Layers[m[i].cls][l].fields) :
    s = <<l, x.k>> /\ Copies(w, m, x.t, Source(w, m, i).body[l][x.k], m[i].got[s])

MadesOK(w, m) ==
  /\ MadeSeq(m)
  /\ \A i \in DOMAIN m :
       /\ m[i].num \in 0 .. Len(w.num) - 1 /\ m[i].cls = Source(w, m, i).cls
       /\ \A s \in DOMAIN m[i].got : SlotOK(w, m, i, s)

\* Each number has the properties of its object, or the one made of them.
ObjectsOK(w, m, obs) ==
  /\ DOMAIN obs = 0 .. Len(w.num) - 1
  /\ \A n \in DOMAIN obs :
       \/ obs[n].t = "map" /\ Whole(w, obs[n].v, w.graph[w.num[n + 1]])
       \/ obs[n].t = "made" /\ obs[n].v \in DOMAIN m /\ m[obs[n].v].num = n

\* The layer a call is at, and its fields in the source.
FieldsAt(m, f) == Layers[m[f.id].cls][f.l].fields
BodyAt(w, m, f) == Source(w, m, f.id).body[f.l]

ArrOK(w, m, f) ==
  /\ f.arr = [key |-> f.arr.key, n |-> f.arr.n, items |-> f.arr.items]
  /\ f.arr.key \in f.todo
  /\ \E x \in Range(FieldsAt(m, f)) : x.k = f.arr.key /\ x.t = "array"
  /\ LET v == BodyAt(w, m, f)[f.arr.key]
     IN  /\ f.arr.n = Len(v) /\ IsSeq(f.arr.items) /\ Len(f.arr.items) <= Len(v)
         /\ \A j \in 1 .. Len(f.arr.items) : IsTwin(w, m, f.arr.items[j], v[j])

FrameOK(w, m, f) ==
  /\ f = [key |-> f.key, id |-> f.id, map |-> f.map, l |-> f.l, todo |-> f.todo, arr |-> f.arr]
  /\ f.id \in DOMAIN m /\ Whole(w, f.map, Source(w, m, f.id))
  /\ f.l \in 0 .. Len(Layers[m[f.id].cls])
  /\ f.l = 0 => f.todo = {}
  /\ f.l # 0 => f.todo \subseteq {x.k : x \in Range(FieldsAt(m, f))}
  /\ f.arr # Null => ArrOK(w, m, f)

FramesOK(w, m, cs) ==
  /\ IsSeq(cs) /\ \A i \in DOMAIN cs : FrameOK(w, m, cs[i])
  /\ \A i, j \in DOMAIN cs : cs[i].id = cs[j].id => i = j

\* Call f waits for what is under key k, and that is object o.
Due(w, m, f, k, o) ==
  IF f.arr = Null
  THEN /\ k \in f.todo /\ BodyAt(w, m, f)[k] = o
       /\ \E x \in Range(FieldsAt(m, f)) : x.k = k /\ x.t = "ref"
  ELSE /\ k = Len(f.arr.items) /\ k < f.arr.n
       /\ BodyAt(w, m, f)[f.arr.key][k + 1] = o

RootDue(w, gv, k, o) ==
  k \in DOMAIN w.roots \ DOMAIN gv /\ w.roots[k].t = "ref" /\ w.roots[k].v = o

\* Each call is for what the one before waits for.
DueOK(w, m, cs, gv) ==
  \A i \in DOMAIN cs :
    LET o == w.num[m[cs[i].id].num + 1]
    IN  IF i = 1 THEN RootDue(w, gv, cs[i].key, o) ELSE Due(w, m, cs[i - 1], cs[i].key, o)

\* The objects a layer refers to.
LayerRefs(fs, body) == UNION {Range(Refs(x, body[x.k])) : x \in Range(fs)}

ClosedIn(gr, T) == \A p \in T : \A l \in DOMAIN gr[p].body :
  LayerRefs(Layers[gr[p].cls][l].fields, gr[p].body[l]) \subseteq T

\* A call is for an object that the layers of the calls before it lead to.
LedOK(w, m, cs) ==
  \A i, j \in DOMAIN cs : i < j => \A T \in SUBSET Obj :
    ClosedIn(w.graph, T) /\ LayerRefs(FieldsAt(m, cs[i]), BodyAt(w, m, cs[i])) \subseteq T
      => w.num[m[cs[j].id].num + 1] \in T

\* No layer with a hook has begun.
Waits(m, f) == \A l \in 1 .. f.l : ~Layers[m[f.id].cls][l].init

WaitOK(m, cs, la) ==
  \A i \in DOMAIN cs : Waits(m, cs[i]) <=> i = Len(cs) /\ la # Null

HooksBegun(layers, f) == {l \in 1 .. f.l : layers[l].init}
LastHook(layers, f) == CHOOSE l \in HooksBegun(layers, f) : \A j \in HooksBegun(layers, f) : j <= l

\* The context of the last layer with a hook that has begun, if it has one.
CtxOf(b, layers, f) ==
  IF HooksBegun(layers, f) # {} /\ layers[LastHook(layers, f)].name \in DOMAIN b[f.map].ctx
  THEN <<b[f.map].ctx[layers[LastHook(layers, f)].name]>> ELSE <<>>

ListOf(b, ctx, f) == IF f.arr = Null THEN <<>> ELSE <<b[Last(ctx)].at[f.arr.key].v>>

BoxesOf(b, layers, f) == <<f.map>> \o CtxOf(b, layers, f) \o ListOf(b, CtxOf(b, layers, f), f)

AllBoxes(w, m, cs) == [i \in DOMAIN cs |-> BoxesOf(w.box, Layers[m[cs[i].id].cls], cs[i])]

\* The boxes of all calls, and that of the roots below.
Piled(w, m, cs) == << 1 >> \o FlattenSeq(AllBoxes(w, m, cs))

GivenOK(w, m, gv) ==
  /\ DOMAIN gv \subseteq DOMAIN w.roots
  /\ \A k \in DOMAIN gv : Copies(w, m, w.roots[k].t, w.roots[k].v, gv[k])

\* What is left to the calls under way has not been got, and all else has.
HasGot(cs, i, l, k) == \A j \in DOMAIN cs : cs[j].id = i => l < cs[j].l \/ (l = cs[j].l /\ k \notin cs[j].todo)

LeftOK(m, cs) ==
  \A i \in DOMAIN m : \A l \in DOMAIN Layers[m[i].cls] : \A x \in Range(Layers[m[i].cls][l].fields) :
    <<l, x.k>> \in DOMAIN m[i].got <=> HasGot(cs, i, l, x.k)

\* The calls cs are under way, and objects m have been made.
ReadAt(w, m, obs, cs, gv, la, st) ==
  /\ MadesOK(w, m) /\ ObjectsOK(w, m, obs) /\ GivenOK(w, m, gv)
  /\ FramesOK(w, m, cs) /\ DueOK(w, m, cs, gv) /\ LedOK(w, m, cs)
  /\ WaitOK(m, cs, la) /\ LeftOK(m, cs) /\ st = Piled(w, m, cs)

NowOK(w) ==
  /\ ReadAt(w, made, objects, calls, given, last, stack)
  /\ Len(calls) <= MaxDepth /\ fault = "none"

\* Objects stay what they are as more are made and fields are filled.
Grows(m, g) == DOMAIN m \subseteq DOMAIN g /\ \A i \in DOMAIN m : g[i].num = m[i].num /\ g[i].cls = m[i].cls

\* What was made of an object stays that.
LEMMA TwinStays ==
  ASSUME NEW m, NEW g, Grows(m, g), NEW w, NEW id, NEW o, IsTwin(w, m, id, o)
  PROVE  IsTwin(w, g, id, o)
BY DEF IsTwin, Grows

\* What a field got stays the copy of its value.
LEMMA CopyStays ==
  ASSUME NEW m, NEW g, Grows(m, g), NEW w, NEW t, NEW v, NEW r, Copies(w, m, t, v, r)
  PROVE  Copies(w, g, t, v, r)
<1>1. \A id, o : IsTwin(w, m, id, o) => IsTwin(w, g, id, o)
  BY SMTT(30), TwinStays
<1> QED
  BY <1>1 DEF Copies

\* So does what a call is at.
LEMMA PlaceStays ==
  ASSUME NEW m, NEW g, Grows(m, g), NEW w, NEW f, f.id \in DOMAIN m
  PROVE  /\ Source(w, g, f.id) = Source(w, m, f.id) /\ FieldsAt(g, f) = FieldsAt(m, f)
         /\ BodyAt(w, g, f) = BodyAt(w, m, f) /\ g[f.id].cls = m[f.id].cls /\ g[f.id].num = m[f.id].num
BY DEF Grows, Source, FieldsAt, BodyAt

\* A call that is all right stays so.
LEMMA FrameStays ==
  ASSUME NEW m, NEW g, Grows(m, g), NEW w, NEW f, FrameOK(w, m, f)
  PROVE  FrameOK(w, g, f)
<1>1. f.id \in DOMAIN m /\ f.id \in DOMAIN g
  BY DEF FrameOK, Grows
<1>2. /\ Source(w, g, f.id) = Source(w, m, f.id) /\ FieldsAt(g, f) = FieldsAt(m, f)
      /\ BodyAt(w, g, f) = BodyAt(w, m, f) /\ g[f.id].cls = m[f.id].cls
  BY <1>1, PlaceStays
<1>3. ArrOK(w, m, f) => ArrOK(w, g, f)
  <2>1. \A id, o : IsTwin(w, m, id, o) => IsTwin(w, g, id, o)
    BY TwinStays
  <2> QED
    BY <1>2, <2>1 DEF ArrOK
<1> QED
  BY <1>1, <1>2, <1>3 DEF FrameOK

\* All calls that are all right stay so.
LEMMA FramesStay ==
  ASSUME NEW m, NEW g, Grows(m, g), NEW w, NEW cs, FramesOK(w, m, cs)
  PROVE  FramesOK(w, g, cs)
BY FrameStays DEF FramesOK

\* What a call waits for stays that.
LEMMA DueStays ==
  ASSUME NEW m, NEW g, Grows(m, g), NEW w, NEW f, f.id \in DOMAIN m, NEW k, NEW o, Due(w, m, f, k, o)
  PROVE  Due(w, g, f, k, o)
BY PlaceStays DEF Due

\* So do all calls.
LEMMA CallsStay ==
  ASSUME NEW m, NEW g, Grows(m, g), NEW w, NEW cs, FramesOK(w, m, cs)
  PROVE  /\ FramesOK(w, g, cs)
         /\ LedOK(w, m, cs) => LedOK(w, g, cs)
         /\ \A gv : DueOK(w, m, cs, gv) => DueOK(w, g, cs, gv)
         /\ \A la : WaitOK(m, cs, la) => WaitOK(g, cs, la)
         /\ AllBoxes(w, g, cs) = AllBoxes(w, m, cs)
<1>1. FramesOK(w, g, cs)
  BY FramesStay
<1>2. \A i \in DOMAIN cs : cs[i].id \in DOMAIN m
  BY DEF FramesOK, FrameOK
<1>3. ASSUME NEW i \in DOMAIN cs
      PROVE  /\ g[cs[i].id].num = m[cs[i].id].num /\ g[cs[i].id].cls = m[cs[i].id].cls
             /\ FieldsAt(g, cs[i]) = FieldsAt(m, cs[i]) /\ BodyAt(w, g, cs[i]) = BodyAt(w, m, cs[i])
  <2>1. PICK f : f = cs[i]
    OBVIOUS
  <2>2. f.id \in DOMAIN m
    BY <1>2, <2>1
  <2> QED
    BY <2>1, <2>2, PlaceStays
<1>4. LedOK(w, m, cs) => LedOK(w, g, cs)
  BY <1>3 DEF LedOK
<1>5. \A gv : DueOK(w, m, cs, gv) => DueOK(w, g, cs, gv)
  <2> SUFFICES ASSUME NEW gv, DueOK(w, m, cs, gv) PROVE DueOK(w, g, cs, gv)
    OBVIOUS
  <2>1. ASSUME NEW i \in DOMAIN cs, i # 1, NEW o, Due(w, m, cs[i - 1], cs[i].key, o)
        PROVE  Due(w, g, cs[i - 1], cs[i].key, o)
    <3>1. i - 1 \in DOMAIN cs
      <4>1. DOMAIN cs = 1 .. Len(cs) /\ Len(cs) \in Nat
        BY SeqPlaces DEF FramesOK
      <4> QED
        BY <2>1, <4>1
    <3>2. PICK f : f = cs[i - 1]
      OBVIOUS
    <3>3. PICK k : k = cs[i].key
      OBVIOUS
    <3>4. f.id \in DOMAIN m /\ Due(w, m, f, k, o)
      BY <1>2, <2>1, <3>1, <3>2, <3>3
    <3>5. Due(w, g, f, k, o)
      BY <3>4, DueStays
    <3> QED
      BY <3>2, <3>3, <3>5
  <2> QED
    BY <1>3, <2>1 DEF DueOK
<1>6. \A la : WaitOK(m, cs, la) => WaitOK(g, cs, la)
  BY <1>3 DEF WaitOK, Waits
<1>7. AllBoxes(w, g, cs) = AllBoxes(w, m, cs)
  BY <1>3 DEF AllBoxes
<1> QED
  BY <1>1, <1>4, <1>5, <1>6, <1>7

\* What the program was given stays what it packed.
LEMMA GivenStays ==
  ASSUME NEW m, NEW g, Grows(m, g), NEW w, NEW gv, GivenOK(w, m, gv)
  PROVE  GivenOK(w, g, gv)
BY CopyStays DEF GivenOK

\* No object leads to itself from a layer other than its last.
SafeIn(gr) ==
  \A o \in Obj : \A l \in 1 .. Len(Layers[gr[o].cls]) - 1 : \E T \in SUBSET Obj :
    ClosedIn(gr, T) /\ LayerRefs(Layers[gr[o].cls][l].fields, gr[o].body[l]) \subseteq T /\ o \notin T

WorldOK(w) ==
  /\ \A o \in Obj : IsObject(w.graph[o])
  /\ w.num \in Seq(Obj) /\ ShowsRoots(w.box, w.num, w.roots) /\ SafeIn(w.graph)
  /\ \A k \in DOMAIN w.roots : w.roots[k].t \in {"ref", "integer"}

\* What the program has to see to.
LEMMA SafeIs ==
  ASSUME SafeGraph
  PROVE  SafeIn(graph)
<1> SUFFICES ASSUME NEW o \in Obj, NEW l \in 1 .. Len(Layers[graph[o].cls]) - 1
             PROVE  \E T \in SUBSET Obj : /\ ClosedIn(graph, T) /\ o \notin T
                      /\ LayerRefs(Layers[graph[o].cls][l].fields, graph[o].body[l]) \subseteq T
  BY Zenon DEF SafeIn
<1> DEFINE S == LayerRefs(Layers[graph[o].cls][l].fields, graph[o].body[l])
<1>1. o \notin Reach(S)
  BY DEF SafeGraph, LayerRefs
<1> HIDE DEF S
<1>2. PICK T \in SUBSET Obj : S \subseteq T /\ (\A p \in T : RefsOf(p) \subseteq T) /\ o \notin T
  BY <1>1 DEF Reach
<1>3. ClosedIn(graph, T)
  BY <1>2 DEF ClosedIn, RefsOf, LayerRefs
<1> QED
  BY <1>2, <1>3 DEF S

\* The layer a call is at.
LEMMA FrameAt ==
  ASSUME NEW w, WorldOK(w), NEW m, MadesOK(w, m), NEW f, FrameOK(w, m, f)
  PROVE  LET layers == Layers[m[f.id].cls]
             x == Source(w, m, f.id)
         IN  /\ f.id \in DOMAIN m /\ IsObject(x) /\ x.cls = m[f.id].cls /\ m[f.id].cls \in Class
             /\ layers \in Seq(Layer) /\ DOMAIN layers = 1 .. Len(layers) /\ Len(layers) \in Nat
             /\ f.l \in Nat /\ f.l <= Len(layers)
             /\ w.num[m[f.id].num + 1] \in Obj
             /\ f.l # 0 =>
                  /\ f.l \in DOMAIN layers /\ FieldsAt(m, f) = layers[f.l].fields
                  /\ FieldsAt(m, f) \in Seq(Fields)
                  /\ \A i, j \in Range(FieldsAt(m, f)) : i.k = j.k => i = j
                  /\ \A i \in Range(FieldsAt(m, f)) : i \in Fields /\ IsValue(i.t, BodyAt(w, m, f)[i.k])
<1> DEFINE cls == m[f.id].cls
           layers == Layers[cls]
           x == Source(w, m, f.id)
           fs == FieldsAt(m, f)
<1>1. f.id \in DOMAIN m /\ f.l \in 0 .. Len(layers)
  BY DEF FrameOK
<1>2. m[f.id].num \in 0 .. Len(w.num) - 1 /\ cls = x.cls
  BY <1>1 DEF MadesOK
<1>3. w.num \in Seq(Obj) /\ w.num[m[f.id].num + 1] \in Obj
  <2>1. w.num \in Seq(Obj)
    BY DEF WorldOK
  <2>2. m[f.id].num + 1 \in 1 .. Len(w.num)
    BY <1>2, <2>1
  <2> QED
    BY <2>1, <2>2
<1>4. IsObject(x)
  BY <1>3 DEF WorldOK, Source
<1>5. cls \in Class
  BY Zenon, <1>2, <1>4 DEF IsObject
<1>6. layers \in Seq(Layer)
  BY <1>5, MmPackAssumption
<1>7. DOMAIN layers = 1 .. Len(layers) /\ Len(layers) \in Nat
  <2> HIDE DEF layers
  <2> QED
    BY <1>6
<1>8. ASSUME f.l # 0
      PROVE  /\ f.l \in DOMAIN layers /\ fs = layers[f.l].fields
             /\ fs \in Seq(Fields)
             /\ \A i, j \in Range(fs) : i.k = j.k => i = j
             /\ \A i \in Range(fs) : i \in Fields /\ IsValue(i.t, BodyAt(w, m, f)[i.k])
  <2>1. f.l \in DOMAIN layers
    BY <1>1, <1>7, <1>8
  <2>2. fs = layers[f.l].fields
    BY DEF FieldsAt
  <2>3. fs \in Seq(Fields)
    BY <1>5, <2>1, <2>2, LayerIs
  <2>4. \A i, j \in DOMAIN fs : fs[i].k = fs[j].k => i = j
    BY <1>5, <2>1, <2>2, MmPackAssumption
  <2>5. \A i \in DOMAIN fs : IsValue(fs[i].t, BodyAt(w, m, f)[fs[i].k])
    <3>1. BodyAt(w, m, f) = x.body[f.l]
      BY DEF BodyAt
    <3>2. PICK y : y = x
      OBVIOUS
    <3>3. PICK l : l = f.l
      OBVIOUS
    <3>4. IsObject(y) /\ y.cls = cls /\ l \in DOMAIN Layers[y.cls] /\ fs = Layers[y.cls][l].fields
      BY <1>2, <1>4, <2>1, <2>2, <3>2, <3>3
    <3>5. \A i \in DOMAIN fs : IsValue(fs[i].t, y.body[l][fs[i].k])
      <4> HIDE DEF fs
      <4> QED
        BY Zenon, <3>4 DEF IsObject
    <3> QED
      BY <3>1, <3>2, <3>3, <3>5
  <2>6. \A i \in DOMAIN fs : fs[i] \in Fields
    <3> HIDE DEF fs
    <3> QED
      BY <2>3
  <2> QED
    BY Zenon, <2>1, <2>2, <2>3, <2>4, <2>5, <2>6 DEF Range
<1> QED
  BY <1>1, <1>2, <1>3, <1>4, <1>5, <1>6, <1>7, <1>8

\* The context of the layer a call is at, if the layer has fields.
ContextAt(w, m, f) == w.box[f.map].ctx[Layers[m[f.id].cls][f.l].name]

\* It is a box, and has what was packed of the fields of the layer.
LEMMA ContextIs ==
  ASSUME NEW w, WorldOK(w), NEW m, MadesOK(w, m), NEW f, FrameOK(w, m, f), f.l # 0,
         NEW y \in Range(FieldsAt(m, f))
  PROVE  LET layer == Layers[m[f.id].cls][f.l]
             c == ContextAt(w, m, f)
         IN  /\ layer.init /\ layer.name \in DOMAIN w.box[f.map].ctx
             /\ c \in DOMAIN w.box /\ w.box[c].kind = "context"
             /\ EntryOK(w.box, w.num, w.box[c].at, y, BodyAt(w, m, f)[y.k])
<1> DEFINE layers == Layers[m[f.id].cls]
           layer == layers[f.l]
           x == Source(w, m, f.id)
           c == ContextAt(w, m, f)
<1>1. /\ x.cls = m[f.id].cls /\ m[f.id].cls \in Class /\ f.l \in DOMAIN layers
      /\ FieldsAt(m, f) = layer.fields /\ f.l <= Len(layers) /\ layer.fields \in Seq(Fields)
  BY FrameAt
<1>2. layer.fields # <<>>
  BY <1>1 DEF Range
<1>3. layer.pack /\ layer.init
  BY <1>1, <1>2, MmUnpackAssumption
<1>4. Whole(w, f.map, x)
  BY DEF FrameOK
<1>5. ObjectOK(w.box, w.num, f.map, x, Len(Layers[x.cls]))
  BY <1>4 DEF Whole
<1>6. layer.name \in DOMAIN w.box[f.map].ctx
      /\ ContextOK(w.box, w.num, w.box[f.map].ctx[layer.name], layer.fields, x.body[f.l])
  BY Zenon, <1>1, <1>3, <1>5 DEF ObjectOK
<1>7. c = w.box[f.map].ctx[layer.name] /\ BodyAt(w, m, f) = x.body[f.l]
  BY DEF ContextAt, BodyAt
<1>8. PICK i \in DOMAIN layer.fields : y = layer.fields[i]
  BY ZenonT(60), <1>1 DEF Range
<1>9. EntryOK(w.box, w.num, w.box[c].at, y, BodyAt(w, m, f)[y.k])
  BY Zenon, <1>6, <1>7, <1>8 DEF ContextOK
<1> QED
  BY Zenon, <1>3, <1>6, <1>7, <1>9 DEF ContextOK

\* The context of a layer with a hook is the one of the call.
LEMMA CtxAt ==
  ASSUME NEW b, NEW layers, NEW f, f.l \in Nat \ {0}, layers[f.l].init
  PROVE  /\ HooksBegun(layers, f) # {} /\ LastHook(layers, f) = f.l
         /\ CtxOf(b, layers, f) = IF layers[f.l].name \in DOMAIN b[f.map].ctx
                                  THEN <<b[f.map].ctx[layers[f.l].name]>> ELSE <<>>
<1>1. f.l \in HooksBegun(layers, f) /\ \A j \in HooksBegun(layers, f) : j <= f.l /\ j \in Nat
  BY DEF HooksBegun
<1>2. \A l \in HooksBegun(layers, f) : (\A j \in HooksBegun(layers, f) : j <= l) => l = f.l
  BY <1>1
<1>3. LastHook(layers, f) = f.l
  BY <1>1, <1>2 DEF LastHook
<1> QED
  BY <1>1, <1>3 DEF CtxOf

----------------------------------------------------------------------------
(* The stack of the unpack_ calls                                          *)

\* A box is put on a stack.
LEMMA PutOn ==
  ASSUME NEW p \in Seq(Nat), NEW c \in Nat
  PROVE  /\ p \o <<c>> = Append(p, c) /\ p \o <<>> = p
         /\ Append(p, c) \in Seq(Nat) /\ Append(p, c) # <<>>
         /\ Len(Append(p, c)) = Len(p) + 1 /\ Len(p) \in Nat /\ DOMAIN Append(p, c) = 1 .. Len(p) + 1
         /\ Append(p, c)[Len(p) + 1] = c /\ \A i \in 1 .. Len(p) : Append(p, c)[i] = p[i]
         /\ Last(Append(p, c)) = c /\ Front(Append(p, c)) = p
<1>1. PICK S : S = Nat
  OBVIOUS
<1>2. PICK q : q = Append(p, c)
  BY Zenon
<1>3. p \in Seq(S) /\ c \in S /\ Len(p) \in Nat
  BY <1>1
<1>4. q \in Seq(S) /\ Len(q) = Len(p) + 1 /\ q[Len(p) + 1] = c /\ \A i \in 1 .. Len(p) : q[i] = p[i]
  BY <1>2, <1>3, AppendIs
<1>5. q # <<>> /\ DOMAIN q = 1 .. Len(p) + 1
  BY <1>3, <1>4
<1>6. Last(q) = c
  BY <1>4 DEF Last
<1>7. Front(q) = p
  <2>1. Len(q) - 1 = Len(p)
    BY <1>3, <1>4
  <2>2. Front(q) = SubSeq(q, 1, Len(p))
    BY <2>1 DEF Front
  <2>3. SubSeq(q, 1, Len(p)) \in Seq(S) /\ Len(SubSeq(q, 1, Len(p))) = Len(p)
        /\ \A i \in 1 .. Len(p) : SubSeq(q, 1, Len(p))[i] = q[i]
    BY <1>3, <1>4
  <2> QED
    BY <1>3, <1>4, <2>2, <2>3, SameSeq
<1>8. p \o <<c>> = q
  <2>1. PICK y : y = <<c>>
    BY Zenon
  <2>2. y \in Seq(S) /\ Len(y) = 1 /\ y[1] = c
    BY <1>3, <2>1
  <2>3. p \o y \in Seq(S) /\ Len(p \o y) = Len(p) + 1 /\ (p \o y)[Len(p) + 1] = c
        /\ \A i \in 1 .. Len(p) : (p \o y)[i] = p[i]
    BY <1>3, <2>2, ConcatIs
  <2>4. \A i \in 1 .. Len(p) + 1 : i \in 1 .. Len(p) \/ i = Len(p) + 1
    BY <1>3
  <2>5. \A i \in 1 .. Len(p) + 1 : (p \o y)[i] = q[i]
    BY <1>4, <2>3, <2>4
  <2> QED
    BY <1>3, <1>4, <2>1, <2>3, <2>5, SameSeq
<1>9. p \o <<>> = p
  OBVIOUS
<1> QED
  BY <1>1, <1>2, <1>3, <1>4, <1>5, <1>6, <1>7, <1>8, <1>9

\* The boxes of call f on stack p.
OnTop(b, layers, p, f) ==
  LET q == Append(p, f.map)
      ctx == CtxOf(b, layers, f)
      r == IF ctx = <<>> THEN q ELSE Append(q, ctx[1])
  IN  IF f.arr = Null THEN r ELSE Append(r, b[ctx[1]].at[f.arr.key].v)

\* The context of a call is the one of its map, or there is none.
LEMMA CtxIs ==
  ASSUME NEW w, WorldOK(w), NEW m, MadesOK(w, m), NEW f, FrameOK(w, m, f)
  PROVE  LET ctx == CtxOf(w.box, Layers[m[f.id].cls], f)
         IN  /\ f.map \in DOMAIN w.box /\ w.box[f.map].kind = "object"
             /\ ctx = <<>> \/ \E c \in DOMAIN w.box : ctx = <<c>> /\ ctx[1] = c /\ w.box[c].kind = "context"
             /\ HooksBegun(Layers[m[f.id].cls], f) = {} => ctx = <<>>
<1>1. ObjectOK(w.box, w.num, f.map, Source(w, m, f.id), Len(Layers[Source(w, m, f.id).cls]))
  BY DEF FrameOK, Whole
<1>2. /\ f.map \in DOMAIN w.box /\ w.box[f.map].kind = "object"
      /\ \A n \in DOMAIN w.box[f.map].ctx :
           w.box[f.map].ctx[n] \in DOMAIN w.box /\ w.box[w.box[f.map].ctx[n]].kind = "context"
  BY SMTT(30), <1>1 DEF ObjectOK
<1> QED
  BY Zenon, <1>2 DEF CtxOf

\* What a list is read from.
LEMMA ListAt ==
  ASSUME NEW w, WorldOK(w), NEW m, MadesOK(w, m), NEW f, FrameOK(w, m, f), f.l # 0,
         NEW y \in Range(FieldsAt(m, f)), y.t = "array"
  PROVE  LET c == ContextAt(w, m, f)
         IN  /\ CtxOf(w.box, Layers[m[f.id].cls], f) = <<c>> /\ c \in DOMAIN w.box
             /\ y.k \in DOMAIN w.box[c].at /\ w.box[c].at[y.k].t = "array"
             /\ ListOK(w.box, w.num, w.box[c].at[y.k].v, BodyAt(w, m, f)[y.k])
<1> DEFINE layer == Layers[m[f.id].cls][f.l]
           c == ContextAt(w, m, f)
<1>1. /\ layer.init /\ layer.name \in DOMAIN w.box[f.map].ctx /\ c \in DOMAIN w.box
      /\ EntryOK(w.box, w.num, w.box[c].at, y, BodyAt(w, m, f)[y.k])
  BY ContextIs
<1>2. f.l \in Nat \ {0}
  BY FrameAt
<1>3. CtxOf(w.box, Layers[m[f.id].cls], f) = <<c>>
  BY Zenon, <1>1, <1>2, CtxAt DEF ContextAt
<1> QED
  BY <1>1, <1>3 DEF EntryOK

\* What BoxesOf says is what is put on a stack.
LEMMA BoxesOnTop ==
  ASSUME NEW w, WorldOK(w), NEW m, MadesOK(w, m), NEW f, FrameOK(w, m, f), NEW p \in Seq(Nat)
  PROVE  LET layers == Layers[m[f.id].cls]
         IN  /\ BoxesOf(w.box, layers, f) \in Seq(Nat)
             /\ p \o BoxesOf(w.box, layers, f) = OnTop(w.box, layers, p, f)
             /\ OnTop(w.box, layers, p, f) \in Seq(Nat) /\ OnTop(w.box, layers, p, f) # <<>>
<1> DEFINE layers == Layers[m[f.id].cls]
<1>1. PICK ctx : ctx = CtxOf(w.box, layers, f)
  OBVIOUS
<1>2. PICK map : map = f.map
  OBVIOUS
<1>3. PICK v : v = w.box[ctx[1]].at[f.arr.key].v
  OBVIOUS
<1>4. DOMAIN w.box = 1 .. Len(w.box) /\ Len(w.box) \in Nat
  BY SeqPlaces DEF WorldOK, ShowsRoots, BoxSeq
<1>5. map \in Nat /\ (ctx = <<>> \/ \E c \in Nat : ctx = <<c>> /\ ctx[1] = c)
  BY <1>1, <1>2, <1>4, CtxIs
<1>6. f.arr # Null => ctx # <<>> /\ v \in Nat /\ Last(ctx) = ctx[1]
  <2> SUFFICES ASSUME f.arr # Null PROVE ctx # <<>> /\ v \in Nat /\ Last(ctx) = ctx[1]
    OBVIOUS
  <2>1. ArrOK(w, m, f) /\ f.l # 0
    BY DEF FrameOK, ArrOK
  <2>2. PICK y \in Range(FieldsAt(m, f)) : y.k = f.arr.key /\ y.t = "array"
    BY <2>1 DEF ArrOK
  <2>3. PICK c : c = ContextAt(w, m, f)
    OBVIOUS
  <2>4. ctx = <<c>> /\ ListOK(w.box, w.num, w.box[c].at[y.k].v, BodyAt(w, m, f)[y.k])
    BY <1>1, <2>1, <2>2, <2>3, ListAt
  <2>5. ctx # <<>> /\ ctx[1] = c /\ Last(ctx) = c
    BY <2>4 DEF Last
  <2>6. v \in DOMAIN w.box
    BY Zenon, <1>3, <2>2, <2>4, <2>5 DEF ListOK
  <2> QED
    BY <1>4, <2>5, <2>6
<1>7. ListOf(w.box, ctx, f) = IF f.arr = Null THEN <<>> ELSE <<v>>
  BY <1>3, <1>6 DEF ListOf
<1>8. PICK ls : ls = ListOf(w.box, ctx, f)
  OBVIOUS
<1>9. BoxesOf(w.box, layers, f) = <<map>> \o ctx \o ls
  BY <1>1, <1>2, <1>8 DEF BoxesOf
<1>10. <<map>> \in Seq(Nat) /\ ctx \in Seq(Nat) /\ ls \in Seq(Nat)
  <2>1. <<map>> \in Seq(Nat)
    BY <1>5
  <2>2. ctx \in Seq(Nat)
    <3>1. CASE ctx = <<>>
      BY <3>1
    <3>2. CASE ctx # <<>>
      <4>1. PICK c \in Nat : ctx = <<c>>
        BY <1>5, <3>2
      <4> QED
        BY <4>1
    <3> QED
      BY <3>1, <3>2
  <2>3. ls \in Seq(Nat)
    <3>1. CASE f.arr = Null
      BY <1>7, <1>8, <3>1
    <3>2. CASE f.arr # Null
      BY <1>6, <1>7, <1>8, <3>2
    <3> QED
      BY <3>1, <3>2
  <2> QED
    BY <2>1, <2>2, <2>3
<1>11. PICK h : h = <<map>>
  BY Zenon
<1>12. h \in Seq(Nat) /\ h \o ctx \in Seq(Nat) /\ h \o ctx \o ls \in Seq(Nat)
  BY <1>10, <1>11, ConcatIs
<1>13. p \o (h \o ctx \o ls) = p \o h \o ctx \o ls
  <2>1. PICK S : S = Nat
    BY Zenon
  <2>2. PICK u : u = h \o ctx
    BY Zenon
  <2>3. p \in Seq(S) /\ h \in Seq(S) /\ ctx \in Seq(S) /\ ls \in Seq(S) /\ u \in Seq(S)
    BY <1>10, <1>12, <2>1, <2>2
  <2>4. (p \o h) \o ctx = p \o u
    BY SMTT(30), <2>2, <2>3, Regrouped
  <2>5. (p \o u) \o ls = p \o (u \o ls)
    <3>1. p \in Seq(S) /\ u \in Seq(S) /\ ls \in Seq(S)
      BY <2>3
    <3> QED
      BY <3>1, Regrouped
  <2> QED
    BY <2>2, <2>4, <2>5
<1>14. PICK q : q = Append(p, map)
  BY Zenon
<1>15. p \o h = q /\ q \in Seq(Nat) /\ q # <<>>
  BY <1>5, <1>11, <1>14, PutOn
<1>16. PICK r : r = IF ctx = <<>> THEN q ELSE Append(q, ctx[1])
  BY Zenon
<1>17. q \o ctx = r /\ r \in Seq(Nat) /\ r # <<>>
  <2>1. CASE ctx = <<>>
    BY <1>15, <1>16, <2>1
  <2>2. CASE ctx # <<>>
    <3>1. PICK c \in Nat : ctx = <<c>> /\ ctx[1] = c
      BY <1>5, <2>2
    <3>2. r = Append(q, c)
      BY <1>16, <2>2, <3>1
    <3>3. q \o <<c>> = Append(q, c) /\ Append(q, c) \in Seq(Nat) /\ Append(q, c) # <<>>
      BY Zenon, <1>15, <3>1, PutOn
    <3> QED
      BY <3>1, <3>2, <3>3
  <2> QED
    BY <2>1, <2>2
<1>18. PICK z : z = IF f.arr = Null THEN r ELSE Append(r, v)
  BY Zenon
<1>19. r \o ls = z /\ z \in Seq(Nat) /\ z # <<>>
  <2>1. CASE f.arr = Null
    BY <1>7, <1>8, <1>17, <1>18, <2>1
  <2>2. CASE f.arr # Null
    <3>1. v \in Nat /\ ls = <<v>> /\ z = Append(r, v)
      BY <1>6, <1>7, <1>8, <1>18, <2>2
    <3>2. r \o <<v>> = Append(r, v) /\ Append(r, v) \in Seq(Nat) /\ Append(r, v) # <<>>
      BY <1>17, <3>1, PutOn
    <3> QED
      BY <3>1, <3>2
  <2> QED
    BY <2>1, <2>2
<1>20. OnTop(w.box, layers, p, f) = z
  BY Zenon, <1>1, <1>2, <1>3, <1>14, <1>16, <1>18 DEF OnTop
<1> QED
  BY Zenon, <1>9, <1>11, <1>12, <1>13, <1>15, <1>17, <1>19, <1>20

\* The last call, and the ones before.
LEMMA CallsAre ==
  ASSUME NEW cs, IsSeq(cs)
  PROVE  /\ Len(cs) \in Nat /\ DOMAIN cs = 1 .. Len(cs)
         /\ cs = <<>> <=> Len(cs) = 0
         /\ cs # <<>> => /\ Len(cs) \in DOMAIN cs /\ Len(cs) - 1 \in Nat /\ Last(cs) = cs[Len(cs)]
                         /\ IsSeq(Front(cs)) /\ Len(Front(cs)) = Len(cs) - 1
                         /\ DOMAIN Front(cs) = 1 .. Len(cs) - 1
                         /\ \A i \in 1 .. Len(cs) - 1 : i \in DOMAIN cs /\ Front(cs)[i] = cs[i]
<1>1. PICK S : S = Range(cs)
  OBVIOUS
<1>2. cs \in Seq(S)
  BY <1>1 DEF IsSeq
<1>3. Len(cs) \in Nat /\ DOMAIN cs = 1 .. Len(cs) /\ (cs = <<>> <=> Len(cs) = 0)
  BY <1>2
<1> SUFFICES ASSUME cs # <<>>
             PROVE  /\ Len(cs) \in DOMAIN cs /\ Len(cs) - 1 \in Nat /\ Last(cs) = cs[Len(cs)]
                    /\ IsSeq(Front(cs)) /\ Len(Front(cs)) = Len(cs) - 1
                    /\ DOMAIN Front(cs) = 1 .. Len(cs) - 1
                    /\ \A i \in 1 .. Len(cs) - 1 : i \in DOMAIN cs /\ Front(cs)[i] = cs[i]
  BY Zenon, <1>3
<1>4. Len(cs) \in DOMAIN cs /\ Len(cs) - 1 \in Nat /\ Last(cs) = cs[Len(cs)]
  BY <1>3 DEF Last
<1>5. PICK n \in Nat : n = Len(cs) - 1
  BY <1>4
<1>6. n <= Len(cs) /\ Front(cs) = SubSeq(cs, 1, n)
  BY <1>3, <1>5 DEF Front
<1>7. IsSeq(Front(cs)) /\ Len(Front(cs)) = n /\ DOMAIN Front(cs) = 1 .. n /\ \A i \in 1 .. n : Front(cs)[i] = cs[i]
  BY <1>6, SeqFirst
<1>8. \A i \in 1 .. n : i \in DOMAIN cs
  BY <1>3, <1>5
<1> QED
  BY <1>4, <1>5, <1>7, <1>8

\* The boxes of the last call are on those of the ones before.
LEMMA PiledTop ==
  ASSUME NEW w, WorldOK(w), NEW m, MadesOK(w, m), NEW cs, FramesOK(w, m, cs)
  PROVE  /\ Piled(w, m, cs) \in Seq(Nat) /\ Piled(w, m, cs) # <<>>
         /\ cs = <<>> => Piled(w, m, cs) = << 1 >>
         /\ cs # <<>> => /\ Piled(w, m, Front(cs)) \in Seq(Nat) /\ Piled(w, m, Front(cs)) # <<>>
                         /\ Piled(w, m, cs) = OnTop(w.box, Layers[m[Last(cs).id].cls], Piled(w, m, Front(cs)), Last(cs))
<1>1. IsSeq(cs) /\ Len(cs) \in Nat /\ DOMAIN cs = 1 .. Len(cs) /\ (cs = <<>> <=> Len(cs) = 0)
  BY CallsAre DEF FramesOK
<1>2. PICK S : S = Nat
  BY Zenon
<1>3. \A i \in DOMAIN cs : BoxesOf(w.box, Layers[m[cs[i].id].cls], cs[i]) \in Seq(S)
  <2> SUFFICES ASSUME NEW i \in DOMAIN cs
               PROVE  BoxesOf(w.box, Layers[m[cs[i].id].cls], cs[i]) \in Seq(S)
    OBVIOUS
  <2>1. PICK f : f = cs[i]
    OBVIOUS
  <2>2. FrameOK(w, m, f)
    BY <2>1 DEF FramesOK
  <2>3. << 1 >> \in Seq(Nat)
    OBVIOUS
  <2>4. BoxesOf(w.box, Layers[m[f.id].cls], f) \in Seq(Nat)
    BY Zenon, <2>2, <2>3, BoxesOnTop
  <2> QED
    BY <1>2, <2>1, <2>4
<1>4. AllBoxes(w, m, cs) \in Seq(Seq(S))
  <2>1. PICK g : g = AllBoxes(w, m, cs)
    OBVIOUS
  <2>2. g = [i \in 1 .. Len(cs) |-> BoxesOf(w.box, Layers[m[cs[i].id].cls], cs[i])]
    BY <1>1, <2>1 DEF AllBoxes
  <2>3. DOMAIN g = 1 .. Len(cs) /\ \A i \in 1 .. Len(cs) : g[i] \in Seq(S)
    BY <1>1, <1>3, <2>2
  <2>4. g = [i \in 1 .. Len(cs) |-> g[i]]
    BY <2>2, <2>3
  <2>5. PICK R : R = Seq(S)
    OBVIOUS
  <2>6. g \in Seq(R)
    BY <1>1, <2>3, <2>4, <2>5
  <2> QED
    BY <2>1, <2>5, <2>6
<1>5. PICK z : z = << 1 >>
  BY Zenon
<1>6. z \in Seq(S) /\ z # <<>> /\ Len(z) = 1
  BY <1>2, <1>5
<1>7. PICK u : u = FlattenSeq(AllBoxes(w, m, cs))
  OBVIOUS
<1>8. u \in Seq(S)
  BY <1>4, <1>7, FlattenIs
<1>9. Piled(w, m, cs) \in Seq(Nat) /\ Piled(w, m, cs) # <<>>
  <2>1. z \o u \in Seq(S) /\ Len(z \o u) = Len(z) + Len(u) /\ Len(u) \in Nat
    <3>1. z \in Seq(S) /\ u \in Seq(S)
      BY <1>6, <1>8
    <3>2. z \o u \in Seq(S) /\ Len(z \o u) = Len(z) + Len(u)
      BY <3>1, ConcatIs
    <3> QED
      BY <3>1, <3>2
  <2>2. z \o u # <<>>
    BY <1>6, <2>1
  <2> QED
    BY <1>2, <1>5, <1>7, <2>1, <2>2 DEF Piled
<1>10. ASSUME cs = <<>>
       PROVE  Piled(w, m, cs) = << 1 >>
  <2>1. AllBoxes(w, m, cs) = <<>>
    BY <1>1, <1>10 DEF AllBoxes
  <2>2. u = <<>>
    BY <1>7, <2>1 DEF FlattenSeq
  <2>3. z \o u = z
    BY SMTT(30), <1>6, <2>2
  <2> QED
    BY <1>5, <1>7, <2>3 DEF Piled
<1>11. ASSUME cs # <<>>
       PROVE  /\ Piled(w, m, Front(cs)) \in Seq(Nat) /\ Piled(w, m, Front(cs)) # <<>>
              /\ Piled(w, m, cs) = OnTop(w.box, Layers[m[Last(cs).id].cls], Piled(w, m, Front(cs)), Last(cs))
  <2>1. /\ Len(cs) \in DOMAIN cs /\ Len(cs) - 1 \in Nat /\ Last(cs) = cs[Len(cs)]
        /\ DOMAIN Front(cs) = 1 .. Len(cs) - 1 /\ \A i \in 1 .. Len(cs) - 1 : i \in DOMAIN cs /\ Front(cs)[i] = cs[i]
    BY <1>1, <1>11, CallsAre
  <2>2. PICK n \in Nat : n = Len(cs) - 1
    BY <2>1
  <2>3. PICK f : f = Last(cs)
    OBVIOUS
  <2>4. PICK x : x = BoxesOf(w.box, Layers[m[f.id].cls], f)
    OBVIOUS
  <2>5. PICK g : g = AllBoxes(w, m, cs)
    OBVIOUS
  <2>6. PICK h : h = AllBoxes(w, m, Front(cs))
    OBVIOUS
  <2>7. PICK R : R = Seq(S)
    OBVIOUS
  <2>8. g \in Seq(R) /\ Len(g) = n + 1 /\ g[n + 1] = x /\ x \in R
    <3>1. DOMAIN g = 1 .. n + 1 /\ n + 1 = Len(cs)
      BY <1>1, <2>2, <2>5 DEF AllBoxes
    <3>2. g \in Seq(R)
      BY <1>4, <2>5, <2>7
    <3>3. Len(g) = n + 1
      BY <3>1, <3>2
    <3>4. n + 1 \in DOMAIN cs /\ f = cs[n + 1]
      BY <2>1, <2>3, <3>1
    <3>5. g[n + 1] = x
      BY <2>4, <2>5, <3>4 DEF AllBoxes
    <3> QED
      BY <3>2, <3>3, <3>5
  <2>9. DOMAIN h = 1 .. n /\ \A i \in 1 .. n : h[i] = g[i]
    BY <2>1, <2>2, <2>5, <2>6 DEF AllBoxes
  <2>10. h \in Seq(R) /\ Len(h) = n
    <3>1. h = [i \in 1 .. n |-> h[i]]
      BY <2>1, <2>2, <2>6 DEF AllBoxes
    <3>2. \A i \in 1 .. n : h[i] \in R
      BY <2>8, <2>9
    <3> QED
      BY <3>1, <3>2
  <2>11. g = Append(h, x)
    <3>1. /\ Append(h, x) \in Seq(R) /\ Len(Append(h, x)) = n + 1 /\ Append(h, x)[n + 1] = x
          /\ \A i \in 1 .. n : Append(h, x)[i] = h[i]
      BY <2>8, <2>10, AppendIs
    <3>2. \A i \in 1 .. n + 1 : i \in 1 .. n \/ i = n + 1
      OBVIOUS
    <3>3. \A i \in 1 .. n + 1 : Append(h, x)[i] = g[i]
      BY <2>8, <2>9, <3>1, <3>2
    <3> QED
      BY <2>8, <3>1, <3>3, SameSeq
  <2>12. PICK y : y = FlattenSeq(h)
    OBVIOUS
  <2>13. u = y \o x /\ y \in Seq(S)
    <3>1. h \in Seq(Seq(S)) /\ x \in Seq(S)
      BY <2>7, <2>8, <2>10
    <3>2. FlattenSeq(Append(h, x)) = FlattenSeq(h) \o x /\ FlattenSeq(h) \in Seq(S)
      BY <3>1, FlattenMore
    <3> QED
      BY <1>7, <2>5, <2>11, <2>12, <3>2
  <2>14. PICK p : p = z \o y
    BY Zenon
  <2>15. p \in Seq(S) /\ p # <<>>
    <3>1. p \in Seq(S) /\ Len(p) = 1 + Len(y) /\ Len(y) \in Nat
      BY <1>6, <2>13, <2>14, ConcatIs
    <3> QED
      BY <3>1
  <2>16. z \o (y \o x) = p \o x
    <3>1. z \in Seq(S) /\ y \in Seq(S) /\ x \in Seq(S)
      BY <1>6, <2>7, <2>8, <2>13
    <3>2. (z \o y) \o x = z \o (y \o x)
      BY <3>1, Regrouped
    <3> QED
      BY <2>14, <3>2
  <2>17. p \o x = OnTop(w.box, Layers[m[f.id].cls], p, f)
    <3>1. FrameOK(w, m, f)
      BY <2>1, <2>3 DEF FramesOK
    <3>2. p \in Seq(Nat)
      BY <1>2, <2>15
    <3> QED
      BY Zenon, <2>4, <3>1, <3>2, BoxesOnTop
  <2> QED
    BY Zenon, <1>2, <1>5, <1>7, <2>3, <2>6, <2>12, <2>13, <2>14, <2>15, <2>16, <2>17 DEF Piled
<1> QED
  BY <1>9, <1>10, <1>11

\* The calls cs, of which the last is at g now.
Replaced(cs, g) == [cs EXCEPT ![Len(cs)] = g]

\* Nothing changes below the last call.
LEMMA ReplacedIs ==
  ASSUME NEW cs, IsSeq(cs), cs # <<>>, NEW g, NEW t, t = Replaced(cs, g)
  PROVE  /\ IsSeq(t) /\ Len(t) = Len(cs) /\ DOMAIN t = DOMAIN cs /\ t # <<>>
         /\ Last(t) = g /\ t[Len(cs)] = g /\ Front(t) = Front(cs)
         /\ \A i \in DOMAIN cs : i # Len(cs) => t[i] = cs[i]
<1>1. Len(cs) \in Nat \ {0} /\ DOMAIN cs = 1 .. Len(cs) /\ Len(cs) \in DOMAIN cs
  BY CallsAre
<1>2. /\ DOMAIN t = DOMAIN cs /\ t = [i \in DOMAIN cs |-> t[i]]
      /\ t[Len(cs)] = g /\ \A i \in DOMAIN cs : i # Len(cs) => t[i] = cs[i]
  BY Zenon, <1>1 DEF Replaced
<1>3. IsSeq(t) /\ Len(t) = Len(cs)
  BY <1>2, SeqReplaced
<1>4. t # <<>>
  BY <1>1, <1>3, CallsAre
<1>5. Last(t) = g
  BY <1>2, <1>3 DEF Last
<1>6. Front(t) = Front(cs)
  <2>1. PICK n \in Nat : n = Len(cs) - 1 /\ \A i \in 1 .. n : i # Len(cs)
    <3>1. PICK k : k = Len(cs)
      BY Zenon
    <3>2. k \in Nat /\ k # 0
      BY <1>1, <3>1
    <3>3. k - 1 \in Nat /\ \A i \in 1 .. k - 1 : i # k
      BY <3>2
    <3> QED
      BY <3>1, <3>3
  <2>2. IsSeq(Front(cs)) /\ Len(Front(cs)) = n /\ \A i \in 1 .. n : i \in DOMAIN cs /\ Front(cs)[i] = cs[i]
    BY <2>1, CallsAre
  <2>3. IsSeq(Front(t)) /\ Len(Front(t)) = n /\ \A i \in 1 .. n : Front(t)[i] = t[i]
    <3>1. Len(t) - 1 = n
      BY <1>3, <2>1
    <3> QED
      BY Zenon, <1>3, <1>4, <3>1, CallsAre
  <2>4. \A i \in 1 .. n : Front(t)[i] = Front(cs)[i]
    <3>1. \A i \in 1 .. n : i \in DOMAIN cs
      BY <2>2
    <3>2. \A i \in 1 .. n : t[i] = cs[i]
      BY <1>2, <2>1, <3>1
    <3> QED
      BY <2>2, <2>3, <3>2
  <2>5. PICK S : S = Range(Front(cs)) \cup Range(Front(t))
    BY Zenon
  <2>6. Front(cs) \in Seq(S) /\ Front(t) \in Seq(S)
    <3>1. Front(cs) \in Seq(Range(Front(cs))) /\ Front(t) \in Seq(Range(Front(t)))
      BY <2>2, <2>3 DEF IsSeq
    <3>2. PICK a, b : a = Front(cs) /\ b = Front(t)
      OBVIOUS
    <3>3. PICK A, B : A = Range(a) /\ B = Range(b)
      OBVIOUS
    <3>4. a \in Seq(A) /\ b \in Seq(B) /\ A \subseteq S /\ B \subseteq S
      BY <2>5, <3>1, <3>2, <3>3
    <3>5. a \in Seq(S) /\ b \in Seq(S)
      BY <3>4
    <3> QED
      BY <3>2, <3>5
  <2> QED
    BY <2>2, <2>3, <2>4, <2>6, SameSeq
<1> QED
  BY <1>2, <1>3, <1>4, <1>5, <1>6

\* The calls before the last are all right.
LEMMA FrontOK ==
  ASSUME NEW w, NEW m, NEW cs, FramesOK(w, m, cs), cs # <<>>
  PROVE  /\ FramesOK(w, m, Front(cs))
         /\ LedOK(w, m, cs) => LedOK(w, m, Front(cs))
         /\ \A gv : DueOK(w, m, cs, gv) => DueOK(w, m, Front(cs), gv)
         /\ \A la : WaitOK(m, cs, la) => WaitOK(m, Front(cs), Null)
<1>1. /\ IsSeq(Front(cs)) /\ Len(cs) \in Nat /\ DOMAIN cs = 1 .. Len(cs)
      /\ DOMAIN Front(cs) = 1 .. Len(cs) - 1 /\ Len(Front(cs)) = Len(cs) - 1
      /\ \A i \in 1 .. Len(cs) - 1 : i \in DOMAIN cs /\ Front(cs)[i] = cs[i]
  BY CallsAre DEF FramesOK
<1>2. PICK u : u = Front(cs)
  OBVIOUS
<1>3. IsSeq(u) /\ \A i \in DOMAIN u : i \in DOMAIN cs /\ u[i] = cs[i] /\ i # Len(cs)
  BY <1>1, <1>2
<1>4. FramesOK(w, m, u)
  BY <1>3 DEF FramesOK
<1>5. LedOK(w, m, cs) => LedOK(w, m, u)
  BY <1>3 DEF LedOK
<1>6. \A gv : DueOK(w, m, cs, gv) => DueOK(w, m, u, gv)
  <2>1. \A i \in DOMAIN u : i # 1 => u[i - 1] = cs[i - 1]
    <3>1. \A i \in DOMAIN u : i # 1 => i - 1 \in DOMAIN u
      BY <1>1, <1>2
    <3> QED
      BY <1>3, <3>1
  <2> QED
    BY <1>3, <2>1 DEF DueOK
<1>7. \A la : WaitOK(m, cs, la) => WaitOK(m, u, Null)
  BY <1>3 DEF WaitOK
<1> QED
  BY <1>2, <1>4, <1>5, <1>6, <1>7

\* So are all of them when the last is at another place.
LEMMA TopMoves ==
  ASSUME NEW w, NEW m, NEW cs, FramesOK(w, m, cs), cs # <<>>,
         NEW h, h.id = Last(cs).id, h.key = Last(cs).key, FrameOK(w, m, h), NEW t, t = Replaced(cs, h)
  PROVE  /\ FramesOK(w, m, t) /\ t # <<>> /\ Front(t) = Front(cs) /\ Last(t) = h /\ Len(t) = Len(cs)
         /\ LedOK(w, m, cs) => LedOK(w, m, t)
         /\ \A gv : DueOK(w, m, cs, gv) => DueOK(w, m, t, gv)
         /\ \A la, lb : WaitOK(m, cs, la) /\ (Waits(m, h) <=> lb # Null) => WaitOK(m, t, lb)
<1>1. Len(cs) \in Nat /\ DOMAIN cs = 1 .. Len(cs) /\ Last(cs) = cs[Len(cs)] /\ Len(cs) \in DOMAIN cs
  BY CallsAre DEF FramesOK
<1>2. /\ IsSeq(t) /\ Len(t) = Len(cs) /\ DOMAIN t = DOMAIN cs /\ t # <<>>
      /\ Last(t) = h /\ t[Len(cs)] = h /\ Front(t) = Front(cs)
      /\ \A i \in DOMAIN cs : i # Len(cs) => t[i] = cs[i]
  BY ReplacedIs DEF FramesOK
<1>3. \A i \in DOMAIN cs : t[i].id = cs[i].id /\ t[i].key = cs[i].key
  BY <1>1, <1>2
<1>4. FramesOK(w, m, t)
  <2>1. \A i \in DOMAIN t : FrameOK(w, m, t[i])
    BY <1>2 DEF FramesOK
  <2> QED
    BY <1>2, <1>3, <2>1 DEF FramesOK
<1>5. LedOK(w, m, cs) => LedOK(w, m, t)
  <2>1. \A i, j \in DOMAIN cs : i < j => t[i] = cs[i]
    BY <1>1, <1>2
  <2> QED
    BY <1>2, <1>3, <2>1 DEF LedOK
<1>6. \A gv : DueOK(w, m, cs, gv) => DueOK(w, m, t, gv)
  <2>1. \A i \in DOMAIN cs : i # 1 => t[i - 1] = cs[i - 1]
    <3>1. \A i \in DOMAIN cs : i # 1 => i - 1 \in DOMAIN cs /\ i - 1 # Len(cs)
      BY <1>1
    <3> QED
      BY <1>2, <3>1
  <2> QED
    BY <1>2, <1>3, <2>1 DEF DueOK
<1>7. \A la, lb : WaitOK(m, cs, la) /\ (Waits(m, h) <=> lb # Null) => WaitOK(m, t, lb)
  BY <1>2 DEF WaitOK
<1> QED
  BY <1>2, <1>4, <1>5, <1>6, <1>7

\* And when objects are made meanwhile.
LEMMA TopChanges ==
  ASSUME NEW w, WorldOK(w), NEW m, NEW g, Grows(m, g), MadesOK(w, m), MadesOK(w, g),
         NEW cs, FramesOK(w, m, cs), cs # <<>>,
         NEW h, h.id = Last(cs).id, h.key = Last(cs).key, FrameOK(w, g, h), NEW t, t = Replaced(cs, h)
  PROVE  /\ FramesOK(w, g, t) /\ t # <<>> /\ Len(t) = Len(cs) /\ Last(t) = h
         /\ LedOK(w, m, cs) => LedOK(w, g, t)
         /\ \A gv : DueOK(w, m, cs, gv) => DueOK(w, g, t, gv)
         /\ \A la, lb : WaitOK(m, cs, la) /\ (Waits(g, h) <=> lb # Null) => WaitOK(g, t, lb)
         /\ Piled(w, g, t) = OnTop(w.box, Layers[m[h.id].cls], Piled(w, m, Front(cs)), h)
<1>1. /\ FramesOK(w, g, cs) /\ (LedOK(w, m, cs) => LedOK(w, g, cs))
      /\ \A gv : DueOK(w, m, cs, gv) => DueOK(w, g, cs, gv)
      /\ \A la : WaitOK(m, cs, la) => WaitOK(g, cs, la)
  BY CallsStay
<1>2. /\ FramesOK(w, g, t) /\ t # <<>> /\ Front(t) = Front(cs) /\ Last(t) = h /\ Len(t) = Len(cs)
      /\ LedOK(w, g, cs) => LedOK(w, g, t)
      /\ \A gv : DueOK(w, g, cs, gv) => DueOK(w, g, t, gv)
      /\ \A la, lb : WaitOK(g, cs, la) /\ (Waits(g, h) <=> lb # Null) => WaitOK(g, t, lb)
  BY <1>1, TopMoves
<1>3. Piled(w, g, Front(cs)) = Piled(w, m, Front(cs))
  <2>1. FramesOK(w, m, Front(cs))
    BY FrontOK
  <2>2. AllBoxes(w, g, Front(cs)) = AllBoxes(w, m, Front(cs))
    BY <2>1, CallsStay
  <2> QED
    BY <2>2 DEF Piled
<1>4. Piled(w, g, t) = OnTop(w.box, Layers[g[h.id].cls], Piled(w, g, Front(t)), h)
  BY Zenon, <1>2, PiledTop
<1>5. g[h.id].cls = m[h.id].cls
  <2>1. Last(cs).id \in DOMAIN m
    <3>1. Last(cs) = cs[Len(cs)] /\ Len(cs) \in DOMAIN cs
      BY CallsAre DEF FramesOK
    <3> QED
      BY <3>1 DEF FramesOK, FrameOK
  <2> QED
    BY <2>1 DEF Grows
<1> QED
  BY <1>1, <1>2, <1>3, <1>4, <1>5

----------------------------------------------------------------------------
(* A field gets its value                                                  *)

Call(key, id, map, l, todo, arr) ==
  [key |-> key, id |-> id, map |-> map, l |-> l, todo |-> todo, arr |-> arr]

\* What the last call has left to do.
LEMMA LeftTop ==
  ASSUME NEW w, NEW m, NEW cs, FramesOK(w, m, cs), cs # <<>>, NEW l, NEW k
  PROVE  HasGot(cs, Last(cs).id, l, k) <=> l < Last(cs).l \/ (l = Last(cs).l /\ k \notin Last(cs).todo)
<1>1. Last(cs) = cs[Len(cs)] /\ Len(cs) \in DOMAIN cs
  BY CallsAre DEF FramesOK
<1>2. \A j \in DOMAIN cs : cs[j].id = Last(cs).id <=> j = Len(cs)
  BY <1>1 DEF FramesOK
<1> QED
  BY <1>1, <1>2 DEF HasGot

\* What is left of the objects of other calls stays so.
LEMMA LeftBelow ==
  ASSUME NEW w, NEW m, NEW cs, FramesOK(w, m, cs), cs # <<>>, NEW h, h.id = Last(cs).id,
         NEW t, t = Replaced(cs, h), NEW i, i # h.id, NEW l, NEW k
  PROVE  HasGot(t, i, l, k) <=> HasGot(cs, i, l, k)
<1>1. /\ Last(cs) = cs[Len(cs)] /\ Len(cs) \in DOMAIN cs /\ DOMAIN t = DOMAIN cs /\ t[Len(cs)] = h
      /\ \A j \in DOMAIN cs : j # Len(cs) => t[j] = cs[j]
  BY CallsAre, ReplacedIs DEF FramesOK
<1> QED
  BY <1>1 DEF HasGot

\* Objects that have more fields are what they were.
LEMMA FilledGrows ==
  ASSUME NEW m, MadeSeq(m), NEW id, NEW z, NEW g, g = Filled(m, id, z)
  PROVE  /\ Grows(m, g) /\ MadeSeq(g) /\ DOMAIN g = DOMAIN m
         /\ \A i \in DOMAIN m : i # id => g[i] = m[i]
         /\ id \in DOMAIN m => g[id].got = z
<1>1. MadeSeq(g) /\ DOMAIN g = DOMAIN m /\ \A i \in DOMAIN m : g[i].num = m[i].num /\ g[i].cls = m[i].cls
  BY GotMore
<1>2. \A i \in DOMAIN m : i # id => g[i] = m[i]
  BY DEF Filled
<1>3. id \in DOMAIN m => g[id].got = z
  <2> SUFFICES ASSUME id \in DOMAIN m PROVE g[id].got = z
    OBVIOUS
  <2>1. g[id] = [m[id] EXCEPT !.got = z]
    BY DEF Filled
  <2>2. PICK a, b, c : m[id] = [cls |-> a, num |-> b, got |-> c]
    BY DEF MadeSeq
  <2> QED
    BY <2>1, <2>2
<1> QED
  BY <1>1, <1>2, <1>3 DEF Grows

\* A field of the object that is made gets a copy of its value.
LEMMA FillMades ==
  ASSUME NEW w, NEW m, MadesOK(w, m), NEW i \in DOMAIN m, NEW l \in DOMAIN Layers[m[i].cls],
         NEW x \in Range(Layers[m[i].cls][l].fields), NEW r,
         Copies(w, m, x.t, Source(w, m, i).body[l][x.k], r),
         NEW g, g = Filled(m, i, Under(m[i].got, <<l, x.k>>, r))
  PROVE  MadesOK(w, g) /\ Grows(m, g)
<1> DEFINE s == <<l, x.k>>
           z == Under(m[i].got, s, r)
<1>1. /\ Grows(m, g) /\ MadeSeq(g) /\ DOMAIN g = DOMAIN m
      /\ \A j \in DOMAIN m : j # i => g[j] = m[j]
      /\ g[i].got = z
  BY FilledGrows DEF MadesOK
<1>2. \A j \in DOMAIN m : g[j].num = m[j].num /\ g[j].cls = m[j].cls /\ Source(w, g, j) = Source(w, m, j)
  BY Zenon, <1>1 DEF Grows, Source
<1>3. \A t, v, q : Copies(w, m, t, v, q) => Copies(w, g, t, v, q)
  BY SMTT(30), <1>1, CopyStays
<1>4. \A j \in DOMAIN m : \A u : SlotOK(w, m, j, u) /\ g[j].got[u] = m[j].got[u] => SlotOK(w, g, j, u)
  BY SMTT(30), <1>2, <1>3 DEF SlotOK
<1>5. SlotOK(w, g, i, s)
  <2>1. g[i].got[s] = r
    BY <1>1 DEF Under
  <2>2. Copies(w, g, x.t, Source(w, g, i).body[l][x.k], r)
    BY <1>2, <1>3
  <2> QED
    BY <1>2, <2>1, <2>2 DEF SlotOK
<1>6. ASSUME NEW j \in DOMAIN g, NEW u \in DOMAIN g[j].got
      PROVE  SlotOK(w, g, j, u)
  <2>1. CASE j # i
    <3>1. g[j] = m[j]
      BY <1>1, <2>1
    <3>2. SlotOK(w, m, j, u)
      BY <1>1, <3>1 DEF MadesOK
    <3> QED
      BY <1>1, <1>4, <3>1, <3>2
  <2>2. CASE j = i /\ u # s
    <3>1. u \in DOMAIN m[i].got /\ g[i].got[u] = m[i].got[u]
      BY <1>1, <2>2 DEF Under
    <3>2. SlotOK(w, m, i, u)
      BY <3>1 DEF MadesOK
    <3> QED
      BY <1>4, <2>2, <3>1, <3>2
  <2> QED
    BY <1>5, <2>1, <2>2
<1> QED
  BY <1>1, <1>2, <1>6 DEF MadesOK

\* Each number keeps its object.
LEMMA NumbersStay ==
  ASSUME NEW m, NEW g, Grows(m, g), NEW w, NEW obs, ObjectsOK(w, m, obs)
  PROVE  ObjectsOK(w, g, obs)
BY DEF ObjectsOK, Grows

\* What a list is read from is on the boxes of h.
WithList(b, layers, p, f, h) ==
  OnTop(b, layers, p, f) = Append(OnTop(b, layers, p, h), b[CtxOf(b, layers, f)[1]].at[f.arr.key].v)

\* A call has the same boxes, but for a list, while it is at a layer.
LEMMA OnTopIs ==
  ASSUME NEW b, NEW layers, NEW p, NEW f, NEW h, h.map = f.map, h.l = f.l, h.arr = Null
  PROVE  /\ f.arr = Null => OnTop(b, layers, p, f) = OnTop(b, layers, p, h)
         /\ f.arr # Null => WithList(b, layers, p, f, h)
<1>1. HooksBegun(layers, h) = HooksBegun(layers, f)
  BY DEF HooksBegun
<1>2. LastHook(layers, h) = LastHook(layers, f)
  BY <1>1 DEF LastHook
<1>3. CtxOf(b, layers, h) = CtxOf(b, layers, f)
  BY <1>1, <1>2 DEF CtxOf
<1>4. PICK r : r = OnTop(b, layers, p, h)
  OBVIOUS
<1>5. PICK c : c = CtxOf(b, layers, f)
  OBVIOUS
<1>6. r = IF c = <<>> THEN Append(p, f.map) ELSE Append(Append(p, f.map), c[1])
  BY <1>3, <1>4, <1>5 DEF OnTop
<1>7. OnTop(b, layers, p, f) = IF f.arr = Null THEN r ELSE Append(r, b[c[1]].at[f.arr.key].v)
  BY <1>5, <1>6 DEF OnTop
<1> QED
  BY <1>4, <1>5, <1>7 DEF WithList

\* A call whose list is the last box.
LEMMA ListTop ==
  ASSUME NEW w, WorldOK(w), NEW m, MadesOK(w, m), NEW f, FrameOK(w, m, f), f.arr # Null
  PROVE  w.box[CtxOf(w.box, Layers[m[f.id].cls], f)[1]].at[f.arr.key].v \in DOMAIN w.box
<1>1. ArrOK(w, m, f) /\ f.l # 0
  BY DEF FrameOK, ArrOK
<1>2. PICK y \in Range(FieldsAt(m, f)) : y.k = f.arr.key /\ y.t = "array"
  BY <1>1 DEF ArrOK
<1>3. PICK c : c = ContextAt(w, m, f)
  OBVIOUS
<1>4. CtxOf(w.box, Layers[m[f.id].cls], f) = <<c>> /\ ListOK(w.box, w.num, w.box[c].at[y.k].v, BodyAt(w, m, f)[y.k])
  BY <1>1, <1>2, <1>3, ListAt
<1>5. CtxOf(w.box, Layers[m[f.id].cls], f)[1] = c
  BY <1>4
<1>6. w.box[c].at[f.arr.key].v \in DOMAIN w.box
  BY Zenon, <1>2, <1>4 DEF ListOK
<1> QED
  BY <1>5, <1>6

\* Call f comes to h, with no list, and the field at k done.
FieldDone(f, h, k) == h = Call(f.key, f.id, f.map, f.l, f.todo \ {k}, Null)

\* The objects m come to g as one of them gets r for the field at k.
FieldFilled(m, g, f, k, r) == g = Filled(m, f.id, Under(m[f.id].got, <<f.l, k>>, r))

\* Field x is to be read by f, and r is a copy of its value.
FieldCopied(w, m, f, x, r) == x.k \in f.todo /\ Copies(w, m, x.t, BodyAt(w, m, f)[x.k], r)

\* A field of the last call gets its value.
LEMMA FieldGot ==
  ASSUME NEW w, WorldOK(w), NEW m, NEW obs, NEW cs, NEW gv, NEW la, NEW st, ReadAt(w, m, obs, cs, gv, la, st),
         cs # <<>>, NEW f, f = Last(cs), NEW x \in Range(FieldsAt(m, f)), NEW r, FieldCopied(w, m, f, x, r),
         NEW g, FieldFilled(m, g, f, x.k, r), NEW h, FieldDone(f, h, x.k), NEW t, t = Replaced(cs, h)
  PROVE  /\ Len(t) = Len(cs)
         /\ f.arr = Null => ReadAt(w, g, obs, t, gv, la, st)
         /\ f.arr # Null => ReadAt(w, g, obs, t, gv, la, Front(st))
<1>1. MadesOK(w, m) /\ FramesOK(w, m, cs) /\ LeftOK(m, cs) /\ st = Piled(w, m, cs)
  BY DEF ReadAt
<1>2. /\ h.key = f.key /\ h.id = f.id /\ h.map = f.map /\ h.l = f.l /\ h.todo = f.todo \ {x.k} /\ h.arr = Null
      /\ h = [key |-> h.key, id |-> h.id, map |-> h.map, l |-> h.l, todo |-> h.todo, arr |-> h.arr]
  BY DEF Call, FieldDone
<1>3. FrameOK(w, m, f) /\ Len(cs) \in DOMAIN cs /\ f = cs[Len(cs)]
  <2>1. Len(cs) \in DOMAIN cs /\ f = cs[Len(cs)]
    BY <1>1, CallsAre DEF FramesOK
  <2> QED
    BY <1>1, <2>1 DEF FramesOK
<1>4. f.l # 0 /\ f.l \in DOMAIN Layers[m[f.id].cls] /\ f.id \in DOMAIN m /\ FieldsAt(m, f) = Layers[m[f.id].cls][f.l].fields
  BY <1>1, <1>3, FrameAt DEF FrameOK, FieldCopied
<1>5. MadesOK(w, g) /\ Grows(m, g)
  BY Zenon, <1>1, <1>4, FillMades DEF BodyAt, FieldFilled, FieldCopied
<1>6. FrameOK(w, g, h)
  <2>1. FrameOK(w, m, h)
    <3>1. /\ f.id \in DOMAIN m /\ Whole(w, f.map, Source(w, m, f.id))
          /\ f.l \in 0 .. Len(Layers[m[f.id].cls]) /\ f.todo \subseteq {y.k : y \in Range(FieldsAt(m, f))}
      BY <1>3, <1>4 DEF FrameOK
    <3>2. FieldsAt(m, h) = FieldsAt(m, f) /\ h.todo \subseteq f.todo
      BY <1>2 DEF FieldsAt
    <3>3. h.todo \subseteq {y.k : y \in Range(FieldsAt(m, h))}
      BY <3>1, <3>2
    <3> QED
      BY <1>2, <1>4, <3>1, <3>3 DEF FrameOK
  <2> QED
    BY <1>5, <2>1, FrameStays
<1>7. /\ FramesOK(w, g, t) /\ t # <<>> /\ Len(t) = Len(cs) /\ Last(t) = h
      /\ LedOK(w, m, cs) => LedOK(w, g, t)
      /\ DueOK(w, m, cs, gv) => DueOK(w, g, t, gv)
      /\ WaitOK(m, cs, la) /\ (Waits(g, h) <=> la # Null) => WaitOK(g, t, la)
      /\ Piled(w, g, t) = OnTop(w.box, Layers[m[h.id].cls], Piled(w, m, Front(cs)), h)
  BY <1>1, <1>2, <1>5, <1>6, TopChanges
<1>8. WaitOK(g, t, la)
  <2>1. WaitOK(m, cs, la)
    BY DEF ReadAt
  <2>2. Waits(m, f) <=> la # Null
    BY <1>3, <2>1 DEF WaitOK
  <2>3. Waits(g, h) <=> Waits(m, f)
    <3>1. PICK c : c = m[f.id].cls
      OBVIOUS
    <3>2. g[h.id].cls = c /\ h.l = f.l
      BY <1>2, <1>4, <1>5, <3>1 DEF Grows
    <3>3. Waits(g, h) <=> \A l \in 1 .. f.l : ~Layers[c][l].init
      BY <3>2 DEF Waits
    <3>4. Waits(m, f) <=> \A l \in 1 .. f.l : ~Layers[c][l].init
      BY <3>1 DEF Waits
    <3> QED
      BY <3>3, <3>4
  <2> QED
    BY <1>7, <2>1, <2>2, <2>3
<1>9. LeftOK(g, t)
  <2> SUFFICES ASSUME NEW i \in DOMAIN g, NEW l \in DOMAIN Layers[g[i].cls], NEW y \in Range(Layers[g[i].cls][l].fields)
               PROVE  <<l, y.k>> \in DOMAIN g[i].got <=> HasGot(t, i, l, y.k)
    BY Zenon DEF LeftOK
  <2>1. /\ DOMAIN g = DOMAIN m /\ \A j \in DOMAIN m : j # f.id => g[j] = m[j]
        /\ g[f.id].got = Under(m[f.id].got, <<f.l, x.k>>, r)
    BY <1>1, <1>4, FilledGrows DEF MadesOK, FieldFilled
  <2>2. i \in DOMAIN m /\ g[i].cls = m[i].cls
    BY <1>5, <2>1 DEF Grows
  <2>3. <<l, y.k>> \in DOMAIN m[i].got <=> HasGot(cs, i, l, y.k)
    BY <1>1, <2>2 DEF LeftOK
  <2>4. CASE i # f.id
    <3>1. HasGot(t, i, l, y.k) <=> HasGot(cs, i, l, y.k)
      BY <1>1, <1>2, <2>4, LeftBelow
    <3> QED
      BY <2>1, <2>2, <2>3, <2>4, <3>1
  <2>5. CASE i = f.id
    <3>1. HasGot(cs, i, l, y.k) <=> l < f.l \/ (l = f.l /\ y.k \notin f.todo)
      BY Zenon, <1>1, <2>5, LeftTop
    <3>2. HasGot(t, i, l, y.k) <=> l < h.l \/ (l = h.l /\ y.k \notin h.todo)
      <4>1. FramesOK(w, g, t) /\ t # <<>> /\ Last(t) = h /\ i = h.id
        BY <1>2, <1>7, <2>5
      <4>2. HasGot(t, Last(t).id, l, y.k) <=> l < Last(t).l \/ (l = Last(t).l /\ y.k \notin Last(t).todo)
        BY Zenon, <4>1, LeftTop
      <4> QED
        BY <4>1, <4>2
    <3>3. DOMAIN g[i].got = DOMAIN m[i].got \cup {<<f.l, x.k>>}
      BY <2>1, <2>5 DEF Under
    <3>4. <<l, y.k>> \in DOMAIN g[i].got <=> <<l, y.k>> \in DOMAIN m[i].got \/ (l = f.l /\ y.k = x.k)
      BY <3>3
    <3> QED
      BY <1>2, <2>3, <3>1, <3>2, <3>4
  <2> QED
    BY <2>4, <2>5
<1>10. Piled(w, g, t) = IF f.arr = Null THEN st ELSE Front(st)
  <2>1. PICK p : p = Piled(w, m, Front(cs))
    OBVIOUS
  <2>2. PICK layers : layers = Layers[m[f.id].cls]
    OBVIOUS
  <2>3. p \in Seq(Nat) /\ st = OnTop(w.box, layers, p, f)
    BY <1>1, <2>1, <2>2, PiledTop
  <2>4. Piled(w, g, t) = OnTop(w.box, layers, p, h)
    BY <1>2, <1>7, <2>1, <2>2
  <2>5. CASE f.arr = Null
    <3>1. PICK b : b = w.box
      OBVIOUS
    <3>2. OnTop(b, layers, p, f) = OnTop(b, layers, p, h)
      <4>1. h.map = f.map /\ h.l = f.l /\ h.arr = Null
        BY <1>2
      <4> QED
        BY <2>5, <4>1, OnTopIs
    <3> QED
      BY <2>3, <2>4, <2>5, <3>1, <3>2
  <2>6. CASE f.arr # Null
    <3>1. PICK v : v = w.box[CtxOf(w.box, layers, f)[1]].at[f.arr.key].v
      OBVIOUS
    <3>2. PICK u : u = OnTop(w.box, layers, p, h)
      OBVIOUS
    <3>3. st = Append(u, v)
      <4>1. h.map = f.map /\ h.l = f.l /\ h.arr = Null
        BY <1>2
      <4>2. PICK b : b = w.box
        OBVIOUS
      <4>3. WithList(b, layers, p, f, h)
        BY <2>6, <4>1, OnTopIs
      <4> QED
        BY Zenon, <2>3, <3>1, <3>2, <4>2, <4>3 DEF WithList
    <3>4. v \in Nat
      <4>1. v \in DOMAIN w.box
        BY Zenon, <1>1, <1>3, <2>2, <2>6, <3>1, ListTop
      <4>2. DOMAIN w.box = 1 .. Len(w.box)
        BY SMTT(30), SeqPlaces DEF WorldOK, ShowsRoots, BoxSeq
      <4> QED
        BY <4>1, <4>2
    <3>5. u \in Seq(Nat)
      <4>1. layers = Layers[g[h.id].cls]
        BY <1>2, <1>4, <1>5, <2>2 DEF Grows
      <4> QED
        BY <1>5, <1>6, <2>3, <3>2, <4>1, BoxesOnTop
    <3> QED
      BY <2>4, <2>6, <3>2, <3>3, <3>4, <3>5, PutOn
  <2> QED
    BY <2>5, <2>6
<1>11. ObjectsOK(w, g, obs) /\ GivenOK(w, g, gv)
  BY <1>5, NumbersStay, GivenStays DEF ReadAt
<1> QED
  BY <1>5, <1>7, <1>8, <1>9, <1>10, <1>11 DEF ReadAt

----------------------------------------------------------------------------
(* What a call finds in the box that is the last on the stack              *)

\* The last call.
LEMMA LastFrame ==
  ASSUME NEW w, NEW m, NEW obs, NEW cs, NEW gv, NEW la, NEW st, ReadAt(w, m, obs, cs, gv, la, st), cs # <<>>
  PROVE  Len(cs) \in DOMAIN cs /\ Last(cs) = cs[Len(cs)] /\ FrameOK(w, m, Last(cs))
<1>1. Len(cs) \in DOMAIN cs /\ Last(cs) = cs[Len(cs)]
  BY CallsAre DEF ReadAt, FramesOK
<1> QED
  BY <1>1 DEF ReadAt, FramesOK

\* The field of the last call that is at key k.
LEMMA FieldOf ==
  ASSUME NEW w, WorldOK(w), NEW m, MadesOK(w, m), NEW f, FrameOK(w, m, f), NEW k \in f.todo
  PROVE  /\ f.l # 0
         /\ \E x \in Range(FieldsAt(m, f)) : x.k = k /\ FieldType(Layers[m[f.id].cls][f.l], k) = x.t
<1>1. f.l # 0
  BY DEF FrameOK
<1>2. /\ FieldsAt(m, f) = Layers[m[f.id].cls][f.l].fields
      /\ \A i, j \in Range(FieldsAt(m, f)) : i.k = j.k => i = j
  BY <1>1, FrameAt
<1>3. PICK x \in Range(FieldsAt(m, f)) : x.k = k
  BY <1>1 DEF FrameOK
<1>4. PICK R : R = Range(FieldsAt(m, f))
  OBVIOUS
<1>5. (CHOOSE y \in R : y.k = k) = x
  BY ZenonT(60), <1>2, <1>3, <1>4
<1>6. FieldType(Layers[m[f.id].cls][f.l], k) = x.t
  BY Zenon, <1>2, <1>4, <1>5 DEF FieldType
<1> QED
  BY <1>1, <1>3, <1>6

\* The last box on the stack is the one of the roots, ...
LEMMA TopOfRoots ==
  ASSUME NEW w, WorldOK(w), NEW m, NEW obs, NEW gv, NEW la, NEW st, ReadAt(w, m, obs, <<>>, gv, la, st)
  PROVE  Last(st) = 1
<1>1. st = << 1 >>
  BY PiledTop DEF ReadAt
<1> QED
  BY <1>1 DEF Last

\* the context of the layer that is initialised, ...
LEMMA TopOfField ==
  ASSUME NEW w, WorldOK(w), NEW m, NEW obs, NEW cs, NEW gv, NEW la, NEW st, ReadAt(w, m, obs, cs, gv, la, st),
         cs # <<>>, NEW f, f = Last(cs), f.arr = Null, f.l # 0, NEW y \in Range(FieldsAt(m, f))
  PROVE  Last(st) = ContextAt(w, m, f)
<1> DEFINE layers == Layers[m[f.id].cls]
<1>1. MadesOK(w, m) /\ FramesOK(w, m, cs) /\ st = Piled(w, m, cs) /\ FrameOK(w, m, f)
  BY LastFrame DEF ReadAt
<1>2. PICK p \in Seq(Nat) : st = OnTop(w.box, layers, p, f)
  BY <1>1, PiledTop
<1>3. PICK c : c = ContextAt(w, m, f)
  OBVIOUS
<1>4. /\ layers[f.l].init /\ layers[f.l].name \in DOMAIN w.box[f.map].ctx /\ c \in DOMAIN w.box
  BY <1>1, <1>3, ContextIs
<1>5. f.l \in Nat \ {0}
  BY <1>1, FrameAt
<1>6. CtxOf(w.box, layers, f) = <<c>>
  BY Zenon, <1>3, <1>4, <1>5, CtxAt DEF ContextAt
<1>7. PICK ctx : ctx = CtxOf(w.box, layers, f)
  OBVIOUS
<1>8. ctx # <<>> /\ ctx[1] = c
  BY <1>6, <1>7
<1>9. PICK q : q = Append(p, f.map)
  BY Zenon
<1>10. st = Append(q, c)
  BY <1>2, <1>7, <1>8, <1>9 DEF OnTop
<1>11. DOMAIN w.box = 1 .. Len(w.box)
  BY SeqPlaces DEF WorldOK, ShowsRoots, BoxSeq
<1>12. c \in Nat /\ f.map \in Nat
  <2>1. f.map \in DOMAIN w.box
    BY <1>1, CtxIs
  <2> QED
    BY <1>4, <1>11, <2>1
<1>13. q \in Seq(Nat)
  BY <1>2, <1>9, <1>12, PutOn
<1> QED
  BY <1>3, <1>10, <1>12, <1>13, PutOn

\* or the list that is read.
LEMMA TopOfList ==
  ASSUME NEW w, WorldOK(w), NEW m, NEW obs, NEW cs, NEW gv, NEW la, NEW st, ReadAt(w, m, obs, cs, gv, la, st),
         cs # <<>>, NEW f, f = Last(cs), f.arr # Null
  PROVE  ListOK(w.box, w.num, Last(st), BodyAt(w, m, f)[f.arr.key])
<1> DEFINE layers == Layers[m[f.id].cls]
<1>1. MadesOK(w, m) /\ FramesOK(w, m, cs) /\ st = Piled(w, m, cs) /\ FrameOK(w, m, f)
  BY LastFrame DEF ReadAt
<1>2. PICK p \in Seq(Nat) : st = OnTop(w.box, layers, p, f)
  BY <1>1, PiledTop
<1>3. ArrOK(w, m, f) /\ f.l # 0
  BY <1>1 DEF FrameOK, ArrOK
<1>4. PICK y \in Range(FieldsAt(m, f)) : y.k = f.arr.key /\ y.t = "array"
  BY <1>3 DEF ArrOK
<1>5. PICK c : c = ContextAt(w, m, f)
  OBVIOUS
<1>6. CtxOf(w.box, layers, f) = <<c>> /\ c \in DOMAIN w.box
      /\ ListOK(w.box, w.num, w.box[c].at[y.k].v, BodyAt(w, m, f)[y.k])
  BY <1>1, <1>3, <1>4, <1>5, ListAt
<1>7. PICK ctx : ctx = CtxOf(w.box, layers, f)
  OBVIOUS
<1>8. ctx # <<>> /\ ctx[1] = c
  BY <1>6, <1>7
<1>9. PICK q : q = Append(Append(p, f.map), c)
  BY Zenon
<1>10. PICK v : v = w.box[c].at[f.arr.key].v
  OBVIOUS
<1>11. st = Append(q, v)
  BY Zenon, <1>2, <1>3, <1>7, <1>8, <1>9, <1>10 DEF OnTop
<1>12. DOMAIN w.box = 1 .. Len(w.box)
  BY SMTT(30), SeqPlaces DEF WorldOK, ShowsRoots, BoxSeq
<1>13. ListOK(w.box, w.num, v, BodyAt(w, m, f)[f.arr.key])
  BY <1>4, <1>6, <1>10
<1>14. c \in Nat /\ f.map \in Nat /\ v \in Nat
  <2>1. f.map \in DOMAIN w.box
    BY <1>1, CtxIs
  <2>2. v \in DOMAIN w.box
    BY <1>13 DEF ListOK
  <2> QED
    BY <1>6, <1>12, <2>1, <2>2
<1>15. q \in Seq(Nat)
  <2>1. Append(p, f.map) \in Seq(Nat)
    BY <1>2, <1>14, PutOn
  <2> QED
    BY <1>9, <1>14, <2>1, PutOn
<1>16. Last(st) = v
  BY <1>11, <1>14, <1>15, PutOn
<1> QED
  BY <1>13, <1>16

\* The call cs, or the program, asks for the value v of type t under key k.
Awaits(w, m, cs, gv, k, t, v) ==
  LET f == Last(cs) IN
  CASE cs = <<>> -> k \in DOMAIN w.roots \ DOMAIN gv /\ t = w.roots[k].t /\ v = w.roots[k].v
    [] cs # <<>> /\ f.arr = Null ->
         k \in f.todo /\ v = BodyAt(w, m, f)[k] /\ \E x \in Range(FieldsAt(m, f)) : x.k = k /\ x.t = t
    [] OTHER -> k = Len(f.arr.items) /\ k < f.arr.n /\ t = "ref" /\ v = BodyAt(w, m, f)[f.arr.key][k + 1]

\* e is what was packed for such a value.
EntryFits(w, e, t, v) ==
  /\ t \in Leaves => e.t = t /\ e.v = v
  /\ t = "ref" => IF v = Null THEN e = None ELSE v \in Obj /\ Stands(w.num, e, v)
  /\ t = "array" => e.t = "array" /\ ListOK(w.box, w.num, e.v, v)

EntryIn(at, k) == IF k \in DOMAIN at THEN at[k] ELSE None

\* Asked for by the program.
LEMMA RootAsks ==
  ASSUME NEW w, WorldOK(w), NEW m, NEW gv, NEW k \in DOMAIN w.roots \ DOMAIN gv
  PROVE  /\ Awaits(w, m, <<>>, gv, k, w.roots[k].t, w.roots[k].v)
         /\ EntryFits(w, EntryIn(w.box[1].at, k), w.roots[k].t, w.roots[k].v) /\ w.roots[k].t # "array"
<1>1. /\ w.roots[k].t \in {"ref", "integer"} /\ w.num \in Seq(Obj)
      /\ k \in DOMAIN w.box[1].at /\ RootOK(w.num, w.box[1].at[k], w.roots[k])
  BY DEF WorldOK, ShowsRoots
<1>2. PICK e : e = w.box[1].at[k]
  OBVIOUS
<1>3. PICK t, v : t = w.roots[k].t /\ v = w.roots[k].v
  OBVIOUS
<1>4. EntryIn(w.box[1].at, k) = e
  BY <1>1, <1>2 DEF EntryIn
<1>5. EntryFits(w, e, t, v)
  <2>1. CASE t = "ref"
    <3>1. Stands(w.num, e, v)
      BY <1>1, <1>2, <1>3, <2>1 DEF RootOK
    <3>2. v \in Obj
      <4>1. PICK s : s = w.num
        OBVIOUS
      <4>2. s \in Seq(Obj) /\ e.v \in 0 .. Len(s) - 1 /\ s[e.v + 1] = v
        BY <1>1, <3>1, <4>1 DEF Stands
      <4>3. e.v + 1 \in 1 .. Len(s)
        BY <4>2
      <4> QED
        BY <4>2, <4>3
    <3>3. v # Null
      BY <3>2, MmPackAssumption
    <3> QED
      BY <2>1, <3>1, <3>2, <3>3 DEF EntryFits, Leaves
  <2>2. CASE t = "integer"
    <3>1. e = [t |-> t, v |-> v]
      BY <1>1, <1>2, <1>3, <2>2 DEF RootOK
    <3> QED
      BY <2>2, <3>1 DEF EntryFits
  <2> QED
    BY <1>1, <1>3, <2>1, <2>2
<1>6. Awaits(w, m, <<>>, gv, k, w.roots[k].t, w.roots[k].v)
  BY DEF Awaits
<1> QED
  BY <1>1, <1>3, <1>4, <1>5, <1>6

\* Asked for by a layer.
LEMMA FieldAsks ==
  ASSUME NEW w, WorldOK(w), NEW m, MadesOK(w, m), NEW f, FrameOK(w, m, f), f.l # 0,
         NEW x \in Range(FieldsAt(m, f))
  PROVE  EntryFits(w, EntryIn(w.box[ContextAt(w, m, f)].at, x.k), x.t, BodyAt(w, m, f)[x.k])
<1>1. PICK at : at = w.box[ContextAt(w, m, f)].at
  OBVIOUS
<1>2. PICK v : v = BodyAt(w, m, f)[x.k]
  OBVIOUS
<1>3. EntryOK(w.box, w.num, at, x, v)
  BY <1>1, <1>2, ContextIs
<1>4. IsValue(x.t, v) /\ x.t \in Leaves \cup {"ref", "array"}
  BY <1>2, FrameAt DEF Fields
<1>5. CASE x.t = "ref"
  <2>1. v \in Obj \cup {Null}
    BY <1>4, <1>5 DEF IsValue
  <2>2. IF v = Null THEN EntryIn(at, x.k) = None ELSE Stands(w.num, EntryIn(at, x.k), v)
    BY <1>3, <1>5 DEF EntryOK, EntryIn
  <2> QED
    BY <1>1, <1>2, <1>5, <2>1, <2>2 DEF EntryFits, Leaves
<1>6. CASE x.t = "array"
  <2>1. EntryIn(at, x.k).t = "array" /\ ListOK(w.box, w.num, EntryIn(at, x.k).v, v)
    BY <1>3, <1>6 DEF EntryOK, EntryIn
  <2> QED
    BY <1>1, <1>2, <1>6, <2>1 DEF EntryFits, Leaves
<1>7. CASE x.t \in Leaves
  <2>1. EntryIn(at, x.k) = [t |-> x.t, v |-> v]
    BY <1>3, <1>7 DEF EntryOK, EntryIn
  <2>2. EntryIn(at, x.k).t = x.t /\ EntryIn(at, x.k).v = v
    BY <2>1
  <2> QED
    BY <1>1, <1>2, <1>7, <2>2 DEF EntryFits, Leaves
<1> QED
  BY <1>4, <1>5, <1>6, <1>7

\* Asked for by the initialiser of an array.
LEMMA ItemAsks ==
  ASSUME NEW w, WorldOK(w), NEW m, MadesOK(w, m), NEW f, FrameOK(w, m, f), f.arr # Null,
         NEW k, k = Len(f.arr.items), k < f.arr.n,
         NEW c, ListOK(w.box, w.num, c, BodyAt(w, m, f)[f.arr.key])
  PROVE  EntryFits(w, EntryIn(w.box[c].at, k), "ref", BodyAt(w, m, f)[f.arr.key][k + 1])
<1>1. PICK v : v = BodyAt(w, m, f)[f.arr.key]
  OBVIOUS
<1>2. ArrOK(w, m, f) /\ f.l # 0
  BY DEF FrameOK, ArrOK
<1>3. v \in Seq(Obj)
  <2>1. PICK y \in Range(FieldsAt(m, f)) : y.k = f.arr.key /\ y.t = "array"
    BY <1>2 DEF ArrOK
  <2>2. IsValue(y.t, BodyAt(w, m, f)[y.k])
    BY <1>2, FrameAt
  <2> QED
    BY <1>1, <2>1, <2>2 DEF IsValue
<1>4. f.arr.n = Len(v) /\ IsSeq(f.arr.items)
  BY <1>1, <1>2 DEF ArrOK
<1>5. k \in Nat /\ Len(v) \in Nat /\ k < Len(v)
  BY <1>3, <1>4, SeqPlaces
<1>6. k + 1 \in 1 .. Len(v) /\ (k + 1) - 1 = k /\ k \in 0 .. Len(v) - 1
  BY <1>5
<1>7. PICK at : at = w.box[c].at
  OBVIOUS
<1>8. k \in DOMAIN at /\ Stands(w.num, at[k], v[k + 1])
  <2>1. PICK j : j = k + 1
    OBVIOUS
  <2>2. j \in 1 .. Len(v) /\ j - 1 = k
    BY <1>6, <2>1
  <2>3. DOMAIN at = 0 .. Len(v) - 1 /\ Stands(w.num, at[j - 1], v[j])
    BY <1>1, <1>7, <2>2 DEF ListOK
  <2> QED
    BY <1>6, <2>1, <2>2, <2>3
<1>9. v[k + 1] \in Obj /\ v[k + 1] # Null
  BY <1>3, <1>6, MmPackAssumption
<1> QED
  BY <1>1, <1>7, <1>8, <1>9 DEF EntryFits, EntryIn, Leaves

\* Any call finds what was packed for the value it asks for.
LEMMA Asked ==
  ASSUME NEW w, w = World, WorldOK(w), ReadAt(w, made, objects, calls, given, last, stack), NEW k \in Wanted
  PROVE  /\ \E v : Awaits(w, made, calls, given, k, Type(k), v) /\ EntryFits(w, Entry(k), Type(k), v)
         /\ Type(k) = "array" => calls # <<>> /\ Frame.arr = Null
<1>1. w.box = box /\ w.roots = roots
  BY DEF World
<1>2. Entry(k) = EntryIn(w.box[Last(stack)].at, k)
  BY <1>1 DEF Entry, EntryIn, Top
<1>3. MadesOK(w, made) /\ FramesOK(w, made, calls)
  BY DEF ReadAt
<1>4. CASE calls = <<>>
  <2>1. ReadAt(w, made, objects, <<>>, given, last, stack)
    BY <1>4
  <2>2. Last(stack) = 1
    BY <2>1, TopOfRoots
  <2>3. k \in DOMAIN w.roots \ DOMAIN given /\ Type(k) = w.roots[k].t
    BY <1>1, <1>4 DEF Wanted, Type
  <2> QED
    BY Zenon, <1>2, <1>4, <2>2, <2>3, RootAsks
<1>5. ASSUME calls # <<>>
      PROVE  FrameOK(w, made, Frame)
  BY <1>5, LastFrame DEF Frame
<1>6. CASE calls # <<>> /\ Frame.arr = Null
  <2>1. PICK f : f = Frame
    OBVIOUS
  <2>2. k \in f.todo /\ Type(k) = FieldType(Layers[made[f.id].cls][f.l], k)
    BY <1>6, <2>1 DEF Wanted, Type, LayersOf
  <2>3. FrameOK(w, made, f) /\ f = Last(calls) /\ f.arr = Null
    BY <1>5, <1>6, <2>1 DEF Frame
  <2>4. f.l # 0 /\ \E x \in Range(FieldsAt(made, f)) : x.k = k /\ Type(k) = x.t
    BY <1>3, <2>2, <2>3, FieldOf
  <2>5. PICK x \in Range(FieldsAt(made, f)) : x.k = k /\ Type(k) = x.t
    BY <2>4
  <2>6. Last(stack) = ContextAt(w, made, f)
    BY <1>6, <2>3, <2>4, TopOfField
  <2>7. EntryFits(w, Entry(k), x.t, BodyAt(w, made, f)[k])
    BY <1>2, <1>3, <2>3, <2>4, <2>5, <2>6, FieldAsks
  <2>8. Awaits(w, made, calls, given, k, x.t, BodyAt(w, made, f)[k])
    BY <1>6, <2>2, <2>3, <2>5 DEF Awaits
  <2> QED
    BY <1>6, <2>5, <2>7, <2>8
<1>7. CASE calls # <<>> /\ Frame.arr # Null
  <2>1. PICK f : f = Frame
    OBVIOUS
  <2>2. f = Last(calls) /\ FrameOK(w, made, f) /\ f.arr # Null
    BY <1>5, <1>7, <2>1 DEF Frame
  <2>3. k \in {Len(f.arr.items)} \cap 0 .. f.arr.n - 1 /\ Type(k) = "ref"
    BY <1>7, <2>1 DEF Wanted, Type
  <2>4. k = Len(f.arr.items) /\ k < f.arr.n
    <3>1. f.arr.n \in Nat
      <4>1. ArrOK(w, made, f) /\ f.l # 0
        BY <2>2 DEF FrameOK, ArrOK
      <4>2. PICK y \in Range(FieldsAt(made, f)) : y.k = f.arr.key /\ y.t = "array"
        BY <4>1 DEF ArrOK
      <4>3. BodyAt(w, made, f)[f.arr.key] \in Seq(Obj)
        BY <1>3, <2>2, <4>1, <4>2, FrameAt DEF IsValue
      <4>4. f.arr.n = Len(BodyAt(w, made, f)[f.arr.key])
        BY <4>1 DEF ArrOK
      <4> QED
        BY <4>3, <4>4
    <3> QED
      BY <2>3, <3>1
  <2>5. ListOK(w.box, w.num, Last(stack), BodyAt(w, made, f)[f.arr.key])
    BY <1>7, <2>2, TopOfList
  <2>6. EntryFits(w, Entry(k), "ref", BodyAt(w, made, f)[f.arr.key][k + 1])
    BY <1>2, <1>3, <2>2, <2>4, <2>5, ItemAsks
  <2>7. Awaits(w, made, calls, given, k, "ref", BodyAt(w, made, f)[f.arr.key][k + 1])
    BY <1>7, <2>2, <2>4 DEF Awaits
  <2> QED
    BY <2>3, <2>6, <2>7
<1> QED
  BY <1>4, <1>6, <1>7

\* No object waits to be met when a layer has fields to fill.
LEMMA FilledWaitsNot ==
  ASSUME NEW w, WorldOK(w), NEW m, NEW obs, NEW cs, NEW gv, NEW la, NEW st, ReadAt(w, m, obs, cs, gv, la, st),
         cs # <<>>, NEW f, f = Last(cs), f.l # 0, NEW y \in Range(FieldsAt(m, f))
  PROVE  la = Null
<1>1. MadesOK(w, m) /\ FrameOK(w, m, f) /\ Len(cs) \in DOMAIN cs /\ f = cs[Len(cs)] /\ WaitOK(m, cs, la)
  BY LastFrame DEF ReadAt
<1>2. Layers[m[f.id].cls][f.l].init /\ f.l \in Nat
  BY Zenon, <1>1, ContextIs, FrameAt
<1>3. ~Waits(m, f)
  BY <1>2 DEF Waits
<1> QED
  BY <1>1, <1>3 DEF WaitOK

\* A call that asks is at a layer with fields.
LEMMA AwaitsAt ==
  ASSUME NEW w, WorldOK(w), NEW m, NEW obs, NEW cs, NEW gv, NEW la, NEW st, ReadAt(w, m, obs, cs, gv, la, st),
         NEW f, f = Last(cs), cs # <<>>, NEW k, NEW t, NEW v, Awaits(w, m, cs, gv, k, t, v)
  PROVE  f.l # 0 /\ la = Null /\ \E x \in Range(FieldsAt(m, f)) : f.arr = Null => x.k = k /\ x.t = t
<1>1. FrameOK(w, m, f)
  BY LastFrame
<1>2. f.l # 0 /\ \E x \in Range(FieldsAt(m, f)) : f.arr = Null => x.k = k /\ x.t = t
  <2>1. CASE f.arr = Null
    BY <1>1, <2>1 DEF Awaits, FrameOK
  <2>2. CASE f.arr # Null
    BY <1>1, <2>2 DEF FrameOK, ArrOK
  <2> QED
    BY <2>1, <2>2
<1> QED
  BY <1>2, FilledWaitsNot

----------------------------------------------------------------------------
(* What a call returns goes to whoever asked                               *)

IsCall(f) == f = [key |-> f.key, id |-> f.id, map |-> f.map, l |-> f.l, todo |-> f.todo, arr |-> f.arr]

\* A call with other things to do, or with another list.
WithTodo(f, z) == Call(f.key, f.id, f.map, f.l, z, f.arr)
WithArr(f, z) == Call(f.key, f.id, f.map, f.l, f.todo, z)

\* The parts of a call.
LEMMA CallParts ==
  ASSUME NEW a, NEW b, NEW c, NEW d, NEW e, NEW g, NEW f, f = Call(a, b, c, d, e, g)
  PROVE  f.key = a /\ f.id = b /\ f.map = c /\ f.l = d /\ f.todo = e /\ f.arr = g /\ IsCall(f)
BY DEF Call, IsCall

\* The list that a call is reading has an identity as a list of objects.
LEMMA ArrIs ==
  ASSUME NEW w, WorldOK(w), NEW m, MadesOK(w, m), NEW f, FrameOK(w, m, f), f.arr # Null
  PROVE  /\ f.arr = [key |-> f.arr.key, n |-> f.arr.n, items |-> f.arr.items]
         /\ f.l # 0 /\ f.arr.key \in f.todo /\ f.arr.key \in Nat /\ f.arr.n \in Nat /\ f.arr.items \in Seq(Nat)
         /\ Len(f.arr.items) <= f.arr.n /\ BodyAt(w, m, f)[f.arr.key] \in Seq(Obj)
         /\ f.arr.n = Len(BodyAt(w, m, f)[f.arr.key])
         /\ \A j \in 1 .. Len(f.arr.items) : IsTwin(w, m, f.arr.items[j], BodyAt(w, m, f)[f.arr.key][j])
         /\ \E x \in Range(FieldsAt(m, f)) : x.k = f.arr.key /\ x.t = "array"
<1>1. ArrOK(w, m, f) /\ f.l # 0
  BY DEF FrameOK, ArrOK
<1>2. PICK x \in Range(FieldsAt(m, f)) : x.k = f.arr.key /\ x.t = "array"
  BY <1>1 DEF ArrOK
<1>3. x \in Fields /\ IsValue(x.t, BodyAt(w, m, f)[x.k])
  BY <1>1, FrameAt
<1>4. PICK v : v = BodyAt(w, m, f)[f.arr.key]
  OBVIOUS
<1>5. v \in Seq(Obj) /\ f.arr.key \in Nat
  BY <1>2, <1>3, <1>4 DEF IsValue, Fields
<1>6. PICK s : s = f.arr.items
  OBVIOUS
<1>7. /\ f.arr.n = Len(v) /\ IsSeq(s) /\ Len(s) <= Len(v)
      /\ \A j \in 1 .. Len(s) : IsTwin(w, m, s[j], v[j])
  BY <1>1, <1>4, <1>6 DEF ArrOK
<1>8. s \in Seq(Nat)
  <2>1. DOMAIN m = 1 .. Len(m)
    BY SeqPlaces DEF MadesOK, MadeSeq
  <2>2. DOMAIN s = 1 .. Len(s) /\ Len(s) \in Nat /\ s \in Seq(Range(s))
    BY <1>7, SeqPlaces DEF IsSeq
  <2>3. \A j \in 1 .. Len(s) : s[j] \in Nat
    BY <1>7, <2>1 DEF IsTwin
  <2>4. Range(s) \subseteq Nat
    BY <2>2, <2>3 DEF Range
  <2>5. PICK R : R = Range(s)
    OBVIOUS
  <2> QED
    BY <2>2, <2>4, <2>5
<1> QED
  BY <1>1, <1>2, <1>4, <1>5, <1>6, <1>7, <1>8 DEF ArrOK

\* Call f comes to h, with another list.
ListMoved(f, h, a) == h = WithArr(f, a)

\* A list goes on with another object, or is begun.
LEMMA ListGoesOn ==
  ASSUME NEW w, WorldOK(w), NEW m, NEW obs, NEW cs, NEW gv, NEW la, NEW st, ReadAt(w, m, obs, cs, gv, la, st),
         cs # <<>>, NEW f, f = Last(cs),
         NEW h, NEW a, ListMoved(f, h, a), FrameOK(w, m, h),
         NEW t, t = Replaced(cs, h)
  PROVE  /\ Len(t) = Len(cs) /\ ReadAt(w, m, obs, t, gv, la, Piled(w, m, t))
         /\ Piled(w, m, t) = OnTop(w.box, Layers[m[f.id].cls], Piled(w, m, Front(cs)), h)
<1>1. h.key = f.key /\ h.id = f.id /\ h.map = f.map /\ h.l = f.l /\ h.todo = f.todo
  BY CallParts DEF ListMoved, WithArr
<1>2. MadesOK(w, m) /\ FramesOK(w, m, cs)
  BY DEF ReadAt
<1>3. Grows(m, m)
  BY DEF Grows
<1>4. /\ FramesOK(w, m, t) /\ t # <<>> /\ Len(t) = Len(cs) /\ Last(t) = h
      /\ LedOK(w, m, cs) => LedOK(w, m, t)
      /\ DueOK(w, m, cs, gv) => DueOK(w, m, t, gv)
      /\ WaitOK(m, cs, la) /\ (Waits(m, h) <=> la # Null) => WaitOK(m, t, la)
      /\ Piled(w, m, t) = OnTop(w.box, Layers[m[h.id].cls], Piled(w, m, Front(cs)), h)
  BY <1>1, <1>2, <1>3, TopChanges
<1>5. WaitOK(m, t, la)
  <2>1. Len(cs) \in DOMAIN cs /\ f = cs[Len(cs)]
    BY LastFrame
  <2>2. WaitOK(m, cs, la)
    BY DEF ReadAt
  <2>3. Waits(m, f) <=> la # Null
    BY <2>1, <2>2 DEF WaitOK
  <2>4. Waits(m, h) <=> Waits(m, f)
    BY <1>1 DEF Waits
  <2> QED
    BY <1>4, <2>2, <2>3, <2>4
<1>6. LeftOK(m, t)
  <2>1. \A i, l, k : HasGot(t, i, l, k) <=> HasGot(cs, i, l, k)
    <3> SUFFICES ASSUME NEW i, NEW l, NEW k PROVE HasGot(t, i, l, k) <=> HasGot(cs, i, l, k)
      OBVIOUS
    <3>1. CASE i = f.id
      <4>1. HasGot(cs, i, l, k) <=> l < f.l \/ (l = f.l /\ k \notin f.todo)
        BY Zenon, <1>2, <3>1, LeftTop
      <4>2. FramesOK(w, m, t) /\ t # <<>> /\ Last(t) = h /\ i = h.id
        BY <1>1, <1>4, <3>1
      <4>3. HasGot(t, Last(t).id, l, k) <=> l < Last(t).l \/ (l = Last(t).l /\ k \notin Last(t).todo)
        BY Zenon, <4>2, LeftTop
      <4> QED
        BY <1>1, <4>1, <4>2, <4>3
    <3>2. CASE i # f.id
      BY <1>1, <1>2, <3>2, LeftBelow
    <3> QED
      BY <3>1, <3>2
  <2> QED
    BY Zenon, <2>1 DEF LeftOK, ReadAt
<1>7. ReadAt(w, m, obs, t, gv, la, Piled(w, m, t))
  BY <1>4, <1>5, <1>6 DEF ReadAt
<1> QED
  BY <1>1, <1>4, <1>7

\* The boxes of a call that goes on with the same list.
LEMMA SameListTop ==
  ASSUME NEW b, NEW layers, NEW p, NEW f, NEW h, h.map = f.map, h.l = f.l,
         f.arr # Null, h.arr # Null, h.arr.key = f.arr.key
  PROVE  OnTop(b, layers, p, h) = OnTop(b, layers, p, f)
<1>1. HooksBegun(layers, h) = HooksBegun(layers, f)
  BY DEF HooksBegun
<1>2. LastHook(layers, h) = LastHook(layers, f)
  BY <1>1 DEF LastHook
<1>3. CtxOf(b, layers, h) = CtxOf(b, layers, f)
  BY <1>1, <1>2 DEF CtxOf
<1> QED
  BY <1>3 DEF OnTop

\* A list with one more object.
OneMore(arr, a, r) == a = [key |-> arr.key, n |-> arr.n, items |-> Append(arr.items, r)]

NextItem(w, m, f) == BodyAt(w, m, f)[f.arr.key][Len(f.arr.items) + 1]

\* An array gets its next object.
LEMMA ItemGot ==
  ASSUME NEW w, WorldOK(w), NEW m, NEW obs, NEW cs, NEW gv, NEW la, NEW st, ReadAt(w, m, obs, cs, gv, la, st),
         cs # <<>>, NEW f, f = Last(cs), f.arr # Null, Len(f.arr.items) < f.arr.n,
         NEW r, IsTwin(w, m, r, NextItem(w, m, f)),
         NEW a, OneMore(f.arr, a, r), NEW h, ListMoved(f, h, a), NEW t, t = Replaced(cs, h)
  PROVE  Len(t) = Len(cs) /\ ReadAt(w, m, obs, t, gv, la, st)
<1>1. MadesOK(w, m) /\ FramesOK(w, m, cs) /\ FrameOK(w, m, f) /\ st = Piled(w, m, cs)
  BY LastFrame DEF ReadAt
<1>2. PICK key, n, s : key = f.arr.key /\ n = f.arr.n /\ s = f.arr.items
  BY Zenon
<1>3. PICK v : v = BodyAt(w, m, f)[key]
  OBVIOUS
<1>4. /\ key \in f.todo /\ key \in Nat /\ n \in Nat /\ s \in Seq(Nat) /\ Len(s) <= n /\ n = Len(v)
      /\ \A j \in 1 .. Len(s) : IsTwin(w, m, s[j], v[j])
      /\ f.l # 0 /\ \E x \in Range(FieldsAt(m, f)) : x.k = key /\ x.t = "array"
  BY Zenon, <1>1, <1>2, <1>3, ArrIs
<1>5. PICK u : u = Append(s, r)
  BY Zenon
<1>6. r \in Nat
  <2>1. DOMAIN m = 1 .. Len(m)
    BY <1>1, SeqPlaces DEF MadesOK, MadeSeq
  <2> QED
    BY <2>1 DEF IsTwin
<1>7. u \in Seq(Nat) /\ Len(u) = Len(s) + 1 /\ u[Len(s) + 1] = r /\ \A j \in 1 .. Len(s) : u[j] = s[j]
  BY <1>4, <1>5, <1>6, PutOn
<1>8. a = [key |-> key, n |-> n, items |-> u] /\ a.key = key /\ a.n = n /\ a.items = u
  BY <1>2, <1>5 DEF OneMore
<1>9. a # Null
  <2>1. a \in [key : Nat, n : Nat, items : Seq(Nat)]
    BY <1>4, <1>7, <1>8
  <2> QED
    BY <2>1, MmUnpackAssumption
<1>10. /\ h.key = f.key /\ h.id = f.id /\ h.map = f.map /\ h.l = f.l /\ h.todo = f.todo /\ h.arr = a /\ IsCall(h)
  BY CallParts DEF ListMoved, WithArr
<1>11. \A j \in 1 .. Len(u) : IsTwin(w, m, u[j], v[j])
  <2>1. IsTwin(w, m, r, v[Len(s) + 1])
    BY <1>2, <1>3 DEF NextItem
  <2>2. \A j \in 1 .. Len(u) : j \in 1 .. Len(s) \/ j = Len(s) + 1
    BY <1>4, <1>7
  <2> QED
    BY <1>4, <1>7, <2>1, <2>2
<1>12. IsSeq(u) /\ Len(u) <= Len(v)
  <2>1. Len(u) <= Len(v)
    BY <1>2, <1>4, <1>7
  <2> QED
    BY <1>7, <2>1, SeqIs
<1>13. FrameOK(w, m, h)
  <2>1. FieldsAt(m, h) = FieldsAt(m, f) /\ BodyAt(w, m, h) = BodyAt(w, m, f) /\ Source(w, m, h.id) = Source(w, m, f.id)
    BY <1>10 DEF FieldsAt, BodyAt, Source
  <2>2. ArrOK(w, m, h)
    BY <1>3, <1>4, <1>8, <1>10, <1>11, <1>12, <2>1 DEF ArrOK
  <2> QED
    BY <1>1, <1>10, <2>1, <2>2 DEF FrameOK, IsCall
<1>14. PICK p : p = Piled(w, m, Front(cs))
  OBVIOUS
<1>15. PICK layers : layers = Layers[m[f.id].cls]
  OBVIOUS
<1>16. Len(t) = Len(cs) /\ ReadAt(w, m, obs, t, gv, la, Piled(w, m, t)) /\ Piled(w, m, t) = OnTop(w.box, layers, p, h)
  <2>1. Len(t) = Len(cs) /\ ReadAt(w, m, obs, t, gv, la, Piled(w, m, t))
    BY <1>13, ListGoesOn
  <2>2. Piled(w, m, t) = OnTop(w.box, Layers[m[f.id].cls], Piled(w, m, Front(cs)), h)
    BY <1>13, ListGoesOn
  <2> QED
    BY <1>14, <1>15, <2>1, <2>2
<1>17. st = OnTop(w.box, layers, p, f)
  BY <1>1, <1>14, <1>15, PiledTop
<1>18. OnTop(w.box, layers, p, h) = OnTop(w.box, layers, p, f)
  <2>1. h.map = f.map /\ h.l = f.l /\ f.arr # Null /\ h.arr # Null /\ h.arr.key = f.arr.key
    BY <1>2, <1>8, <1>9, <1>10
  <2>2. PICK b : b = w.box
    OBVIOUS
  <2>3. OnTop(b, layers, p, h) = OnTop(b, layers, p, f)
    BY <2>1, SameListTop
  <2> QED
    BY <2>2, <2>3
<1> QED
  BY <1>16, <1>17, <1>18

\* The program is given a root.
LEMMA RootGiven ==
  ASSUME NEW w, NEW m, NEW obs, NEW gv, NEW la, NEW st, ReadAt(w, m, obs, <<>>, gv, la, st),
         NEW k \in DOMAIN w.roots \ DOMAIN gv, NEW r, Copies(w, m, w.roots[k].t, w.roots[k].v, r)
  PROVE  ReadAt(w, m, obs, <<>>, Under(gv, k, r), la, st)
<1>1. GivenOK(w, m, Under(gv, k, r))
  <2>1. GivenOK(w, m, gv)
    BY DEF ReadAt
  <2> QED
    BY <2>1 DEF GivenOK, Under
<1>2. DueOK(w, m, <<>>, Under(gv, k, r))
  BY DEF DueOK
<1> QED
  BY <1>1, <1>2 DEF ReadAt

TodoSet(cs, z) == [cs EXCEPT ![Len(cs)].todo = z]
ArrSet(cs, z) == [cs EXCEPT ![Len(cs)].arr = z]

\* The last of the calls cs does something.
LEMMA LastDoes ==
  ASSUME NEW cs, IsSeq(cs), cs # <<>>, NEW f, f = Last(cs), IsCall(f), NEW z
  PROVE  TodoSet(cs, z) = Replaced(cs, WithTodo(f, z)) /\ ArrSet(cs, z) = Replaced(cs, WithArr(f, z))
<1>1. PICK n : n = Len(cs)
  BY Zenon
<1>2. n \in DOMAIN cs /\ cs[n] = f
  BY <1>1, CallsAre
<1>3. PICK a, b, c, d, e, i : a = f.key /\ b = f.id /\ c = f.map /\ d = f.l /\ e = f.todo /\ i = f.arr
  OBVIOUS
<1>4. cs[n] = [key |-> a, id |-> b, map |-> c, l |-> d, todo |-> e, arr |-> i]
  BY <1>2, <1>3 DEF IsCall
<1>5. PICK g, h : g = Call(a, b, c, d, z, i) /\ h = Call(a, b, c, d, e, z)
  OBVIOUS
<1>6. [cs EXCEPT ![n].todo = z] = [cs EXCEPT ![n] = g] /\ [cs EXCEPT ![n].arr = z] = [cs EXCEPT ![n] = h]
  <2>1. PICK y : y = cs[n]
    OBVIOUS
  <2>2. [y EXCEPT !.todo = z] = g /\ [y EXCEPT !.arr = z] = h
    BY <1>4, <1>5, <2>1 DEF Call
  <2>3. /\ [cs EXCEPT ![n].todo = z] = [cs EXCEPT ![n] = [y EXCEPT !.todo = z]]
        /\ [cs EXCEPT ![n].arr = z] = [cs EXCEPT ![n] = [y EXCEPT !.arr = z]]
    BY <1>2, <2>1
  <2> QED
    BY Zenon, <2>2, <2>3
<1> QED
  BY <1>1, <1>3, <1>5, <1>6 DEF Replaced, TodoSet, ArrSet, WithTodo, WithArr

\* A layer gets what a call returns.
LEMMA FieldDelivered ==
  ASSUME NEW w, WorldOK(w), NEW obs, NEW cs, NEW la, NEW st, ReadAt(w, made, obs, cs, given, la, st),
         cs # <<>>, Last(cs).arr = Null,
         NEW k, NEW t, NEW v, Awaits(w, made, cs, given, k, t, v), NEW r, Copies(w, made, t, v, r),
         Deliver(cs, k, r)
  PROVE  ReadAt(w, made', obs, calls', given, la, st) /\ Len(calls') = Len(cs) /\ given' = given /\ fault' = fault
<1>1. PICK f : f = Last(cs)
  OBVIOUS
<1>2. FrameOK(w, made, f) /\ IsSeq(cs) /\ f.arr = Null
  BY <1>1, LastFrame DEF ReadAt, FramesOK
<1>3. k \in f.todo /\ v = BodyAt(w, made, f)[k] /\ \E x \in Range(FieldsAt(made, f)) : x.k = k /\ x.t = t
  BY <1>1 DEF Awaits
<1>4. PICK x \in Range(FieldsAt(made, f)) : x.k = k /\ x.t = t
  BY <1>3
<1>5. /\ made' = [made EXCEPT ![f.id].got = Under(@, <<f.l, k>>, r)]
      /\ calls' = [cs EXCEPT ![Len(cs)].todo = @ \ {k}] /\ given' = given /\ fault' = fault
  BY <1>1 DEF Deliver
<1>6. PICK g : g = made'
  OBVIOUS
<1>7. PICK u : u = calls'
  OBVIOUS
<1>8. FieldFilled(made, g, f, x.k, r)
  BY <1>4, <1>5, <1>6 DEF FieldFilled, Filled
<1>9. PICK h : h = Call(f.key, f.id, f.map, f.l, f.todo \ {k}, Null)
  OBVIOUS
<1>10. FieldDone(f, h, x.k)
  BY <1>4, <1>9 DEF FieldDone
<1>11. u = Replaced(cs, h)
  <2>1. PICK z : z = f.todo \ {k}
    BY Zenon
  <2>2. cs[Len(cs)] = f
    BY <1>1, <1>2, CallsAre
  <2>3. u = TodoSet(cs, z)
    BY <1>5, <1>7, <2>1, <2>2 DEF TodoSet
  <2>4. IsCall(f)
    BY <1>2 DEF FrameOK, IsCall
  <2>5. TodoSet(cs, z) = Replaced(cs, WithTodo(f, z))
    BY <1>1, <1>2, <2>4, LastDoes
  <2> QED
    BY <1>2, <1>9, <2>1, <2>3, <2>5 DEF WithTodo
<1>12. FieldCopied(w, made, f, x, r)
  BY <1>3, <1>4 DEF FieldCopied
<1>13. Len(u) = Len(cs) /\ ReadAt(w, g, obs, u, given, la, st)
  BY <1>1, <1>2, <1>8, <1>10, <1>11, <1>12, FieldGot
<1> QED
  BY <1>2, <1>5, <1>6, <1>7, <1>13

\* An array does.
LEMMA ItemDelivered ==
  ASSUME NEW w, WorldOK(w), NEW obs, NEW cs, NEW la, NEW st, ReadAt(w, made, obs, cs, given, la, st),
         cs # <<>>, Last(cs).arr # Null,
         NEW k, NEW t, NEW v, Awaits(w, made, cs, given, k, t, v), NEW r, Copies(w, made, t, v, r),
         Deliver(cs, k, r)
  PROVE  /\ ReadAt(w, made', obs, calls', given, la, st) /\ Len(calls') = Len(cs) /\ given' = given /\ fault' = fault
<1>1. PICK f : f = Last(cs)
  OBVIOUS
<1>2. FrameOK(w, made, f) /\ IsSeq(cs) /\ f.arr # Null /\ MadesOK(w, made)
  BY <1>1, LastFrame DEF ReadAt, FramesOK
<1>3. k = Len(f.arr.items) /\ k < f.arr.n /\ t = "ref" /\ v = BodyAt(w, made, f)[f.arr.key][k + 1]
  BY <1>1 DEF Awaits
<1>4. IsTwin(w, made, r, v)
  <2>1. PICK s : s = BodyAt(w, made, f)[f.arr.key]
    OBVIOUS
  <2>2. s \in Seq(Obj) /\ f.arr.n = Len(s) /\ f.arr.items \in Seq(Nat)
    BY Zenon, <1>2, <2>1, ArrIs
  <2>3. k + 1 \in 1 .. Len(s)
    BY <1>3, <2>2
  <2>4. v \in Obj
    BY <1>3, <2>1, <2>2, <2>3
  <2>5. v # Null
    BY <2>4, MmPackAssumption
  <2> QED
    BY <1>3, <2>5 DEF Copies
<1>5. r # Null
  <2>1. DOMAIN made = 1 .. Len(made)
    BY <1>2, SeqPlaces DEF MadesOK, MadeSeq
  <2>2. r \in Nat
    BY <1>4, <2>1 DEF IsTwin
  <2> QED
    BY <2>2, MmPackAssumption
<1>6. /\ made' = made /\ given' = given /\ fault' = fault
      /\ calls' = [cs EXCEPT ![Len(cs)].arr.items = Append(@, r)]
  BY <1>1, <1>5 DEF Deliver
<1>7. PICK u : u = calls'
  OBVIOUS
<1>8. PICK a : a = [key |-> f.arr.key, n |-> f.arr.n, items |-> Append(f.arr.items, r)]
  BY Zenon
<1>9. PICK h : h = WithArr(f, a)
  OBVIOUS
<1>10. u = Replaced(cs, h)
  <2>1. cs[Len(cs)] = f
    BY <1>1, <1>2, CallsAre
  <2>2. PICK key, n, s : key = f.arr.key /\ n = f.arr.n /\ s = f.arr.items
    BY Zenon
  <2>3. f.arr = [key |-> key, n |-> n, items |-> s]
    BY <1>2, <2>2, ArrIs
  <2>4. PICK i : i = Append(s, r)
    BY Zenon
  <2>5. a = [key |-> key, n |-> n, items |-> i]
    BY <1>8, <2>2, <2>4
  <2>6. Len(cs) \in DOMAIN cs
    BY <1>2, CallsAre
  <2>7. PICK c : c = cs[Len(cs)].arr
    OBVIOUS
  <2>8. u = [cs EXCEPT ![Len(cs)].arr = [c EXCEPT !.items = i]]
    BY <1>6, <1>7, <2>1, <2>2, <2>4, <2>7
  <2>9. c = [key |-> key, n |-> n, items |-> s]
    BY <2>1, <2>3, <2>7
  <2>10. [c EXCEPT !.items = i] = a
    BY <2>5, <2>9
  <2>11. u = ArrSet(cs, a)
    BY Zenon, <2>8, <2>10 DEF ArrSet
  <2>12. IsCall(f)
    BY <1>2 DEF FrameOK, IsCall
  <2>13. ArrSet(cs, a) = Replaced(cs, WithArr(f, a))
    BY <1>1, <1>2, <2>12, LastDoes
  <2> QED
    BY <1>9, <2>11, <2>13
<1>11. OneMore(f.arr, a, r) /\ ListMoved(f, h, a)
  BY <1>8, <1>9 DEF OneMore, ListMoved
<1>12. Len(f.arr.items) < f.arr.n /\ IsTwin(w, made, r, NextItem(w, made, f))
  BY <1>3, <1>4 DEF NextItem
<1>13. Len(u) = Len(cs) /\ ReadAt(w, made, obs, u, given, la, st)
  BY <1>1, <1>2, <1>10, <1>11, <1>12, ItemGot
<1> QED
  BY <1>6, <1>7, <1>13

\* The result of a call goes where it belongs.
LEMMA Delivered ==
  ASSUME NEW w, WorldOK(w), NEW obs, NEW cs, NEW la, NEW st, ReadAt(w, made, obs, cs, given, la, st),
         NEW k, NEW t, NEW v, Awaits(w, made, cs, given, k, t, v), NEW r, Copies(w, made, t, v, r),
         Deliver(cs, k, r)
  PROVE  ReadAt(w, made', obs, calls', given', la, st) /\ Len(calls') = Len(cs) /\ fault' = fault
<1>1. CASE cs = <<>>
  <2>1. given' = Under(given, k, r) /\ made' = made /\ fault' = fault /\ calls' = <<>>
    BY <1>1 DEF Deliver
  <2>2. k \in DOMAIN w.roots \ DOMAIN given /\ t = w.roots[k].t /\ v = w.roots[k].v
    BY <1>1 DEF Awaits
  <2>3. ReadAt(w, made, obs, <<>>, Under(given, k, r), la, st)
    BY <1>1, <2>2, RootGiven
  <2> QED
    BY <1>1, <2>1, <2>3
<1>2. CASE cs # <<>> /\ Last(cs).arr = Null
  BY <1>2, FieldDelivered
<1>3. CASE cs # <<>> /\ Last(cs).arr # Null
  BY <1>3, ItemDelivered
<1> QED
  BY <1>1, <1>2, <1>3

----------------------------------------------------------------------------
(* The unpack_ calls of the program, of a layer or of an array             *)

\* The layer of o that call f is at.
LayerOfIt(w, m, f, o) ==
  /\ o \in Obj /\ f.l \in DOMAIN w.graph[o].body /\ f.l \in DOMAIN Layers[w.graph[o].cls]
  /\ w.graph[o].cls = m[f.id].cls
  /\ FieldsAt(m, f) = Layers[w.graph[o].cls][f.l].fields /\ BodyAt(w, m, f) = w.graph[o].body[f.l]

\* The layer a call is at belongs to the object of the call.
LEMMA LayerAt ==
  ASSUME NEW w, WorldOK(w), NEW m, MadesOK(w, m), NEW f, FrameOK(w, m, f), f.l # 0,
         NEW o, o = w.num[m[f.id].num + 1]
  PROVE  LayerOfIt(w, m, f, o)
<1>1. PICK x : x = w.graph[o]
  OBVIOUS
<1>2. Source(w, m, f.id) = x
  BY <1>1 DEF Source
<1>3. /\ IsObject(x) /\ x.cls = m[f.id].cls /\ f.l \in DOMAIN Layers[m[f.id].cls]
      /\ FieldsAt(m, f) = Layers[m[f.id].cls][f.l].fields /\ o \in Obj
  BY <1>2, FrameAt
<1>4. f.l \in DOMAIN x.body
  BY Zenon, <1>3 DEF IsObject
<1> QED
  BY Zenon, <1>1, <1>2, <1>3, <1>4 DEF BodyAt, LayerOfIt

\* A call that asks for an object is at a layer that refers to it.
LEMMA AwaitsRef ==
  ASSUME NEW w, WorldOK(w), NEW m, NEW obs, NEW cs, NEW gv, NEW la, NEW st, ReadAt(w, m, obs, cs, gv, la, st),
         NEW f, f = Last(cs), cs # <<>>, NEW k, NEW v, Awaits(w, m, cs, gv, k, "ref", v), v # Null
  PROVE  v \in LayerRefs(FieldsAt(m, f), BodyAt(w, m, f))
<1>1. FrameOK(w, m, f) /\ MadesOK(w, m)
  BY LastFrame DEF ReadAt
<1>2. PICK body : body = BodyAt(w, m, f)
  OBVIOUS
<1>3. \E x \in Range(FieldsAt(m, f)) : v \in Range(Refs(x, body[x.k]))
  <2>1. CASE f.arr = Null
    <3>1. PICK x \in Range(FieldsAt(m, f)) : x.k = k /\ x.t = "ref" /\ v = body[k]
      BY <1>2, <2>1 DEF Awaits
    <3>2. Refs(x, body[x.k]) = <<v>>
      BY <3>1 DEF Refs
    <3>3. v \in Range(<<v>>)
      BY RangeOne
    <3> QED
      BY <3>1, <3>2, <3>3
  <2>2. CASE f.arr # Null
    <3>1. k = Len(f.arr.items) /\ k < f.arr.n /\ v = body[f.arr.key][k + 1]
      BY <1>2, <2>2 DEF Awaits
    <3>2. PICK s : s = body[f.arr.key]
      OBVIOUS
    <3>3. s \in Seq(Obj) /\ f.arr.n = Len(s) /\ f.arr.items \in Seq(Nat)
          /\ \E x \in Range(FieldsAt(m, f)) : x.k = f.arr.key /\ x.t = "array"
      BY Zenon, <1>1, <1>2, <2>2, <3>2, ArrIs
    <3>4. PICK x \in Range(FieldsAt(m, f)) : x.k = f.arr.key /\ x.t = "array"
      BY <3>3
    <3>5. Refs(x, body[x.k]) = s
      BY <3>2, <3>4 DEF Refs
    <3>6. k + 1 \in DOMAIN s
      BY <3>1, <3>3
    <3>7. v \in Range(s)
      BY Zenon, <3>1, <3>2, <3>6 DEF Range
    <3> QED
      BY <3>4, <3>5, <3>7
  <2> QED
    BY <2>1, <2>2
<1> QED
  BY <1>2, <1>3 DEF LayerRefs

\* What the last call refers to is where the layers of all calls lead to.
LEMMA LedTo ==
  ASSUME NEW w, WorldOK(w), NEW m, NEW obs, NEW cs, NEW gv, NEW la, NEW st, ReadAt(w, m, obs, cs, gv, la, st),
         NEW f, f = Last(cs), cs # <<>>, f.l # 0, NEW v \in LayerRefs(FieldsAt(m, f), BodyAt(w, m, f)),
         NEW i \in DOMAIN cs, NEW c, c = cs[i], NEW T \in SUBSET Obj, ClosedIn(w.graph, T),
         LayerRefs(FieldsAt(m, c), BodyAt(w, m, c)) \subseteq T
  PROVE  v \in T
<1>1. /\ FrameOK(w, m, f) /\ MadesOK(w, m) /\ f = cs[Len(cs)] /\ Len(cs) \in DOMAIN cs
      /\ Len(cs) \in Nat /\ DOMAIN cs = 1 .. Len(cs) /\ LedOK(w, m, cs)
  BY LastFrame, CallsAre DEF ReadAt, FramesOK
<1>2. CASE i = Len(cs)
  BY <1>1, <1>2
<1>3. CASE i # Len(cs)
  <2>1. i < Len(cs)
    BY <1>1, <1>3
  <2>2. PICK o : o = w.num[m[f.id].num + 1]
    OBVIOUS
  <2>3. o \in T
    BY <1>1, <2>1, <2>2 DEF LedOK
  <2>4. LayerOfIt(w, m, f, o)
    BY SMTT(30), <1>1, <2>2, LayerAt
  <2>5. LayerRefs(FieldsAt(m, f), BodyAt(w, m, f)) \subseteq T
    <3>1. PICK g : g = w.graph
      OBVIOUS
    <3>2. PICK l : l = f.l
      BY SMTT(30)
    <3>3. LayerRefs(Layers[g[o].cls][l].fields, g[o].body[l]) \subseteq T
      BY <2>3, <2>4, <3>1, <3>2 DEF ClosedIn, LayerOfIt
    <3> QED
      BY <2>4, <3>1, <3>2, <3>3 DEF LayerOfIt
  <2> QED
    BY <2>5
<1> QED
  BY <1>2, <1>3

\* No object that is asked for has a layer to come that the object may need.
LEMMA NoneIsHalf ==
  ASSUME NEW w, WorldOK(w), NEW m, NEW obs, NEW cs, NEW gv, NEW la, NEW st, ReadAt(w, m, obs, cs, gv, la, st),
         NEW k, NEW v, Awaits(w, m, cs, gv, k, "ref", v), v # Null, NEW id, IsTwin(w, m, id, v),
         NEW i \in DOMAIN cs, cs[i].id = id
  PROVE  ~(cs[i].l < Len(Layers[m[id].cls]))
<1> SUFFICES ASSUME cs[i].l < Len(Layers[m[id].cls]) PROVE FALSE
  OBVIOUS
<1>1. IsSeq(cs) /\ MadesOK(w, m)
  BY DEF ReadAt, FramesOK
<1>2. cs # <<>> /\ Len(cs) \in DOMAIN cs /\ DOMAIN cs = 1 .. Len(cs) /\ Len(cs) \in Nat
  <2>1. DOMAIN cs = 1 .. Len(cs) /\ Len(cs) \in Nat /\ (cs = <<>> <=> Len(cs) = 0)
    BY <1>1, CallsAre
  <2>2. Len(cs) # 0
    BY <2>1
  <2> QED
    BY <2>1, <2>2
<1>3. PICK f : f = Last(cs)
  OBVIOUS
<1>4. f.l # 0 /\ f = cs[Len(cs)]
  BY <1>2, <1>3, AwaitsAt, LastFrame
<1>5. PICK c : c = cs[i]
  OBVIOUS
<1>6. FrameOK(w, m, c) /\ c.id = id /\ c.l < Len(Layers[m[id].cls])
  BY <1>5 DEF ReadAt, FramesOK
<1>7. c.l \in Nat /\ Len(Layers[m[id].cls]) \in Nat
  BY <1>1, <1>6, FrameAt
<1>8. c.l # 0
  <2>1. CASE i = Len(cs)
    BY <1>4, <1>5, <2>1
  <2>2. CASE i # Len(cs)
    <3>1. ~Waits(m, c)
      BY <1>5, <2>2 DEF ReadAt, WaitOK
    <3> QED
      BY <1>7, <3>1 DEF Waits
  <2> QED
    BY <2>1, <2>2
<1>9. v = w.num[m[c.id].num + 1]
  BY <1>6 DEF IsTwin
<1>20. LayerOfIt(w, m, c, v)
  BY <1>1, <1>6, <1>8, <1>9, LayerAt
<1>10. /\ v \in Obj /\ w.graph[v].cls = m[id].cls
       /\ FieldsAt(m, c) = Layers[w.graph[v].cls][c.l].fields /\ BodyAt(w, m, c) = w.graph[v].body[c.l]
  BY <1>6, <1>20 DEF LayerOfIt
<1>11. c.l \in 1 .. Len(Layers[w.graph[v].cls]) - 1
  BY <1>6, <1>7, <1>8, <1>10
<1>12. SafeIn(w.graph)
  BY DEF WorldOK
<1>13. PICK T \in SUBSET Obj : ClosedIn(w.graph, T) /\ LayerRefs(FieldsAt(m, c), BodyAt(w, m, c)) \subseteq T /\ v \notin T
  BY Zenon, <1>10, <1>11, <1>12 DEF SafeIn
<1>14. v \in LayerRefs(FieldsAt(m, f), BodyAt(w, m, f))
  BY <1>2, <1>3, AwaitsRef
<1>15. v \in T
  BY Zenon, <1>2, <1>3, <1>4, <1>5, <1>13, <1>14, LedTo
<1> QED
  BY <1>13, <1>15

----------------------------------------------------------------------------
(* The actions of the unpacker                                             *)

\* Nothing but the result of a call changes.
LEMMA ResultStep ==
  ASSUME NEW w, WorldOK(w), NowOK(w), NEW k, NEW t, NEW v, Awaits(w, made, calls, given, k, t, v),
         NEW r, Copies(w, made, t, v, r), Deliver(calls, k, r), UNCHANGED <<stack, objects, last>>
  PROVE  NowOK(w)'
<1>1. /\ ReadAt(w, made, objects, calls, given, last, stack)
      /\ Len(calls) <= MaxDepth /\ fault = "none"
  BY DEF NowOK
<1>2. /\ ReadAt(w, made', objects, calls', given', last, stack)
      /\ Len(calls') = Len(calls) /\ fault' = fault
  BY <1>1, Delivered
<1>3. objects' = objects /\ last' = last /\ stack' = stack
  OBVIOUS
<1> QED
  BY <1>1, <1>2, <1>3 DEF NowOK

\* Numbers and data arrive as they were packed, ...
LEMMA LeafStep ==
  ASSUME NEW w, w = World, WorldOK(w), NowOK(w), NEW k, NEW t, ReadLeaf(k, t)
  PROVE  NowOK(w)'
<1>1. k \in Wanted /\ Type(k) = t /\ t \in Leaves
  BY DEF ReadLeaf, Asks
<1>2. PICK v : Awaits(w, made, calls, given, k, Type(k), v) /\ EntryFits(w, Entry(k), Type(k), v)
  BY <1>1, Asked DEF NowOK
<1>3. PICK e : e = Entry(k)
  OBVIOUS
<1>4. e.t = t /\ e.v = v
  BY <1>1, <1>2, <1>3 DEF EntryFits
<1>5. Deliver(calls, k, IF e.t = t THEN e.v ELSE Null) /\ UNCHANGED <<stack, objects, last>>
  BY <1>3 DEF ReadLeaf
<1>6. Deliver(calls, k, v)
  BY <1>4, <1>5
<1>7. Copies(w, made, t, v, v)
  BY <1>1 DEF Copies, Leaves
<1> QED
  BY <1>1, <1>2, <1>5, <1>6, <1>7, ResultStep

\* ... null as null, ...
LEMMA NothingStep ==
  ASSUME NEW w, w = World, WorldOK(w), NowOK(w), NEW k, ReadNothing(k)
  PROVE  NowOK(w)'
<1>1. k \in Wanted /\ Type(k) = "ref" /\ Entry(k) = None
  BY DEF ReadNothing, Asks
<1>2. PICK v : Awaits(w, made, calls, given, k, "ref", v) /\ EntryFits(w, None, "ref", v)
  BY <1>1, Asked DEF NowOK
<1>3. v = Null
  BY <1>2 DEF EntryFits, Stands, None
<1>4. Copies(w, made, "ref", v, Null)
  BY <1>3 DEF Copies
<1>5. Deliver(calls, k, Null) /\ UNCHANGED <<stack, objects, last>>
  BY DEF ReadNothing
<1> QED
  BY <1>2, <1>4, <1>5, ResultStep

\* What a reference that is asked for stands for.
LEMMA RefAsked ==
  ASSUME NEW w, w = World, WorldOK(w), NowOK(w), NEW k \in Wanted, Type(k) = "ref", Entry(k) # None
  PROVE  \E v \in Obj : Awaits(w, made, calls, given, k, "ref", v) /\ Stands(w.num, Entry(k), v)
<1>1. PICK v : Awaits(w, made, calls, given, k, "ref", v) /\ EntryFits(w, Entry(k), "ref", v)
  BY Asked DEF NowOK
<1>2. v # Null /\ v \in Obj /\ Stands(w.num, Entry(k), v)
  BY <1>1 DEF EntryFits
<1> QED
  BY <1>1, <1>2

\* ... and a reference to an object that was made as that object.
LEMMA KnownStep ==
  ASSUME NEW w, w = World, WorldOK(w), NowOK(w), NEW k, ReadKnown(k)
  PROVE  NowOK(w)'
<1>1. PICK e : e = Entry(k)
  OBVIOUS
<1>2. k \in Wanted /\ Type(k) = "ref" /\ e.t = "ref" /\ e.v \in DOMAIN objects /\ objects[e.v].t = "made"
  BY <1>1 DEF ReadKnown, Asks, Known
<1>3. e # None
  BY <1>2 DEF None
<1>4. PICK v \in Obj : Awaits(w, made, calls, given, k, "ref", v) /\ Stands(w.num, e, v)
  BY <1>1, <1>2, <1>3, RefAsked
<1>5. PICK id : id = objects[e.v].v
  OBVIOUS
<1>6. IsTwin(w, made, id, v)
  <2>1. ObjectsOK(w, made, objects)
    BY DEF NowOK, ReadAt
  <2>2. id \in DOMAIN made /\ made[id].num = e.v
    BY <1>2, <1>5, <2>1 DEF ObjectsOK
  <2> QED
    BY <1>4, <2>2 DEF IsTwin, Stands
<1>7. v # Null
  BY MmPackAssumption
<1>8. ~Half(id)
  <2> SUFFICES ASSUME NEW i \in DOMAIN calls, calls[i].id = id, calls[i].l < Len(LayersOf(calls[i]))
               PROVE  FALSE
    BY DEF Half
  <2>1. calls[i].l < Len(Layers[made[id].cls])
    BY DEF LayersOf
  <2>2. ReadAt(w, made, objects, calls, given, last, stack)
    BY DEF NowOK
  <2> QED
    BY <1>4, <1>6, <1>7, <2>1, <2>2, NoneIsHalf
<1>9. Deliver(calls, k, id) /\ UNCHANGED <<stack, objects, last>>
  BY <1>1, <1>5, <1>8 DEF ReadKnown
<1>10. Copies(w, made, "ref", v, id)
  BY <1>6, <1>7 DEF Copies
<1> QED
  BY <1>4, <1>9, <1>10, ResultStep

\* The boxes up to call f, on those of the calls before it.
StackIs(w, m, p, f, st) == st = OnTop(w.box, Layers[m[f.id].cls], p, f)

\* A box was put on the stack s.
Pushed(s, c, st) == st = Append(s, c)

\* A new list: what is on the stack when it is read.
LEMMA ListBegins ==
  ASSUME NEW w, WorldOK(w), NEW m, MadesOK(w, m), NEW p, NEW f, f.l # 0, f.arr = Null,
         NEW a, a # Null, NEW h, ListMoved(f, h, a), FrameOK(w, m, h), NEW y \in Range(FieldsAt(m, f)),
         y.k = a.key, y.t = "array", NEW st, StackIs(w, m, p, f, st)
  PROVE  /\ \A z : Pushed(st, w.box[ContextAt(w, m, f)].at[a.key].v, z) => StackIs(w, m, p, h, z)
         /\ a.key \in DOMAIN w.box[ContextAt(w, m, f)].at
<1>1. h.id = f.id /\ h.map = f.map /\ h.l = f.l /\ h.arr = a
  BY CallParts DEF ListMoved, WithArr
<1>2. FieldsAt(m, h) = FieldsAt(m, f) /\ ContextAt(w, m, h) = ContextAt(w, m, f)
  BY <1>1 DEF FieldsAt, ContextAt
<1>3. PICK c : c = ContextAt(w, m, f)
  OBVIOUS
<1>4. PICK layers : layers = Layers[m[f.id].cls]
  OBVIOUS
<1>5. CtxOf(w.box, layers, h) = <<c>> /\ y.k \in DOMAIN w.box[c].at
  <2>1. h.l # 0 /\ y \in Range(FieldsAt(m, h))
    BY <1>1, <1>2
  <2>2. /\ CtxOf(w.box, Layers[m[h.id].cls], h) = <<ContextAt(w, m, h)>>
        /\ y.k \in DOMAIN w.box[ContextAt(w, m, h)].at
    BY <2>1, ListAt
  <2> QED
    BY <1>1, <1>2, <1>3, <1>4, <2>2
<1>6. PICK b : b = w.box
  OBVIOUS
<1>7. WithList(b, layers, p, h, f)
  BY <1>1, OnTopIs
<1>8. OnTop(b, layers, p, h) = Append(OnTop(b, layers, p, f), b[CtxOf(b, layers, h)[1]].at[h.arr.key].v)
  BY <1>7 DEF WithList
<1>9. CtxOf(b, layers, h)[1] = c
  BY <1>5, <1>6
<1> QED
  BY Zenon, <1>1, <1>3, <1>4, <1>5, <1>6, <1>8, <1>9 DEF StackIs, Pushed

\* How many items a list has.
LEMMA HowMany ==
  ASSUME NEW n \in Nat
  PROVE  Cardinality(0 .. n - 1) = n
<1>1. IsFiniteSet(0 .. n - 1) /\ Cardinality(0 .. n - 1) = IF 0 > n - 1 THEN 0 ELSE n - 1 - 0 + 1
  BY FS_Interval
<1> QED
  BY <1>1

\* A call with a list that it has yet to read.
LEMMA EmptyList ==
  ASSUME NEW w, NEW m, NEW f, FrameOK(w, m, f), f.l # 0,
         NEW x \in Range(FieldsAt(m, f)), x.t = "array", x.k \in f.todo, NEW v, v = BodyAt(w, m, f)[x.k],
         v \in Seq(Obj), NEW a, a = [key |-> x.k, n |-> Len(v), items |-> <<>>],
         NEW h, ListMoved(f, h, a)
  PROVE  FrameOK(w, m, h)
<1>1. h.key = f.key /\ h.id = f.id /\ h.map = f.map /\ h.l = f.l /\ h.todo = f.todo /\ h.arr = a /\ IsCall(h)
  BY CallParts DEF ListMoved, WithArr
<1>2. /\ FieldsAt(m, h) = FieldsAt(m, f) /\ BodyAt(w, m, h) = BodyAt(w, m, f) /\ Source(w, m, h.id) = Source(w, m, f.id)
  BY Zenon, <1>1 DEF FieldsAt, BodyAt, Source
<1>3. PICK s : s = <<>>
  OBVIOUS
<1>4. IsSeq(s) /\ Len(s) = 0 /\ Len(v) \in Nat
  <2>1. s \in Seq(Nat)
    BY <1>3
  <2> QED
    BY Zenon, <1>3, <2>1, SeqIs
<1>5. a.key = x.k /\ a.n = Len(v) /\ a.items = s
  BY <1>3
<1>6. ArrOK(w, m, h)
  <2>1. a = [key |-> a.key, n |-> a.n, items |-> a.items]
    OBVIOUS
  <2>2. h.arr.key \in h.todo /\ \E y \in Range(FieldsAt(m, h)) : y.k = h.arr.key /\ y.t = "array"
    BY <1>1, <1>2, <1>5
  <2>3. BodyAt(w, m, h)[h.arr.key] = v
    BY <1>1, <1>2, <1>5
  <2>4. \A j \in 1 .. Len(s) : FALSE
    BY <1>4
  <2> QED
    BY <1>1, <1>4, <1>5, <2>1, <2>2, <2>3, <2>4 DEF ArrOK
<1> QED
  BY <1>1, <1>2, <1>6 DEF FrameOK, IsCall

\* unpack_array finds the list that was packed.
LEMMA ArrayStep ==
  ASSUME NEW w, w = World, WorldOK(w), NowOK(w), NEW k, ReadArray(k)
  PROVE  NowOK(w)'
<1>1. /\ ReadAt(w, made, objects, calls, given, last, stack)
      /\ Len(calls) <= MaxDepth /\ fault = "none"
  BY DEF NowOK
<1>2. PICK e : e = Entry(k)
  OBVIOUS
<1>3. k \in Wanted /\ Type(k) = "array"
  BY DEF ReadArray, Asks
<1>4. PICK f : f = Last(calls)
  OBVIOUS
<1>5. calls # <<>> /\ f.arr = Null
  BY <1>1, <1>3, <1>4, Asked DEF Frame
<1>6. PICK v : Awaits(w, made, calls, given, k, "array", v) /\ EntryFits(w, e, "array", v)
  BY <1>1, <1>2, <1>3, Asked
<1>7. e.t = "array" /\ ListOK(w.box, w.num, e.v, v)
  BY <1>6 DEF EntryFits, Leaves
<1>8. PICK x \in Range(FieldsAt(made, f)) : x.k = k /\ x.t = "array"
  BY <1>4, <1>5, <1>6 DEF Awaits
<1>9. k \in f.todo /\ v = BodyAt(w, made, f)[x.k]
  BY <1>4, <1>5, <1>6, <1>8 DEF Awaits
<1>10. FrameOK(w, made, f) /\ MadesOK(w, made) /\ FramesOK(w, made, calls) /\ stack = Piled(w, made, calls)
  BY <1>1, <1>4, <1>5, LastFrame DEF ReadAt
<1>11. f.l # 0
  BY <1>9, <1>10, FieldOf
<1>12. v \in Seq(Obj) /\ k \in Nat
  <2>1. x \in Fields /\ IsValue(x.t, BodyAt(w, made, f)[x.k])
    BY <1>10, <1>11, FrameAt
  <2> QED
    BY <1>8, <1>9, <2>1 DEF IsValue, Fields
<1>13. PICK a : a = [key |-> k, n |-> Len(v), items |-> <<>>]
  BY Zenon
<1>14. a # Null /\ a.key = k
  <2>1. a \in [key : Nat, n : Nat, items : Seq(Nat)]
    BY <1>12, <1>13
  <2> QED
    BY Zenon, <1>13, <2>1, MmUnpackAssumption
<1>15. PICK h : ListMoved(f, h, a)
  BY DEF ListMoved
<1>16. FrameOK(w, made, h)
  BY <1>8, <1>9, <1>10, <1>11, <1>12, <1>13, <1>15, EmptyList
<1>17. PICK t : t = Replaced(calls, h)
  OBVIOUS
<1>18. /\ stack' = Append(stack, e.v) /\ objects' = objects /\ last' = last /\ made' = made
       /\ given' = given /\ fault' = fault
  BY <1>2, <1>7 DEF ReadArray
<1>19. calls' = t
  <2>1. Cardinality(DOMAIN box[e.v].at) = Len(v)
    <3>1. w.box = box
      BY DEF World
    <3>2. DOMAIN box[e.v].at = 0 .. Len(v) - 1
      BY <1>7, <3>1 DEF ListOK
    <3>3. Len(v) \in Nat
      BY <1>12
    <3> QED
      BY <3>2, <3>3, HowMany
  <2>2. calls' = [calls EXCEPT ![Len(calls)].arr = [key |-> k, n |-> Cardinality(DOMAIN box[e.v].at), items |-> <<>>]]
    BY <1>2, <1>7 DEF ReadArray
  <2>3. calls' = ArrSet(calls, a)
    BY Zenon, <1>13, <2>1, <2>2 DEF ArrSet
  <2>4. IsCall(f) /\ IsSeq(calls)
    BY <1>10 DEF FrameOK, IsCall, FramesOK
  <2>5. ArrSet(calls, a) = Replaced(calls, WithArr(f, a))
    BY <1>4, <1>5, <2>4, LastDoes
  <2> QED
    BY <1>15, <1>17, <2>3, <2>5 DEF ListMoved
<1>20. /\ Len(t) = Len(calls) /\ ReadAt(w, made, objects, t, given, last, Piled(w, made, t))
       /\ Piled(w, made, t) = OnTop(w.box, Layers[made[f.id].cls], Piled(w, made, Front(calls)), h)
  BY <1>1, <1>4, <1>5, <1>15, <1>16, <1>17, ListGoesOn
<1>21. Piled(w, made, t) = stack'
  <2>1. PICK p : p = Piled(w, made, Front(calls))
    OBVIOUS
  <2>2. PICK s : s = stack
    OBVIOUS
  <2>3. StackIs(w, made, p, f, s)
    BY <1>4, <1>5, <1>10, <2>1, <2>2, PiledTop DEF StackIs
  <2>4. /\ \A z : Pushed(s, w.box[ContextAt(w, made, f)].at[a.key].v, z) => StackIs(w, made, p, h, z)
        /\ a.key \in DOMAIN w.box[ContextAt(w, made, f)].at
    BY Zenon, <1>5, <1>8, <1>10, <1>11, <1>14, <1>15, <1>16, <2>3, ListBegins
  <2>5. Last(s) = ContextAt(w, made, f)
    BY <1>1, <1>4, <1>5, <1>8, <1>11, <2>2, TopOfField
  <2>6. e = w.box[ContextAt(w, made, f)].at[a.key]
    BY <1>2, <1>14, <2>2, <2>4, <2>5 DEF Entry, Top, World
  <2>7. Pushed(s, w.box[ContextAt(w, made, f)].at[a.key].v, stack')
    BY <1>18, <2>2, <2>6 DEF Pushed
  <2>8. StackIs(w, made, p, h, stack')
    BY <2>4, <2>7
  <2>9. h.id = f.id
    BY <1>15, CallParts DEF ListMoved, WithArr
  <2> QED
    BY <1>20, <2>1, <2>8, <2>9 DEF StackIs
<1>22. ReadAt(w, made, objects, t, given, last, stack') /\ Len(t) <= MaxDepth
  BY <1>1, <1>20, <1>21
<1> QED
  BY <1>1, <1>18, <1>19, <1>22 DEF NowOK

\* An array that is over was read as a whole, and its list is the last box.
LEMMA ArrayEndStep ==
  ASSUME NEW w, w = World, WorldOK(w), NowOK(w), ReadArrayEnd
  PROVE  NowOK(w)'
<1>1. /\ ReadAt(w, made, objects, calls, given, last, stack)
      /\ Len(calls) <= MaxDepth /\ fault = "none"
  BY DEF NowOK
<1>2. PICK f : f = Last(calls)
  OBVIOUS
<1>3. calls # <<>> /\ f.arr # Null /\ Len(f.arr.items) = f.arr.n
  BY <1>2 DEF ReadArrayEnd, Frame
<1>4. FrameOK(w, made, f) /\ MadesOK(w, made) /\ FramesOK(w, made, calls)
  BY <1>1, <1>2, <1>3, LastFrame DEF ReadAt
<1>5. PICK x \in Range(FieldsAt(made, f)) : x.k = f.arr.key /\ x.t = "array"
  BY Zenon, <1>3, <1>4, ArrIs
<1>6. PICK k : k = f.arr.key
  OBVIOUS
<1>7. PICK r : r = f.arr.items
  OBVIOUS
<1>8. PICK g : g = made'
  OBVIOUS
<1>9. PICK t : t = calls'
  OBVIOUS
<1>10. /\ made' = [made EXCEPT ![f.id].got = Under(@, <<f.l, k>>, r)]
       /\ calls' = [calls EXCEPT ![Len(calls)].arr = Null, ![Len(calls)].todo = @ \ {k}]
       /\ stack' = Front(stack) /\ UNCHANGED <<objects, last, given, fault>>
  BY <1>2, <1>6, <1>7 DEF ReadArrayEnd, Frame
<1>11. FieldFilled(made, g, f, x.k, r)
  BY <1>5, <1>6, <1>8, <1>10 DEF FieldFilled, Filled
<1>12. PICK h : h = Call(f.key, f.id, f.map, f.l, f.todo \ {k}, Null)
  OBVIOUS
<1>13. FieldDone(f, h, x.k)
  BY <1>5, <1>6, <1>12 DEF FieldDone
<1>14. t = Replaced(calls, h)
  <2>1. Len(calls) \in DOMAIN calls /\ f = calls[Len(calls)]
    BY <1>1, <1>2, <1>3, LastFrame
  <2>2. PICK z : z = f.todo \ {k}
    BY Zenon
  <2>3. PICK n : n = Len(calls)
    BY Zenon
  <2>4. PICK cs : cs = calls
    OBVIOUS
  <2>5. t = [cs EXCEPT ![n].arr = Null, ![n].todo = z]
    BY <1>9, <1>10, <2>1, <2>2, <2>3, <2>4
  <2>6. PICK c1, c2, c3, c4, c5, c6 : c1 = f.key /\ c2 = f.id /\ c3 = f.map /\ c4 = f.l /\ c5 = f.todo /\ c6 = f.arr
    OBVIOUS
  <2>7. cs[n] = [key |-> c1, id |-> c2, map |-> c3, l |-> c4, todo |-> c5, arr |-> c6]
    BY <1>4, <2>1, <2>3, <2>4, <2>6 DEF FrameOK
  <2>8. h = [key |-> c1, id |-> c2, map |-> c3, l |-> c4, todo |-> z, arr |-> Null]
    BY <1>12, <2>2, <2>6 DEF Call
  <2>9. PICK c : c = cs[n]
    OBVIOUS
  <2>12. [c EXCEPT !.arr = Null] = [key |-> c1, id |-> c2, map |-> c3, l |-> c4, todo |-> c5, arr |-> Null]
    BY <2>7, <2>9
  <2>13. PICK y : y = [c EXCEPT !.arr = Null]
    BY Zenon
  <2>15. y = [key |-> c1, id |-> c2, map |-> c3, l |-> c4, todo |-> c5, arr |-> Null]
    BY <2>12, <2>13
  <2>14. [y EXCEPT !.todo = z] = h
    BY <2>8, <2>15
  <2>10. [[c EXCEPT !.arr = Null] EXCEPT !.todo = z] = h
    BY <2>13, <2>14
  <2>11. t = [cs EXCEPT ![n] = [[c EXCEPT !.arr = Null] EXCEPT !.todo = z]]
    BY Zenon, <2>1, <2>3, <2>4, <2>5, <2>9
  <2> QED
    BY Zenon, <2>3, <2>4, <2>10, <2>11 DEF Replaced
<1>15. FieldCopied(w, made, f, x, r)
  <2>1. PICK v : v = BodyAt(w, made, f)[k]
    OBVIOUS
  <2>2. /\ v \in Seq(Obj) /\ f.arr.n = Len(v) /\ r \in Seq(Nat)
        /\ \A j \in 1 .. Len(r) : IsTwin(w, made, r[j], v[j])
        /\ k \in f.todo
    BY ZenonT(60), <1>3, <1>4, <1>6, <1>7, <2>1, ArrIs
  <2>3. IsSeq(r) /\ Len(r) = Len(v)
    BY <1>3, <1>7, <2>2, SeqIs
  <2>4. Copies(w, made, "array", v, r)
    BY <2>2, <2>3 DEF Copies
  <2> QED
    BY <1>5, <1>6, <2>1, <2>2, <2>4 DEF FieldCopied
<1>16. Len(t) = Len(calls) /\ ReadAt(w, g, objects, t, given, last, Front(stack))
  BY <1>1, <1>2, <1>3, <1>11, <1>13, <1>14, <1>15, FieldGot
<1>17. Len(t) <= MaxDepth
  BY <1>1, <1>16
<1> QED
  BY <1>1, <1>8, <1>9, <1>10, <1>16, <1>17 DEF NowOK

\* Where popContextInStack stops.
StopsAt(st, i) == box[st[i]].kind # "context" /\ \A j \in i + 1 .. Len(st) : box[st[j]].kind = "context"
PopPlace(st) == CHOOSE i \in DOMAIN st : StopsAt(st, i)

\* All contexts on an object are popped, and the object stays.
LEMMA PopsTo ==
  ASSUME NEW p \in Seq(Nat), NEW n \in Nat, box[n].kind = "object", NEW q, Pushed(p, n, q),
         NEW st, st = q \/ \E c \in Nat : Pushed(q, c, st) /\ box[c].kind = "context"
  PROVE  PopContexts(st) = q
<1>1. PICK N : N = Len(p) + 1
  OBVIOUS
<1>2. q \in Seq(Nat) /\ Len(q) = N /\ N \in Nat \ {0} /\ q[N] = n /\ DOMAIN q = 1 .. N
  BY <1>1, PutOn DEF Pushed
<1>3. /\ st \in Seq(Nat) /\ Len(st) >= N /\ \A i \in 1 .. N : st[i] = q[i]
      /\ \A i \in N + 1 .. Len(st) : box[st[i]].kind = "context"
  <2>1. CASE st = q
    BY <1>2, <2>1
  <2>2. ASSUME NEW c \in Nat, Pushed(q, c, st), box[c].kind = "context"
        PROVE  /\ st \in Seq(Nat) /\ Len(st) >= N /\ \A i \in 1 .. N : st[i] = q[i]
               /\ \A i \in N + 1 .. Len(st) : box[st[i]].kind = "context"
    <3>1. /\ st \in Seq(Nat) /\ Len(st) = N + 1 /\ st[N + 1] = c
          /\ \A i \in 1 .. N : st[i] = q[i]
      BY <1>2, <2>2, PutOn DEF Pushed
    <3>2. \A i \in N + 1 .. Len(st) : i = N + 1
      BY <1>2, <3>1
    <3> QED
      BY <1>2, <2>2, <3>1, <3>2
  <2> QED
    BY <2>1, <2>2
<1>4. Len(st) \in Nat /\ DOMAIN st = 1 .. Len(st)
  BY <1>3
<1>5. N \in DOMAIN st /\ st[N] = n
  BY <1>2, <1>3, <1>4
<1>6. box[st[N]].kind # "context" /\ \A j \in N + 1 .. Len(st) : box[st[j]].kind = "context"
  BY <1>3, <1>5
<1>7. ASSUME NEW i \in DOMAIN st, box[st[i]].kind # "context", \A j \in i + 1 .. Len(st) : box[st[j]].kind = "context"
      PROVE  i = N
  <2>1. i <= N
    BY <1>2, <1>3, <1>4, <1>7
  <2>3. i \in Nat
    BY <1>4, <1>7
  <2>2. ~(i < N)
    <3>1. N <= Len(st)
      BY <1>4, <1>5
    <3>2. i < N => N \in i + 1 .. Len(st)
      BY <1>2, <1>4, <2>3, <3>1
    <3> QED
      BY <1>6, <1>7, <3>2
  <2> QED
    BY <1>2, <2>1, <2>2, <2>3
<1>8. PopPlace(st) = N
  <2>1. StopsAt(st, N)
    BY <1>6 DEF StopsAt
  <2>2. \A i \in DOMAIN st : StopsAt(st, i) => i = N
    BY <1>7 DEF StopsAt
  <2> QED
    BY <1>5, <2>1, <2>2 DEF PopPlace
<1>9. PopContexts(st) = SubSeq(st, 1, N)
  BY Zenon, <1>8 DEF PopContexts, PopPlace, StopsAt
<1>10. SubSeq(st, 1, N) = q
  <2>1. PICK r : r = SubSeq(st, 1, N)
    BY Zenon
  <2>2. r \in Seq(Nat) /\ Len(r) = N /\ \A i \in 1 .. N : r[i] = st[i]
    BY <1>2, <1>3, <1>4, <1>5, <2>1
  <2>3. \A i \in 1 .. N : r[i] = q[i]
    BY Zenon, <1>3, <2>2
  <2>4. PICK S : S = Nat
    BY Zenon
  <2>5. r \in Seq(S) /\ q \in Seq(S) /\ Len(r) = Len(q) /\ \A i \in 1 .. Len(r) : r[i] = q[i]
    BY <1>2, <2>2, <2>3, <2>4
  <2> QED
    BY <2>1, <2>5, SameSeq
<1> QED
  BY <1>9, <1>10

\* What the stack is cut to before the next layer, or at the end.
Cut(la, st) == IF la = Null THEN PopContexts(st) ELSE st

\* It is cut to the properties of the object.
LEMMA CutIs ==
  ASSUME NEW w, w = World, WorldOK(w), NEW m, NEW obs, NEW cs, NEW gv, NEW la, NEW st,
         ReadAt(w, m, obs, cs, gv, la, st),
         cs # <<>>, NEW f, f = Last(cs), f.arr = Null, NEW p, p = Piled(w, m, Front(cs))
  PROVE  /\ Pushed(p, f.map, Cut(la, st)) /\ p \in Seq(Nat) /\ p # <<>> /\ f.map \in Nat
         /\ f.map \in DOMAIN w.box /\ StackIs(w, m, p, f, st)
         /\ la # Null => HooksBegun(Layers[m[f.id].cls], f) = {}
<1>1. FrameOK(w, m, f) /\ MadesOK(w, m) /\ FramesOK(w, m, cs) /\ st = Piled(w, m, cs) /\ WaitOK(m, cs, la)
  BY LastFrame DEF ReadAt
<1>2. PICK layers : layers = Layers[m[f.id].cls]
  OBVIOUS
<1>3. st = OnTop(w.box, layers, p, f) /\ p \in Seq(Nat) /\ p # <<>>
  BY <1>1, <1>2, PiledTop
<1>4. PICK ctx : ctx = CtxOf(w.box, layers, f)
  OBVIOUS
<1>5. /\ f.map \in DOMAIN w.box /\ w.box[f.map].kind = "object"
      /\ ctx = <<>> \/ \E c \in DOMAIN w.box : ctx = <<c>> /\ ctx[1] = c /\ w.box[c].kind = "context"
      /\ HooksBegun(layers, f) = {} => ctx = <<>>
  BY <1>1, <1>2, <1>4, CtxIs
<1>6. DOMAIN w.box \subseteq Nat
  <2>1. BoxSeq(w.box)
    BY DEF WorldOK, ShowsRoots
  <2>2. DOMAIN w.box = 1 .. Len(w.box)
    BY <2>1, SeqPlaces DEF BoxSeq
  <2> QED
    BY <2>2
<1>7. PICK q : Pushed(p, f.map, q)
  BY Zenon DEF Pushed
<1>8. st = IF ctx = <<>> THEN q ELSE Append(q, ctx[1])
  BY <1>3, <1>4, <1>7 DEF OnTop, Pushed
<1>9. la # Null => HooksBegun(layers, f) = {}
  <2>1. Waits(m, f) <=> la # Null
    <3>1. Len(cs) \in DOMAIN cs /\ f = cs[Len(cs)]
      BY LastFrame
    <3> QED
      BY <1>1, <3>1 DEF WaitOK
  <2> QED
    BY <1>2, <2>1 DEF Waits, HooksBegun
<1>10. Cut(la, st) = q
  <2>1. CASE la # Null
    BY <1>5, <1>8, <1>9, <2>1 DEF Cut
  <2>2. CASE la = Null
    <3>1. w.box = box
      BY DEF World
    <3>2. f.map \in Nat /\ box[f.map].kind = "object"
      BY <1>5, <1>6, <3>1
    <3>3. st = q \/ \E c \in Nat : Pushed(q, c, st) /\ box[c].kind = "context"
      BY <1>5, <1>6, <1>8, <3>1 DEF Pushed
    <3>4. PICK n : n = f.map
      OBVIOUS
    <3>5. PopContexts(st) = q
      BY <1>3, <1>7, <3>2, <3>3, <3>4, PopsTo
    <3> QED
      BY <2>2, <3>5 DEF Cut
  <2> QED
    BY <2>1, <2>2
<1> QED
  BY <1>2, <1>3, <1>5, <1>6, <1>7, <1>9, <1>10 DEF StackIs

\* An object takes the place of its properties.
LEMMA MetIs ==
  ASSUME NEW w, NEW m, NEW obs, ObjectsOK(w, m, obs), NEW n, NEW id \in DOMAIN m, m[id].num = n,
         NEW o, o = [obs EXCEPT ![n] = [t |-> "made", v |-> id]]
  PROVE  ObjectsOK(w, m, o)
<1>1. PICK e : e = [t |-> "made", v |-> id]
  BY Zenon
<1>2. e.t = "made" /\ e.v = id
  BY <1>1
<1>3. /\ DOMAIN o = DOMAIN obs /\ n \in DOMAIN obs => o[n] = e
      /\ \A i \in DOMAIN obs : i # n => o[i] = obs[i]
  BY <1>1
<1>4. ASSUME NEW i \in DOMAIN o
      PROVE  \/ o[i].t = "map" /\ Whole(w, o[i].v, w.graph[w.num[i + 1]])
             \/ o[i].t = "made" /\ o[i].v \in DOMAIN m /\ m[o[i].v].num = i
  <2>1. CASE i = n
    BY <1>2, <1>3, <1>4, <2>1
  <2>2. CASE i # n
    BY <1>3, <1>4, <2>2 DEF ObjectsOK
  <2> QED
    BY <2>1, <2>2
<1> QED
  BY <1>3, <1>4 DEF ObjectsOK

\* Call f comes to its next layer, as h.
AtNext(m, f, h) ==
  h = Call(f.key, f.id, f.map, f.l + 1, {x.k : x \in Range(Layers[m[f.id].cls][f.l + 1].fields)}, Null)

\* It has all of that layer to read.
LEMMA NextFrame ==
  ASSUME NEW w, WorldOK(w), NEW m, MadesOK(w, m), NEW f, FrameOK(w, m, f), f.l < Len(Layers[m[f.id].cls]),
         NEW h, AtNext(m, f, h)
  PROVE  /\ FrameOK(w, m, h) /\ h.key = f.key /\ h.id = f.id /\ h.map = f.map /\ h.arr = Null
         /\ h.l = f.l + 1 /\ h.l \in DOMAIN Layers[m[f.id].cls] /\ h.l \in Nat \ {0} /\ f.l \in Nat
         /\ h.todo = {x.k : x \in Range(FieldsAt(m, h))}
<1>1. PICK z : z = {x.k : x \in Range(Layers[m[f.id].cls][f.l + 1].fields)}
  BY Zenon
<1>2. PICK n : n = f.l + 1
  OBVIOUS
<1>3. /\ h.key = f.key /\ h.id = f.id /\ h.map = f.map /\ h.arr = Null /\ h.l = n /\ h.todo = z /\ IsCall(h)
  <2>1. PICK a, b, c : a = f.key /\ b = f.id /\ c = f.map
    OBVIOUS
  <2>2. h = Call(a, b, c, n, z, Null)
    BY <1>1, <1>2, <2>1 DEF AtNext
  <2> QED
    BY <2>1, <2>2, CallParts
<1>4. f.l \in Nat /\ Len(Layers[m[f.id].cls]) \in Nat /\ DOMAIN Layers[m[f.id].cls] = 1 .. Len(Layers[m[f.id].cls])
  BY FrameAt
<1>5. n \in DOMAIN Layers[m[f.id].cls] /\ n \in Nat \ {0} /\ n \in 0 .. Len(Layers[m[f.id].cls])
  BY <1>2, <1>4
<1>6. z = {x.k : x \in Range(FieldsAt(m, h))}
  BY <1>1, <1>2, <1>3 DEF FieldsAt
<1>7. FrameOK(w, m, h)
  <2>1. h.id \in DOMAIN m /\ Whole(w, h.map, Source(w, m, h.id)) /\ Source(w, m, h.id) = Source(w, m, f.id)
    BY <1>3 DEF FrameOK
  <2>2. h.l \in 0 .. Len(Layers[m[h.id].cls])
    BY <1>3, <1>5
  <2> QED
    BY <1>3, <1>5, <1>6, <2>1, <2>2 DEF FrameOK, IsCall
<1> QED
  BY <1>2, <1>3, <1>4, <1>5, <1>6, <1>7

\* What is left after the layer before: all of this one and of those to come.
LEMMA NextLeft ==
  ASSUME NEW w, WorldOK(w), NEW m, MadesOK(w, m), NEW cs, FramesOK(w, m, cs), LeftOK(m, cs), cs # <<>>,
         NEW f, f = Last(cs), FrameOK(w, m, f), f.todo = {}, f.l < Len(Layers[m[f.id].cls]),
         NEW h, AtNext(m, f, h), NEW t, t = Replaced(cs, h), FramesOK(w, m, t), t # <<>>, Last(t) = h
  PROVE  LeftOK(m, t)
<1>1. /\ h.id = f.id /\ h.l = f.l + 1 /\ f.l \in Nat /\ h.todo = {x.k : x \in Range(FieldsAt(m, h))}
  BY NextFrame
<1>2. ASSUME NEW i \in DOMAIN m, NEW l \in DOMAIN Layers[m[i].cls], NEW x \in Range(Layers[m[i].cls][l].fields)
      PROVE  HasGot(t, i, l, x.k) <=> HasGot(cs, i, l, x.k)
  <2>1. CASE i # h.id
    <3>1. PICK k : k = x.k
      OBVIOUS
    <3>2. HasGot(t, i, l, k) <=> HasGot(cs, i, l, k)
      BY <1>1, <2>1, LeftBelow
    <3> QED
      BY <3>1, <3>2
  <2>2. CASE i = h.id
    <3>1. PICK k : k = x.k
      OBVIOUS
    <3>2. HasGot(cs, Last(cs).id, l, k) <=> l < Last(cs).l \/ (l = Last(cs).l /\ k \notin Last(cs).todo)
      BY Zenon, LeftTop
    <3>3. HasGot(t, Last(t).id, l, k) <=> l < Last(t).l \/ (l = Last(t).l /\ k \notin Last(t).todo)
      BY Zenon, LeftTop
    <3>4. HasGot(cs, i, l, k) <=> l < f.l \/ l = f.l
      BY <1>1, <2>2, <3>2
    <3>5. HasGot(t, i, l, k) <=> l < f.l + 1 \/ (l = f.l + 1 /\ k \notin h.todo)
      BY <1>1, <2>2, <3>3
    <3>6. l = f.l + 1 => k \in h.todo
      BY <1>1, <1>2, <2>2, <3>1 DEF FieldsAt
    <3>7. l \in Nat
      <4>1. DOMAIN Layers[m[f.id].cls] = 1 .. Len(Layers[m[f.id].cls])
        BY FrameAt
      <4> QED
        BY <1>1, <1>2, <2>2, <4>1
    <3>8. l < f.l + 1 <=> l < f.l \/ l = f.l
      BY <1>1, <3>7
    <3> QED
      BY <3>1, <3>4, <3>5, <3>6, <3>8
  <2> QED
    BY <2>1, <2>2
<1> QED
  BY Zenon, <1>2 DEF LeftOK

\* The next layer of an object begins, on the stack s.
LEMMA LayerBegins ==
  ASSUME NEW w, WorldOK(w), NEW m, NEW obs, NEW cs, NEW gv, NEW la, NEW st, ReadAt(w, m, obs, cs, gv, la, st),
         cs # <<>>, NEW f, f = Last(cs), f.todo = {}, f.l < Len(Layers[m[f.id].cls]),
         NEW h, AtNext(m, f, h), NEW t, t = Replaced(cs, h),
         NEW o, ObjectsOK(w, m, o), NEW lb, Waits(m, h) <=> lb # Null,
         NEW p, p = Piled(w, m, Front(cs)), NEW s, StackIs(w, m, p, h, s)
  PROVE  Len(t) = Len(cs) /\ ReadAt(w, m, o, t, gv, lb, s)
<1>1. FrameOK(w, m, f) /\ MadesOK(w, m) /\ FramesOK(w, m, cs) /\ GivenOK(w, m, gv) /\ LeftOK(m, cs)
      /\ LedOK(w, m, cs) /\ DueOK(w, m, cs, gv) /\ WaitOK(m, cs, la)
  BY LastFrame DEF ReadAt
<1>2. FrameOK(w, m, h) /\ h.key = f.key /\ h.id = f.id
  BY <1>1, NextFrame
<1>3. Grows(m, m)
  BY DEF Grows
<1>4. /\ FramesOK(w, m, t) /\ t # <<>> /\ Len(t) = Len(cs) /\ Last(t) = h
      /\ LedOK(w, m, cs) => LedOK(w, m, t)
      /\ DueOK(w, m, cs, gv) => DueOK(w, m, t, gv)
      /\ WaitOK(m, cs, la) /\ (Waits(m, h) <=> lb # Null) => WaitOK(m, t, lb)
      /\ Piled(w, m, t) = OnTop(w.box, Layers[m[h.id].cls], Piled(w, m, Front(cs)), h)
  BY <1>1, <1>2, <1>3, TopChanges
<1>5. LeftOK(m, t)
  BY <1>1, <1>4, NextLeft
<1>6. s = Piled(w, m, t)
  BY <1>4 DEF StackIs
<1> QED
  BY <1>1, <1>4, <1>5, <1>6 DEF ReadAt

\* unpackNextContext pushes the context of the layer, if it has one, ...
NextCtx(ctx, name, rest) == IF name \in DOMAIN ctx THEN Append(rest, ctx[name]) ELSE rest

\* ... and that is what the layer is read from.
LEMMA LayerPushed ==
  ASSUME NEW w, NEW m, NEW f, NEW h, NEW layers, layers = Layers[m[h.id].cls], h.map = f.map, h.arr = Null,
         h.l \in Nat \ {0}, layers[h.l].init, NEW p, NEW rest, Pushed(p, f.map, rest)
  PROVE  /\ StackIs(w, m, p, h, NextCtx(w.box[f.map].ctx, layers[h.l].name, rest))
         /\ ~Waits(m, h)
<1>1. PICK b : b = w.box
  OBVIOUS
<1>2. CtxOf(b, layers, h) = IF layers[h.l].name \in DOMAIN b[h.map].ctx
                            THEN <<b[h.map].ctx[layers[h.l].name]>> ELSE <<>>
  BY Zenon, CtxAt
<1>3. PICK name : name = layers[h.l].name
  OBVIOUS
<1>4. PICK ctx : ctx = b[f.map].ctx
  OBVIOUS
<1>5. CtxOf(b, layers, h) = IF name \in DOMAIN ctx THEN <<ctx[name]>> ELSE <<>>
  BY Zenon, <1>2, <1>3, <1>4
<1>6. OnTop(b, layers, p, h) = NextCtx(ctx, name, rest)
  <2>1. CASE name \in DOMAIN ctx
    <3>1. PICK c : c = ctx[name]
      OBVIOUS
    <3>2. CtxOf(b, layers, h) = <<c>> /\ <<c>> # <<>> /\ <<c>>[1] = c
      BY <1>5, <2>1, <3>1
    <3>3. OnTop(b, layers, p, h) = Append(rest, c)
      BY <3>2 DEF OnTop, Pushed
    <3> QED
      BY <2>1, <3>1, <3>3 DEF NextCtx
  <2>2. CASE name \notin DOMAIN ctx
    BY <1>5, <2>2 DEF OnTop, Pushed, NextCtx
  <2> QED
    BY <2>1, <2>2
<1>7. ~Waits(m, h)
  BY DEF Waits
<1> QED
  BY <1>1, <1>3, <1>4, <1>6, <1>7 DEF StackIs

\* A layer without a hook leaves the stack as it is.
LEMMA LayerSkipped ==
  ASSUME NEW w, NEW m, NEW f, NEW h, h.id = f.id, h.map = f.map, h.arr = Null, f.arr = Null, f.l \in Nat,
         h.l = f.l + 1, ~Layers[m[f.id].cls][h.l].init, NEW p, NEW st, StackIs(w, m, p, f, st)
  PROVE  StackIs(w, m, p, h, st) /\ (Waits(m, h) <=> Waits(m, f))
<1>1. PICK layers : layers = Layers[m[f.id].cls]
  OBVIOUS
<1>2. \A l \in 1 .. h.l : l \in 1 .. f.l \/ l = h.l
  OBVIOUS
<1>3. 1 .. f.l \subseteq 1 .. h.l
  OBVIOUS
<1>4. HooksBegun(layers, h) = HooksBegun(layers, f)
  BY <1>1, <1>2, <1>3 DEF HooksBegun
<1>5. LastHook(layers, h) = LastHook(layers, f)
  BY <1>4 DEF LastHook
<1>6. CtxOf(w.box, layers, h) = CtxOf(w.box, layers, f)
  BY <1>4, <1>5 DEF CtxOf
<1>7. OnTop(w.box, layers, p, h) = OnTop(w.box, layers, p, f)
  BY <1>6 DEF OnTop
<1>8. Waits(m, h) <=> Waits(m, f)
  BY <1>1, <1>2, <1>3 DEF Waits
<1> QED
  BY <1>1, <1>7, <1>8 DEF StackIs

\* The object whose call is the last has the number that waits.
LEMMA LastNumber ==
  ASSUME TwinInv, last # Null, NEW f, f = Last(calls)
  PROVE  made[f.id].num = last
BY DEF TwinInv, LastOK, Frame

\* init_ of a layer reads from its context, with all of its fields to come.
LEMMA NextLayerStep ==
  ASSUME NEW w, w = World, WorldOK(w), NowOK(w), TwinInv, NextLayer
  PROVE  NowOK(w)'
<1>1. /\ ReadAt(w, made, objects, calls, given, last, stack)
      /\ Len(calls) <= MaxDepth /\ fault = "none"
  BY DEF NowOK
<1>2. PICK f : f = Last(calls)
  OBVIOUS
<1>3. PICK layers : layers = Layers[made[f.id].cls]
  OBVIOUS
<1>4. calls # <<>> /\ f.todo = {} /\ f.arr = Null /\ f.l < Len(layers)
  BY Zenon, <1>2, <1>3 DEF NextLayer, LayerDone, Frame, LayersOf
<1>5. FrameOK(w, made, f) /\ MadesOK(w, made) /\ FramesOK(w, made, calls) /\ WaitOK(made, calls, last)
      /\ ObjectsOK(w, made, objects)
  BY <1>1, <1>2, <1>4, LastFrame DEF ReadAt
<1>6. PICK h : AtNext(made, f, h)
  BY Zenon DEF AtNext
<1>7. /\ h.key = f.key /\ h.id = f.id /\ h.map = f.map /\ h.arr = Null
      /\ h.l = f.l + 1 /\ h.l \in Nat \ {0} /\ f.l \in Nat
  BY <1>3, <1>4, <1>5, <1>6, NextFrame
<1>8. PICK rest : rest = Cut(last, stack)
  OBVIOUS
<1>9. PICK layer : layer = layers[f.l + 1]
  OBVIOUS
<1>10. /\ IF ~layer.init THEN UNCHANGED <<stack, objects, last>> ELSE
          /\ stack' = NextCtx(box[Last(rest)].ctx, layer.name, rest)
          /\ objects' = IF last = Null THEN objects ELSE Met(last, f.id)
          /\ last' = Null
       /\ calls' = [calls EXCEPT ![Len(calls)].l = @ + 1, ![Len(calls)].todo = {x.k : x \in Range(layer.fields)}]
       /\ UNCHANGED <<made, given, fault>>
  BY Zenon, <1>2, <1>3, <1>8, <1>9 DEF NextLayer, Frame, LayersOf, Cut, NextCtx
<1>11. PICK t : t = Replaced(calls, h)
  OBVIOUS
<1>12. calls' = t
  <2>1. Len(calls) \in DOMAIN calls /\ f = calls[Len(calls)]
    BY <1>1, <1>2, <1>4, LastFrame
  <2>2. PICK z : z = {x.k : x \in Range(layer.fields)}
    BY Zenon
  <2>3. PICK n : n = Len(calls)
    BY Zenon
  <2>4. PICK cs : cs = calls
    OBVIOUS
  <2>5. PICK c1, c2, c3, c4, c5 : c1 = f.key /\ c2 = f.id /\ c3 = f.map /\ c4 = f.l /\ c5 = f.todo
    OBVIOUS
  <2>6. PICK d : d = c4 + 1
    OBVIOUS
  <2>7. PICK c : c = cs[n]
    OBVIOUS
  <2>8. c = [key |-> c1, id |-> c2, map |-> c3, l |-> c4, todo |-> c5, arr |-> Null]
    BY <1>4, <1>5, <2>1, <2>3, <2>4, <2>5, <2>7 DEF FrameOK
  <2>9. calls' = [cs EXCEPT ![n].l = d, ![n].todo = z]
    BY Zenon, <1>10, <2>1, <2>2, <2>3, <2>4, <2>5, <2>6, <2>7
  <2>10. PICK y : y = [c EXCEPT !.l = d]
    BY Zenon
  <2>11. y = [key |-> c1, id |-> c2, map |-> c3, l |-> d, todo |-> c5, arr |-> Null]
    BY <2>8, <2>10
  <2>12. h = [key |-> c1, id |-> c2, map |-> c3, l |-> d, todo |-> z, arr |-> Null]
    BY <1>3, <1>6, <1>9, <2>2, <2>5, <2>6 DEF AtNext, Call
  <2>13. [y EXCEPT !.todo = z] = h
    BY <2>11, <2>12
  <2>14. calls' = [cs EXCEPT ![n] = [y EXCEPT !.todo = z]]
    BY Zenon, <2>1, <2>3, <2>4, <2>7, <2>9, <2>10
  <2> QED
    BY Zenon, <1>11, <2>3, <2>4, <2>13, <2>14 DEF Replaced
<1>13. PICK p : p = Piled(w, made, Front(calls))
  OBVIOUS
<1>14. /\ Pushed(p, f.map, rest) /\ p \in Seq(Nat) /\ p # <<>> /\ f.map \in Nat
       /\ StackIs(w, made, p, f, stack)
  BY <1>1, <1>2, <1>4, <1>8, <1>13, CutIs
<1>15. CASE layer.init
  <2>1. PICK s : s = stack'
    OBVIOUS
  <2>2. Last(rest) = f.map
    BY <1>14, PutOn DEF Pushed
  <2>3. layers[h.l].init /\ layer = layers[h.l] /\ layers = Layers[made[h.id].cls]
    BY <1>3, <1>7, <1>9, <1>15
  <2>4. s = NextCtx(w.box[f.map].ctx, layers[h.l].name, rest)
    BY ZenonT(60), <1>10, <1>15, <2>1, <2>2, <2>3 DEF World
  <2>5. StackIs(w, made, p, h, s) /\ ~Waits(made, h)
    BY Zenon, <1>7, <1>14, <2>3, <2>4, LayerPushed
  <2>6. PICK o : o = objects'
    OBVIOUS
  <2>7. ObjectsOK(w, made, o)
    <3>1. CASE last = Null
      BY <1>5, <1>10, <1>15, <2>6, <3>1
    <3>2. CASE last # Null
      <4>1. made[f.id].num = last /\ f.id \in DOMAIN made
        BY <1>2, <1>5, <3>2, LastNumber DEF FrameOK
      <4>2. o = [objects EXCEPT ![last] = [t |-> "made", v |-> f.id]]
        BY <1>10, <1>15, <2>6, <3>2 DEF Met
      <4> QED
        BY Zenon, <1>5, <4>1, <4>2, MetIs
    <3> QED
      BY <3>1, <3>2
  <2>8. PICK lb : lb = Null
    OBVIOUS
  <2>9. Waits(made, h) <=> lb # Null
    BY <2>5, <2>8
  <2>10. Len(t) = Len(calls) /\ ReadAt(w, made, o, t, given, lb, s)
    BY <1>1, <1>2, <1>3, <1>4, <1>6, <1>11, <1>13, <2>5, <2>7, <2>9, LayerBegins
  <2>11. Len(t) <= MaxDepth
    BY <1>1, <2>10
  <2>12. made' = made /\ given' = given /\ fault' = fault /\ last' = lb
    BY <1>10, <1>15, <2>8
  <2> QED
    BY <1>1, <1>12, <2>1, <2>6, <2>10, <2>11, <2>12 DEF NowOK
<1>16. CASE ~layer.init
  <2>1. /\ stack' = stack /\ objects' = objects /\ last' = last /\ made' = made /\ given' = given /\ fault' = fault
    BY <1>10, <1>16
  <2>2. ~Layers[made[f.id].cls][h.l].init
    BY <1>3, <1>7, <1>9, <1>16
  <2>3. StackIs(w, made, p, h, stack) /\ (Waits(made, h) <=> Waits(made, f))
    BY Zenon, <1>4, <1>7, <1>14, <2>2, LayerSkipped
  <2>4. Waits(made, h) <=> last # Null
    <3>1. Len(calls) \in DOMAIN calls /\ f = calls[Len(calls)]
      BY <1>1, <1>2, <1>4, LastFrame
    <3>2. Waits(made, f) <=> last # Null
      BY <1>5, <3>1 DEF WaitOK
    <3> QED
      BY <2>3, <3>2
  <2>5. Len(t) = Len(calls) /\ ReadAt(w, made, objects, t, given, last, stack)
    BY <1>1, <1>2, <1>3, <1>4, <1>5, <1>6, <1>11, <1>13, <2>3, <2>4, LayerBegins
  <2>6. Len(t) <= MaxDepth
    BY <1>1, <2>5
  <2> QED
    BY <1>1, <1>12, <2>1, <2>5, <2>6 DEF NowOK
<1> QED
  BY <1>15, <1>16

\* An object that is read as a whole has nothing left to get.
LEMMA FrontLeft ==
  ASSUME NEW w, WorldOK(w), NEW m, MadesOK(w, m), NEW cs, FramesOK(w, m, cs), LeftOK(m, cs), cs # <<>>,
         NEW f, f = Last(cs), FrameOK(w, m, f), f.todo = {}, f.l = Len(Layers[m[f.id].cls])
  PROVE  LeftOK(m, Front(cs))
<1>1. /\ Len(cs) \in DOMAIN cs /\ f = cs[Len(cs)] /\ DOMAIN cs = 1 .. Len(cs) /\ Len(cs) \in Nat
      /\ DOMAIN Front(cs) = 1 .. Len(cs) - 1
      /\ \A i \in 1 .. Len(cs) - 1 : i \in DOMAIN cs /\ Front(cs)[i] = cs[i]
  BY Zenon, CallsAre DEF FramesOK
<1>2. \A i \in DOMAIN cs : i = Len(cs) \/ i \in DOMAIN Front(cs)
  BY <1>1
<1>3. ASSUME NEW i \in DOMAIN m, NEW l \in DOMAIN Layers[m[i].cls], NEW k
      PROVE  HasGot(Front(cs), i, l, k) <=> HasGot(cs, i, l, k)
  <2>1. CASE i # f.id
    BY Zenon, <1>1, <1>2, <2>1 DEF HasGot
  <2>2. CASE i = f.id
    <3>1. HasGot(cs, Last(cs).id, l, k) <=> l < Last(cs).l \/ (l = Last(cs).l /\ k \notin Last(cs).todo)
      BY Zenon, LeftTop
    <3>2. l \in 1 .. f.l /\ f.l \in Nat
      BY <1>3, <2>2, FrameAt
    <3>3. HasGot(cs, i, l, k)
      BY <2>2, <3>1, <3>2
    <3>4. \A j \in DOMAIN Front(cs) : Front(cs)[j].id # i
      <4>3. Len(cs) \in Nat
        BY <1>1
      <4>1. \A j \in 1 .. Len(cs) - 1 : j # Len(cs)
        BY <4>3
      <4>2. \A j \in 1 .. Len(cs) - 1 : cs[j].id # cs[Len(cs)].id
        BY Zenon, <1>1, <4>1 DEF FramesOK
      <4> QED
        BY <1>1, <2>2, <4>2
    <3> QED
      BY <3>3, <3>4 DEF HasGot
  <2> QED
    BY <2>1, <2>2
<1> QED
  BY Zenon, <1>3 DEF LeftOK

\* The call that is over is for what the one before waits for.
LEMMA FrontAwaits ==
  ASSUME NEW w, NEW m, NEW cs, FramesOK(w, m, cs), NEW gv, DueOK(w, m, cs, gv), cs # <<>>,
         NEW f, f = Last(cs), NEW o, o = w.num[m[f.id].num + 1]
  PROVE  Awaits(w, m, Front(cs), gv, f.key, "ref", o)
<1>1. /\ Len(cs) \in DOMAIN cs /\ f = cs[Len(cs)] /\ DOMAIN cs = 1 .. Len(cs) /\ Len(cs) \in Nat
      /\ IsSeq(Front(cs)) /\ Len(Front(cs)) = Len(cs) - 1
      /\ \A i \in 1 .. Len(cs) - 1 : i \in DOMAIN cs /\ Front(cs)[i] = cs[i]
  BY CallsAre DEF FramesOK
<1>2. PICK k : k = f.key
  OBVIOUS
<1>3. CASE Len(cs) = 1
  <2>1. Front(cs) = <<>>
    BY <1>1, <1>3, CallsAre
  <2>2. RootDue(w, gv, k, o)
    BY <1>1, <1>2, <1>3 DEF DueOK
  <2> QED
    BY <1>2, <2>1, <2>2 DEF Awaits, RootDue
<1>4. CASE Len(cs) # 1
  <2>1. Len(cs) - 1 \in 1 .. Len(cs) - 1
    BY <1>1, <1>4
  <2>2. Front(cs) # <<>>
    <3>1. Len(Front(cs)) # 0
      BY <1>1, <2>1
    <3> QED
      BY <1>1, <3>1, CallsAre
  <2>3. PICK g : g = cs[Len(cs) - 1]
    OBVIOUS
  <2>4. Last(Front(cs)) = g
    BY <1>1, <2>1, <2>2, <2>3, CallsAre
  <2>5. Due(w, m, g, k, o)
    BY Zenon, <1>1, <1>2, <1>4, <2>3 DEF DueOK
  <2> QED
    BY <1>2, <2>2, <2>4, <2>5 DEF Awaits, Due
<1> QED
  BY <1>3, <1>4

\* A call is over: those before it are under way, on their boxes.
LEMMA CallOver ==
  ASSUME NEW w, WorldOK(w), NEW m, NEW obs, NEW cs, NEW gv, NEW la, NEW st, ReadAt(w, m, obs, cs, gv, la, st),
         cs # <<>>, NEW f, f = Last(cs), f.todo = {}, f.l = Len(Layers[m[f.id].cls]),
         NEW o, ObjectsOK(w, m, o), NEW p, p = Piled(w, m, Front(cs))
  PROVE  ReadAt(w, m, o, Front(cs), gv, Null, p)
<1>1. FrameOK(w, m, f) /\ MadesOK(w, m) /\ FramesOK(w, m, cs) /\ GivenOK(w, m, gv) /\ LeftOK(m, cs)
      /\ LedOK(w, m, cs) /\ DueOK(w, m, cs, gv) /\ WaitOK(m, cs, la)
  BY LastFrame DEF ReadAt
<1>2. /\ FramesOK(w, m, Front(cs)) /\ LedOK(w, m, Front(cs)) /\ DueOK(w, m, Front(cs), gv)
      /\ WaitOK(m, Front(cs), Null)
  BY Zenon, <1>1, FrontOK
<1>3. LeftOK(m, Front(cs))
  BY <1>1, FrontLeft
<1> QED
  BY <1>1, <1>2, <1>3 DEF ReadAt

\* The object that was made goes to whoever asked for it.
LEMMA FinishStep ==
  ASSUME NEW w, w = World, WorldOK(w), NowOK(w), TwinInv, Finish
  PROVE  NowOK(w)'
<1>1. /\ ReadAt(w, made, objects, calls, given, last, stack)
      /\ Len(calls) <= MaxDepth /\ fault = "none"
  BY DEF NowOK
<1>2. PICK f : f = Last(calls)
  OBVIOUS
<1>3. calls # <<>> /\ f.todo = {} /\ f.arr = Null /\ f.l = Len(Layers[made[f.id].cls])
  BY <1>2 DEF Finish, LayerDone, Frame, LayersOf
<1>4. FrameOK(w, made, f) /\ MadesOK(w, made) /\ FramesOK(w, made, calls) /\ DueOK(w, made, calls, given)
      /\ ObjectsOK(w, made, objects)
  BY <1>1, <1>2, <1>3, LastFrame DEF ReadAt
<1>5. PICK rest : rest = Cut(last, stack)
  OBVIOUS
<1>6. PICK p : p = Piled(w, made, Front(calls))
  OBVIOUS
<1>7. Pushed(p, f.map, rest) /\ p \in Seq(Nat) /\ f.map \in Nat
  BY <1>1, <1>2, <1>3, <1>5, <1>6, CutIs
<1>8. Front(rest) = p
  BY <1>7, PutOn DEF Pushed
<1>9. /\ stack' = p /\ last' = Null
      /\ objects' = IF last = Null THEN objects ELSE Met(last, f.id)
  BY <1>2, <1>5, <1>8 DEF Finish, Frame, Cut
<1>10. PICK o : o = objects'
  OBVIOUS
<1>11. ObjectsOK(w, made, o)
  <2>1. CASE last = Null
    BY <1>4, <1>9, <1>10, <2>1
  <2>2. CASE last # Null
    <3>1. made[f.id].num = last /\ f.id \in DOMAIN made
      BY <1>2, <1>4, <2>2, LastNumber DEF FrameOK
    <3>2. o = [objects EXCEPT ![last] = [t |-> "made", v |-> f.id]]
      BY <1>9, <1>10, <2>2 DEF Met
    <3> QED
      BY Zenon, <1>4, <3>1, <3>2, MetIs
  <2> QED
    BY <2>1, <2>2
<1>12. PICK cs : cs = Front(calls)
  OBVIOUS
<1>13. ReadAt(w, made, o, cs, given, Null, p)
  BY <1>1, <1>2, <1>3, <1>6, <1>11, <1>12, CallOver
<1>14. PICK k : k = f.key
  OBVIOUS
<1>15. PICK id : id = f.id
  OBVIOUS
<1>16. PICK v : v = w.num[made[f.id].num + 1]
  OBVIOUS
<1>17. Awaits(w, made, cs, given, k, "ref", v)
  BY <1>2, <1>3, <1>4, <1>12, <1>14, <1>16, FrontAwaits
<1>18. Copies(w, made, "ref", v, id)
  <2>1. v \in Obj
    BY <1>4, <1>16, FrameAt
  <2>2. v # Null
    BY <2>1, MmPackAssumption
  <2>3. IsTwin(w, made, id, v)
    BY <1>4, <1>15, <1>16 DEF IsTwin, FrameOK
  <2> QED
    BY <2>2, <2>3 DEF Copies
<1>19. Deliver(cs, k, id)
  BY <1>2, <1>12, <1>14, <1>15 DEF Finish, Frame
<1>20. PICK la : la = Null
  OBVIOUS
<1>21. ReadAt(w, made', o, calls', given', la, p) /\ Len(calls') = Len(cs) /\ fault' = fault
  BY <1>13, <1>17, <1>18, <1>19, <1>20, Delivered
<1>22. Len(cs) <= MaxDepth
  <2>1. Len(cs) = Len(calls) - 1 /\ Len(calls) \in Nat
    BY <1>3, <1>4, <1>12, CallsAre DEF FramesOK
  <2> QED
    BY <1>1, <2>1, MmUnpackAssumption
<1> QED
  BY <1>1, <1>9, <1>10, <1>20, <1>21, <1>22 DEF NowOK

\* Objects m, and one more with number n that has nothing yet.
NewMade(w, m, n, v, g) ==
  /\ v \in Obj /\ n \in 0 .. Len(w.num) - 1 /\ w.num[n + 1] = v
  /\ g = Append(m, [cls |-> w.graph[v].cls, num |-> n, got |-> Empty])

\* It is made of v, and the others are what they were.
LEMMA NewMadeIs ==
  ASSUME NEW w, NEW m, MadesOK(w, m), NEW n, NEW v, NEW g, NewMade(w, m, n, v, g), NEW id, id = Len(m) + 1
  PROVE  /\ Grows(m, g) /\ MadeSeq(g) /\ id \in DOMAIN g /\ id \notin DOMAIN m /\ \A i \in DOMAIN g : i \in DOMAIN m \/ i = id
         /\ \A i \in DOMAIN m : g[i] = m[i]
         /\ g[id].num = n /\ g[id].cls = w.graph[v].cls /\ DOMAIN g[id].got = {} /\ Source(w, g, id) = w.graph[v]
         /\ w.num[g[id].num + 1] = v
<1>1. PICK c : c = w.graph[v].cls
  OBVIOUS
<1>2. PICK x : x = [cls |-> c, num |-> n, got |-> Empty]
  BY Zenon
<1>3. x.cls = c /\ x.num = n /\ DOMAIN x.got = {} /\ x = [cls |-> x.cls, num |-> x.num, got |-> x.got]
  BY <1>2 DEF Empty
<1>4. g = Append(m, x) /\ w.num[n + 1] = v
  BY <1>1, <1>2 DEF NewMade
<1>5. IsSeq(m) /\ \A i \in DOMAIN m : m[i] = [cls |-> m[i].cls, num |-> m[i].num, got |-> m[i].got]
  BY DEF MadesOK, MadeSeq
<1>6. /\ IsSeq(g) /\ Len(g) = Len(m) + 1 /\ g[Len(m) + 1] = x
      /\ \A i \in 1 .. Len(m) : g[i] = m[i]
  BY <1>4, <1>5, SeqAppend
<1>7. Len(m) \in Nat /\ DOMAIN m = 1 .. Len(m) /\ DOMAIN g = 1 .. Len(g)
  BY <1>5, <1>6, CallsAre
<1>8. id \in DOMAIN g /\ id \notin DOMAIN m /\ g[id] = x /\ \A i \in DOMAIN g : i \in DOMAIN m \/ i = id
  BY <1>6, <1>7
<1>9. \A i \in DOMAIN m : g[i] = m[i] /\ i \in DOMAIN g
  BY <1>6, <1>7
<1>10. Grows(m, g)
  BY <1>9 DEF Grows
<1>11. MadeSeq(g)
  BY <1>3, <1>5, <1>6, <1>8, <1>9 DEF MadeSeq
<1>12. Source(w, g, id) = w.graph[v]
  BY <1>3, <1>4, <1>8 DEF Source
<1> QED
  BY <1>1, <1>3, <1>4, <1>8, <1>9, <1>10, <1>11, <1>12

\* All objects are all right with the one more.
LEMMA NewMades ==
  ASSUME NEW w, NEW m, MadesOK(w, m), NEW n, NEW v, NEW g, NewMade(w, m, n, v, g)
  PROVE  MadesOK(w, g) /\ Grows(m, g)
<1>1. PICK id : id = Len(m) + 1
  OBVIOUS
<1>2. /\ Grows(m, g) /\ MadeSeq(g) /\ \A i \in DOMAIN g : i \in DOMAIN m \/ i = id
      /\ \A i \in DOMAIN m : g[i] = m[i]
      /\ g[id].num = n /\ g[id].cls = w.graph[v].cls /\ DOMAIN g[id].got = {} /\ Source(w, g, id) = w.graph[v]
  BY <1>1, NewMadeIs
<1>3. \A t, y, r : Copies(w, m, t, y, r) => Copies(w, g, t, y, r)
  BY <1>2, CopyStays
<1>4. ASSUME NEW i \in DOMAIN m
      PROVE  /\ g[i].num \in 0 .. Len(w.num) - 1 /\ g[i].cls = Source(w, g, i).cls
             /\ \A s \in DOMAIN g[i].got : SlotOK(w, g, i, s)
  <2>1. g[i] = m[i] /\ Source(w, g, i) = Source(w, m, i)
    BY <1>2 DEF Source
  <2>2. /\ m[i].num \in 0 .. Len(w.num) - 1 /\ m[i].cls = Source(w, m, i).cls
        /\ \A s \in DOMAIN m[i].got : SlotOK(w, m, i, s)
    BY DEF MadesOK
  <2>3. \A s : SlotOK(w, m, i, s) => SlotOK(w, g, i, s)
    BY <1>3, <2>1 DEF SlotOK
  <2> QED
    BY <2>1, <2>2, <2>3
<1>5. g[id].num \in 0 .. Len(w.num) - 1 /\ g[id].cls = Source(w, g, id).cls
  BY Zenon, <1>2 DEF NewMade
<1> QED
  BY <1>2, <1>4, <1>5 DEF MadesOK

\* The call for it, on the properties in box b.
NewCall(w, m, cs, k, b, v, y, t) ==
  y = Call(k, Len(m) + 1, b, 0, {}, Null) /\ t = Append(cs, y) /\ Whole(w, b, w.graph[v])

\* It has begun no layer.
LEMMA NewCallIs ==
  ASSUME NEW w, NEW m, NEW cs, FramesOK(w, m, cs), MadesOK(w, m),
         NEW n, NEW v, NEW g, NewMade(w, m, n, v, g), v \in Obj, WorldOK(w),
         NEW k, NEW b, NEW y, NEW t, NewCall(w, m, cs, k, b, v, y, t)
  PROVE  /\ y.key = k /\ y.id = Len(m) + 1 /\ y.map = b /\ y.l = 0 /\ y.arr = Null /\ FrameOK(w, g, y)
         /\ IsSeq(t) /\ t # <<>> /\ Len(t) = Len(cs) + 1 /\ Len(cs) \in Nat /\ DOMAIN t = 1 .. Len(cs) + 1
         /\ DOMAIN cs = 1 .. Len(cs)
         /\ t[Len(cs) + 1] = y /\ \A i \in 1 .. Len(cs) : t[i] = cs[i]
         /\ Last(t) = y /\ Front(t) = cs
<1>1. PICK id : id = Len(m) + 1
  OBVIOUS
<1>2. y = Call(k, id, b, 0, {}, Null) /\ t = Append(cs, y) /\ Whole(w, b, w.graph[v])
  BY <1>1 DEF NewCall
<1>3. y.key = k /\ y.id = id /\ y.map = b /\ y.l = 0 /\ y.todo = {} /\ y.arr = Null /\ IsCall(y)
  <2>1. PICK z : z = {}
    BY Zenon
  <2>2. PICK l : l = 0
    OBVIOUS
  <2>3. y = Call(k, id, b, l, z, Null)
    BY <1>2, <2>1, <2>2
  <2> QED
    BY <2>1, <2>2, <2>3, CallParts
<1>4. /\ id \in DOMAIN g /\ Source(w, g, id) = w.graph[v] /\ g[id].cls = w.graph[v].cls
  BY <1>1, NewMadeIs
<1>5. FrameOK(w, g, y)
  <2>1. g[id].cls \in Class
    BY Zenon, <1>4 DEF WorldOK, IsObject
  <2>2. Layers[g[id].cls] \in Seq(Layer)
    BY <2>1, MmPackAssumption
  <2>3. y.l \in 0 .. Len(Layers[g[y.id].cls])
    BY <1>3, <2>2
  <2> QED
    BY <1>2, <1>3, <1>4, <2>3 DEF FrameOK, IsCall
<1>6. IsSeq(cs)
  BY DEF FramesOK
<1>7. /\ IsSeq(t) /\ Len(t) = Len(cs) + 1 /\ t[Len(cs) + 1] = y
      /\ \A i \in 1 .. Len(cs) : t[i] = cs[i]
  BY <1>2, <1>6, SeqAppend
<1>8. Len(cs) \in Nat /\ DOMAIN cs = 1 .. Len(cs) /\ DOMAIN t = 1 .. Len(cs) + 1
  BY <1>6, <1>7, CallsAre
<1>9. t # <<>>
  <2>1. Len(t) # 0
    BY <1>7, <1>8
  <2> QED
    BY <1>7, <2>1, CallsAre
<1>10. Last(t) = y
  BY <1>7, <1>9, CallsAre
<1>11. Front(t) = cs
  <2>1. /\ IsSeq(Front(t)) /\ Len(Front(t)) = Len(t) - 1
        /\ \A i \in 1 .. Len(t) - 1 : i \in DOMAIN t /\ Front(t)[i] = t[i]
    BY Zenon, <1>7, <1>9, CallsAre
  <2>2. Len(Front(t)) = Len(cs) /\ \A i \in 1 .. Len(cs) : Front(t)[i] = cs[i]
    BY <1>7, <1>8, <2>1
  <2>3. PICK r : r = Front(t)
    OBVIOUS
  <2>4. PICK S : S = Range(r) \cup Range(cs)
    BY Zenon
  <2>5. r \in Seq(Range(r)) /\ cs \in Seq(Range(cs)) /\ Range(r) \subseteq S /\ Range(cs) \subseteq S
    BY <1>6, <2>1, <2>3, <2>4 DEF IsSeq
  <2>6. PICK R : R = Range(r)
    OBVIOUS
  <2>7. PICK Q : Q = Range(cs)
    OBVIOUS
  <2>8. r \in Seq(S)
    BY <2>5, <2>6
  <2>9. cs \in Seq(S)
    BY <2>5, <2>7
  <2> QED
    BY <2>2, <2>3, <2>8, <2>9, SameSeq
<1> QED
  BY <1>1, <1>3, <1>5, <1>7, <1>8, <1>9, <1>10, <1>11

\* A call that is waited for becomes one of those under way, ...
LEMMA NewFrames ==
  ASSUME NEW w, WorldOK(w), NEW m, NEW cs, FramesOK(w, m, cs), MadesOK(w, m),
         NEW n, NEW v \in Obj, NEW g, NewMade(w, m, n, v, g),
         NEW k, NEW b, NEW y, NEW t, NewCall(w, m, cs, k, b, v, y, t)
  PROVE  FramesOK(w, g, t)
<1>1. /\ y.id = Len(m) + 1 /\ FrameOK(w, g, y) /\ IsSeq(t) /\ Len(cs) \in Nat /\ DOMAIN t = 1 .. Len(cs) + 1
      /\ DOMAIN cs = 1 .. Len(cs) /\ t[Len(cs) + 1] = y /\ \A i \in 1 .. Len(cs) : t[i] = cs[i]
  BY NewCallIs
<1>2. Grows(m, g) /\ Len(m) + 1 \notin DOMAIN m
  BY NewMadeIs
<1>3. FramesOK(w, g, cs)
  BY <1>2, FramesStay
<1>4. PICK e : e = Len(cs) + 1
  OBVIOUS
<1>5. t[e] = y /\ \A i \in DOMAIN t : i = e \/ i \in DOMAIN cs
  BY <1>1, <1>4
<1>6. \A i \in DOMAIN cs : t[i] = cs[i]
  BY <1>1
<1>7. \A i \in DOMAIN cs : cs[i].id # y.id
  BY <1>1, <1>2 DEF FramesOK, FrameOK
<1>8. \A i \in DOMAIN t : FrameOK(w, g, t[i])
  BY <1>1, <1>3, <1>5, <1>6 DEF FramesOK
<1>9. ASSUME NEW i \in DOMAIN t, NEW j \in DOMAIN t, t[i].id = t[j].id
      PROVE  i = j
  <2>1. CASE i \in DOMAIN cs /\ j \in DOMAIN cs
    BY <1>3, <1>6, <1>9, <2>1 DEF FramesOK
  <2>2. CASE i = e /\ j \in DOMAIN cs
    BY <1>5, <1>6, <1>7, <1>9, <2>2
  <2>3. CASE j = e /\ i \in DOMAIN cs
    BY <1>5, <1>6, <1>7, <1>9, <2>3
  <2> QED
    BY <1>5, <2>1, <2>2, <2>3
<1> QED
  BY <1>1, <1>8, <1>9 DEF FramesOK

\* ... for an object that the calls before it lead to, ...
LEMMA NewLed ==
  ASSUME NEW w, WorldOK(w), NEW m, NEW obs, NEW cs, NEW gv, NEW la, NEW st, ReadAt(w, m, obs, cs, gv, la, st),
         NEW n, NEW v \in Obj, NEW g, NewMade(w, m, n, v, g),
         NEW k, NEW b, NEW y, NEW t, NewCall(w, m, cs, k, b, v, y, t), Awaits(w, m, cs, gv, k, "ref", v)
  PROVE  LedOK(w, g, t)
<1>1. FramesOK(w, m, cs) /\ MadesOK(w, m)
  BY DEF ReadAt
<1>2. /\ y.id = Len(m) + 1 /\ Len(cs) \in Nat /\ DOMAIN t = 1 .. Len(cs) + 1
      /\ DOMAIN cs = 1 .. Len(cs) /\ t[Len(cs) + 1] = y /\ \A i \in 1 .. Len(cs) : t[i] = cs[i]
  BY <1>1, NewCallIs
<1>3. Grows(m, g) /\ w.num[g[y.id].num + 1] = v
  BY <1>1, <1>2, NewMadeIs
<1>4. LedOK(w, g, cs)
  BY <1>1, <1>3, CallsStay DEF ReadAt
<1>5. ASSUME NEW i \in DOMAIN t, NEW j \in DOMAIN t, i < j, NEW T \in SUBSET Obj, ClosedIn(w.graph, T),
             LayerRefs(FieldsAt(g, t[i]), BodyAt(w, g, t[i])) \subseteq T
      PROVE  w.num[g[t[j].id].num + 1] \in T
  <2>1. i \in DOMAIN cs
    BY <1>2, <1>5
  <2>2. PICK c : c = cs[i]
    OBVIOUS
  <2>3. t[i] = c
    BY <1>2, <2>1, <2>2
  <2>4. CASE j \in DOMAIN cs
    <3>1. t[j] = cs[j]
      BY <1>2, <2>4
    <3> QED
      BY <1>4, <1>5, <2>1, <2>2, <2>3, <2>4, <3>1 DEF LedOK
  <2>5. CASE j \notin DOMAIN cs
    <3>1. j = Len(cs) + 1
      BY <1>2, <1>5, <2>5
    <3>2. t[j] = y
      BY <1>2, <3>1
    <3>3. c.id \in DOMAIN m
      BY <1>1, <2>1, <2>2 DEF FramesOK, FrameOK
    <3>4. FieldsAt(g, c) = FieldsAt(m, c) /\ BodyAt(w, g, c) = BodyAt(w, m, c)
      BY <1>3, <3>3, PlaceStays
    <3>5. LayerRefs(FieldsAt(m, c), BodyAt(w, m, c)) \subseteq T
      BY <1>5, <2>3, <3>4
    <3>6. PICK f : f = Last(cs)
      OBVIOUS
    <3>7. cs # <<>>
      BY <1>2, <2>1
    <3>8. v # Null
      BY MmPackAssumption
    <3>9. v \in LayerRefs(FieldsAt(m, f), BodyAt(w, m, f))
      BY <3>6, <3>7, <3>8, AwaitsRef
    <3>10. f.l # 0
      BY <3>6, <3>7, AwaitsAt
    <3>11. v \in T
      BY <1>5, <2>1, <2>2, <3>5, <3>6, <3>7, <3>9, <3>10, LedTo
    <3> QED
      BY <1>3, <3>2, <3>11
  <2> QED
    BY <2>4, <2>5
<1> QED
  BY <1>5 DEF LedOK

\* ... which the one before waits for.
LEMMA NewDue ==
  ASSUME NEW w, WorldOK(w), NEW m, NEW obs, NEW cs, NEW gv, NEW la, NEW st, ReadAt(w, m, obs, cs, gv, la, st),
         NEW n, NEW v \in Obj, NEW g, NewMade(w, m, n, v, g),
         NEW k, NEW b, NEW y, NEW t, NewCall(w, m, cs, k, b, v, y, t), Awaits(w, m, cs, gv, k, "ref", v)
  PROVE  DueOK(w, g, t, gv)
<1>1. FramesOK(w, m, cs) /\ MadesOK(w, m)
  BY DEF ReadAt
<1>2. /\ y.id = Len(m) + 1 /\ y.key = k /\ Len(cs) \in Nat /\ DOMAIN t = 1 .. Len(cs) + 1
      /\ DOMAIN cs = 1 .. Len(cs) /\ t[Len(cs) + 1] = y /\ \A i \in 1 .. Len(cs) : t[i] = cs[i]
  BY <1>1, NewCallIs
<1>3. Grows(m, g) /\ w.num[g[y.id].num + 1] = v
  BY <1>1, <1>2, NewMadeIs
<1>4. DueOK(w, g, cs, gv)
  BY <1>1, <1>3, CallsStay DEF ReadAt
<1>5. ASSUME NEW i \in DOMAIN t
      PROVE  LET o == w.num[g[t[i].id].num + 1]
             IN  IF i = 1 THEN RootDue(w, gv, t[i].key, o) ELSE Due(w, g, t[i - 1], t[i].key, o)
  <2>1. CASE i \in DOMAIN cs
    <3>1. t[i] = cs[i]
      BY <1>2, <2>1
    <3>2. i # 1 => t[i - 1] = cs[i - 1]
      BY <1>2, <2>1
    <3> QED
      BY <1>4, <2>1, <3>1, <3>2 DEF DueOK
  <2>2. CASE i \notin DOMAIN cs
    <3>1. i = Len(cs) + 1
      BY <1>2, <1>5, <2>2
    <3>2. t[i] = y
      BY <1>2, <3>1
    <3>3. CASE i = 1
      <4>1. cs = <<>>
        BY <1>1, <1>2, <3>1, <3>3, CallsAre DEF FramesOK
      <4>2. RootDue(w, gv, k, v)
        BY <4>1 DEF Awaits, RootDue
      <4> QED
        BY <1>2, <1>3, <3>2, <3>3, <4>2
    <3>4. CASE i # 1
      <4>1. cs # <<>> /\ Last(cs) = cs[Len(cs)] /\ Len(cs) \in DOMAIN cs
        <5>1. IsSeq(cs) /\ Len(cs) # 0
          BY <1>1, <1>2, <3>1, <3>4 DEF FramesOK
        <5> QED
          BY <5>1, CallsAre
      <4>2. PICK f : f = Last(cs)
        OBVIOUS
      <4>3. Due(w, m, f, k, v)
        BY <4>1, <4>2 DEF Awaits, Due
      <4>4. f.id \in DOMAIN m
        BY <1>1, <4>1, <4>2 DEF FramesOK, FrameOK
      <4>5. Due(w, g, f, k, v)
        BY <1>3, <4>3, <4>4, DueStays
      <4>6. t[i - 1] = f
        BY <1>2, <3>1, <4>1, <4>2
      <4> QED
        BY <1>2, <1>3, <3>2, <3>4, <4>5, <4>6
    <3> QED
      BY <3>3, <3>4
  <2> QED
    BY <2>1, <2>2
<1> QED
  BY <1>5 DEF DueOK

\* It waits for its first layer with a hook, and is the only one that does.
LEMMA NewWaits ==
  ASSUME NEW w, WorldOK(w), NEW m, NEW obs, NEW cs, NEW gv, NEW st, ReadAt(w, m, obs, cs, gv, Null, st),
         NEW n, NEW v \in Obj, NEW g, NewMade(w, m, n, v, g),
         NEW k, NEW b, NEW y, NEW t, NewCall(w, m, cs, k, b, v, y, t)
  PROVE  WaitOK(g, t, n)
<1>1. FramesOK(w, m, cs) /\ MadesOK(w, m) /\ WaitOK(m, cs, Null)
  BY DEF ReadAt
<1>2. /\ y.l = 0 /\ Len(t) = Len(cs) + 1 /\ Len(cs) \in Nat /\ DOMAIN t = 1 .. Len(cs) + 1
      /\ DOMAIN cs = 1 .. Len(cs) /\ t[Len(cs) + 1] = y /\ \A i \in 1 .. Len(cs) : t[i] = cs[i]
  BY <1>1, NewCallIs
<1>3. Grows(m, g)
  BY <1>1, NewMadeIs
<1>4. WaitOK(g, cs, Null)
  BY <1>1, <1>3, CallsStay
<1>5. n # Null
  <2>1. n \in Nat
    <3>1. Len(w.num) \in Nat
      BY DEF WorldOK
    <3> QED
      BY <3>1 DEF NewMade
  <2> QED
    BY <2>1, MmPackAssumption
<1>6. PICK e : e = Len(t)
  BY Zenon
<1>7. /\ t[e] = y /\ \A i \in DOMAIN t : i = e \/ i \in DOMAIN cs
      /\ \A i \in DOMAIN cs : t[i] = cs[i] /\ i # e
  BY <1>2, <1>6
<1>8. Waits(g, y)
  BY <1>2 DEF Waits
<1>9. \A i \in DOMAIN cs : ~Waits(g, cs[i])
  BY <1>4 DEF WaitOK
<1> QED
  BY <1>5, <1>6, <1>7, <1>8, <1>9 DEF WaitOK

\* It has all its fields to get.
LEMMA NewLeft ==
  ASSUME NEW w, WorldOK(w), NEW m, NEW obs, NEW cs, NEW gv, NEW la, NEW st, ReadAt(w, m, obs, cs, gv, la, st),
         NEW n, NEW v \in Obj, NEW g, NewMade(w, m, n, v, g),
         NEW k, NEW b, NEW y, NEW t, NewCall(w, m, cs, k, b, v, y, t)
  PROVE  LeftOK(g, t)
<1>1. FramesOK(w, m, cs) /\ MadesOK(w, m) /\ LeftOK(m, cs)
  BY DEF ReadAt
<1>2. PICK id : id = Len(m) + 1
  OBVIOUS
<1>3. /\ y.l = 0 /\ y.id = id /\ Len(cs) \in Nat /\ DOMAIN t = 1 .. Len(cs) + 1
      /\ DOMAIN cs = 1 .. Len(cs) /\ t[Len(cs) + 1] = y /\ \A i \in 1 .. Len(cs) : t[i] = cs[i]
  BY <1>1, <1>2, NewCallIs
<1>4. /\ id \notin DOMAIN m /\ \A i \in DOMAIN g : i \in DOMAIN m \/ i = id
      /\ \A i \in DOMAIN m : g[i] = m[i]
      /\ g[id].cls = w.graph[v].cls /\ DOMAIN g[id].got = {}
  BY <1>1, <1>2, NewMadeIs
<1>5. PICK e : e = Len(cs) + 1
  OBVIOUS
<1>6. /\ e \in DOMAIN t /\ t[e] = y /\ \A i \in DOMAIN t : i = e \/ i \in DOMAIN cs
      /\ \A i \in DOMAIN cs : t[i] = cs[i] /\ i \in DOMAIN t
  BY <1>3, <1>5
<1>7. ASSUME NEW i \in DOMAIN m, NEW l, NEW x
      PROVE  HasGot(t, i, l, x) <=> HasGot(cs, i, l, x)
  BY <1>3, <1>4, <1>6 DEF HasGot
<1>8. ASSUME NEW l \in DOMAIN Layers[g[id].cls], NEW x
      PROVE  ~HasGot(t, id, l, x)
  <2>1. g[id].cls \in Class
    BY Zenon, <1>4 DEF WorldOK, IsObject
  <2>2. Layers[g[id].cls] \in Seq(Layer)
    BY <2>1, MmPackAssumption
  <2>3. l \in Nat \ {0}
    BY <1>8, <2>2
  <2>4. ~(l < 0) /\ l # 0
    BY <2>3
  <2> QED
    BY <1>3, <1>6, <2>4 DEF HasGot
<1>9. ASSUME NEW i \in DOMAIN g, NEW l \in DOMAIN Layers[g[i].cls], NEW x \in Range(Layers[g[i].cls][l].fields)
      PROVE  <<l, x.k>> \in DOMAIN g[i].got <=> HasGot(t, i, l, x.k)
  <2>1. CASE i \in DOMAIN m
    <3>1. g[i] = m[i]
      BY <1>4, <2>1
    <3>2. <<l, x.k>> \in DOMAIN m[i].got <=> HasGot(cs, i, l, x.k)
      BY <1>1, <1>9, <2>1, <3>1 DEF LeftOK
    <3> QED
      BY <1>7, <2>1, <3>1, <3>2
  <2>2. CASE i = id
    BY <1>4, <1>8, <1>9, <2>2
  <2> QED
    BY <1>4, <2>1, <2>2
<1> QED
  BY Zenon, <1>9 DEF LeftOK

\* Its properties are on the boxes of the calls before it.
LEMMA NewPiled ==
  ASSUME NEW w, WorldOK(w), NEW m, NEW cs, FramesOK(w, m, cs), MadesOK(w, m),
         NEW n, NEW v \in Obj, NEW g, NewMade(w, m, n, v, g),
         NEW k, NEW b, NEW y, NEW t, NewCall(w, m, cs, k, b, v, y, t),
         NEW st, st = Piled(w, m, cs), NEW s, Pushed(st, b, s)
  PROVE  s = Piled(w, g, t)
<1>1. y.l = 0 /\ y.arr = Null /\ y.map = b /\ t # <<>> /\ Front(t) = cs /\ Last(t) = y
  BY NewCallIs
<1>2. Grows(m, g) /\ MadesOK(w, g) /\ FramesOK(w, g, t)
  BY NewMades, NewFrames
<1>3. Piled(w, g, cs) = st
  <2>1. AllBoxes(w, g, cs) = AllBoxes(w, m, cs)
    BY <1>2, CallsStay
  <2> QED
    BY <2>1 DEF Piled
<1>4. PICK layers : layers = Layers[g[y.id].cls]
  OBVIOUS
<1>5. Piled(w, g, t) = OnTop(w.box, layers, st, y)
  <2>1. Piled(w, g, t) = OnTop(w.box, Layers[g[Last(t).id].cls], Piled(w, g, Front(t)), Last(t))
    BY <1>1, <1>2, PiledTop
  <2> QED
    BY <1>1, <1>3, <1>4, <2>1
<1>6. HooksBegun(layers, y) = {}
  BY <1>1 DEF HooksBegun
<1>7. CtxOf(w.box, layers, y) = <<>>
  BY <1>6 DEF CtxOf
<1> QED
  BY <1>1, <1>5, <1>7 DEF OnTop, Pushed

\* An object is begun.
LEMMA ObjectBegins ==
  ASSUME NEW w, WorldOK(w), NEW m, NEW obs, NEW cs, NEW gv, NEW st, ReadAt(w, m, obs, cs, gv, Null, st),
         NEW n, NEW v \in Obj, NEW g, NewMade(w, m, n, v, g),
         NEW k, NEW b, NEW y, NEW t, NewCall(w, m, cs, k, b, v, y, t), Awaits(w, m, cs, gv, k, "ref", v),
         NEW s, Pushed(st, b, s)
  PROVE  ReadAt(w, g, obs, t, gv, n, s) /\ Len(t) = Len(cs) + 1
<1>1. /\ MadesOK(w, m) /\ ObjectsOK(w, m, obs) /\ GivenOK(w, m, gv) /\ FramesOK(w, m, cs) /\ st = Piled(w, m, cs)
  BY DEF ReadAt
<1>2. Grows(m, g) /\ MadesOK(w, g) /\ FramesOK(w, g, t)
  BY <1>1, NewMades, NewFrames
<1>3. ObjectsOK(w, g, obs) /\ GivenOK(w, g, gv)
  BY <1>1, <1>2, NumbersStay, GivenStays
<1>4. DueOK(w, g, t, gv) /\ LedOK(w, g, t)
  <2>1. PICK la : la = Null
    OBVIOUS
  <2>2. ReadAt(w, m, obs, cs, gv, la, st)
    BY <2>1
  <2> QED
    BY <2>2, NewDue, NewLed
<1>5. WaitOK(g, t, n)
  BY NewWaits
<1>6. LeftOK(g, t)
  <2>1. PICK la : la = Null
    OBVIOUS
  <2>2. ReadAt(w, m, obs, cs, gv, la, st)
    BY <2>1
  <2> QED
    BY <2>2, NewLeft
<1>7. s = Piled(w, g, t)
  BY <1>1, NewPiled
<1>8. Len(t) = Len(cs) + 1
  BY <1>1, NewCallIs
<1> QED
  BY <1>2, <1>3, <1>4, <1>5, <1>6, <1>7, <1>8 DEF ReadAt

\* unpack_mmobj of an object that was not made yet finds its properties.
LEMMA NewStep ==
  ASSUME Registered = Class, NEW w, w = World, WorldOK(w), NowOK(w), TwinInv, NEW k, ReadNew(k)
  PROVE  NowOK(w)'
<1>1. /\ ReadAt(w, made, objects, calls, given, last, stack)
      /\ Len(calls) <= MaxDepth /\ fault = "none"
  BY DEF NowOK
<1>2. PICK e : e = Entry(k)
  OBVIOUS
<1>3. k \in Wanted /\ Type(k) = "ref" /\ e # None /\ ~Known(k, "made") /\ Len(calls) < MaxDepth
  BY <1>2 DEF ReadNew, Asks
<1>4. PICK v \in Obj : Awaits(w, made, calls, given, k, "ref", v) /\ Stands(w.num, e, v)
  BY <1>2, <1>3, RefAsked
<1>5. PICK n : n = e.v
  OBVIOUS
<1>6. e.t = "ref" /\ n \in 0 .. Len(w.num) - 1 /\ w.num[n + 1] = v
  BY <1>4, <1>5 DEF Stands
<1>7. PICK map : map = objects[n].v
  OBVIOUS
<1>8. n \in DOMAIN objects /\ objects[n].t = "map" /\ Whole(w, map, w.graph[v])
  <2>1. ObjectsOK(w, made, objects)
    BY <1>1 DEF ReadAt
  <2>2. n \in DOMAIN objects
    BY <1>6, <2>1 DEF ObjectsOK
  <2>3. objects[n].t # "made"
    BY <1>2, <1>3, <1>5, <1>6, <2>2 DEF Known
  <2> QED
    BY <1>6, <1>7, <2>1, <2>2, <2>3 DEF ObjectsOK
<1>9. Known(k, "map")
  BY <1>2, <1>5, <1>6, <1>8 DEF Known
<1>10. box[map].cls = w.graph[v].cls /\ w.graph[v].cls \in Registered
  <2>1. w.box = box
    BY DEF World
  <2>2. box[map].cls = w.graph[v].cls
    BY <1>8, <2>1 DEF Whole, ObjectOK
  <2>3. w.graph[v].cls \in Class
    BY Zenon, <1>4 DEF WorldOK, IsObject
  <2> QED
    BY <2>2, <2>3
<1>11. PICK g : g = Append(made, [cls |-> w.graph[v].cls, num |-> n, got |-> Empty])
  BY Zenon
<1>12. PICK y : y = Call(k, Len(made) + 1, map, 0, {}, Null)
  OBVIOUS
<1>13. PICK t : t = Append(calls, y)
  BY Zenon
<1>14. PICK s : s = Append(stack, map)
  BY Zenon
<1>15. /\ stack' = s /\ last' = n /\ made' = g /\ calls' = t /\ given' = given /\ fault' = fault /\ objects' = objects
  <2>1. /\ stack' = Append(stack, map) /\ last' = n
        /\ made' = Append(made, [cls |-> box[map].cls, num |-> n, got |-> Empty])
        /\ calls' = Append(calls, [key |-> k, id |-> Len(made) + 1, map |-> map,
                                   l |-> 0, todo |-> {}, arr |-> Null])
        /\ given' = given /\ fault' = fault /\ objects' = objects
    BY <1>2, <1>5, <1>7, <1>9, <1>10 DEF ReadNew
  <2> QED
    BY <1>10, <1>11, <1>12, <1>13, <1>14, <2>1 DEF Call
<1>16. NewMade(w, made, n, v, g) /\ NewCall(w, made, calls, k, map, v, y, t) /\ Pushed(stack, map, s)
  BY <1>6, <1>8, <1>11, <1>12, <1>13, <1>14 DEF NewMade, NewCall, Pushed
<1>17. last = Null
  BY <1>3, WaitingAsksNothing
<1>18. ReadAt(w, made, objects, calls, given, Null, stack)
  BY <1>1, <1>17
<1>19. ReadAt(w, g, objects, t, given, n, s) /\ Len(t) = Len(calls) + 1
  BY <1>4, <1>16, <1>18, ObjectBegins
<1>20. Len(t) <= MaxDepth
  <2>1. Len(calls) \in Nat
    BY <1>1, CallsAre DEF ReadAt, FramesOK
  <2> QED
    BY <1>3, <1>19, <2>1, MmUnpackAssumption
<1> QED
  BY <1>1, <1>15, <1>19, <1>20 DEF NowOK

----------------------------------------------------------------------------
(* What is so all the way                                                  *)

\* process() reads what the packer wrote, and nothing else: what holds before
\* and while it does.
THEOREM ParserInvariance == Spec => [](BeforeInv /\ ParseInv)
<1>1. Init => BeforeInv /\ ParseInv
  BY DEF Init, PackInit, UnpackInit, BeforeInv, ParseInv
<1>2. PackInv /\ ShowInv /\ BeforeInv /\ ParseInv /\ [Next]_vars => BeforeInv' /\ ParseInv'
  <2> SUFFICES ASSUME PackInv, ShowInv, BeforeInv, ParseInv, [Next]_vars PROVE BeforeInv' /\ ParseInv'
    OBVIOUS
  <2>1. CASE Packs
    <3>1. /\ mode = "pack" /\ mode' = "pack" /\ pos' = pos /\ current' = current /\ db' = db /\ stack' = stack
          /\ objects' = objects /\ fault' = fault /\ given' = given
      BY <2>1 DEF Packs, parser, reader
    <3> QED
      BY <3>1 DEF BeforeInv, ParseInv
  <2>2. CASE ParseStart
    BY <2>2, ParseStartOn
  <2>3. CASE ParseToken
    BY <2>3, ParseTokenOn
  <2>4. CASE ParseEnd
    <3>1. mode = "parse" /\ mode' = "read" /\ doing' = doing
      BY <2>4 DEF ParseEnd, packer
    <3> QED
      BY <3>1 DEF BeforeInv, ParseInv
  <2>5. CASE ReadStep
    <3>1. mode = "read" /\ mode' = mode /\ doing' = doing
      BY Zenon, <2>5 DEF ReadStep, ReadLeaf, ReadNothing, ReadKnown, ReadNew, ReadArray, ReadArrayEnd, NextLayer,
                  Finish, LayerDone, Asks, Reading, packer
    <3> QED
      BY <3>1 DEF BeforeInv, ParseInv
  <2>6. CASE UNCHANGED vars
    <3>1. /\ mode' = mode /\ pos' = pos /\ current' = current /\ db' = db /\ stack' = stack /\ box' = box
          /\ objects' = objects /\ fault' = fault /\ given' = given /\ doing' = doing
          /\ graph' = graph /\ num' = num /\ names' = names /\ out' = out /\ roots' = roots
      BY <2>6 DEF vars, packer, parser, reader
    <3>2. BeforeInv'
      BY <3>1 DEF BeforeInv
    <3>3. ParseInv'
      BY <3>1 DEF ParseInv, OnWay, AtState
    <3> QED
      BY <3>2, <3>3
  <2> QED
    BY <2>1, <2>2, <2>3, <2>4, <2>5, <2>6 DEF Next, Parse
<1> QED
  BY <1>1, <1>2, PackerInvariance, StreamIsReadable, PTL DEF Spec

\* What the program packs: a graph that is safe to read, and roots that are
\* objects or numbers.
GivenWorld == SafeIn(graph) /\ \A k \in DOMAIN roots : roots[k].t \in {"ref", "integer"}

\* The graph stays safe to read, and roots stay objects or numbers.
THEOREM WorldInvariance == Spec => []GivenWorld
<1>1. Init => GivenWorld
  BY SafeIs DEF Init, PackInit, GivenWorld
<1>2. GivenWorld /\ [Next]_vars => GivenWorld'
  <2> SUFFICES ASSUME GivenWorld, [Next]_vars PROVE GivenWorld'
    OBVIOUS
  <2>1. graph' = graph
    BY DEF Next, Packs, Parse, ParseStart, ParseToken, ParseEnd, ReadStep, vars
  <2>2. \A k \in DOMAIN roots' : roots'[k].t \in {"ref", "integer"}
    <3>1. CASE roots' = roots
      BY <3>1 DEF GivenWorld
    <3>2. ASSUME NEW k, NEW e, e.t \in {"ref", "integer"}, roots' = Under(roots, k, e)
          PROVE  \A j \in DOMAIN roots' : roots'[j].t \in {"ref", "integer"}
      <4>1. /\ DOMAIN roots' = DOMAIN roots \cup {k} /\ roots'[k] = e
            /\ \A j \in DOMAIN roots : j # k => roots'[j] = roots[j]
        BY <3>2 DEF Under
      <4> QED
        BY <3>2, <4>1 DEF GivenWorld
    <3>3. \/ roots' = roots
          \/ \E o : roots' = Under(roots, Cardinality(DOMAIN roots), [t |-> "ref", v |-> o])
          \/ \E v : roots' = Under(roots, Cardinality(DOMAIN roots), [t |-> "integer", v |-> v])
      <4>1. CASE Packs
        BY Zenon, <4>1 DEF Packs, PackRoot, PackRootLeaf, Pack, PackObject, PackLayer, PackEnd, PackDone
      <4>2. CASE UNCHANGED packer
        BY <4>2 DEF packer
      <4>3. Packs \/ UNCHANGED packer
        BY DEF Next, Parse, ParseStart, ParseToken, ParseEnd, ReadStep, vars
      <4> QED
        BY Zenon, <4>1, <4>2, <4>3
    <3>4. ASSUME NEW o, roots' = Under(roots, Cardinality(DOMAIN roots), [t |-> "ref", v |-> o])
          PROVE  \A j \in DOMAIN roots' : roots'[j].t \in {"ref", "integer"}
      <4>1. PICK e : e = [t |-> "ref", v |-> o]
        BY Zenon
      <4>2. e.t \in {"ref", "integer"}
        BY <4>1
      <4> QED
        BY <3>2, <3>4, <4>1, <4>2
    <3>5. ASSUME NEW o, roots' = Under(roots, Cardinality(DOMAIN roots), [t |-> "integer", v |-> o])
          PROVE  \A j \in DOMAIN roots' : roots'[j].t \in {"ref", "integer"}
      <4>1. PICK e : e = [t |-> "integer", v |-> o]
        BY Zenon
      <4>2. e.t \in {"ref", "integer"}
        BY <4>1
      <4> QED
        BY <3>2, <3>5, <4>1, <4>2
    <3> QED
      BY Zenon, <3>1, <3>3, <3>4, <3>5
  <2>3. SafeIn(graph')
    BY <2>1 DEF GivenWorld
  <2> QED
    BY <2>2, <2>3 DEF GivenWorld
<1> QED
  BY <1>1, <1>2, PTL DEF Spec

\* Nothing has been made when process() is over.
LEMMA ReadBegins ==
  ASSUME PackInv, GivenWorld, ParsedOK, made = <<>>, calls = <<>>, last = Null
  PROVE  WorldOK(World) /\ NowOK(World)
<1>1. PICK w : w = World
  OBVIOUS
<1>2. w.graph = graph /\ w.num = num /\ w.box = box /\ w.roots = roots
  BY <1>1 DEF World
<1>3. WorldOK(w)
  BY <1>2 DEF WorldOK, PackInv, PackTypes, GivenWorld, ParsedOK
<1>4. IsSeq(<<>>) /\ DOMAIN <<>> = {} /\ Len(<<>>) = 0
  BY DEF IsSeq
<1>5. PICK e : e = <<>>
  OBVIOUS
<1>6. IsSeq(e) /\ DOMAIN e = {} /\ Len(e) = 0 /\ made = e /\ calls = e
  BY <1>4, <1>5
<1>7. MadesOK(w, e)
  BY <1>6 DEF MadesOK, MadeSeq
<1>8. FramesOK(w, e, e)
  BY <1>6 DEF FramesOK
<1>9. ObjectsOK(w, e, objects)
  <2>1. ShowsObjects(graph, box, objects, num, Null)
    BY DEF ParsedOK
  <2>2. DOMAIN objects = 0 .. Len(num) - 1
    BY <2>1 DEF ShowsObjects, Count
  <2>3. \A n \in DOMAIN objects : ObjectAt(graph, box, num, objects, n, Far(graph, Null, num, n))
    BY <2>1, <2>2 DEF ShowsObjects, Count
  <2>4. ASSUME NEW n \in DOMAIN objects
        PROVE  objects[n].t = "map" /\ Whole(w, objects[n].v, w.graph[w.num[n + 1]])
    <3>1. PICK b : b = objects[n].v
      OBVIOUS
    <3>2. PICK x : x = graph[num[n + 1]]
      OBVIOUS
    <3>3. objects[n] = [t |-> "map", v |-> b] /\ ObjectOK(box, num, b, x, Len(Layers[x.cls]))
      BY <2>3, <2>4, <3>1, <3>2 DEF ObjectAt, Far
    <3>4. Whole(w, b, x)
      BY <1>2, <3>3 DEF Whole
    <3> QED
      BY <1>2, <3>1, <3>2, <3>3, <3>4
  <2> QED
    BY <1>2, <2>2, <2>4 DEF ObjectsOK
<1>10. GivenOK(w, e, given)
  BY DEF ParsedOK, GivenOK, Empty
<1>11. DueOK(w, e, e, given) /\ LedOK(w, e, e) /\ WaitOK(e, e, last) /\ LeftOK(e, e)
  BY <1>6 DEF DueOK, LedOK, WaitOK, LeftOK
<1>12. stack = Piled(w, e, e)
  BY <1>3, <1>5, <1>7, <1>8, PiledTop DEF ParsedOK
<1>13. ReadAt(w, e, objects, e, given, last, stack)
  BY <1>7, <1>8, <1>9, <1>10, <1>11, <1>12 DEF ReadAt
<1>14. Len(e) <= MaxDepth
  BY <1>6, MmUnpackAssumption
<1>15. NowOK(w)
  BY <1>6, <1>13, <1>14 DEF NowOK, ParsedOK
<1> QED
  BY <1>1, <1>3, <1>15

\* While the unpack_ calls run.
ReadState ==
  mode = "read" =>
    /\ WorldOK(World) /\ NowOK(World)
    /\ DOMAIN db \subseteq 0 .. Cardinality(Class) - 1

\* A call reads what it means and stays all right.
LEMMA ReadStepOn ==
  ASSUME Registered = Class, WorldOK(World), NowOK(World), TwinInv, ReadStep
  PROVE  WorldOK(World)' /\ NowOK(World)'
<1>1. PICK w : w = World
  OBVIOUS
<1>2. w = World /\ WorldOK(w) /\ NowOK(w)
  BY <1>1
<1>3. World' = w
  BY <1>1 DEF World, ReadStep, packer, parser
<1>4. NowOK(w)'
  <2>1. ASSUME NEW k, NEW t, ReadLeaf(k, t) PROVE NowOK(w)'
    BY <1>2, <2>1, LeafStep
  <2>2. ASSUME NEW k, ReadNothing(k) PROVE NowOK(w)'
    BY <1>2, <2>2, NothingStep
  <2>3. ASSUME NEW k, ReadKnown(k) PROVE NowOK(w)'
    BY <1>2, <2>3, KnownStep
  <2>4. ASSUME NEW k, ReadNew(k) PROVE NowOK(w)'
    BY <1>2, <2>4, NewStep
  <2>5. ASSUME NEW k, ReadArray(k) PROVE NowOK(w)'
    BY <1>2, <2>5, ArrayStep
  <2>6. ASSUME ReadArrayEnd PROVE NowOK(w)'
    BY <1>2, <2>6, ArrayEndStep
  <2>7. ASSUME NextLayer PROVE NowOK(w)'
    BY <1>2, <2>7, NextLayerStep
  <2>8. ASSUME Finish PROVE NowOK(w)'
    BY <1>2, <2>8, FinishStep
  <2> QED
    BY <2>1, <2>2, <2>3, <2>4, <2>5, <2>6, <2>7, <2>8 DEF ReadStep
<1>5. WorldOK(World)'
  BY <1>2, <1>3 DEF WorldOK
<1>6. NowOK(World)'
  BY <1>3, <1>4 DEF NowOK
<1> QED
  BY <1>5, <1>6

\* While the unpack_ calls run, each is in its box, asks for what was packed
\* there, and what it got is the copy of it: the invariant behind the three
\* theorems below.
THEOREM ReadInvariance == (Registered = Class) => (Spec => []ReadState)
<1> SUFFICES ASSUME Registered = Class PROVE Spec => []ReadState
  OBVIOUS
<1>1. Init => ReadState
  BY DEF Init, UnpackInit, ReadState
<1>2. PackInv /\ TwinInv /\ BeforeInv /\ ParseInv /\ GivenWorld /\ ReadState /\ [Next]_vars => ReadState'
  <2> SUFFICES ASSUME PackInv, TwinInv, BeforeInv, ParseInv, GivenWorld, ReadState, [Next]_vars,
                      mode' = "read"
               PROVE  ReadState'
    BY DEF ReadState
  <2>1. CASE ParseEnd
    <3>1. /\ graph' = graph /\ num' = num /\ roots' = roots /\ db' = db /\ box' = box /\ stack' = stack
          /\ objects' = objects /\ last' = last /\ made' = made /\ calls' = calls /\ given' = given
          /\ fault' = fault
      BY <2>1 DEF ParseEnd, packer, parser, reader
    <3>2. mode # "read"
      BY <2>1 DEF ParseEnd
    <3>3. ParsedOK
      BY <2>1, ParsedIs
    <3>4. made = <<>> /\ calls = <<>> /\ last = Null
      BY <3>2 DEF TwinInv, MadeOK
    <3>5. WorldOK(World) /\ NowOK(World)
      BY <3>3, <3>4, ReadBegins
    <3>6. DOMAIN db \subseteq 0 .. Cardinality(Class) - 1
      BY <3>3 DEF ParsedOK
    <3> QED
      BY <3>1, <3>5, <3>6 DEF ReadState, World, NowOK
  <2>2. CASE ReadStep
    <3>1. mode = "read" /\ db' = db
      BY <2>2 DEF ReadStep, parser
    <3>2. WorldOK(World)' /\ NowOK(World)'
      BY <2>2, <3>1, ReadStepOn DEF ReadState
    <3>3. DOMAIN db' \subseteq 0 .. Cardinality(Class) - 1
      BY <3>1 DEF ReadState
    <3> QED
      BY <3>2, <3>3 DEF ReadState
  <2>3. CASE UNCHANGED vars
    <3>1. /\ graph' = graph /\ num' = num /\ roots' = roots /\ db' = db /\ box' = box /\ stack' = stack
          /\ objects' = objects /\ last' = last /\ made' = made /\ calls' = calls /\ given' = given
          /\ fault' = fault /\ mode' = mode
      BY <2>3 DEF vars, packer, parser, reader
    <3> QED
      BY <3>1 DEF ReadState, World, NowOK
  <2>4. ASSUME Packs \/ ParseStart \/ ParseToken PROVE FALSE
    <3>1. mode' # "read"
      BY Zenon, <2>4 DEF Packs, ParseStart, ParseToken, ParseValue, ParseArray, ParseObject, ParseContext,
                  ParseName, ParseVersion, At
    <3> QED
      BY <3>1
  <2> QED
    BY <2>1, <2>2, <2>3, <2>4 DEF Next, Parse
<1> QED
  BY <1>1, <1>2, PackerInvariance, TwinInvariance, ParserInvariance, WorldInvariance, PTL DEF Spec

----------------------------------------------------------------------------
(* What the program and its calls rely on                                  *)

\* The boxes of a call exist.
LEMMA BoxesExist ==
  ASSUME NEW w, WorldOK(w), NEW m, MadesOK(w, m), NEW f, FrameOK(w, m, f)
  PROVE  BoxesOf(w.box, Layers[m[f.id].cls], f) \in Seq(DOMAIN w.box)
<1>1. PICK D : D = DOMAIN w.box
  OBVIOUS
<1>2. PICK ctx : ctx = CtxOf(w.box, Layers[m[f.id].cls], f)
  OBVIOUS
<1>3. PICK map : map = f.map
  OBVIOUS
<1>4. PICK v : v = w.box[ctx[1]].at[f.arr.key].v
  OBVIOUS
<1>5. map \in D /\ (ctx = <<>> \/ \E c \in D : ctx = <<c>> /\ ctx[1] = c)
  BY <1>1, <1>2, <1>3, CtxIs
<1>6. ASSUME f.arr # Null PROVE v \in D /\ Last(ctx) = ctx[1]
  <2>1. v \in D
    BY Zenon, <1>1, <1>2, <1>4, <1>6, ListTop
  <2>2. f.l # 0 /\ \E y \in Range(FieldsAt(m, f)) : y.t = "array"
    BY <1>6 DEF FrameOK, ArrOK
  <2>3. ctx # <<>>
    <3>1. PICK y \in Range(FieldsAt(m, f)) : y.t = "array"
      BY <2>2
    <3>2. ctx = <<ContextAt(w, m, f)>>
      BY <1>2, <2>2, <3>1, ListAt
    <3> QED
      BY <3>2
  <2>4. PICK c \in D : ctx = <<c>> /\ ctx[1] = c
    BY <1>5, <2>3
  <2> QED
    BY <2>1, <2>4 DEF Last
<1>7. PICK ls : ls = ListOf(w.box, ctx, f)
  OBVIOUS
<1>8. <<map>> \in Seq(D) /\ ctx \in Seq(D)
  <2>1. CASE ctx = <<>>
    BY <1>5, <2>1
  <2>2. CASE ctx # <<>>
    <3>1. PICK c \in D : ctx = <<c>>
      BY <1>5, <2>2
    <3> QED
      BY <1>5, <3>1
  <2> QED
    BY <2>1, <2>2
<1>9. ls \in Seq(D)
  <2>1. CASE f.arr = Null
    BY <1>7, <2>1 DEF ListOf
  <2>2. CASE f.arr # Null
    <3>1. ls = <<v>>
      BY <1>4, <1>6, <1>7, <2>2 DEF ListOf
    <3> QED
      BY <1>6, <2>2, <3>1
  <2> QED
    BY <2>1, <2>2
<1>10. PICK h : h = <<map>>
  BY Zenon
<1>11. h \in Seq(D) /\ h \o ctx \in Seq(D)
  BY <1>8, <1>10, ConcatIs
<1>12. h \o ctx \o ls \in Seq(D)
  BY <1>9, <1>11, ConcatIs
<1> QED
  BY <1>1, <1>2, <1>3, <1>7, <1>10, <1>12 DEF BoxesOf

\* So do all boxes on the stack.
LEMMA PiledExists ==
  ASSUME NEW w, WorldOK(w), NEW m, MadesOK(w, m), NEW cs, FramesOK(w, m, cs)
  PROVE  Piled(w, m, cs) \in Seq(DOMAIN w.box)
<1>1. PICK D : D = DOMAIN w.box
  OBVIOUS
<1>2. DOMAIN cs = 1 .. Len(cs) /\ Len(cs) \in Nat
  BY CallsAre DEF FramesOK
<1>3. PICK g : g = AllBoxes(w, m, cs)
  OBVIOUS
<1>4. \A i \in DOMAIN cs : BoxesOf(w.box, Layers[m[cs[i].id].cls], cs[i]) \in Seq(D)
  <2> SUFFICES ASSUME NEW i \in DOMAIN cs
               PROVE  BoxesOf(w.box, Layers[m[cs[i].id].cls], cs[i]) \in Seq(D)
    OBVIOUS
  <2>1. PICK f : f = cs[i]
    OBVIOUS
  <2>2. FrameOK(w, m, f)
    BY <2>1 DEF FramesOK
  <2> QED
    BY <1>1, <2>1, <2>2, BoxesExist
<1>5. g = [i \in 1 .. Len(cs) |-> BoxesOf(w.box, Layers[m[cs[i].id].cls], cs[i])]
  BY <1>2, <1>3 DEF AllBoxes
<1>6. g \in Seq(Seq(D))
  <2>1. PICK R : R = Seq(D)
    OBVIOUS
  <2>2. DOMAIN g = 1 .. Len(cs) /\ \A i \in 1 .. Len(cs) : g[i] \in R
    BY <1>2, <1>4, <1>5, <2>1
  <2>3. g = [i \in 1 .. Len(cs) |-> g[i]]
    BY <1>5, <2>2
  <2>4. g \in Seq(R)
    BY <1>2, <2>2, <2>3
  <2> QED
    BY <2>1, <2>4
<1>7. PICK u : u = FlattenSeq(g)
  OBVIOUS
<1>8. u \in Seq(D)
  BY <1>6, <1>7, FlattenIs
<1>9. 1 \in D
  BY <1>1 DEF WorldOK, ShowsRoots
<1>10. << 1 >> \o u \in Seq(D)
  <2>1. << 1 >> \in Seq(D)
    BY <1>9
  <2> QED
    BY <1>8, <2>1, ConcatIs
<1> QED
  BY <1>1, <1>3, <1>7, <1>10 DEF Piled

\* All that the calls refer to exists.
LEMMA ReadTypes ==
  ASSUME TwinInv, WorldOK(World), NowOK(World)
  PROVE  /\ Range(stack) \subseteq DOMAIN box
         /\ \A n \in DOMAIN objects : objects[n].v \in
              IF objects[n].t = "map" THEN DOMAIN box ELSE DOMAIN made
         /\ last \in DOMAIN objects \cup {Null}
         /\ DOMAIN given \subseteq DOMAIN roots
<1>1. PICK w : w = World
  OBVIOUS
<1>2. WorldOK(w) /\ NowOK(w) /\ w.box = box /\ w.roots = roots
  BY <1>1 DEF World
<1>3. /\ MadesOK(w, made) /\ FramesOK(w, made, calls) /\ stack = Piled(w, made, calls)
      /\ ObjectsOK(w, made, objects) /\ GivenOK(w, made, given)
  BY <1>2 DEF NowOK, ReadAt
<1>4. stack \in Seq(DOMAIN box)
  BY <1>2, <1>3, PiledExists
<1>5. Range(stack) \subseteq DOMAIN box
  BY <1>4 DEF Range
<1>6. ASSUME NEW n \in DOMAIN objects
      PROVE  objects[n].v \in IF objects[n].t = "map" THEN DOMAIN box ELSE DOMAIN made
  BY Zenon, <1>2, <1>3, <1>6 DEF ObjectsOK, Whole, ObjectOK
<1>7. last \in DOMAIN objects \cup {Null}
  <2>1. CASE last = Null
    BY <2>1
  <2>2. CASE last # Null
    <3>1. made # <<>> /\ made[Len(made)].num = last
      BY <2>2 DEF TwinInv, LastOK
    <3>2. Len(made) \in DOMAIN made
      BY <3>1, LastIs DEF TwinInv, MadeOK, MadeSeq
    <3> QED
      BY <3>1, <3>2 DEF TwinInv, MadeOK
  <2> QED
    BY <2>1, <2>2
<1>8. DOMAIN given \subseteq DOMAIN roots
  BY <1>2, <1>3 DEF GivenOK
<1> QED
  BY <1>5, <1>6, <1>7, <1>8

\* process() refuses nothing that the packer wrote, and no call of unpackObject_impl
\* follows null or takes its way out on an error (mmo_pack.c:605 to 794 and 406 to
\* 482): whatever the graph, the layers and the calls of the program, when the
\* classes it packs are registered.
THEOREM UnpackingNeverFails == (Registered = Class) => (Spec => []NoFault)
<1> SUFFICES ASSUME Registered = Class PROVE Spec => []NoFault
  OBVIOUS
<1>1. PackInv /\ TwinInv /\ BeforeInv /\ ParseInv /\ ReadState => NoFault
  <2> SUFFICES ASSUME PackInv, TwinInv, BeforeInv, ParseInv, ReadState PROVE NoFault
    OBVIOUS
  <2>1. /\ \A o \in Obj : IsObject(graph[o])
        /\ num \in Seq(Obj) /\ names \in Seq(Class)
    BY DEF PackInv, PackTypes
  <2>2. Range(num) \subseteq Obj /\ Range(names) \subseteq Class
    BY <2>1 DEF Range
  <2>3. mode \in {"pack", "parse", "read"} /\ (mode # "read" => fault = "none" /\ given = Empty)
    BY DEF BeforeInv
  <2>4. MaxDepth \in Nat
    BY MmUnpackAssumption
  <2>5. ASSUME mode # "read"
        PROVE  last = Null /\ calls = <<>> /\ DOMAIN given = {} /\ Len(calls) <= MaxDepth
    <3>1. last = Null /\ calls = <<>>
      BY <2>5 DEF TwinInv, MadeOK
    <3>2. DOMAIN given = {}
      BY <2>3, <2>5 DEF Empty
    <3> QED
      BY <2>4, <3>1, <3>2
  <2>6. CASE mode = "pack"
    <3>1. DOMAIN db = {} /\ Range(stack) = {} /\ DOMAIN objects = {}
      BY <2>6 DEF BeforeInv, Empty, Range
    <3> QED
      BY <2>1, <2>2, <2>3, <2>5, <2>6, <3>1 DEF NoFault, TypeOK
  <2>7. CASE mode = "parse"
    <3>1. PICK t, f : OnWay(t, f)
      BY <2>7 DEF ParseInv
    <3>2. PICK u : u = f[pos - 1]
      OBVIOUS
    <3>3. AtState(u) /\ StateOK(u)
      BY <3>1, <3>2 DEF OnWay
    <3>4. /\ IsSeq(box) /\ \A i \in DOMAIN stack : stack[i] \in 1 .. Len(box)
          /\ DOMAIN db \subseteq 0 .. Cardinality(Class) - 1
          /\ \A n \in DOMAIN objects : objects[n].t = "map" /\ objects[n].v \in 1 .. Len(box)
      BY <3>3 DEF AtState, StateOK
    <3>5. DOMAIN box = 1 .. Len(box)
      BY <3>4, SeqPlaces
    <3>6. Range(stack) \subseteq DOMAIN box
      BY <3>4, <3>5 DEF Range
    <3> QED
      BY <2>1, <2>2, <2>3, <2>5, <2>7, <3>4, <3>5, <3>6 DEF NoFault, TypeOK
  <2>8. CASE mode = "read"
    <3>1. WorldOK(World) /\ NowOK(World) /\ DOMAIN db \subseteq 0 .. Cardinality(Class) - 1
      BY <2>8 DEF ReadState
    <3>2. Len(calls) <= MaxDepth /\ fault = "none"
      BY <3>1 DEF NowOK
    <3> QED
      BY <2>1, <2>2, <3>1, <3>2, ReadTypes DEF NoFault, TypeOK
  <2> QED
    BY <2>3, <2>6, <2>7, <2>8
<1> QED
  BY <1>1, PackerInvariance, TwinInvariance, ParserInvariance, ReadInvariance, PTL

\* Whatever calls are under way, the stack holds their boxes and no others: a
\* key that is read next is looked up in the box it was packed into.  It is the
\* classes being registered that makes it so: unpackObject_impl leaves the box of
\* one that is not on the stack (mmo_pack.c:446).
THEOREM StackIsTheCalls == (Registered = Class) => (Spec => []StackFollowsCalls)
<1> SUFFICES ASSUME Registered = Class PROVE Spec => []StackFollowsCalls
  OBVIOUS
<1>1. ReadState => StackFollowsCalls
  <2> SUFFICES ASSUME ReadState, Reading
               PROVE  stack = << 1 >> \o FlattenSeq([i \in DOMAIN calls |-> Boxes(calls[i])])
    BY DEF StackFollowsCalls
  <2>1. PICK w : w = World
    OBVIOUS
  <2>2. w.box = box /\ NowOK(w)
    BY <2>1 DEF World, ReadState, Reading
  <2>3. stack = << 1 >> \o FlattenSeq(AllBoxes(w, made, calls))
    BY <2>2 DEF NowOK, ReadAt, Piled
  <2>4. ASSUME NEW f PROVE BoxesOf(box, Layers[made[f.id].cls], f) = Boxes(f)
    BY DEF BoxesOf, CtxOf, HooksBegun, LastHook, ListOf, Boxes, LayersOf
  <2>5. AllBoxes(w, made, calls) = [i \in DOMAIN calls |-> Boxes(calls[i])]
    BY <2>2, <2>4 DEF AllBoxes
  <2> QED
    BY <2>3, <2>5
<1> QED
  BY <1>1, ReadInvariance, PTL

\* An object that was made is made of one of the source, and so is each field.
LEMMA SourceIs ==
  ASSUME NEW w, WorldOK(w), NEW m, MadesOK(w, m), NEW i \in DOMAIN m, NEW x, x = Source(w, m, i)
  PROVE  /\ IsObject(x) /\ m[i].cls = x.cls /\ w.num[m[i].num + 1] \in Obj /\ DOMAIN x.body = DOMAIN Layers[x.cls]
         /\ \A l \in DOMAIN x.body : \A a, b \in Range(Layers[x.cls][l].fields) : a.k = b.k => a = b
         /\ \A l \in DOMAIN x.body : \A a \in Range(Layers[x.cls][l].fields) : IsValue(a.t, x.body[l][a.k])
<1>1. w.num \in Seq(Obj) /\ m[i].num \in 0 .. Len(w.num) - 1 /\ m[i].cls = x.cls
  BY DEF WorldOK, MadesOK
<1>2. w.num[m[i].num + 1] \in Obj
  <2>1. m[i].num + 1 \in 1 .. Len(w.num)
    BY <1>1
  <2> QED
    BY <1>1, <2>1
<1>3. IsObject(x)
  BY SMTT(30), <1>2 DEF WorldOK, Source
<1>4. DOMAIN x.body = DOMAIN Layers[x.cls] /\ x.cls \in Class
  BY <1>3 DEF IsObject
<1>5. ASSUME NEW l \in DOMAIN x.body, NEW a \in Range(Layers[x.cls][l].fields),
             NEW b \in Range(Layers[x.cls][l].fields), a.k = b.k
      PROVE  a = b
  BY <1>4, <1>5, MmPackAssumption DEF Range
<1>6. ASSUME NEW l \in DOMAIN x.body, NEW a \in Range(Layers[x.cls][l].fields)
      PROVE  IsValue(a.t, x.body[l][a.k])
  <2>1. PICK fs : fs = Layers[x.cls][l].fields
    OBVIOUS
  <2>2. PICK j \in DOMAIN fs : a = fs[j]
    BY <2>1 DEF Range
  <2> QED
    BY Zenon, <1>3, <2>1, <2>2 DEF IsObject
<1> QED
  BY <1>1, <1>2, <1>3, <1>4, <1>5, <1>6

\* Slot s of x is field y, and got a copy r of its value.
SlotOf(w, m, x, s, y, r) ==
  /\ s \in Slots(x) /\ Field(x, s) = y /\ Copies(w, m, y.t, Value(x, s), r)
  /\ y.t = "array" => Value(x, s) \in Seq(Obj)
  /\ \E l \in DOMAIN x.body : s = <<l, y.k>> /\ y \in Range(Layers[x.cls][l].fields)

\* Each slot did.
LEMMA SlotIs ==
  ASSUME NEW w, WorldOK(w), NEW m, MadesOK(w, m), NEW i \in DOMAIN m, NEW x, x = Source(w, m, i),
         NEW s \in DOMAIN m[i].got
  PROVE  \E y : SlotOf(w, m, x, s, y, m[i].got[s])
<1>1. PICK l \in DOMAIN Layers[m[i].cls] : \E y \in Range(Layers[m[i].cls][l].fields) :
        s = <<l, y.k>> /\ Copies(w, m, y.t, Source(w, m, i).body[l][y.k], m[i].got[s])
  BY DEF MadesOK, SlotOK
<1>2. PICK y \in Range(Layers[m[i].cls][l].fields) :
        s = <<l, y.k>> /\ Copies(w, m, y.t, Source(w, m, i).body[l][y.k], m[i].got[s])
  BY <1>1
<1>3. /\ m[i].cls = x.cls /\ DOMAIN x.body = DOMAIN Layers[x.cls]
      /\ \A n \in DOMAIN x.body : \A a, b \in Range(Layers[x.cls][n].fields) : a.k = b.k => a = b
      /\ \A n \in DOMAIN x.body : \A a \in Range(Layers[x.cls][n].fields) : IsValue(a.t, x.body[n][a.k])
  BY SourceIs
<1>4. s[1] = l /\ s[2] = y.k /\ l \in DOMAIN x.body
  BY <1>2, <1>3
<1>5. PICK R : R = Range(Layers[x.cls][l].fields)
  OBVIOUS
<1>6. y \in R /\ \A a \in R : a.k = y.k => a = y
  BY <1>2, <1>3, <1>4, <1>5
<1>7. Field(x, s) = y
  <2>1. (CHOOSE f \in R : f.k = s[2]) = y
    BY <1>4, <1>6
  <2> QED
    BY <1>4, <1>5, <2>1 DEF Field
<1>8. Value(x, s) = x.body[l][y.k]
  BY <1>4 DEF Value
<1>9. IsValue(y.t, Value(x, s))
  BY <1>3, <1>4, <1>5, <1>6, <1>8
<1>10. s \in Slots(x)
  BY <1>2, <1>4, <1>5, <1>6 DEF Slots
<1> QED
  BY <1>2, <1>4, <1>5, <1>6, <1>7, <1>8, <1>9, <1>10 DEF IsValue, SlotOf

\* No call is under way: every field of every object is there.
LEMMA AllGot ==
  ASSUME NEW w, WorldOK(w), NEW m, MadesOK(w, m), NEW e, LeftOK(m, e), e = <<>>, NEW i \in DOMAIN m
  PROVE  DOMAIN m[i].got = Slots(Source(w, m, i))
<1>1. PICK x : x = Source(w, m, i)
  OBVIOUS
<1>2. m[i].cls = x.cls /\ DOMAIN x.body = DOMAIN Layers[x.cls]
  BY <1>1, SourceIs
<1>3. \A l \in DOMAIN Layers[x.cls] : \A y \in Range(Layers[x.cls][l].fields) : <<l, y.k>> \in DOMAIN m[i].got
  <2>1. DOMAIN e = {}
    OBVIOUS
  <2>2. \A l, k : HasGot(e, i, l, k)
    BY <2>1 DEF HasGot
  <2> QED
    BY Zenon, <1>2, <2>2 DEF LeftOK
<1>4. Slots(x) \subseteq DOMAIN m[i].got
  BY <1>2, <1>3 DEF Slots
<1>5. DOMAIN m[i].got \subseteq Slots(x)
  BY <1>1, SlotIs DEF SlotOf
<1> QED
  BY Zenon, <1>1, <1>4, <1>5

\* What is copied is there, with all that it refers to.
LEMMA CopiedRefs ==
  ASSUME NEW w, NEW m, NEW y, NEW v, NEW r, Copies(w, m, y.t, v, r), y.t = "array" => v \in Seq(Obj),
         NEW q \in Range(Refs(y, v))
  PROVE  \E j : IsTwin(w, m, j, q)
<1>1. CASE y.t = "array"
  <2>1. PICK n \in DOMAIN v : q = v[n]
    BY <1>1 DEF Refs, Range
  <2>2. n \in 1 .. Len(v)
    BY <1>1
  <2> QED
    BY <1>1, <2>1, <2>2 DEF Copies
<1>2. CASE y.t = "ref" /\ v # Null
  <2>1. PICK z : z = <<v>>
    BY Zenon
  <2>2. DOMAIN z = {1} /\ z[1] = v
    BY <2>1
  <2>3. q \in Range(z)
    BY <1>2, <2>1 DEF Refs
  <2>4. q = v
    BY <2>2, <2>3 DEF Range
  <2> QED
    BY <1>2, <2>4 DEF Copies
<1>3. CASE y.t # "array" /\ ~(y.t = "ref" /\ v # Null)
  <2>1. q \in Range(<<>>)
    BY <1>3 DEF Refs
  <2> QED
    BY <2>1 DEF Range
<1> QED
  BY <1>1, <1>2, <1>3

\* The objects that were made refer to nothing else.
LEMMA GotTwins ==
  ASSUME NEW w, WorldOK(w), NEW m, MadesOK(w, m), NEW e, LeftOK(m, e), e = <<>>, NEW i \in DOMAIN m,
         NEW x, x = Source(w, m, i), NEW l \in DOMAIN x.body, NEW y \in Range(Layers[x.cls][l].fields),
         NEW q \in Range(Refs(y, x.body[l][y.k]))
  PROVE  \E j : IsTwin(w, m, j, q)
<1>1. /\ DOMAIN m[i].got = Slots(x)
      /\ \A a, b \in Range(Layers[x.cls][l].fields) : a.k = b.k => a = b
  BY AllGot, SourceIs
<1>2. PICK s : s = <<l, y.k>>
  BY Zenon
<1>3. s \in DOMAIN m[i].got
  BY <1>1, <1>2 DEF Slots
<1>4. PICK z : SlotOf(w, m, x, s, z, m[i].got[s])
  BY <1>3, SlotIs
<1>5. z = y
  BY <1>1, <1>2, <1>4 DEF SlotOf
<1>6. Value(x, s) = x.body[l][y.k]
  BY <1>2 DEF Value
<1>7. PICK v : v = x.body[l][y.k]
  OBVIOUS
<1>8. PICK r : r = m[i].got[s]
  OBVIOUS
<1>9. Copies(w, m, y.t, v, r) /\ q \in Range(Refs(y, v)) /\ (y.t = "array" => v \in Seq(Obj))
  BY <1>4, <1>5, <1>6, <1>7, <1>8 DEF SlotOf
<1> QED
  BY Zenon, <1>9, CopiedRefs

\* All that an object leads to is there once it is, and no call is under way.
LEMMA ReachIsMade ==
  ASSUME NEW w, w = World, WorldOK(w), NEW m, MadesOK(w, m), NEW e, LeftOK(m, e), e = <<>>,
         NEW id, NEW v, IsTwin(w, m, id, v), NEW o \in Reach({v})
  PROVE  \E j : IsTwin(w, m, j, o)
<1>1. PICK T : T = {p \in Obj : \E j : IsTwin(w, m, j, p)}
  BY Zenon
<1>2. T \in SUBSET Obj
  BY <1>1
<1>3. v \in T
  <2>1. id \in DOMAIN m /\ v = w.num[m[id].num + 1]
    BY DEF IsTwin
  <2>2. v \in Obj
    BY <2>1, SourceIs
  <2> QED
    BY <1>1, <2>2
<1>4. ASSUME NEW p \in T, NEW q \in RefsOf(p) PROVE q \in T
  <2>1. PICK i : IsTwin(w, m, i, p)
    BY <1>1
  <2>2. PICK x : x = Source(w, m, i)
    OBVIOUS
  <2>3. i \in DOMAIN m /\ x = graph[p]
    BY <2>1, <2>2 DEF IsTwin, Source, World
  <2>4. PICK l \in DOMAIN x.body : \E y \in Range(Layers[x.cls][l].fields) : q \in Range(Refs(y, x.body[l][y.k]))
    BY <1>4, <2>3 DEF RefsOf
  <2>5. \E j : IsTwin(w, m, j, q)
    BY Zenon, <2>2, <2>3, <2>4, GotTwins
  <2>6. PICK j : IsTwin(w, m, j, q)
    BY <2>5
  <2>7. q \in Obj
    BY <2>6, SourceIs DEF IsTwin
  <2> QED
    BY <1>1, <2>5, <2>7
<1>5. o \in T
  BY <1>2, <1>3, <1>4 DEF Reach
<1> QED
  BY <1>1, <1>5

\* What the program was given for a root is the copy of it, as a whole.
LEMMA GivenWhole ==
  ASSUME WorldOK(World), NowOK(World), calls = <<>>, NEW k \in DOMAIN given
  PROVE  IF roots[k].t = "ref"
         THEN /\ Origin(given[k]) = roots[k].v
              /\ \A o \in Reach({roots[k].v}) : \E i \in Twin(o) : DOMAIN made[i].got = Slots(graph[o])
         ELSE given[k] = roots[k].v
<1>1. PICK w : w = World
  OBVIOUS
<1>2. PICK m : m = made
  OBVIOUS
<1>3. PICK e : e = calls
  OBVIOUS
<1>4. /\ WorldOK(w) /\ w.graph = graph /\ w.num = num /\ w.box = box /\ w.roots = roots
  BY <1>1 DEF World
<1>5. MadesOK(w, m) /\ GivenOK(w, m, given) /\ LeftOK(m, e) /\ e = <<>>
  BY <1>1, <1>2, <1>3 DEF NowOK, ReadAt
<1>6. /\ k \in DOMAIN roots /\ roots[k].t \in {"ref", "integer"}
      /\ Copies(w, m, roots[k].t, roots[k].v, given[k])
  BY <1>4, <1>5 DEF GivenOK, WorldOK
<1>7. CASE roots[k].t = "integer"
  BY <1>6, <1>7 DEF Copies
<1>8. CASE roots[k].t = "ref"
  <2>1. PICK v : v = roots[k].v
    OBVIOUS
  <2>2. PICK id : id = given[k]
    OBVIOUS
  <2>3. v # Null
    <3>1. RootOK(num, box[1].at[k], roots[k])
      BY <1>4, <1>6 DEF WorldOK, ShowsRoots
    <3>2. PICK n : n \in 0 .. Len(num) - 1 /\ num[n + 1] = v
      BY <1>8, <2>1, <3>1 DEF RootOK, Stands
    <3>3. num \in Seq(Obj)
      BY <1>4 DEF WorldOK
    <3>4. n + 1 \in 1 .. Len(num)
      BY <3>2, <3>3
    <3>5. v \in Obj
      BY <3>2, <3>3, <3>4
    <3> QED
      BY <3>5, MmPackAssumption
  <2>4. IsTwin(w, m, id, v)
    BY <1>6, <1>8, <2>1, <2>2, <2>3 DEF Copies
  <2>5. Origin(id) = v
    <3>1. id \in DOMAIN m /\ num[m[id].num + 1] = v
      BY <1>4, <2>4 DEF IsTwin
    <3>2. DOMAIN m = 1 .. Len(m)
      BY <1>5, SeqPlaces DEF MadesOK, MadeSeq
    <3>3. Null \notin Nat
      BY MmPackAssumption
    <3>4. id # Null
      <4>1. Len(m) \in Nat
        BY <1>5, SeqPlaces DEF MadesOK, MadeSeq
      <4>2. id \in Nat
        BY <3>1, <3>2, <4>1
      <4> QED
        BY <3>3, <4>2
    <3> QED
      BY <1>2, <3>1, <3>4 DEF Origin
  <2>6. ASSUME NEW o \in Reach({v})
        PROVE  \E i \in Twin(o) : DOMAIN made[i].got = Slots(graph[o])
    <3>1. PICK i : IsTwin(w, m, i, o)
      BY <1>1, <1>4, <1>5, <2>4, <2>6, ReachIsMade
    <3>2. i \in DOMAIN m /\ num[m[i].num + 1] = o
      BY <1>4, <3>1 DEF IsTwin
    <3>3. Source(w, m, i) = graph[o]
      BY <1>4, <3>2 DEF Source
    <3>4. DOMAIN m[i].got = Slots(graph[o])
      BY <1>4, <1>5, <3>2, <3>3, AllGot
    <3>5. i \in Twin(o)
      BY <1>2, <3>2 DEF Twin
    <3> QED
      BY <1>2, <3>4, <3>5
  <2> QED
    BY <1>8, <2>1, <2>2, <2>5, <2>6
<1> QED
  BY Zenon, <1>6, <1>7, <1>8

\* Whenever no call of the program is under way, every root it was given is
\* the twin of what it packed there, and all that this leads to is there, each
\* field of it: as mmo.h:571 asks of an object after it was unpacked.
THEOREM RootsAreComplete == (Registered = Class) => (Spec => []Complete)
<1> SUFFICES ASSUME Registered = Class PROVE Spec => []Complete
  OBVIOUS
<1>1. ReadState => Complete
  BY Zenon, GivenWhole DEF Complete, ReadState, Reading
<1> QED
  BY <1>1, ReadInvariance, PTL

\* No object is met under two numbers.
THEOREM ObjectsHaveOneNumber == Spec => []Distinct(num)
<1>1. Init => Distinct(num)
  BY DEF Init, PackInit, Distinct
<1>2. PackInv /\ Distinct(num) /\ [Next]_vars => Distinct(num)'
  <2> SUFFICES ASSUME PackInv, Distinct(num), [Next]_vars PROVE Distinct(num')
    BY DEF Distinct
  <2>1. PackTypes /\ num \in Seq(Obj)
    BY DEF PackInv, PackTypes
  <2>2. ASSUME NEW o \in Obj, PackRoot(o) PROVE Distinct(num')
    BY <2>1, <2>2, NumberedIs DEF PackRoot
  <2>3. ASSUME PackLayer PROVE Distinct(num')
    <3>1. doing # Null /\ doing.i < Len(num) /\ doing.l \in DOMAIN CurrentLayers
      BY Zenon, <2>3 DEF PackLayer, Packing
    <3>2. PICK layer : layer = CurrentLayers[doing.l]
      OBVIOUS
    <3>3. PICK body : body = graph[Current].body[doing.l]
      OBVIOUS
    <3>4. PICK met : met = AllNumbered(num, FlattenSeq([i \in DOMAIN layer.fields |->
                                              Refs(layer.fields[i], body[layer.fields[i].k])]))
      OBVIOUS
    <3>5. Distinct(met)
      BY ZenonT(60), <2>1, <3>1, <3>2, <3>3, <3>4, AtLayer
    <3>6. num' = met \/ num' = num
      BY Zenon, <2>3, <3>2, <3>3, <3>4 DEF PackLayer
    <3> QED
      BY <3>5, <3>6
  <2>4. CASE num' = num
    BY <2>4
  <2>5. Packs \/ num' = num
    BY DEF Next, Parse, ParseStart, ParseToken, ParseEnd, ReadStep, vars, packer
  <2>6. ASSUME Packs PROVE num' = num \/ (\E o \in Obj : PackRoot(o)) \/ PackLayer
    BY Zenon, <2>6 DEF Packs, Pack, PackRootLeaf, PackObject, PackEnd, PackDone
  <2> QED
    BY <2>2, <2>3, <2>4, <2>5, <2>6
<1> QED
  BY <1>1, <1>2, PackerInvariance, PTL DEF Spec

----------------------------------------------------------------------------
(* The copy that grows                                                     *)

\* What a field got maps to its value.
LEMMA OriginalIs ==
  ASSUME WorldOK(World), NEW w, w = World, NEW m, m = made, MadesOK(w, m), NEW i \in DOMAIN m,
         NEW s \in DOMAIN m[i].got
  PROVE  Original(i, s) = Value(Source(w, m, i), s)
<1>1. PICK x : x = Source(w, m, i)
  OBVIOUS
<1>2. PICK r : r = m[i].got[s]
  OBVIOUS
<1>3. PICK v : v = Value(x, s)
  OBVIOUS
<1>4. DOMAIN m = 1 .. Len(m) /\ Len(m) \in Nat
  BY SeqPlaces DEF MadesOK, MadeSeq
<1>5. Null \notin Nat
  BY MmPackAssumption
<1>6. ASSUME NEW id, NEW o, IsTwin(w, m, id, o) PROVE Origin(id) = o
  <2>1. id \in 1 .. Len(m) /\ num[m[id].num + 1] = o
    BY <1>4, <1>6 DEF IsTwin, World
  <2>2. id # Null
    BY <1>4, <1>5, <2>1
  <2> QED
    BY <2>1, <2>2 DEF Origin
<1>7. graph[Origin(i)] = x
  <2>1. IsTwin(w, m, i, num[m[i].num + 1])
    BY DEF IsTwin, World
  <2>2. Origin(i) = num[m[i].num + 1]
    BY <1>6, <2>1
  <2> QED
    BY <1>1, <2>2 DEF Source, World
<1>8. PICK y : SlotOf(w, m, x, s, y, r)
  BY <1>1, <1>2, SlotIs
<1>9. Field(x, s) = y /\ Copies(w, m, y.t, v, r) /\ (y.t = "array" => v \in Seq(Obj))
  BY <1>3, <1>8 DEF SlotOf
<1>10. Original(i, s) = CASE y.t = "array" -> [j \in DOMAIN r |-> Origin(r[j])]
                          [] y.t = "ref" -> Origin(r)
                          [] OTHER -> r
  BY <1>2, <1>7, <1>9 DEF Original
<1>11. CASE y.t = "array"
  <2>1. IsSeq(r) /\ Len(r) = Len(v) /\ \A j \in 1 .. Len(v) : IsTwin(w, m, r[j], v[j])
    BY <1>9, <1>11 DEF Copies
  <2>2. DOMAIN r = 1 .. Len(v)
    BY <2>1, SeqPlaces
  <2>3. \A j \in 1 .. Len(v) : Origin(r[j]) = v[j]
    BY <1>6, <2>1
  <2>4. v = [j \in 1 .. Len(v) |-> v[j]]
    BY <1>9, <1>11
  <2>5. [j \in DOMAIN r |-> Origin(r[j])] = v
    BY <2>2, <2>3, <2>4
  <2> QED
    BY <1>1, <1>3, <1>10, <1>11, <2>5
<1>12. CASE y.t = "ref"
  <2>1. CASE v = Null
    BY <1>1, <1>3, <1>9, <1>10, <1>12, <2>1 DEF Copies, Origin
  <2>2. CASE v # Null
    BY <1>1, <1>3, <1>6, <1>9, <1>10, <1>12, <2>2 DEF Copies
  <2> QED
    BY <2>1, <2>2
<1>13. CASE y.t \notin {"array", "ref"}
  BY <1>1, <1>3, <1>9, <1>10, <1>13 DEF Copies
<1> QED
  BY <1>11, <1>12, <1>13

\* No two objects are made of the same.
OneEach(w, m) == \A i, j \in DOMAIN m : w.num[m[i].num + 1] = w.num[m[j].num + 1] => i = j

Origins(w, m) == {w.num[m[i].num + 1] : i \in DOMAIN m}

\* c has the values of the fields that the objects of m have so far.
IsCopy(w, m, c) ==
  /\ DOMAIN c = Origins(w, m) /\ c = [o \in Origins(w, m) |-> c[o]]
  /\ \A i \in DOMAIN m : c[w.num[m[i].num + 1]] = [s \in DOMAIN m[i].got |-> Value(Source(w, m, i), s)]

\* The copy has the fields of the objects made so far.
LEMMA CopyIs ==
  ASSUME WorldOK(World), NEW w, w = World, NEW m, m = made, MadesOK(w, m), OneEach(w, m)
  PROVE  IsCopy(w, m, CopyNow)
<1>1. DOMAIN m = 1 .. Len(m) /\ Len(m) \in Nat /\ Null \notin Nat /\ w.num = num
  BY SeqPlaces, MmPackAssumption DEF MadesOK, MadeSeq, World
<1>2. \A i \in DOMAIN m : Origin(i) = num[m[i].num + 1]
  BY <1>1 DEF Origin
<1>3. {Origin(i) : i \in DOMAIN made} = Origins(w, m)
  BY <1>1, <1>2 DEF Origins
<1>4. CopyNow = [o \in Origins(w, m) |->
                               [s \in DOMAIN made[TwinOf(o)].got |-> Original(TwinOf(o), s)]]
  BY <1>3 DEF CopyNow
<1>5. ASSUME NEW i \in DOMAIN m
      PROVE  CopyNow[num[m[i].num + 1]] = [s \in DOMAIN m[i].got |-> Value(Source(w, m, i), s)]
  <2>1. PICK o : o = num[m[i].num + 1]
    OBVIOUS
  <2>2. Twin(o) = {i}
    BY <1>1, <1>5, <2>1 DEF OneEach, Twin
  <2>3. TwinOf(o) = i
    BY <2>2 DEF TwinOf
  <2>4. o \in Origins(w, m)
    BY <1>1, <1>5, <2>1 DEF Origins
  <2>5. CopyNow[o] = [s \in DOMAIN made[i].got |-> Original(i, s)]
    BY <1>4, <2>3, <2>4
  <2>6. \A s \in DOMAIN made[i].got : Original(i, s) = Value(Source(w, m, i), s)
    BY <1>5, OriginalIs
  <2> QED
    BY <2>1, <2>5, <2>6
<1>6. DOMAIN CopyNow = Origins(w, m) /\ CopyNow = [o \in Origins(w, m) |-> CopyNow[o]]
  <2>1. PICK c : c = CopyNow
    OBVIOUS
  <2>2. DOMAIN c = Origins(w, m) /\ c = [o \in Origins(w, m) |-> c[o]]
    BY <1>4, <2>1
  <2> QED
    BY <2>1, <2>2
<1> QED
  BY <1>1, <1>5, <1>6 DEF IsCopy

\* From m to g one object more is made, which has no fields yet.
OneMade(m, g, id) ==
  /\ id \notin DOMAIN m /\ DOMAIN g = DOMAIN m \cup {id}
  /\ \A i \in DOMAIN m : g[i] = m[i]
  /\ DOMAIN g[id].got = {}

\* From m to g one object gets one field more.
OneSlot(m, g, id, s) ==
  /\ id \in DOMAIN m /\ s \notin DOMAIN m[id].got /\ DOMAIN g = DOMAIN m
  /\ \A i \in DOMAIN m : i # id => g[i] = m[i]
  /\ g[id].num = m[id].num /\ DOMAIN g[id].got = DOMAIN m[id].got \cup {s}

\* The copy meets the object that is made.
LEMMA CopyMeets ==
  ASSUME NEW w, WorldOK(w), NEW m, NEW g, MadesOK(w, g), OneEach(w, g), NEW id, OneMade(m, g, id),
         NEW c, NEW d, IsCopy(w, m, c), IsCopy(w, g, d)
  PROVE  \E o \in Obj : o \notin DOMAIN c /\ d = Copy!With(c, o, Copy!Nothing)
<1>1. PICK o : o = w.num[g[id].num + 1]
  OBVIOUS
<1>2. id \in DOMAIN g /\ id \notin DOMAIN m /\ \A i \in DOMAIN m : i \in DOMAIN g /\ g[i] = m[i]
  BY DEF OneMade
<1>3. o \in Obj
  BY <1>1, <1>2, SourceIs
<1>4. o \notin Origins(w, m)
  <2> SUFFICES ASSUME NEW i \in DOMAIN m, o = w.num[m[i].num + 1] PROVE FALSE
    BY DEF Origins
  <2>1. i \in DOMAIN g /\ w.num[g[i].num + 1] = w.num[g[id].num + 1]
    BY Zenon, <1>1, <1>2
  <2>2. i = id
    BY <1>2, <2>1 DEF OneEach
  <2> QED
    BY <1>2, <2>2
<1>5. Origins(w, g) = Origins(w, m) \cup {o}
  BY <1>1, <1>2 DEF OneMade, Origins
<1>6. d[o] = Copy!Nothing
  <2>1. DOMAIN g[id].got = {}
    BY DEF OneMade
  <2>2. d[o] = [s \in DOMAIN g[id].got |-> Value(Source(w, g, id), s)]
    BY <1>1, <1>2 DEF IsCopy
  <2> QED
    BY <2>1, <2>2 DEF Copy!Nothing
<1>7. ASSUME NEW p \in Origins(w, m) PROVE d[p] = c[p]
  <2>1. PICK i \in DOMAIN m : p = w.num[m[i].num + 1]
    BY <1>7 DEF Origins
  <2>2. i \in DOMAIN g /\ g[i] = m[i] /\ Source(w, g, i) = Source(w, m, i)
    BY <1>2, <2>1 DEF Source
  <2>3. d[p] = [s \in DOMAIN g[i].got |-> Value(Source(w, g, i), s)]
    BY <2>1, <2>2 DEF IsCopy
  <2>4. c[p] = [s \in DOMAIN m[i].got |-> Value(Source(w, m, i), s)]
    BY <2>1 DEF IsCopy
  <2> QED
    BY <2>2, <2>3, <2>4
<1>8. DOMAIN c = Origins(w, m) /\ d = [p \in Origins(w, g) |-> d[p]]
  BY DEF IsCopy
<1>9. d = Copy!With(c, o, Copy!Nothing)
  <2>1. PICK z : z = Copy!Nothing
    OBVIOUS
  <2>2. \A p \in Origins(w, m) \cup {o} : d[p] = IF p = o THEN z ELSE c[p]
    BY <1>6, <1>7, <2>1
  <2>3. d = [p \in Origins(w, m) \cup {o} |-> IF p = o THEN z ELSE c[p]]
    BY <1>5, <1>8, <2>2
  <2> QED
    BY <1>8, <2>1, <2>3 DEF Copy!With
<1> QED
  BY <1>3, <1>4, <1>8, <1>9

\* The copy gets the field that an object gets.
LEMMA CopyFills ==
  ASSUME NEW w, WorldOK(w), NEW m, NEW g, MadesOK(w, g), OneEach(w, g), NEW id, NEW s, OneSlot(m, g, id, s),
         NEW c, NEW d, IsCopy(w, m, c), IsCopy(w, g, d)
  PROVE  \E o \in DOMAIN c : /\ s \in Slots(w.graph[o]) /\ s \notin DOMAIN c[o]
                             /\ Refers(w.graph[o], s) \subseteq DOMAIN c
                             /\ d = [c EXCEPT ![o] = Copy!With(@, s, Value(w.graph[o], s))]
<1>1. PICK o : o = w.num[g[id].num + 1]
  OBVIOUS
<1>2. PICK x : x = w.graph[o]
  OBVIOUS
<1>3. /\ id \in DOMAIN m /\ DOMAIN g = DOMAIN m /\ s \notin DOMAIN m[id].got /\ s \in DOMAIN g[id].got
      /\ DOMAIN g[id].got = DOMAIN m[id].got \cup {s}
      /\ \A i \in DOMAIN m : (i # id => g[i] = m[i]) /\ g[i].num = m[i].num
  BY DEF OneSlot
<1>4. x = Source(w, g, id) /\ x = Source(w, m, id)
  BY <1>1, <1>2, <1>3 DEF Source
<1>5. Origins(w, g) = Origins(w, m) /\ DOMAIN c = Origins(w, m) /\ DOMAIN d = Origins(w, m) /\ o \in DOMAIN c
  BY <1>1, <1>3 DEF Origins, IsCopy
<1>6. c[o] = [z \in DOMAIN m[id].got |-> Value(x, z)] /\ d[o] = [z \in DOMAIN g[id].got |-> Value(x, z)]
  <2>1. c[w.num[m[id].num + 1]] = [z \in DOMAIN m[id].got |-> Value(Source(w, m, id), z)]
    BY <1>3 DEF IsCopy
  <2>2. d[w.num[g[id].num + 1]] = [z \in DOMAIN g[id].got |-> Value(Source(w, g, id), z)]
    BY Zenon, <1>3 DEF IsCopy
  <2>3. w.num[m[id].num + 1] = o
    BY <1>1, <1>3
  <2> QED
    BY Zenon, <1>1, <1>4, <2>1, <2>2, <2>3
<1>7. PICK y : SlotOf(w, g, x, s, y, g[id].got[s])
  BY Zenon, <1>3, <1>4, SlotIs
<1>8. s \in Slots(x)
  BY <1>7 DEF SlotOf
<1>9. s \notin DOMAIN c[o]
  BY <1>3, <1>6
<1>10. Refers(x, s) \subseteq DOMAIN c
  <2>1. PICK v : v = Value(x, s)
    OBVIOUS
  <2>2. PICK r : r = g[id].got[s]
    OBVIOUS
  <2>3. Copies(w, g, y.t, v, r) /\ (y.t = "array" => v \in Seq(Obj)) /\ Refers(x, s) = Range(Refs(y, v))
    BY <1>7, <2>1, <2>2 DEF SlotOf, Refers
  <2>4. ASSUME NEW q \in Range(Refs(y, v)) PROVE q \in DOMAIN c
    <3>1. PICK j : IsTwin(w, g, j, q)
      BY Zenon, <2>3, <2>4, CopiedRefs
    <3> QED
      BY <1>5, <3>1 DEF IsTwin, Origins
  <2> QED
    BY <2>3, <2>4
<1>11. ASSUME NEW p \in Origins(w, m), p # o PROVE d[p] = c[p]
  <2>1. PICK i \in DOMAIN m : p = w.num[m[i].num + 1]
    BY <1>11 DEF Origins
  <2>2. i # id
    BY <1>1, <1>3, <1>11, <2>1
  <2>3. i \in DOMAIN g /\ g[i] = m[i] /\ Source(w, g, i) = Source(w, m, i)
    BY <1>3, <2>1, <2>2 DEF Source
  <2>4. d[p] = [z \in DOMAIN g[i].got |-> Value(Source(w, g, i), z)]
    BY <2>1, <2>3 DEF IsCopy
  <2>5. c[p] = [z \in DOMAIN m[i].got |-> Value(Source(w, m, i), z)]
    BY <2>1 DEF IsCopy
  <2> QED
    BY <2>3, <2>4, <2>5
<1>12. d[o] = Copy!With(c[o], s, Value(x, s))
  <2>1. DOMAIN c[o] = DOMAIN m[id].got /\ \A z \in DOMAIN m[id].got : c[o][z] = Value(x, z)
    BY <1>6
  <2>2. Copy!With(c[o], s, Value(x, s)) = [z \in DOMAIN m[id].got \cup {s} |-> Value(x, z)]
    BY <2>1 DEF Copy!With
  <2> QED
    BY <1>3, <1>6, <2>2
<1>13. c = [p \in Origins(w, m) |-> c[p]] /\ d = [p \in Origins(w, m) |-> d[p]]
  BY <1>5 DEF IsCopy
<1>14. d = [c EXCEPT ![o] = Copy!With(@, s, Value(x, s))]
  <2>1. PICK u : u = Copy!With(c[o], s, Value(x, s))
    OBVIOUS
  <2>2. d = [c EXCEPT ![o] = u]
    BY <1>5, <1>11, <1>12, <1>13, <2>1
  <2> QED
    BY <2>1, <2>2
<1> QED
  BY Zenon, <1>2, <1>5, <1>8, <1>9, <1>10, <1>14

\* What a call is given changes no object, or is a field the call waits for.
LEMMA GoesTo ==
  ASSUME NEW cs, NEW k, NEW r, Deliver(cs, k, r)
  PROVE  \/ made' = made
         \/ /\ cs # <<>> /\ Last(cs).arr = Null
            /\ made' = [made EXCEPT ![Last(cs).id].got = Under(@, <<Last(cs).l, k>>, r)]
BY DEF Deliver

\* An object gets a field it had not got.
LEMMA SlotGot ==
  ASSUME NEW w, w = World, WorldOK(w), NowOK(w), NEW j \in DOMAIN calls, NEW f, f = calls[j], NEW k \in f.todo, NEW r,
         made' = [made EXCEPT ![f.id].got = Under(@, <<f.l, k>>, r)]
  PROVE  \E id, s : OneSlot(made, made', id, s)
<1>1. MadesOK(w, made) /\ FrameOK(w, made, f) /\ LeftOK(made, calls)
  BY DEF NowOK, ReadAt, FramesOK
<1>2. f.l # 0 /\ f.id \in DOMAIN made
  BY <1>1 DEF FrameOK
<1>3. /\ f.l \in Nat /\ f.l \in DOMAIN Layers[made[f.id].cls]
      /\ FieldsAt(made, f) = Layers[made[f.id].cls][f.l].fields
  BY <1>1, <1>2, FrameAt
<1>4. PICK x \in Range(FieldsAt(made, f)) : x.k = k
  BY <1>1, <1>2 DEF FrameOK
<1>5. PICK s : s = <<f.l, k>>
  OBVIOUS
<1>6. ~HasGot(calls, f.id, f.l, k)
  BY <1>3 DEF HasGot
<1>7. s \notin DOMAIN made[f.id].got
  BY Zenon, <1>2, <1>3, <1>4, <1>5, <1>6 DEF LeftOK, NowOK, ReadAt
<1>8. PICK z : z = Under(made[f.id].got, s, r)
  OBVIOUS
<1>9. DOMAIN z = DOMAIN made[f.id].got \cup {s}
  BY Zenon, <1>8, UnderIs
<1>10. made' = Filled(made, f.id, z)
  <2>1. made' = [made EXCEPT ![f.id].got = z]
    BY <1>5, <1>8
  <2> QED
    BY Zenon, <2>1 DEF Filled
<1>11. PICK g : g = made'
  OBVIOUS
<1>12. /\ Grows(made, g) /\ DOMAIN g = DOMAIN made /\ g[f.id].got = z
       /\ \A i \in DOMAIN made : i # f.id => g[i] = made[i]
  BY <1>1, <1>2, <1>10, <1>11, FilledGrows DEF MadesOK
<1>13. g[f.id].num = made[f.id].num
  BY <1>2, <1>12 DEF Grows
<1>14. DOMAIN g[f.id].got = DOMAIN made[f.id].got \cup {s}
  BY <1>9, <1>12
<1>15. OneSlot(made, g, f.id, s)
  BY <1>2, <1>7, <1>12, <1>13, <1>14 DEF OneSlot
<1> QED
  BY <1>11, <1>15

\* A call makes an object, or an object gets a field, or neither.
LEMMA MadeStep ==
  ASSUME Registered = Class, NEW w, w = World, WorldOK(w), NowOK(w), ReadStep
  PROVE  \/ made' = made
         \/ \E id : OneMade(made, made', id)
         \/ \E id, s : OneSlot(made, made', id, s)
<1>1. /\ MadesOK(w, made) /\ FramesOK(w, made, calls) /\ DueOK(w, made, calls, given)
      /\ ObjectsOK(w, made, objects)
  BY DEF NowOK, ReadAt
<1>2. ASSUME calls # <<>> PROVE Len(calls) \in DOMAIN calls /\ Frame = calls[Len(calls)] /\ FrameOK(w, made, Frame)
  BY <1>1, <1>2, CallsAre DEF Frame, FramesOK
<1>3. ASSUME NEW k \in Wanted, NEW r, Deliver(calls, k, r)
      PROVE  made' = made \/ \E id, s : OneSlot(made, made', id, s)
  <2> SUFFICES ASSUME calls # <<>>, Frame.arr = Null,
                      made' = [made EXCEPT ![Frame.id].got = Under(@, <<Frame.l, k>>, r)]
               PROVE  \E id, s : OneSlot(made, made', id, s)
    BY <1>3, GoesTo DEF Frame
  <2>1. k \in Frame.todo
    BY DEF Wanted
  <2> QED
    BY Zenon, <1>2, <2>1, SlotGot
<1>4. ASSUME NEW k \in Wanted, NEW t, ReadLeaf(k, t)
      PROVE  made' = made \/ \E id, s : OneSlot(made, made', id, s)
  BY <1>3, <1>4 DEF ReadLeaf
<1>5. ASSUME NEW k \in Wanted, ReadNothing(k) \/ ReadKnown(k)
      PROVE  made' = made \/ \E id, s : OneSlot(made, made', id, s)
  BY <1>3, <1>5 DEF ReadNothing, ReadKnown
<1>6. ASSUME NEW k \in Wanted, ReadNew(k)
      PROVE  made' = made \/ \E id : OneMade(made, made', id)
  <2>1. CASE ~Known(k, "map")
    BY <1>6, <2>1 DEF ReadNew, reader
  <2>2. CASE Known(k, "map")
    <3>1. PICK n : n = Entry(k).v
      OBVIOUS
    <3>2. n \in DOMAIN objects /\ objects[n].t = "map"
      BY <2>2, <3>1 DEF Known
    <3>3. Whole(w, objects[n].v, w.graph[w.num[n + 1]])
      BY <1>1, <3>2 DEF ObjectsOK
    <3>4. w.graph[w.num[n + 1]].cls \in Class
      <4>1. n \in 0 .. Len(w.num) - 1 /\ w.num \in Seq(Obj)
        BY <1>1, <3>2 DEF ObjectsOK, WorldOK
      <4>2. n + 1 \in 1 .. Len(w.num)
        BY <4>1
      <4>3. w.num[n + 1] \in Obj
        BY <4>1, <4>2
      <4> QED
        BY Zenon, <4>3 DEF WorldOK, IsObject
    <3>5. box[objects[n].v].cls \in Registered
      BY Zenon, <3>3, <3>4 DEF Whole, ObjectOK, World
    <3>6. PICK x : x = [cls |-> box[objects[n].v].cls, num |-> n, got |-> Empty]
      BY Zenon
    <3>7. made' = Append(made, x)
      BY <1>6, <2>2, <3>1, <3>5, <3>6 DEF ReadNew
    <3>8. DOMAIN x.got = {}
      BY <3>6 DEF Empty
    <3>9. IsSeq(made)
      BY <1>1 DEF MadesOK, MadeSeq
    <3>10. /\ DOMAIN made = 1 .. Len(made) /\ Len(made) \in Nat /\ DOMAIN made' = 1 .. Len(made) + 1
           /\ made'[Len(made) + 1] = x /\ \A i \in 1 .. Len(made) : made'[i] = made[i]
      BY <3>7, <3>9, SeqPlaces, SeqAppend
    <3>11. OneMade(made, made', Len(made) + 1)
      BY <3>8, <3>10 DEF OneMade
    <3> QED
      BY <3>11
  <2> QED
    BY <2>1, <2>2
<1>7. ASSUME NEW k \in Wanted, ReadArray(k) PROVE made' = made
  BY <1>7 DEF ReadArray
<1>8. ASSUME ReadArrayEnd PROVE \E id, s : OneSlot(made, made', id, s)
  <2>1. calls # <<>> /\ Frame.arr # Null
    BY <1>8 DEF ReadArrayEnd
  <2>2. made' = [made EXCEPT ![Frame.id].got = Under(@, <<Frame.l, Frame.arr.key>>, Frame.arr.items)]
    BY <1>8 DEF ReadArrayEnd
  <2>3. Frame.arr.key \in Frame.todo
    BY <1>2, <2>1 DEF FrameOK, ArrOK
  <2> QED
    BY Zenon, <1>2, <2>1, <2>2, <2>3, SlotGot
<1>9. ASSUME NextLayer PROVE made' = made
  BY <1>9 DEF NextLayer
<1>10. ASSUME Finish PROVE made' = made \/ \E id, s : OneSlot(made, made', id, s)
  <2>1. PICK cs : cs = Front(calls)
    OBVIOUS
  <2>2. calls # <<>> /\ Deliver(cs, Frame.key, Frame.id)
    BY <1>10, <2>1 DEF Finish, LayerDone
  <2>3. PICK n : n = Len(calls) - 1
    OBVIOUS
  <2>4. /\ Len(calls) \in Nat /\ DOMAIN calls = 1 .. Len(calls) /\ IsSeq(cs) /\ Len(cs) = n
        /\ \A i \in 1 .. n : i \in DOMAIN calls /\ cs[i] = calls[i]
    BY Zenon, <1>1, <2>1, <2>2, <2>3, CallsAre DEF FramesOK
  <2> SUFFICES ASSUME cs # <<>>, Last(cs).arr = Null,
                      made' = [made EXCEPT ![Last(cs).id].got = Under(@, <<Last(cs).l, Frame.key>>, Frame.id)]
               PROVE  \E id, s : OneSlot(made, made', id, s)
    BY <2>2, GoesTo
  <2>5. Last(cs) = cs[n] /\ n \in Nat \ {0}
    BY <2>4, LastIs
  <2>6. n \in 1 .. n /\ n + 1 \in DOMAIN calls /\ n + 1 # 1 /\ (n + 1) - 1 = n /\ n + 1 = Len(calls)
    BY <2>3, <2>4, <2>5
  <2>7. n \in DOMAIN calls /\ Last(cs) = calls[n]
    BY <2>4, <2>5, <2>6
  <2>8. PICK o : o = w.num[made[calls[n + 1].id].num + 1]
    OBVIOUS
  <2>9. Due(w, made, calls[n], calls[n + 1].key, o)
    BY <1>1, <2>6, <2>8 DEF DueOK
  <2>10. Frame = calls[n + 1]
    BY <1>2, <2>2, <2>6
  <2>11. Frame.key \in Last(cs).todo
    BY <2>7, <2>9, <2>10 DEF Due
  <2> QED
    BY Zenon, <2>7, <2>11, SlotGot
<1> QED
  BY <1>4, <1>5, <1>6, <1>7, <1>8, <1>9, <1>10 DEF ReadStep

\* While the calls run, the copy has what the objects made so far have.
CopyInv == mode = "read" => OneEach(World, made) /\ IsCopy(World, made, CopyNow)

\* That follows from what the calls keep.
LEMMA CopyHolds ==
  ASSUME ReadState, TwinInv, Distinct(num)
  PROVE  CopyInv
<1> SUFFICES ASSUME mode = "read" PROVE OneEach(World, made) /\ IsCopy(World, made, CopyNow)
  BY DEF CopyInv
<1>1. PICK w : w = World
  OBVIOUS
<1>2. WorldOK(w) /\ MadesOK(w, made) /\ w.num = num
  BY <1>1 DEF ReadState, NowOK, ReadAt, World
<1>3. OneEach(w, made)
  <2> SUFFICES ASSUME NEW i \in DOMAIN made, NEW j \in DOMAIN made,
                      num[made[i].num + 1] = num[made[j].num + 1]
               PROVE  i = j
    BY <1>2 DEF OneEach
  <2>1. num \in Seq(Obj) /\ made[i].num \in 0 .. Len(num) - 1 /\ made[j].num \in 0 .. Len(num) - 1
    BY <1>2 DEF WorldOK, MadesOK
  <2>2. made[i].num + 1 \in DOMAIN num /\ made[j].num + 1 \in DOMAIN num
    BY <2>1
  <2>3. made[i].num + 1 = made[j].num + 1
    BY <2>2 DEF Distinct
  <2>4. made[i].num = made[j].num
    BY <2>1, <2>3
  <2> QED
    BY <2>4 DEF TwinInv, OneTwinEach
<1> QED
  BY <1>1, <1>2, <1>3, CopyIs

\* The copy is empty as long as nothing is made.
LEMMA CopyEmpty ==
  ASSUME made = <<>>
  PROVE  CopyNow = [n \in {} |-> n]
<1>1. DOMAIN made = {}
  OBVIOUS
<1>2. {Origin(i) : i \in DOMAIN made} = {}
  BY <1>1
<1> QED
  BY <1>2 DEF CopyNow

\* A call makes a step of the copy, or none.
LEMMA CopyStep ==
  ASSUME Registered = Class, ReadState, ReadState', CopyInv, CopyInv', ReadStep, mode = "read"
  PROVE  [Copy!Next]_(Copy!vars)
<1>1. PICK w : w = World
  OBVIOUS
<1>2. PICK c : c = CopyNow
  OBVIOUS
<1>3. PICK d : d = CopyNow'
  OBVIOUS
<1>4. PICK m : m = made
  OBVIOUS
<1>5. PICK g : g = made'
  OBVIOUS
<1>6. /\ graph' = graph /\ num' = num /\ mode' = mode /\ w.graph = graph /\ World' = w
  BY <1>1 DEF World, ReadStep, packer, parser
<1>7. WorldOK(w) /\ NowOK(w) /\ IsCopy(w, m, c)
  BY <1>1, <1>2, <1>4 DEF ReadState, CopyInv
<1>8. OneEach(w, g) /\ IsCopy(w, g, d) /\ MadesOK(w, g)
  BY <1>3, <1>5, <1>6 DEF ReadState, CopyInv, NowOK, ReadAt
<1>9. g = m \/ (\E id : OneMade(m, g, id)) \/ \E id, s : OneSlot(m, g, id, s)
  BY <1>1, <1>4, <1>5, <1>7, MadeStep
<1>10. CASE g = m
  <2>1. IsCopy(w, m, d)
    BY <1>8, <1>10
  <2>2. c = [o \in Origins(w, m) |-> c[o]] /\ d = [o \in Origins(w, m) |-> d[o]]
    BY <1>7, <2>1 DEF IsCopy
  <2>3. ASSUME NEW o \in Origins(w, m) PROVE c[o] = d[o]
    <3>1. PICK i \in DOMAIN m : o = w.num[m[i].num + 1]
      BY <2>3 DEF Origins
    <3> QED
      BY Zenon, <1>7, <2>1, <3>1 DEF IsCopy
  <2>4. c = d
    BY <2>2, <2>3
  <2> QED
    BY <1>2, <1>3, <1>6, <2>4 DEF Copy!vars
<1>11. ASSUME NEW id, OneMade(m, g, id) PROVE Copy!Next
  <2>1. PICK o \in Obj : o \notin DOMAIN c /\ d = Copy!With(c, o, Copy!Nothing)
    BY <1>7, <1>8, <1>11, CopyMeets
  <2>2. Copy!Meet(o)
    BY <1>2, <1>3, <2>1 DEF Copy!Meet
  <2> QED
    BY <1>6, <2>2 DEF Copy!Next
<1>12. ASSUME NEW id, NEW s, OneSlot(m, g, id, s) PROVE Copy!Next
  <2>1. PICK o \in DOMAIN c : /\ s \in Slots(graph[o]) /\ s \notin DOMAIN c[o]
                              /\ Refers(graph[o], s) \subseteq DOMAIN c
                              /\ d = [c EXCEPT ![o] = Copy!With(@, s, Value(graph[o], s))]
    BY <1>6, <1>7, <1>8, <1>12, CopyFills
  <2>2. Copy!Fill(o, s)
    BY <1>2, <1>3, <2>1 DEF Copy!Fill
  <2> QED
    BY <1>2, <1>6, <2>1, <2>2 DEF Copy!Next
<1> QED
  BY <1>9, <1>10, <1>11, <1>12

\* Packing and unpacking copy the graph as ObjectCopy says: an object has one
\* copy however many refer to it (mmo_pack.c:426), and a field is filled once,
\* with what it has in the source, when the copies of all objects that it
\* refers to are there.
THEOREM UnpackingIsCopying == (Registered = Class) => (Spec => ImplementsCopy)
<1> SUFFICES ASSUME Registered = Class PROVE Spec => ImplementsCopy
  OBVIOUS
<1>1. Init => Copy!Init
  BY CopyEmpty DEF Init, UnpackInit, Copy!Init, Copy!Nothing
<1>2. ReadState /\ TwinInv /\ Distinct(num) => CopyInv
  BY CopyHolds
<1>3. TwinInv => (mode # "read" => CopyNow = [n \in {} |-> n])
  BY CopyEmpty DEF TwinInv, MadeOK
<1> DEFINE Inv == /\ ReadState /\ TwinInv /\ CopyInv /\ (mode # "read" => CopyNow = [n \in {} |-> n])
<1>4. Inv /\ Inv' /\ [Next]_vars => [Copy!Next]_(Copy!vars)
  <2> SUFFICES ASSUME Inv, Inv', [Next]_vars PROVE [Copy!Next]_(Copy!vars)
    OBVIOUS
  <2>1. CASE ReadStep /\ mode = "read"
    BY <2>1, CopyStep
  <2>2. CASE mode # "read" /\ made' = <<>> /\ graph' = graph
    <3>1. CopyNow' = [n \in {} |-> n]
      <4>1. DOMAIN made' = {}
        BY <2>2
      <4> QED
        BY <4>1 DEF CopyNow
    <3> QED
      BY <2>2, <3>1 DEF Copy!vars
  <2>3. ASSUME Packs \/ Parse PROVE mode # "read" /\ made' = made /\ graph' = graph
    BY Zenon, <2>3 DEF Packs, Parse, ParseStart, ParseToken, ParseEnd, ParseValue, ParseArray, ParseObject,
                ParseContext, ParseName, ParseVersion, At, reader
  <2>4. mode # "read" => made = <<>>
    BY DEF TwinInv, MadeOK
  <2>5. ASSUME ReadStep PROVE mode = "read"
    BY Zenon, <2>5 DEF ReadStep, ReadLeaf, ReadNothing, ReadKnown, ReadNew, ReadArray, ReadArrayEnd, NextLayer,
                Finish, LayerDone, Asks, Reading
  <2>6. CASE UNCHANGED vars
    <3>1. graph' = graph /\ num' = num /\ made' = made
      BY <2>6 DEF vars, packer, reader
    <3>2. \A i : Origin(i)' = Origin(i)
      BY <3>1 DEF Origin
    <3>3. \A o : TwinOf(o)' = TwinOf(o)
      BY <3>1 DEF TwinOf, Twin
    <3>4. \A i, s : Original(i, s)' = Original(i, s)
      BY <3>1, <3>2 DEF Original
    <3>5. CopyNow' = CopyNow
      BY <3>1, <3>2, <3>3, <3>4 DEF CopyNow
    <3> QED
      BY <3>1, <3>5 DEF Copy!vars
  <2> QED
    BY <2>1, <2>2, <2>3, <2>4, <2>5, <2>6 DEF Next
<1> QED
  BY <1>1, <1>2, <1>3, <1>4, ReadInvariance, TwinInvariance, ObjectsHaveOneNumber, PTL
     DEF Spec, ImplementsCopy, Copy!Spec
=============================================================================
