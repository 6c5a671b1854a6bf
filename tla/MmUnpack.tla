------------------------------ MODULE MmUnpack ------------------------------
(***************************************************************************)
(* The unpacker of mmo_pack.c, on a stream of module MmPack.  It works in  *)
(* two passes.  process() turns the whole stream into boxes: maps and      *)
(* lists of the values, one map of contexts for each object.  Then the     *)
(* unpack_ calls of the program and of the initialisers of the objects     *)
(* read them.  A call names only a key: the box it means is the last one   *)
(* on the stack, so the stack has to follow the nesting of the calls.      *)
(***************************************************************************)
EXTENDS MmPack

CONSTANTS
  Registered,  \* classes registered with the unpacker
  MaxDepth     \* bound: objects being unpacked at the same time

ASSUME MmUnpackAssumption ==
  /\ Registered \subseteq Class
  /\ MaxDepth \in Nat
  /\ Null \notin [num : Nat, box : Nat] \cup [key : Nat, n : Nat, items : Seq(Nat)]
  /\ \A c \in Class : \A l \in DOMAIN Layers[c] :
       Layers[c][l].fields # <<>> => Layers[c][l].pack /\ Layers[c][l].init

VARIABLES
  mode,      \* "pack": no unpacker yet; "parse": in process(); "read"
  pos,       \* position of the stream
  current,   \* current_obj and current_obj_num of process(), or Null
  db,        \* id_to_class_name
  box,       \* the maps and lists that were made
  stack,     \* the stack, of indexes of box
  objects,   \* for each number: a box of properties, or the object made of it
  last,      \* last_object_num
  made,      \* the objects made: class, number, and what their fields got
  calls,     \* the unpack_mmobj calls under way
  given,     \* what the program was given for each root
  fault      \* whether process() refused, or null was followed

parser == <<pos, current, db, box>>
reader == <<last, made, calls, given>>
vars == <<graph, packer, mode, parser, stack, objects, reader, fault>>

Empty == [n \in {} |-> Null]
None == [t |-> "none", v |-> Null]

NewBox(kind, cls) == [kind |-> kind, cls |-> cls, ctx |-> Empty, at |-> Empty]

Top == Last(stack)

\* A slip: a list goes by the key as well.
PutByKey(b, k, e) == [b EXCEPT !.at = Under(@, k, e)]

\* A value put into a map or a list; a list takes no notice of the key.
Put(b, k, e) ==
  [b EXCEPT !.at = Under(@, IF b.kind = "list" THEN Cardinality(DOMAIN @) ELSE k, e)]

\* The stack popped until box b is its last.
DownTo(s, b) == SubSeq(s, 1, CHOOSE i \in DOMAIN s : s[i] = b)

----------------------------------------------------------------------------
(* process() *)

\* The first unpack_ call of the program.
ParseStart ==
  /\ mode = "pack" /\ doing = Null
  /\ mode' = "parse"
  /\ box' = <<NewBox("roots", Null)>> /\ stack' = <<1>>
  /\ UNCHANGED <<graph, packer, pos, current, db, objects, reader, fault>>

\* The next tag is of type t.
At(t) == mode = "parse" /\ pos <= Len(out) /\ out[pos].t = t /\ fault = "none"
Key == out[pos].k
Val == out[pos].v

Refuse == fault' = "refused" /\ UNCHANGED <<current, db, box, stack, objects>>

\* Numbers, data and references: the latter are kept as numbers.
ParseValue ==
  /\ \E t \in Leaves \cup {"ref"} :
       At(t) /\ box' = [box EXCEPT ![Top] = Put(@, Key, [t |-> t, v |-> Val])]
  /\ UNCHANGED <<current, db, stack, objects, fault>>

ParseArray ==
  /\ At("array")
  /\ IF Val > 0
     THEN LET list == Len(box) + 1
          IN  /\ box' = Append([box EXCEPT ![Top] = Put(@, Key, [t |-> "array", v |-> list])],
                               NewBox("list", Null))
              /\ stack' = Append(stack, list)
     ELSE box' = box /\ stack' = Front(stack)
  /\ UNCHANGED <<current, db, objects, fault>>

ParseObject ==
  /\ At("object")
  /\ IF current = Null
     THEN IF Val \notin DOMAIN db THEN Refuse ELSE
          LET map == Len(box) + 1
          IN  /\ current' = [num |-> Key, box |-> map]
              /\ box' = Append(box, NewBox("object", db[Val]))
              /\ stack' = Append(stack, map)
              /\ objects' = Under(objects, Key, [t |-> "map", v |-> map])
              /\ UNCHANGED <<db, fault>>
     ELSE IF current.num # Key THEN Refuse ELSE
          /\ current' = Null
          /\ stack' = Front(DownTo(stack, current.box))
          /\ UNCHANGED <<db, box, objects, fault>>

\* A slip: the context before is left on the stack.
ContextOver(s) == s

\* The context before is popped.
ContextAfter(s) == DownTo(s, current.box)

ParseContext ==
  /\ At("context")
  /\ IF current = Null \/ Key \notin DOMAIN db THEN Refuse ELSE
     LET context == Len(box) + 1
         rest == ContextAfter(stack)
     IN  /\ box' = Append([box EXCEPT ![Last(rest)].ctx = Under(@, db[Key], context)],
                          NewBox("context", Null))
         /\ stack' = Append(rest, context)
         /\ UNCHANGED <<current, db, objects, fault>>

ParseName ==
  /\ At("name")
  /\ IF Key \in DOMAIN db THEN Refuse ELSE
     /\ db' = Under(db, Key, Val)
     /\ UNCHANGED <<current, box, stack, objects, fault>>

ParseVersion ==
  /\ At("function")
  /\ UNCHANGED <<current, db, box, stack, objects, fault>>

ParseToken ==
  /\ \/ ParseValue \/ ParseArray \/ ParseObject
     \/ ParseContext \/ ParseName \/ ParseVersion
  /\ pos' = pos + 1
  /\ UNCHANGED <<graph, packer, mode, reader>>

ParseEnd ==
  /\ mode = "parse" /\ pos > Len(out)
  /\ mode' = "read"
  /\ UNCHANGED <<graph, packer, parser, stack, objects, reader, fault>>

----------------------------------------------------------------------------
(* The unpack_ calls *)

Reading == mode = "read" /\ fault = "none"

Frame == Last(calls)
LayersOf(f) == Layers[made[f.id].cls]
FieldType(layer, k) == (CHOOSE x \in Range(layer.fields) : x.k = k).t

\* getByIntFromStack.
Entry(k) == IF k \in DOMAIN box[Top].at THEN box[Top].at[k] ELSE None

\* The keys the program, the layer being initialised or its array may ask
\* for now, and of what type.
Wanted ==
  CASE calls = <<>> -> DOMAIN roots \ DOMAIN given
    [] calls # <<>> /\ Frame.arr = Null -> Frame.todo
    [] OTHER -> {Len(Frame.arr.items)} \cap 0 .. Frame.arr.n - 1

Type(k) ==
  CASE calls = <<>> -> roots[k].t
    [] calls # <<>> /\ Frame.arr = Null -> FieldType(LayersOf(Frame)[Frame.l], k)
    [] OTHER -> "ref"

Asks(k, t) == Reading /\ k \in Wanted /\ Type(k) = t

\* The result r of a call goes to whoever made it, cs being under way: the
\* program, a field, or an array, whose initialiser fails on null.
Deliver(cs, k, r) ==
  LET f == Last(cs)
  IN  IF cs = <<>> THEN
        /\ given' = Under(given, k, r)
        /\ UNCHANGED <<made, fault>> /\ calls' = cs
      ELSE IF f.arr = Null THEN
        /\ made' = [made EXCEPT ![f.id].got = Under(@, <<f.l, k>>, r)]
        /\ calls' = [cs EXCEPT ![Len(cs)].todo = @ \ {k}]
        /\ UNCHANGED <<given, fault>>
      ELSE
        /\ calls' = [cs EXCEPT ![Len(cs)].arr.items = Append(@, r)]
        /\ fault' = IF r = Null THEN "failed" ELSE fault
        /\ UNCHANGED <<given, made>>

\* unpack_varint and its siblings.
ReadLeaf(k, t) ==
  /\ Asks(k, t) /\ t \in Leaves
  /\ Deliver(calls, k, IF Entry(k).t = t THEN Entry(k).v ELSE Null)
  /\ UNCHANGED <<stack, objects, last>>

\* unpack_mmobj of a key that was not packed.
ReadNothing(k) ==
  /\ Asks(k, "ref") /\ Entry(k) = None
  /\ Deliver(calls, k, Null)
  /\ UNCHANGED <<stack, objects, last>>

\* What objects holds for the number under k.
Known(k, t) ==
  LET e == Entry(k)
  IN  e.t = "ref" /\ e.v \in DOMAIN objects /\ objects[e.v].t = t

\* last_mmobj of an object works once its last layer has its header.
Half(id) == \E i \in DOMAIN calls : calls[i].id = id /\ calls[i].l < Len(LayersOf(calls[i]))

\* unpack_mmobj of an object that was made before.
ReadKnown(k) ==
  /\ Asks(k, "ref") /\ Known(k, "made")
  /\ LET id == objects[Entry(k).v].v
     IN  IF Half(id) THEN fault' = "null" /\ UNCHANGED <<made, calls, given>>
                     ELSE Deliver(calls, k, id)
  /\ UNCHANGED <<stack, objects, last>>

\* unpack_mmobj of one to be made, up to the allocator of its class: its
\* properties are on the stack from here on, whether there is one or not.
ReadNew(k) ==
  /\ Asks(k, "ref") /\ Entry(k) # None /\ ~Known(k, "made") /\ Len(calls) < MaxDepth
  /\ IF ~Known(k, "map") THEN fault' = "null" /\ UNCHANGED <<stack, reader>> ELSE
     LET n == Entry(k).v
         map == objects[n].v
     IN  /\ stack' = Append(stack, map)
         /\ IF box[map].cls \notin Registered
            THEN Deliver(calls, k, Null) /\ UNCHANGED last
            ELSE /\ last' = n
                 /\ made' = Append(made, [cls |-> box[map].cls, num |-> n, got |-> Empty])
                 /\ calls' = Append(calls, [key |-> k, id |-> Len(made) + 1, map |-> map,
                                            l |-> 0, todo |-> {}, arr |-> Null])
                 /\ UNCHANGED <<given, fault>>
  /\ UNCHANGED objects

\* unpack_array: the list is pushed, if there is one.
ReadArray(k) ==
  /\ Asks(k, "array")
  /\ LET list == Entry(k).t = "array"
         n == IF list THEN Cardinality(DOMAIN box[Entry(k).v].at) ELSE 0
     IN  /\ stack' = IF list THEN Append(stack, Entry(k).v) ELSE stack
         /\ calls' = [calls EXCEPT ![Len(calls)].arr = [key |-> k, n |-> n, items |-> <<>>]]
  /\ UNCHANGED <<objects, last, made, given, fault>>

\* unpack_array_end: the last box is popped, whatever it is.
ReadArrayEnd ==
  /\ Reading /\ calls # <<>> /\ Frame.arr # Null /\ Len(Frame.arr.items) = Frame.arr.n
  /\ stack' = Front(stack)
  /\ LET top == Len(calls) IN
     /\ made' = [made EXCEPT ![Frame.id].got = Under(@, <<Frame.l, Frame.arr.key>>, Frame.arr.items)]
     /\ calls' = [calls EXCEPT ![top].arr = Null, ![top].todo = @ \ {Frame.arr.key}]
  /\ UNCHANGED <<objects, last, given, fault>>

----------------------------------------------------------------------------
(* One object *)

\* A slip: contexts are left on the stack.
KeepContexts(s) == s

\* popContextInStack.
PopContexts(s) ==
  SubSeq(s, 1, CHOOSE i \in DOMAIN s :
                 /\ box[s[i]].kind # "context"
                 /\ \A j \in i + 1 .. Len(s) : box[s[j]].kind = "context")

\* A slip: the object never replaces its properties.
MetNever(n, id) == objects

\* objects refers to the object itself from now on.
Met(n, id) == [objects EXCEPT ![n] = [t |-> "made", v |-> id]]

LayerDone == Reading /\ calls # <<>> /\ Frame.todo = {} /\ Frame.arr = Null

\* init_ of the next layer, with unpackNextContext if it has a hook.
NextLayer ==
  /\ LayerDone /\ Frame.l < Len(LayersOf(Frame))
  /\ LET layer == LayersOf(Frame)[Frame.l + 1]
         rest == IF last = Null THEN PopContexts(stack) ELSE stack
         ctx == box[Last(rest)].ctx
     IN  /\ IF ~layer.init THEN UNCHANGED <<stack, objects, last>> ELSE
            /\ stack' = IF layer.name \in DOMAIN ctx THEN Append(rest, ctx[layer.name]) ELSE rest
            /\ objects' = IF last = Null THEN objects ELSE Met(last, Frame.id)
            /\ last' = Null
         /\ calls' = [calls EXCEPT ![Len(calls)].l = @ + 1,
                                   ![Len(calls)].todo = {x.k : x \in Range(layer.fields)}]
  /\ UNCHANGED <<made, given, fault>>

\* The allocator has returned.
Finish ==
  /\ LayerDone /\ Frame.l = Len(LayersOf(Frame))
  /\ IF last = Null
     THEN stack' = Front(PopContexts(stack)) /\ UNCHANGED objects
     ELSE stack' = Front(stack) /\ objects' = Met(last, Frame.id)
  /\ last' = Null
  /\ Deliver(Front(calls), Frame.key, Frame.id)

ReadStep ==
  /\ \/ \E k \in Wanted, t \in Leaves : ReadLeaf(k, t)
     \/ \E k \in Wanted : ReadNothing(k) \/ ReadKnown(k) \/ ReadNew(k) \/ ReadArray(k)
     \/ ReadArrayEnd \/ NextLayer \/ Finish
  /\ UNCHANGED <<graph, packer, mode, parser>>

----------------------------------------------------------------------------
Parse == ParseStart \/ ParseToken \/ ParseEnd

Packs ==
  /\ mode = "pack"
  /\ \/ \E o \in Obj : PackRoot(o)
     \/ \E v \in Leaf : PackRootLeaf(v)
     \/ Pack
  /\ UNCHANGED <<graph, mode, parser, stack, objects, reader, fault>>

Next == Packs \/ Parse \/ ReadStep

\* The objects that objects of S refer to, and so on.
RefsOf(o) ==
  UNION {UNION {Range(Refs(f, graph[o].body[l][f.k])) : f \in Range(Layers[graph[o].cls][l].fields)} :
           l \in DOMAIN graph[o].body}
Reach(S) ==
  {o \in Obj : \A T \in SUBSET Obj : S \subseteq T /\ (\A p \in T : RefsOf(p) \subseteq T) => o \in T}

\* What a program must see to: an object is not met again while a layer other
\* than its last is initialised (see MmObject).
SafeGraph ==
  \A o \in Obj : \A l \in 1 .. Len(Layers[graph[o].cls]) - 1 :
    o \notin Reach(UNION {Range(Refs(f, graph[o].body[l][f.k])) :
                            f \in Range(Layers[graph[o].cls][l].fields)})

UnpackInit ==
  /\ mode = "pack" /\ pos = 1 /\ current = Null
  /\ db = Empty /\ box = <<>> /\ stack = <<>> /\ objects = Empty
  /\ last = Null /\ made = <<>> /\ calls = <<>> /\ given = Empty
  /\ fault = "none"

\* The thread goes on with the call it is in.
Busy == doing # Null \/ mode = "parse" \/ calls # <<>>

Init == SafeGraph /\ PackInit /\ UnpackInit
Spec == Init /\ [][Next]_vars /\ WF_vars(Busy /\ Next)

----------------------------------------------------------------------------
(* Properties *)

TypeOK ==
  /\ \A o \in Obj : IsObject(graph[o])
  /\ Range(num) \subseteq Obj /\ Range(names) \subseteq Class
  /\ DOMAIN db \subseteq 0 .. Cardinality(Class) - 1
  /\ Range(stack) \subseteq DOMAIN box
  /\ \A n \in DOMAIN objects : objects[n].v \in
       IF objects[n].t = "map" THEN DOMAIN box ELSE DOMAIN made
  /\ last \in DOMAIN objects \cup {Null}
  /\ DOMAIN given \subseteq DOMAIN roots
  /\ Len(calls) <= MaxDepth

\* process() refuses no stream of the packer, whatever the graph and however
\* many calls wrote it, and no unpack_ call follows null.
NoFault == TypeOK /\ fault = "none"

\* The boxes a call has on the stack: the properties of the object, the
\* context of its last layer that has a hook, and the list it is reading.
Boxes(f) ==
  LET layers == LayersOf(f)
      begun == {l \in 1 .. f.l : layers[l].init}
      name == layers[CHOOSE l \in begun : \A j \in begun : j <= l].name
      ctx == IF begun # {} /\ name \in DOMAIN box[f.map].ctx
             THEN <<box[f.map].ctx[name]>> ELSE <<>>
  IN  <<f.map>> \o ctx \o
      (IF f.arr = Null THEN <<>> ELSE <<box[Last(ctx)].at[f.arr.key].v>>)

\* Between the calls of the unpacker the stack holds the boxes of the calls
\* under way and nothing else (mmo_pack.c:445, 477, 478, 544): what a call
\* reads next is in the box it means.
StackFollowsCalls ==
  Reading => stack = <<1>> \o FlattenSeq([i \in DOMAIN calls |-> Boxes(calls[i])])

\* An object that was packed once is made once, however many refer to it and
\* from wherever in a cycle (mmo_pack.c:426).
OneTwinEach == \A i, j \in DOMAIN made : made[i].num = made[j].num => i = j

\* The object made for o of the source, and what its fields got.
Twin(o) == {i \in DOMAIN made : num[made[i].num + 1] = o}
TwinOf(o) == CHOOSE i \in Twin(o) : TRUE
Origin(id) == IF id = Null THEN Null ELSE num[made[id].num + 1]

Slots(x) ==
  UNION {{<<l, f.k>> : f \in Range(Layers[x.cls][l].fields)} : l \in DOMAIN x.body}
Field(x, s) == CHOOSE f \in Range(Layers[x.cls][s[1]].fields) : f.k = s[2]
Value(x, s) == x.body[s[1]][s[2]]
Refers(x, s) == Range(Refs(Field(x, s), Value(x, s)))

\* Once the program was given a root, all it leads to is there, every field
\* of it (mmo.h:571, "same result after object unpacked").
Complete ==
  Reading /\ calls = <<>> =>
    \A k \in DOMAIN given :
      IF roots[k].t = "ref"
      THEN /\ Origin(given[k]) = roots[k].v
           /\ \A o \in Reach({roots[k].v}) : \E i \in Twin(o) :
                DOMAIN made[i].got = Slots(graph[o])
      ELSE given[k] = roots[k].v

\* As the fields of the objects made are filled, what they refer to is the
\* twin of what the source refers to: the unpacker implements ObjectCopy.
Original(i, s) ==
  LET r == made[i].got[s]
  IN  CASE Field(graph[Origin(i)], s).t = "array" -> [j \in DOMAIN r |-> Origin(r[j])]
        [] Field(graph[Origin(i)], s).t = "ref" -> Origin(r)
        [] OTHER -> r

CopyNow == [o \in {Origin(i) : i \in DOMAIN made} |->
              [s \in DOMAIN made[TwinOf(o)].got |-> Original(TwinOf(o), s)]]

Copy == INSTANCE ObjectCopy WITH source <- graph, copy <- CopyNow
ImplementsCopy == Copy!Spec

\* Packing, parsing and unpacking come to an end, cycles or not.
Ends == Busy ~> ~Busy
=============================================================================
