------------------------------ MODULE MmObject ------------------------------
(***************************************************************************)
(* The objects of mmo/mmo.h.  An object of a class is one block of memory  *)
(* with a layer for each class of its lineage, the root first.  Layers are *)
(* initialised from the root up and destroyed from the last one down; each *)
(* points to the one below, and the root to the last one, so that they     *)
(* form a ring (pre_base), which casts and calls of functions walk along.  *)
(*                                                                         *)
(* fn_init and fn_destroy of a layer are code of the program: in the midst *)
(* of them it allocates, releases and unpacks other objects.  job is the   *)
(* stack of what is under way.  The unpacker of mmo_pack.c appears with    *)
(* the strong references it keeps of the objects it has made.              *)
(***************************************************************************)
EXTENDS Integers, Sequences, SequencesExt, FiniteSets

CONSTANTS
  Class,      \* classes declared by MMRootObject and MMSubObject
  Lineage,    \* the classes of each class's layers, the root first
  Plain,      \* the classes without fn_init
  BaseFn,     \* the functions init_ of the root sets: hash and compare
  Fn,         \* function types
  Addr,       \* addresses of objects
  Var,        \* pointers that own a count: of the program or of containers
  Null,
  MaxDepth    \* bound on the nesting of allocations and destructions

Layers(c) == 1 .. Len(Lineage[c])

ASSUME MmObjectAssumption ==
  /\ Lineage \in [Class -> Seq(Class) \ {<<>>}]
  /\ \A c \in Class : /\ Last(Lineage[c]) = c
                      /\ \A k \in Layers(c) : Lineage[Lineage[c][k]] = SubSeq(Lineage[c], 1, k)
  /\ BaseFn \subseteq Fn
  /\ Null \notin Addr \cup Var /\ IsFiniteSet(Var)
  /\ MaxDepth \in Nat

VARIABLES
  obj,     \* the block at each address, or Null
  job,     \* the layers being initialised or destroyed, innermost last
  own,     \* the pointers
  seen,    \* the objects the unpacker keeps a strong reference of
  fault    \* a null pointer of a layer not yet initialised was followed

vars == <<obj, job, own, seen, fault>>

(* Of a block: its class; up, the layers whose class, pre_base and destroy *)
(* are set; ok, the layers whose fn_init has returned; ran, how often      *)
(* fn_destroy ran; fns, the table of functions of each layer; the retained *)
(* count.                                                                  *)
BlockOf(c) ==
  [cls : {c}, up : Layers(c), ok : Layers(c) \cup {0}, ran : [Layers(c) -> Nat],
   fns : [Layers(c) -> SUBSET Fn], r : Nat]
IsBlock(x) == \E c \in Class : x \in BlockOf(c)

ASSUME NullIsNoBlock == ~IsBlock(Null)

Job == [do : {"init", "fail", "destroy"}, o : Addr, k : Nat, to : Var \cup {Null}]

TypeOK ==
  /\ obj = [o \in Addr |-> obj[o]]
  /\ \A o \in Addr : obj[o] = Null \/ IsBlock(obj[o])
  /\ job \in Seq(Job)
  /\ own \in [Var -> Addr \cup {Null}]
  /\ seen \subseteq Addr
  /\ fault \in BOOLEAN

----------------------------------------------------------------------------
(* The ring.  Null is layer 0; Bad is the result of following it.          *)

Bad == -1
Top(x) == Len(Lineage[x.cls])

\* pre_base of layer k
Pre(x, k) == IF k > x.up THEN 0 ELSE IF k = 1 THEN Top(x) ELSE k - 1

\* A call of find: the layer it is made on, and the one the search ends at.
Call(x) == [at : 0 .. Top(x), until : Class]

\* A slip: the layer where the search began is not remembered.
FindForgets(x, c, call, result) ==
  LET at == call.at
      on(until) == result[[at |-> Pre(x, at), until |-> until]]
  IN  IF at = 0 \/ at > x.up THEN Bad
      ELSE IF c = Lineage[x.cls][at] THEN at
      ELSE IF Lineage[x.cls][at] # call.until THEN on(call.until)
      ELSE 0

\* find of one layer: the layer is of class c, or the call goes on around
\* the ring, where calls come to what result says.
FindAt(x, c, call, result) ==
  LET at == call.at
      on(until) == result[[at |-> Pre(x, at), until |-> until]]
  IN  IF at = 0 \/ at > x.up THEN Bad
      ELSE IF c = Lineage[x.cls][at] THEN at
      ELSE IF c = call.until THEN on(Lineage[x.cls][at])
      ELSE IF Lineage[x.cls][at] # call.until THEN on(call.until)
      ELSE 0

\* What calls of find come to if n layers are visited at most.
Search(x, c) ==
  LET S[n \in 0 .. Top(x) + 1] == [call \in Call(x) |->
        IF n = 0 THEN Bad ELSE FindAt(x, c, call, S[n - 1])]
  IN  S

\* cls->find: the layer of class c, searched from layer k around the ring.
\* A search that does not end in one round does not end.
Find(x, k, c) == Search(x, c)[Top(x) + 1][[at |-> k, until |-> c]]

\* The loop of the two get_function calls comes to layer b; result says what
\* comes of the layers below.
LookAt(x, f, b, result) ==
  IF b = 0 THEN Bad
  ELSE IF f \in x.fns[b] THEN b
  ELSE IF b = 1 THEN 0
  ELSE result[Pre(x, b)]

LoopFrom(x, f) ==
  LET L[n \in 0 .. Top(x)] == [b \in 0 .. Top(x) |->
        IF n = 0 THEN Bad ELSE LookAt(x, f, b, L[n - 1])]
  IN  L

\* From layer k down to the root.
Lookup(x, f, k) == LoopFrom(x, f)[Top(x)][k]

LastFunction(x, f) == Lookup(x, f, Pre(x, 1))

\* A slip: the search for the parent's function begins with the own one.
ParentFunctionOwn(x, f, k) == Lookup(x, f, k)

ParentFunction(x, f, k) == Lookup(x, f, Pre(x, k))

----------------------------------------------------------------------------
Now == Last(job)
Live == {o \in Addr : obj[o] # Null}
Busy == {job[i].o : i \in DOMAIN job}
Whole(o) == o \in Live \ Busy /\ obj[o].ok = Top(obj[o])
Free(v) == own[v] = Null /\ \A i \in DOMAIN job : job[i].to # v
CanNest == Len(job) < MaxDepth

\* mgn_mem_alloc clears the block; its count is one.
Fresh(c) ==
  [cls |-> c, up |-> 0, ok |-> 0, ran |-> [k \in Layers(c) |-> 0],
   fns |-> [k \in Layers(c) |-> {}], r |-> 1]

\* Slips: the header is written after fn_init; that of the layer above is.
EnterLate(x, k) ==
  [x EXCEPT !.up = IF k = 1 THEN 1 ELSE k - 1, !.fns[1] = IF k = 1 THEN BaseFn ELSE @]

\* The header of layer k: class, pre_base and destroy.
Enter(x, k) ==
  LET y == [x EXCEPT !.up = k] IN IF k = 1 THEN [y EXCEPT !.fns[1] = BaseFn] ELSE y

\* Layer k of o begins: its header, then unpackNextContext, which takes a
\* strong reference at the first layer with an fn_init, then fn_init.
Begin(o, x, k, jobs, to) ==
  LET first == to = Null /\ o \notin seen /\ Lineage[x.cls][k] \notin Plain
      y == Enter(x, k)
  IN  /\ obj' = [obj EXCEPT ![o] = IF first THEN [y EXCEPT !.r = @ + 1] ELSE y]
      /\ seen' = IF first THEN seen \cup {o} ELSE seen
      /\ job' = Append(jobs, [do |-> "init", o |-> o, k |-> k, to |-> to])

\* alloc##stru_name for the pointer to, or unpack##stru_name when it is Null.
New(o, c, to) ==
  /\ CanNest /\ obj[o] = Null
  /\ to # Null => Free(to)
  /\ Begin(o, Fresh(c), 1, job, to)
  /\ UNCHANGED <<own, fault>>

Initialising == job # <<>> /\ Now.do = "init"

\* fn_init of a layer has returned its object, and the next one begins.
InitLayer ==
  /\ Initialising /\ Now.k < Top(obj[Now.o])
  /\ Begin(Now.o, [obj[Now.o] EXCEPT !.ok = Now.k], Now.k + 1, Front(job), Now.to)
  /\ UNCHANGED <<own, fault>>

\* The last one has: an allocated object is handed to its owner.
AllocDone ==
  /\ Initialising /\ Now.k = Top(obj[Now.o]) /\ Now.to # Null
  /\ obj' = [obj EXCEPT ![Now.o].ok = Now.k]
  /\ own' = [own EXCEPT ![Now.to] = Now.o]
  /\ job' = Front(job)
  /\ UNCHANGED <<seen, fault>>

\* An unpacked object is autoreleased; only the unpacker's reference stays,
\* which an object without any fn_init gets now.
UnpackDone ==
  /\ Initialising /\ Now.k = Top(obj[Now.o]) /\ Now.to = Null
  /\ LET x == [obj[Now.o] EXCEPT !.ok = Now.k]
     IN  obj' = [obj EXCEPT ![Now.o] =
                   IF Now.o \in seen THEN [x EXCEPT !.r = @ - 1] ELSE x]
  /\ seen' = seen \cup {Now.o}
  /\ job' = Front(job)
  /\ UNCHANGED <<own, fault>>

----------------------------------------------------------------------------
(* Failure and destruction.                                                *)

Failing == Initialising /\ Lineage[obj[Now.o].cls][Now.k] \notin Plain

\* Slips: the layer that failed is destroyed as well; the layers below it
\* are not.
FailFrom(k) == k
FailNowhere(k) == 0

\* Destruction after a failure begins with the layer below.
FailBelow(k) == k - 1

\* fn_init returns null: the layers below are destroyed, and alloc releases
\* the block.
InitFail ==
  /\ Failing
  /\ job' = Append(Front(job), [Now EXCEPT !.do = "fail", !.k = FailBelow(@)])
  /\ UNCHANGED <<obj, own, seen, fault>>

Dropped(o) == [obj[o] EXCEPT !.r = @ - 1]

Destroying == job # <<>> /\ Now.do \in {"fail", "destroy"}

\* fn_destroy of a layer, and on to the destroy of the layer below.
DestroyLayer ==
  /\ Destroying /\ Now.k > 0
  /\ obj' = [obj EXCEPT ![Now.o].ran[Now.k] = @ + 1]
  /\ job' = Append(Front(job), [Now EXCEPT !.k = @ - 1])
  /\ UNCHANGED <<own, seen, fault>>

\* All layers are destroyed, their tables of functions emptied, and the pool
\* frees the block; after a failure alloc only gives up its own count, and
\* the tables are forgotten.
DestroyEnd ==
  /\ Destroying /\ Now.k = 0
  /\ obj' = [obj EXCEPT ![Now.o] =
               IF Now.do = "destroy" \/ @.r = 1 THEN Null ELSE Dropped(Now.o)]
  /\ job' = Front(job)
  /\ UNCHANGED <<own, seen, fault>>

\* __trigger_release_mmobj of o, whose block is x: destroy of the last layer.
Trigger(o, x) ==
  /\ obj' = [obj EXCEPT ![o] = x]
  /\ IF x.up < Top(x)
     THEN fault' = TRUE /\ UNCHANGED job
     ELSE /\ CanNest
          /\ job' = Append(job, [do |-> "destroy", o |-> o, k |-> Pre(x, 1), to |-> Null])
          /\ UNCHANGED fault

\* A slip: the object is destroyed whoever else owns it.
GiveUpBlindly(o, later) ==
  IF ~later THEN Trigger(o, Dropped(o))
  ELSE obj' = [obj EXCEPT ![o] = Dropped(o)] /\ UNCHANGED <<job, fault>>

\* One count of o less, by release_mmobj or autorelease_mmobj (later).
GiveUp(o, later) ==
  IF obj[o].r = 1 /\ ~later THEN Trigger(o, Dropped(o))
  ELSE obj' = [obj EXCEPT ![o] = Dropped(o)] /\ UNCHANGED <<job, fault>>

Release(v, later) ==
  /\ own[v] # Null
  /\ GiveUp(own[v], later)
  /\ own' = [own EXCEPT ![v] = Null]
  /\ UNCHANGED seen

\* mgn_mem_release_unused comes to an autoreleased object.
Drain(o) ==
  /\ job = <<>> /\ Whole(o) /\ obj[o].r = 0
  /\ Trigger(o, obj[o])
  /\ UNCHANGED <<own, seen>>

\* The unpacker is released and gives up one of its references.
Forget(o) ==
  /\ o \in seen \ Busy
  /\ \A i \in DOMAIN job : job[i].to # Null \/ job[i].do = "destroy"
  /\ GiveUp(o, FALSE)
  /\ seen' = seen \ {o}
  /\ UNCHANGED own

----------------------------------------------------------------------------
Retain(v, o) ==
  /\ Free(v) /\ Whole(o)
  /\ obj' = [obj EXCEPT ![o].r = @ + 1]
  /\ own' = [own EXCEPT ![v] = o]
  /\ UNCHANGED <<job, seen, fault>>

\* unpack_mmobj meets a number it knows: the last layer of that object, which
\* may be under way still when the graph of objects is cyclic, is cast and
\* retained.
Borrow(v, o) ==
  /\ Free(v) /\ o \in seen
  /\ \A i \in DOMAIN job : job[i].do = "init"
  /\ IF Find(obj[o], Pre(obj[o], 1), Head(Lineage[obj[o].cls])) = Bad
     THEN fault' = TRUE /\ UNCHANGED <<obj, own>>
     ELSE /\ obj' = [obj EXCEPT ![o].r = @ + 1]
          /\ own' = [own EXCEPT ![v] = o]
          /\ UNCHANGED fault
  /\ UNCHANGED <<job, seen>>

\* set_function_for_mmobj, in fn_init or later, on any layer there is.
SetFunction(o, k, f) ==
  /\ Whole(o) \/ (Initialising /\ o = Now.o)
  /\ k <= obj[o].up /\ f \notin obj[o].fns[k]
  /\ obj' = [obj EXCEPT ![o].fns[k] = @ \cup {f}]
  /\ UNCHANGED <<job, own, seen, fault>>

----------------------------------------------------------------------------
Init ==
  /\ obj = [o \in Addr |-> Null]
  /\ job = <<>>
  /\ own = [v \in Var |-> Null]
  /\ seen = {}
  /\ fault = FALSE

\* The last layer of o has begun, if its initialisation is under way.
AtLast(o) == \A i \in DOMAIN job : job[i].o = o => job[i].k = Top(obj[o])

Common ==
  \/ \E o \in Addr, c \in Class, to \in Var \cup {Null} : New(o, c, to)
  \/ InitLayer \/ AllocDone \/ UnpackDone
  \/ DestroyLayer \/ DestroyEnd
  \/ \E v \in Var, later \in BOOLEAN : Release(v, later)
  \/ \E o \in Addr : Drain(o)
  \/ \E o \in Addr : Forget(o)
  \/ \E v \in Var, o \in Addr : Retain(v, o)
  \/ \E o \in Live, f \in Fn : \E k \in Layers(obj[o].cls) : SetFunction(o, k, f)

\* What the library serves: no object fails once the unpacker knows it, and
\* none is met again before its last layer begins.
Next ==
  /\ ~fault
  /\ \/ Common
     \/ Failing /\ Now.o \notin seen /\ InitFail
     \/ \E v \in Var, o \in Addr : AtLast(o) /\ Borrow(v, o)

Spec == Init /\ [][Next]_vars

\* Unpacking as it comes: memory may run out in any fn_init, and data may be
\* any.
AnyNext ==
  /\ ~fault
  /\ \/ Common
     \/ InitFail
     \/ \E v \in Var, o \in Addr : Borrow(v, o)

AnySpec == Init /\ [][AnyNext]_vars

----------------------------------------------------------------------------
(* Properties                                                              *)

\* No null pointer of a layer that has not begun is followed: an object can
\* be cast, met again in a cycle, released and destroyed as soon as it is
\* known outside of its own fn_init.
NoFault == TypeOK /\ ~fault

\* "destroy self first, then destroy super" (mmo.h:258): fn_destroy runs once
\* for a layer that was initialised, never for another one, and only after
\* those of the layers above, failures of fn_init half way up included.
DestroyedInOrder ==
  \A o \in Live : LET x == obj[o] IN
    \A k \in Layers(x.cls) : x.ran[k] > 0 =>
      /\ x.ran[k] = 1 /\ k <= x.ok
      /\ \A j \in k + 1 .. x.ok : x.ran[j] = 1

\* The block is freed only after all the layers that were initialised are
\* destroyed, on the way through a failure as well.
DestroyedBeforeFreed ==
  [][\A o \in Live : obj'[o] = Null =>
       \A k \in 1 .. obj[o].ok : obj[o].ran[k] = 1]_vars

\* A pointer that owns a count never sees an object without its last layer or
\* with a layer that is destroyed.
OwnersSeeObjects ==
  \A v \in Var : own[v] # Null =>
    /\ own[v] \in Live
    /\ obj[own[v]].up = Top(obj[own[v]])
    /\ \A k \in Layers(obj[own[v]].cls) : obj[own[v]].ran[k] = 0

\* Casts from any layer find the layer of the class, or null if there is
\* none, after one round; of an object not yet complete, the layers below.
CastsFind ==
  \A o \in Live : LET x == obj[o] IN
    \A k \in 1 .. x.up, c \in Class :
      LET found == {b \in 1 .. x.up : Lineage[x.cls][b] = c}
      IN  (x.up = Top(x) \/ \E b \in found : b <= k) =>
            Find(x, k, c) = IF found = {} THEN 0 ELSE CHOOSE b \in found : TRUE

Highest(S) == IF S = {} THEN 0 ELSE CHOOSE k \in S : \A j \in S : j <= k

\* A call reaches the implementation of the last layer that has one, and a
\* call of the parent's that of the last one below.
CallsFindLast ==
  \A o \in Live : LET x == obj[o] IN
    x.up = Top(x) => \A f \in Fn :
      /\ LastFunction(x, f) = Highest({b \in Layers(x.cls) : f \in x.fns[b]})
      /\ \A k \in Layers(x.cls) \ {1} :
           ParentFunction(x, f, k) = Highest({b \in 1 .. k - 1 : f \in x.fns[b]})
=============================================================================
