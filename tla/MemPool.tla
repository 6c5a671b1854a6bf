------------------------------ MODULE MemPool ------------------------------
(***************************************************************************)
(* The managed memory pool of platform/plat_mgn_mem.h: blocks of memory    *)
(* with a retained count, released at once, or left unused by autorelease  *)
(* and freed by the next drain (mgn_mem_release_unused).  A callback runs  *)
(* before a block is freed and may use the pool itself; that nesting is    *)
(* the only interleaving of this sequential code, and the stack of blocks  *)
(* whose callback is running is explicit here.                             *)
(*                                                                         *)
(* The callers are modelled by the pointers they keep: a Holder is a       *)
(* variable of the program, or the one strong field of an object that      *)
(* lives in a block (the holder is then the block itself).  A holder that  *)
(* is not Null owns one retained count, which is the caller's obligation   *)
(* stated at plat_mgn_mem.h:75.                                            *)
(***************************************************************************)
EXTENDS Integers, FiniteSets, Sequences

CONSTANTS
  Var,       \* pointer variables of the program
  Block,     \* addresses malloc may return
  Null,
  Batch,     \* entries of free_m[] in mgn_mem_release_unused (16 in the code)
  MaxSize    \* bound on the sizes asked for

Holder == Var \cup Block
Size == 1 .. MaxSize

Memory == [size : Size, r : Nat, cb : BOOLEAN]

\* What a block holds: an object has a destructor, passed as the callback of
\* every release, and one strong field; ran counts the destructor's runs.
Content == [obj : BOOLEAN, ran : Nat]

ASSUME MemPoolAssumption ==
  /\ IsFiniteSet(Var) /\ IsFiniteSet(Block)
  /\ Var \cap Block = {}
  /\ Null \notin Var \cup Block /\ Null \notin Memory /\ Null \notin Content
  /\ Batch \in Nat \ {0} /\ MaxSize \in Nat \ {0}

VARIABLES
  pool,      \* the hash table: address -> its mgn_memory, or Null
  heap,      \* what malloc has handed out: address -> contents, or Null
  ref,       \* the pointers that own a retained count
  stack,     \* the blocks whose callback is running, innermost last
  drain      \* the local state of mgn_mem_release_unused

vars == <<pool, heap, ref, stack, drain>>

DrainState == [on : BOOLEAN, todo : SUBSET Block, full : BOOLEAN, late : BOOLEAN]

TypeOK ==
  /\ pool \in [Block -> Memory \cup {Null}]
  /\ heap \in [Block -> Content \cup {Null}]
  /\ ref \in [Holder -> Block \cup {Null}]
  /\ stack \in Seq(Block)
  /\ drain \in DrainState

----------------------------------------------------------------------------
Pooled == {b \in Block : pool[b] # Null}
Unused == {b \in Pooled : pool[b].r = 0}
Dying == {stack[i] : i \in 1 .. Len(stack)}
Top == stack[Len(stack)]
InCallback == stack # <<>>

\* The program's own code runs: not the loop of a drain between callbacks.
Running == InCallback \/ ~drain.on

IsObject(b) == b \in Block /\ pool[b] # Null /\ heap[b] # Null /\ heap[b].obj

\* The pointers the running code may assign: its variables and the fields of
\* objects; of the objects being destroyed, only the innermost is at work.
Writable(h) ==
  /\ Running
  /\ \/ h \in Var
     \/ IsObject(h) /\ (h \in Dying => h = Top)

Owners(b) == {h \in Holder : ref[h] = b}

NewMemory(s) == [size |-> s, r |-> 1, cb |-> FALSE]
NewContent(o) == [obj |-> o, ran |-> 0]

Init ==
  /\ pool = [b \in Block |-> Null]
  /\ heap = [b \in Block |-> Null]
  /\ ref = [h \in Holder |-> Null]
  /\ stack = <<>>
  /\ drain = [on |-> FALSE, todo |-> {}, full |-> FALSE, late |-> FALSE]

----------------------------------------------------------------------------
(* Allocation, growth and retain.                                          *)

\* mgn_mem_alloc: ralloc of NULL.  The failing call changes nothing.
Alloc(h, b, s, o) ==
  /\ Writable(h) /\ ref[h] = Null
  /\ heap[b] = Null
  /\ heap' = [heap EXCEPT ![b] = NewContent(o)]
  /\ pool' = [pool EXCEPT ![b] = NewMemory(s)]
  /\ ref' = [ref EXCEPT ![h] = b]
  /\ UNCHANGED <<stack, drain>>

\* h may pass b to ralloc, asking for more than b has: it owns it, or b was
\* autoreleased and is not freed yet.  Objects are never moved.
Growing(h, b, s) ==
  /\ Writable(h)
  /\ pool[b] # Null /\ heap[b] # Null /\ ~heap[b].obj /\ b \notin Dying
  /\ ref[h] = b \/ (ref[h] = Null /\ pool[b].r = 0)
  /\ s > pool[b].size

\* A slip: the old block is not freed.
RallocSoleNoFree(h, b, c, s) ==
  /\ Growing(h, b, s) /\ pool[b].r = 1
  /\ heap[c] = Null
  /\ heap' = [heap EXCEPT ![c] = NewContent(FALSE)]
  /\ pool' = [pool EXCEPT ![b] = Null, ![c] = [pool[b] EXCEPT !.size = s]]
  /\ ref' = [ref EXCEPT ![h] = c]
  /\ UNCHANGED <<stack, drain>>

\* One owner: the block moves and keeps its mgn_memory.
RallocSole(h, b, c, s) ==
  /\ Growing(h, b, s) /\ pool[b].r = 1
  /\ heap[c] = Null
  /\ heap' = [heap EXCEPT ![b] = Null, ![c] = NewContent(FALSE)]
  /\ pool' = [pool EXCEPT ![b] = Null, ![c] = [pool[b] EXCEPT !.size = s]]
  /\ ref' = [ref EXCEPT ![h] = c]
  /\ UNCHANGED <<stack, drain>>

\* One owner and malloc fails: the entry has left the table already, and the
\* caller, written m = mgn_mem_ralloc(&pool, m, n), is left with NULL.
RallocSoleFails(h, b, s) ==
  /\ Growing(h, b, s) /\ pool[b].r = 1
  /\ pool' = [pool EXCEPT ![b] = Null]
  /\ ref' = [ref EXCEPT ![h] = Null]
  /\ UNCHANGED <<heap, stack, drain>>

\* Slips: the count is always decremented, or never.
GiveUpAlways(b) == [pool[b] EXCEPT !.r = @ - 1]
GiveUpNever(b) == pool[b]

\* mgn_m->r-- of the branch for several owners, which skips an unused block.
GiveUp(b) == [pool[b] EXCEPT !.r = IF @ > 0 THEN @ - 1 ELSE @]

\* Several owners, or none: give up one count and clone into a new block.
RallocShared(h, b, c, s) ==
  /\ Growing(h, b, s) /\ pool[b].r # 1
  /\ heap[c] = Null
  /\ heap' = [heap EXCEPT ![c] = NewContent(FALSE)]
  /\ pool' = [pool EXCEPT ![b] = GiveUp(b), ![c] = NewMemory(s)]
  /\ ref' = [ref EXCEPT ![h] = c]
  /\ UNCHANGED <<stack, drain>>

RallocSharedFails(h, b, s) ==
  /\ Growing(h, b, s) /\ pool[b].r # 1
  /\ pool' = [pool EXCEPT ![b] = GiveUp(b)]
  /\ ref' = [ref EXCEPT ![h] = Null]
  /\ UNCHANGED <<heap, stack, drain>>

\* mgn_mem_retain: h becomes one more owner of any block still pooled, an
\* autoreleased one included; nothing keeps a pointer to a dying object.
Retain(h, b) ==
  /\ Writable(h) /\ ref[h] = Null
  /\ pool[b] # Null /\ b \notin Dying
  /\ pool' = [pool EXCEPT ![b].r = @ + 1]
  /\ ref' = [ref EXCEPT ![h] = b]
  /\ UNCHANGED <<heap, stack, drain>>

----------------------------------------------------------------------------
(* Release.  _mgn_mem_release stores the callback on every call, also when *)
(* other owners remain; a call for an unknown block, or for one whose      *)
(* count is zero, only reports an error.                                   *)

Releasing(h) ==
  /\ Writable(h) /\ ref[h] # Null
  /\ pool[ref[h]] # Null /\ pool[ref[h]].r > 0

\* A slip: the callback is not stored.
DecrementedOnly(b) == [pool[b] EXCEPT !.r = @ - 1]

Decremented(b) == [pool[b] EXCEPT !.r = @ - 1, !.cb = heap[b].obj]

IsLast(b) == pool[b].r = 1

\* mgn_mem_release and mgn_mem_autorelease while other owners remain.
ReleaseOne(h) ==
  /\ Releasing(h) /\ ~IsLast(ref[h])
  /\ pool' = [pool EXCEPT ![ref[h]] = Decremented(ref[h])]
  /\ ref' = [ref EXCEPT ![h] = Null]
  /\ UNCHANGED <<heap, stack, drain>>

\* mgn_mem_autorelease of the last count: the block stays, unused.
AutoreleaseLast(h) ==
  /\ Releasing(h) /\ IsLast(ref[h])
  /\ pool' = [pool EXCEPT ![ref[h]] = Decremented(ref[h])]
  /\ ref' = [ref EXCEPT ![h] = Null]
  /\ drain' = [drain EXCEPT !.late = drain.on]
  /\ UNCHANGED <<heap, stack>>

\* A slip: no HASH_DEL.
ReclaimNoDel(b) == heap' = [heap EXCEPT ![b] = Null] /\ UNCHANGED pool

\* HASH_DEL and the two frees.
Reclaim(b) ==
  /\ pool' = [pool EXCEPT ![b] = Null]
  /\ heap' = [heap EXCEPT ![b] = Null]

\* The callback is entered while the block is still pooled.
EnterCallback(b) ==
  /\ stack' = Append(stack, b)
  /\ heap' = [heap EXCEPT ![b].ran = @ + 1]

\* mgn_mem_release of the last count of plain memory.
ReleaseLast(h) ==
  /\ Releasing(h) /\ IsLast(ref[h]) /\ ~heap[ref[h]].obj
  /\ Reclaim(ref[h])
  /\ ref' = [ref EXCEPT ![h] = Null]
  /\ UNCHANGED <<stack, drain>>

\* A slip: the callback is called before the count is decremented.
ReleaseObjectLate(h) ==
  /\ Releasing(h) /\ IsLast(ref[h]) /\ heap[ref[h]].obj
  /\ pool' = [pool EXCEPT ![ref[h]].cb = TRUE]
  /\ EnterCallback(ref[h])
  /\ ref' = [ref EXCEPT ![h] = Null]
  /\ UNCHANGED drain

\* mgn_mem_release_w_cb of the last count of an object.
ReleaseObject(h) ==
  /\ Releasing(h) /\ IsLast(ref[h]) /\ heap[ref[h]].obj
  /\ pool' = [pool EXCEPT ![ref[h]] = Decremented(ref[h])]
  /\ EnterCallback(ref[h])
  /\ ref' = [ref EXCEPT ![h] = Null]
  /\ UNCHANGED drain

\* The callback returns: its destructor has dropped the object's field.
Return ==
  /\ InCallback /\ ref[Top] = Null
  /\ Reclaim(Top)
  /\ stack' = SubSeq(stack, 1, Len(stack) - 1)
  /\ UNCHANGED <<ref, drain>>

----------------------------------------------------------------------------
(* mgn_mem_release_unused, called by the program and not by a callback.    *)

\* Slips: a full batch counts as the last one; the counter of the batch is
\* not reset.
ScanOffByOne ==
  \E S \in SUBSET Unused :
    /\ Cardinality(S) <= Batch
    /\ Cardinality(S) < Batch => S = Unused
    /\ drain' = [on |-> TRUE, todo |-> S, full |-> Cardinality(S) > Batch,
                 late |-> FALSE]
ScanNoReset ==
  \E S \in SUBSET Unused :
    /\ Cardinality(S) <= Batch
    /\ Cardinality(S) < Batch => S = Unused
    /\ drain' = [on |-> TRUE, todo |-> S,
                 full |-> drain.full \/ Cardinality(S) >= Batch, late |-> FALSE]

\* The loop over the hash table: up to Batch unused blocks.
Scan ==
  \E S \in SUBSET Unused :
    /\ Cardinality(S) <= Batch
    /\ Cardinality(S) < Batch => S = Unused
    /\ drain' = [on |-> TRUE, todo |-> S, full |-> Cardinality(S) >= Batch,
                 late |-> FALSE]

DrainStart ==
  /\ ~InCallback /\ ~drain.on
  /\ Scan
  /\ UNCHANGED <<pool, heap, ref, stack>>

\* A slip: what the scan saw is believed.
DrainVisitStale(b) ==
  /\ drain.on /\ ~InCallback /\ b \in drain.todo
  /\ drain' = [drain EXCEPT !.todo = @ \ {b}]
  /\ UNCHANGED ref
  /\ \/ /\ b \notin Pooled
        /\ UNCHANGED <<pool, heap, stack>>
     \/ /\ b \in Pooled /\ ~pool[b].cb
        /\ Reclaim(b)
        /\ UNCHANGED stack
     \/ /\ b \in Pooled /\ pool[b].cb
        /\ EnterCallback(b)
        /\ UNCHANGED pool

\* Each block of the batch is looked up again: since the scan a callback may
\* have freed it or retained it.
DrainVisit(b) ==
  /\ drain.on /\ ~InCallback /\ b \in drain.todo
  /\ drain' = [drain EXCEPT !.todo = @ \ {b}]
  /\ UNCHANGED ref
  /\ \/ /\ b \notin Unused
        /\ UNCHANGED <<pool, heap, stack>>
     \/ /\ b \in Unused /\ ~pool[b].cb
        /\ Reclaim(b)
        /\ UNCHANGED stack
     \/ /\ b \in Unused /\ pool[b].cb
        /\ EnterCallback(b)
        /\ UNCHANGED pool

DrainAgain ==
  /\ drain.on /\ ~InCallback /\ drain.todo = {} /\ drain.full
  /\ Scan
  /\ UNCHANGED <<pool, heap, ref, stack>>

DrainEnd ==
  /\ drain.on /\ ~InCallback /\ drain.todo = {} /\ ~drain.full
  /\ drain' = [drain EXCEPT !.on = FALSE]
  /\ UNCHANGED <<pool, heap, ref, stack>>

\* mgn_mem_release_all: every pooled block is freed and no callback runs; the
\* program is finished with all its pointers.
ReleaseAll ==
  /\ ~InCallback /\ ~drain.on
  /\ pool' = [b \in Block |-> Null]
  /\ heap' = [b \in Block |-> IF b \in Pooled THEN Null ELSE heap[b]]
  /\ ref' = [h \in Holder |-> Null]
  /\ UNCHANGED <<stack, drain>>

----------------------------------------------------------------------------
Drain == DrainStart \/ (\E b \in Block : DrainVisit(b)) \/ DrainAgain \/ DrainEnd

Succeed ==
  \/ \E h \in Holder, b \in Block, s \in Size, o \in BOOLEAN : Alloc(h, b, s, o)
  \/ \E h \in Holder, b, c \in Block, s \in Size : RallocSole(h, b, c, s)
  \/ \E h \in Holder, b, c \in Block, s \in Size : RallocShared(h, b, c, s)
  \/ \E h \in Holder, b \in Block : Retain(h, b)
  \/ \E h \in Holder : ReleaseOne(h)
  \/ \E h \in Holder : AutoreleaseLast(h)
  \/ \E h \in Holder : ReleaseLast(h)
  \/ \E h \in Holder : ReleaseObject(h)
  \/ Return
  \/ Drain
  \/ ReleaseAll

\* malloc returns NULL.
Fail ==
  \/ \E h \in Holder, b \in Block, s \in Size : RallocSoleFails(h, b, s)
  \/ \E h \in Holder, b \in Block, s \in Size : RallocSharedFails(h, b, s)

Next == Succeed \/ Fail

Spec == Init /\ [][Next]_vars

----------------------------------------------------------------------------
(* Liveness.  A tidy destructor only drops its object's field: that is all *)
(* the destructors of mmo_ext.h do.  Each step of the one thread happens.  *)

TidyNext ==
  \/ InCallback /\ (ReleaseOne(Top) \/ AutoreleaseLast(Top) \/ ReleaseLast(Top)
                      \/ ReleaseObject(Top) \/ Return)
  \/ ~InCallback /\ Next

Progress == TidyNext /\ (InCallback \/ drain.on)

TidySpec == Init /\ [][TidyNext]_vars /\ WF_vars(Progress)

----------------------------------------------------------------------------
(* Properties                                                              *)

\* A pointer that owns a count points to a block that is still pooled and
\* whose destructor has not begun (release, ralloc and drain never free or
\* move memory under an owner).
NoDangling == \A h \in Holder : ref[h] # Null => ref[h] \in Pooled \ Dying

\* The retained count of a block is the number of pointers that own it, at
\* every step of nested callbacks, ralloc by one of several owners included.
CountsAreOwners == \A b \in Pooled : pool[b].r = Cardinality(Owners(b))

\* The callback of a block is never entered twice, and no nested release or
\* drain frees a block under its running callback: the HASH_DEL and the frees
\* after the callback then act on an entry that is still there.
DyingStayPooled ==
  /\ \A i, j \in 1 .. Len(stack) : stack[i] = stack[j] => i = j
  /\ Dying \subseteq Unused
  /\ \A b \in Block : heap[b] # Null => heap[b].ran <= 1

\* Every pooled block is live memory: free and HASH_DEL go together.
PooledAreLive == \A b \in Pooled : heap[b] # Null

\* Every live block is pooled, so "Release all memories"
\* (plat_mgn_mem.h:44) and the leak test of mmo_unittest.c:158, which counts
\* pooled entries, see all the memory taken from the pool.
NoLostBlock == \A b \in Block : heap[b] # Null => b \in Pooled

\* A block leaves the table only together with its memory, unless malloc
\* fails: no release, drain or move of a block loses memory.
LostOnlyByFailure ==
  [][~Fail => \A b \in Pooled : b \in Pooled' \/ heap'[b] = Null]_vars

\* An object freed one by one, by release or by a drain, had its destructor
\* run, although each release overwrites the stored callback.  release_all
\* runs no callbacks.
DestroyedBeforeFreed ==
  [][\A b \in Block : IsObject(b) /\ heap'[b] = Null
        => heap[b].ran = 1 \/ ReleaseAll]_vars

\* When a drain ends no unused block is left, whatever the size of the
\* batches, unless a callback autoreleased one after the last scan.
DrainIsComplete ==
  [][drain.on /\ ~drain'.on /\ ~drain.late => Unused = {}]_vars

\* A drain comes to its end when destructors are tidy: full batches do not
\* make it scan for ever.
DrainTerminates == drain.on ~> ~drain.on
============================================================================
