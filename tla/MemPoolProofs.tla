--------------------------- MODULE MemPoolProofs ---------------------------
(* The safety properties of MemPool for every number of blocks, pointers,  *)
(* sizes and batch length, failing allocations included.                   *)
EXTENDS MemPool, FiniteSetTheorems, SequenceTheorems, TLAPS

\* The destructor of a live block has run exactly if its callback is on the
\* stack: NoDangling alone does not say that an entered callback is new.
RanIffDying ==
  \A b \in Block : heap[b] # Null => heap[b].ran = IF b \in Dying THEN 1 ELSE 0

StackDistinct == \A i, j \in 1 .. Len(stack) : stack[i] = stack[j] => i = j

IInv ==
  /\ TypeOK
  /\ NoDangling
  /\ CountsAreOwners
  /\ PooledAreLive
  /\ RanIffDying
  /\ StackDistinct
  /\ Dying \subseteq Unused

----------------------------------------------------------------------------
(* The model value Null is none of the records it stands in for: Null in   *)
(* pool and heap marks an absent entry, and a present one has its type.    *)

\* An entry of the table is a memory record.
LEMMA PooledType ==
  ASSUME TypeOK, NEW b \in Block, pool[b] # Null
  PROVE  /\ pool[b] \in Memory
         /\ pool[b].size \in Size /\ pool[b].r \in Nat /\ pool[b].cb \in BOOLEAN
BY DEF TypeOK, Memory

\* A live block has contents.
LEMMA LiveType ==
  ASSUME TypeOK, NEW b \in Block, heap[b] # Null
  PROVE  /\ heap[b] \in Content
         /\ heap[b].obj \in BOOLEAN /\ heap[b].ran \in Nat
BY DEF TypeOK, Content

\* What ralloc stores for a new block has its type.
LEMMA NewEntries ==
  ASSUME NEW s \in Size, NEW o \in BOOLEAN
  PROVE  /\ NewMemory(s) \in Memory /\ NewMemory(s) # Null
         /\ NewContent(o) \in Content /\ NewContent(o) # Null
<1>1. NewMemory(s) \in Memory
  BY DEF NewMemory, Memory
<1>2. NewContent(o) \in Content
  BY DEF NewContent, Content
<1> QED
  BY <1>1, <1>2, MemPoolAssumption

----------------------------------------------------------------------------
(* The stack of running callbacks.                                         *)

\* A sequence without its last element.
LEMMA FrontOfSeq ==
  ASSUME NEW S, NEW s \in Seq(S), s # <<>>
  PROVE  LET f == SubSeq(s, 1, Len(s) - 1)
         IN  /\ f \in Seq(S) /\ Len(f) = Len(s) - 1
             /\ \A i \in 1 .. Len(s) - 1 : f[i] = s[i]
<1> DEFINE n == Len(s) - 1
<1>1. n \in Nat /\ n <= Len(s)
  OBVIOUS
<1> HIDE DEF n
<1>2. /\ SubSeq(s, 1, n) \in Seq(S)
      /\ Len(SubSeq(s, 1, n)) = n
      /\ \A i \in 1 .. n : SubSeq(s, 1, n)[i] = s[i]
  BY <1>1
<1> QED
  BY <1>2 DEF n

\* Entering a callback adds its block to the dying ones.
LEMMA Push ==
  ASSUME stack \in Seq(Block), NEW b \in Block, stack' = Append(stack, b)
  PROVE  /\ stack' \in Seq(Block)
         /\ Dying' = Dying \cup {b}
         /\ StackDistinct /\ b \notin Dying => StackDistinct'
<1>1. /\ stack' \in Seq(Block) /\ Len(stack') = Len(stack) + 1
      /\ \A i \in 1 .. Len(stack) : stack'[i] = stack[i]
      /\ stack'[Len(stack) + 1] = b
  BY AppendProperties
<1>2. Len(stack) \in Nat
  OBVIOUS
<1>3. Dying' = Dying \cup {b}
  BY <1>1, <1>2 DEF Dying
<1>4. ASSUME StackDistinct, b \notin Dying PROVE StackDistinct'
  BY <1>1, <1>2, <1>4 DEF StackDistinct, Dying
<1> QED
  BY <1>1, <1>3, <1>4

\* Returning from a callback removes its block from the dying ones.
LEMMA Pop ==
  ASSUME stack \in Seq(Block), stack # <<>>,
         stack' = SubSeq(stack, 1, Len(stack) - 1)
  PROVE  /\ stack' \in Seq(Block)
         /\ Top \in Dying /\ Top \in Block
         /\ StackDistinct => StackDistinct' /\ Dying' = Dying \ {Top}
<1>1. Len(stack) \in Nat \ {0}
  OBVIOUS
<1>2. /\ stack' \in Seq(Block) /\ Len(stack') = Len(stack) - 1
      /\ \A i \in 1 .. Len(stack) - 1 : stack'[i] = stack[i]
  BY FrontOfSeq
<1>3. Top \in Dying /\ Top \in Block
  BY <1>1 DEF Top, Dying
<1>4. ASSUME StackDistinct PROVE StackDistinct' /\ Dying' = Dying \ {Top}
  BY <1>1, <1>2, <1>4 DEF StackDistinct, Dying, Top
<1> QED
  BY <1>2, <1>3, <1>4

----------------------------------------------------------------------------
(* The number of owners of a block when one pointer changes.               *)

\* A block has finitely many owners.
LEMMA OwnersFinite ==
  \A b : IsFiniteSet(Owners(b)) /\ Cardinality(Owners(b)) \in Nat
<1>1. IsFiniteSet(Holder)
  BY MemPoolAssumption, FS_Union DEF Holder
<1> QED
  BY <1>1, FS_Subset, FS_CardinalityType DEF Owners

\* Assigning a pointer leaves the owners of other blocks alone.
LEMMA OwnersSame ==
  ASSUME NEW b, NEW h \in Holder, ref[h] # b, ref'[h] # b,
         \A g \in Holder \ {h} : ref'[g] = ref[g]
  PROVE  Owners(b)' = Owners(b)
BY DEF Owners

\* A pointer set to a block is one more owner of it.
LEMMA OwnersGain ==
  ASSUME NEW b, NEW h \in Holder, ref[h] # b, ref'[h] = b,
         \A g \in Holder \ {h} : ref'[g] = ref[g]
  PROVE  Cardinality(Owners(b)') = Cardinality(Owners(b)) + 1
<1>1. Owners(b)' = Owners(b) \cup {h} /\ h \notin Owners(b)
  BY DEF Owners
<1> QED
  BY <1>1, OwnersFinite, FS_AddElement

\* A pointer that leaves a block is one owner less of it.
LEMMA OwnersLose ==
  ASSUME NEW b, NEW h \in Holder, ref[h] = b, ref'[h] # b,
         \A g \in Holder \ {h} : ref'[g] = ref[g]
  PROVE  Cardinality(Owners(b)') = Cardinality(Owners(b)) - 1
<1>1. Owners(b)' = Owners(b) \ {h} /\ h \in Owners(b)
  BY DEF Owners
<1> QED
  BY <1>1, OwnersFinite, FS_RemoveElement

\* A block without owners is nobody's.
LEMMA OwnersNone ==
  ASSUME NEW b, Cardinality(Owners(b)) = 0
  PROVE  \A h \in Holder : ref[h] # b
<1>1. Owners(b) = {}
  BY OwnersFinite, FS_EmptySet
<1> QED
  BY <1>1 DEF Owners

\* The pointer to a block with one owner is that owner.
LEMMA SoleOwner ==
  ASSUME NEW b, NEW h \in Holder, ref[h] = b, Cardinality(Owners(b)) = 1
  PROVE  \A g \in Holder \ {h} : ref[g] # b
<1>1. h \in Owners(b)
  BY DEF Owners
<1>2. Cardinality(Owners(b) \ {h}) = 0 /\ IsFiniteSet(Owners(b) \ {h})
  BY <1>1, OwnersFinite, FS_RemoveElement
<1>3. Owners(b) \ {h} = {}
  BY <1>2, FS_EmptySet
<1> QED
  BY <1>3 DEF Owners

\* A block nobody points to has a count of zero.
LEMMA OwnersEmpty ==
  ASSUME NEW b, \A h \in Holder : ref[h] # b
  PROVE  Cardinality(Owners(b)) = 0
<1>1. Owners(b) = {}
  BY DEF Owners
<1> QED
  BY <1>1, FS_EmptySet
----------------------------------------------------------------------------
(* Each action keeps the inductive invariant.  In every lemma the actor is *)
(* h and the block whose count changes is b.                               *)

\* mgn_mem_alloc keeps the invariant.
LEMMA AllocInv ==
  ASSUME IInv, NEW h \in Holder, NEW b \in Block, NEW s \in Size,
         NEW o \in BOOLEAN, Alloc(h, b, s, o)
  PROVE  IInv'
<1> USE DEF IInv
<1>1. pool[b] = Null /\ b \notin Dying /\ ref[h] = Null
  BY DEF Alloc, PooledAreLive, Pooled, Unused
<1>0. /\ NewMemory(s) \in Memory /\ NewMemory(s) # Null
      /\ NewContent(o) \in Content /\ NewContent(o) # Null
  BY NewEntries
<1>2. \A g \in Holder : ref[g] # b
  BY <1>1, MemPoolAssumption DEF NoDangling, Pooled
<1>3. TypeOK'
  BY <1>0 DEF TypeOK, Alloc
<1>4. Dying' = Dying /\ StackDistinct'
  BY DEF Alloc, Dying, StackDistinct
<1>5. NoDangling'
  BY <1>0, <1>1, <1>4 DEF NoDangling, Alloc, Pooled, TypeOK
<1>6. CountsAreOwners'
  <2>1. Cardinality(Owners(b)') = 1
    BY <1>2, OwnersGain, OwnersEmpty DEF Alloc, TypeOK
  <2>2. \A c \in Block \ {b} : Owners(c)' = Owners(c)
    BY <1>1, OwnersSame, MemPoolAssumption DEF Alloc, TypeOK
  <2> QED
    BY <2>1, <2>2 DEF CountsAreOwners, Alloc, Pooled, TypeOK, NewMemory
<1>7. PooledAreLive'
  BY <1>0 DEF PooledAreLive, Alloc, Pooled, TypeOK
<1>8. RanIffDying' /\ (Dying \subseteq Unused)'
  BY <1>1, <1>4 DEF RanIffDying, Alloc, TypeOK, NewContent, Unused, Pooled
<1> QED
  BY <1>3, <1>4, <1>5, <1>6, <1>7, <1>8
\* ralloc by a sole owner keeps the invariant.
LEMMA RallocSoleInv ==
  ASSUME IInv, NEW h \in Holder, NEW b \in Block, NEW c \in Block,
         NEW s \in Size, RallocSole(h, b, c, s)
  PROVE  IInv'
<1> USE DEF IInv
<1> DEFINE moved == [pool[b] EXCEPT !.size = s]
<1>1. /\ pool[b] # Null /\ heap[b] # Null /\ b \notin Dying
      /\ ref[h] = b /\ heap[c] = Null /\ b # c
  BY DEF RallocSole, Growing
<1>2. /\ moved \in Memory /\ moved # Null /\ moved.r = 1
      /\ NewContent(FALSE) \in Content /\ NewContent(FALSE) # Null
  <2>1. moved \in Memory /\ moved.r = 1
    BY <1>1, PooledType DEF RallocSole, Memory
  <2> QED
    BY <2>1, NewEntries, MemPoolAssumption
<1> HIDE DEF moved
<1>3. /\ pool[c] = Null /\ c \notin Dying
      /\ \A g \in Holder : ref[g] # c
  BY <1>1, MemPoolAssumption DEF PooledAreLive, NoDangling, Pooled, Unused
<1>4. \A g \in Holder \ {h} : ref[g] # b
  <2>1. Cardinality(Owners(b)) = 1
    BY <1>1 DEF CountsAreOwners, RallocSole, Pooled
  <2> QED
    BY <1>1, <2>1, SoleOwner
<1>5. pool' = [pool EXCEPT ![b] = Null, ![c] = moved]
  BY DEF RallocSole, moved
<1>6. TypeOK'
  BY <1>2, <1>5 DEF TypeOK, RallocSole
<1>7. Dying' = Dying /\ StackDistinct'
  BY DEF RallocSole, Dying, StackDistinct
<1>8. NoDangling'
  BY <1>1, <1>2, <1>3, <1>4, <1>5, <1>7 DEF NoDangling, RallocSole, Pooled, TypeOK
<1>9. CountsAreOwners'
  <2>1. Cardinality(Owners(c)') = 1
    BY <1>1, <1>3, OwnersGain, OwnersEmpty DEF RallocSole, TypeOK
  <2>2. \A d \in Block \ {b, c} : Owners(d)' = Owners(d)
    BY <1>1, OwnersSame DEF RallocSole, TypeOK
  <2>3. \A d \in Block \ {b, c} : pool'[d] = pool[d]
    BY <1>5 DEF TypeOK
  <2>4. pool'[b] = Null /\ pool'[c] = moved
    BY <1>1, <1>5 DEF TypeOK
  <2> QED
    BY <1>2, <2>1, <2>2, <2>3, <2>4 DEF CountsAreOwners, Pooled
<1>10. PooledAreLive'
  BY <1>1, <1>2, <1>5 DEF PooledAreLive, RallocSole, Pooled, TypeOK
<1>11. RanIffDying' /\ (Dying \subseteq Unused)'
  <2>1. RanIffDying'
    BY <1>3, <1>7 DEF RanIffDying, RallocSole, TypeOK, NewContent
  <2>2. \A d \in Dying : pool'[d] = pool[d]
    BY <1>1, <1>3, <1>5 DEF TypeOK, Dying
  <2> QED
    BY <1>7, <2>1, <2>2 DEF Unused, Pooled
<1> QED
  BY <1>6, <1>7, <1>8, <1>9, <1>10, <1>11

\* A failing ralloc by a sole owner keeps the invariant, though it leaks.
LEMMA RallocSoleFailsInv ==
  ASSUME IInv, NEW h \in Holder, NEW b \in Block, NEW s \in Size,
         RallocSoleFails(h, b, s)
  PROVE  IInv'
<1> USE DEF IInv
<1>1. pool[b] # Null /\ b \notin Dying /\ ref[h] = b
  BY DEF RallocSoleFails, Growing
<1>2. \A g \in Holder \ {h} : ref[g] # b
  <2>1. Cardinality(Owners(b)) = 1
    BY <1>1 DEF CountsAreOwners, RallocSoleFails, Pooled
  <2> QED
    BY <1>1, <2>1, SoleOwner
<1>3. TypeOK'
  BY DEF TypeOK, RallocSoleFails
<1>4. Dying' = Dying /\ StackDistinct'
  BY DEF RallocSoleFails, Dying, StackDistinct
<1>5. NoDangling'
  BY <1>1, <1>2, <1>4 DEF NoDangling, RallocSoleFails, Pooled, TypeOK
<1>6. CountsAreOwners'
  <2>1. \A d \in Block \ {b} : Owners(d)' = Owners(d)
    BY <1>1, OwnersSame, MemPoolAssumption DEF RallocSoleFails, TypeOK
  <2> QED
    BY <2>1 DEF CountsAreOwners, RallocSoleFails, Pooled, TypeOK
<1>7. PooledAreLive' /\ RanIffDying' /\ (Dying \subseteq Unused)'
  BY <1>1, <1>4 DEF PooledAreLive, RanIffDying, RallocSoleFails, Pooled, Unused, TypeOK
<1> QED
  BY <1>3, <1>4, <1>5, <1>6, <1>7

\* What a count given up by ralloc means for the owners of b: h owned it, or
\* the block was unused and its count stays zero.
LEMMA GiveUpCount ==
  ASSUME IInv, NEW h \in Holder, NEW b \in Block, pool[b] # Null,
         ref[h] = b \/ (ref[h] = Null /\ pool[b].r = 0),
         ref'[h] # b, \A g \in Holder \ {h} : ref'[g] = ref[g]
  PROVE  /\ GiveUp(b) \in Memory /\ GiveUp(b) # Null
         /\ GiveUp(b).r = Cardinality(Owners(b)')
         /\ pool[b].r = 0 => GiveUp(b).r = 0
<1> USE DEF IInv
<1>1. pool[b] \in Memory /\ pool[b].r = Cardinality(Owners(b)) /\ pool[b].r \in Nat
  BY PooledType DEF CountsAreOwners, Pooled
<1>2. GiveUp(b) \in Memory /\ GiveUp(b).r = IF pool[b].r > 0 THEN pool[b].r - 1 ELSE 0
  BY <1>1 DEF GiveUp, Memory
<1>3. CASE ref[h] = b
  <2>1. pool[b].r > 0
    BY <1>1, <1>3, OwnersNone
  <2>2. Cardinality(Owners(b)') = Cardinality(Owners(b)) - 1
    BY <1>3, OwnersLose
  <2> QED
    BY <1>1, <1>2, <2>1, <2>2, MemPoolAssumption
<1>4. CASE ref[h] = Null /\ pool[b].r = 0
  <2>1. Owners(b)' = Owners(b)
    BY <1>4, OwnersSame, MemPoolAssumption
  <2>2. GiveUp(b).r = Cardinality(Owners(b)) /\ GiveUp(b).r = 0
    BY <1>1, <1>2, <1>4
  <2> QED
    BY <1>2, <2>1, <2>2, MemPoolAssumption
<1> QED
  BY <1>3, <1>4

\* ralloc by one of several owners, or of an unused block, keeps it.
LEMMA RallocSharedInv ==
  ASSUME IInv, NEW h \in Holder, NEW b \in Block, NEW c \in Block,
         NEW s \in Size, RallocShared(h, b, c, s)
  PROVE  IInv'
<1> USE DEF IInv
<1>1. /\ pool[b] # Null /\ heap[b] # Null /\ b \notin Dying
      /\ ref[h] = b \/ (ref[h] = Null /\ pool[b].r = 0)
      /\ heap[c] = Null /\ b # c
  BY DEF RallocShared, Growing
<1>2. /\ pool[c] = Null /\ c \notin Dying
      /\ \A g \in Holder : ref[g] # c
  BY <1>1, MemPoolAssumption DEF PooledAreLive, NoDangling, Pooled, Unused
<1>3. /\ NewMemory(s) \in Memory /\ NewMemory(s) # Null /\ NewMemory(s).r = 1
      /\ NewContent(FALSE) \in Content /\ NewContent(FALSE) # Null
  BY NewEntries DEF NewMemory
<1>4. ref'[h] = c /\ \A g \in Holder \ {h} : ref'[g] = ref[g]
  BY DEF RallocShared, TypeOK
<1>5. /\ GiveUp(b) \in Memory /\ GiveUp(b) # Null
      /\ GiveUp(b).r = Cardinality(Owners(b)')
  BY <1>1, <1>4, GiveUpCount
<1>6. /\ pool'[b] = GiveUp(b) /\ pool'[c] = NewMemory(s)
      /\ \A d \in Block \ {b, c} : pool'[d] = pool[d]
  BY <1>1 DEF RallocShared, TypeOK
<1>7. TypeOK'
  BY <1>3, <1>5 DEF TypeOK, RallocShared
<1>8. Dying' = Dying /\ StackDistinct'
  BY DEF RallocShared, Dying, StackDistinct
<1>9. NoDangling'
  BY <1>2, <1>3, <1>4, <1>5, <1>6, <1>8 DEF NoDangling, Pooled
<1>10. CountsAreOwners'
  <2>1. Cardinality(Owners(c)') = 1
    BY <1>2, <1>4, OwnersGain, OwnersEmpty
  <2>2. \A d \in Block \ {b, c} : Owners(d)' = Owners(d)
    BY <1>1, <1>4, OwnersSame, MemPoolAssumption
  <2> QED
    BY <1>3, <1>5, <1>6, <2>1, <2>2 DEF CountsAreOwners, Pooled
<1>11. PooledAreLive'
  BY <1>1, <1>3, <1>6 DEF PooledAreLive, RallocShared, Pooled, TypeOK
<1>12. RanIffDying' /\ (Dying \subseteq Unused)'
  <2>1. RanIffDying'
    BY <1>2, <1>8 DEF RanIffDying, RallocShared, TypeOK, NewContent
  <2>2. \A d \in Dying : d \in Block /\ pool'[d] = pool[d]
    BY <1>1, <1>2, <1>6 DEF Unused, Pooled
  <2> QED
    BY <1>8, <2>1, <2>2 DEF Unused, Pooled
<1> QED
  BY <1>7, <1>8, <1>9, <1>10, <1>11, <1>12

\* An action that leaves heap and stack alone and changes the count of one
\* pooled block b that is not dying, together with one of its owners.
LEMMA CountStep ==
  ASSUME IInv, NEW h \in Holder, NEW b \in Block, NEW m \in Memory,
         pool[b] # Null, b \notin Dying,
         pool' = [pool EXCEPT ![b] = m],
         NEW x \in {b, Null}, ref' = [ref EXCEPT ![h] = x],
         ref[h] \in {b, Null},
         m.r = Cardinality(Owners(b)'),
         UNCHANGED <<heap, stack>>, drain' \in DrainState
  PROVE  IInv'
<1> USE DEF IInv
<1>1. m # Null
  BY MemPoolAssumption
<1>2. /\ pool'[b] = m
      /\ \A d \in Block \ {b} : pool'[d] = pool[d]
      /\ ref'[h] = x /\ \A g \in Holder \ {h} : ref'[g] = ref[g]
  BY DEF TypeOK
<1>3. TypeOK'
  BY DEF TypeOK
<1>4. Dying' = Dying /\ StackDistinct'
  BY DEF Dying, StackDistinct
<1>5. NoDangling'
  BY <1>1, <1>2, <1>4 DEF NoDangling, Pooled
<1>6. CountsAreOwners'
  <2>1. \A d \in Block \ {b} : Owners(d)' = Owners(d)
    BY <1>2, OwnersSame, MemPoolAssumption
  <2> QED
    BY <1>2, <2>1 DEF CountsAreOwners, Pooled
<1>7. PooledAreLive' /\ RanIffDying'
  BY <1>2, <1>4 DEF PooledAreLive, RanIffDying, Pooled
<1>8. (Dying \subseteq Unused)'
  <2>1. \A d \in Dying : d \in Block /\ pool'[d] = pool[d]
    BY <1>2 DEF Unused, Pooled
  <2> QED
    BY <1>4, <2>1 DEF Unused, Pooled
<1> QED
  BY <1>3, <1>4, <1>5, <1>6, <1>7, <1>8

\* A failing ralloc by one of several owners keeps it.
LEMMA RallocSharedFailsInv ==
  ASSUME IInv, NEW h \in Holder, NEW b \in Block, NEW s \in Size,
         RallocSharedFails(h, b, s)
  PROVE  IInv'
<1> USE DEF IInv
<1>1. /\ pool[b] # Null /\ b \notin Dying
      /\ ref[h] = b \/ (ref[h] = Null /\ pool[b].r = 0)
  BY DEF RallocSharedFails, Growing
<1>2. ref'[h] = Null /\ \A g \in Holder \ {h} : ref'[g] = ref[g]
  BY DEF RallocSharedFails, TypeOK
<1>3. GiveUp(b) \in Memory /\ GiveUp(b).r = Cardinality(Owners(b)')
  BY <1>1, <1>2, GiveUpCount, MemPoolAssumption
<1> QED
  BY <1>1, <1>3, CountStep DEF RallocSharedFails, TypeOK

\* mgn_mem_retain keeps the invariant.
LEMMA RetainInv ==
  ASSUME IInv, NEW h \in Holder, NEW b \in Block, Retain(h, b)
  PROVE  IInv'
<1> USE DEF IInv
<1> DEFINE m == [pool[b] EXCEPT !.r = @ + 1]
<1>1. pool[b] # Null /\ b \notin Dying /\ ref[h] = Null
  BY DEF Retain
<1>2. m \in Memory /\ m.r = pool[b].r + 1
  BY <1>1, PooledType DEF Memory
<1>3. pool' = [pool EXCEPT ![b] = m]
  BY DEF Retain
<1> HIDE DEF m
<1>4. Cardinality(Owners(b)') = Cardinality(Owners(b)) + 1
  BY <1>1, OwnersGain, MemPoolAssumption DEF Retain, TypeOK
<1>5. m.r = Cardinality(Owners(b)')
  BY <1>1, <1>2, <1>4 DEF CountsAreOwners, Pooled
<1> QED
  BY <1>1, <1>2, <1>3, <1>5, CountStep DEF Retain, TypeOK

\* What every release knows of its block and of the owners after it.
LEMMA ReleasingFacts ==
  ASSUME IInv, NEW h \in Holder, Releasing(h), NEW b, b = ref[h]
  PROVE  /\ b \in Block /\ b # Null
         /\ pool[b] # Null /\ heap[b] # Null
         /\ b \notin Dying
         /\ heap[b].obj \in BOOLEAN
         /\ Decremented(b) \in Memory
         /\ Decremented(b).r = pool[b].r - 1
<1> USE DEF IInv
<1>1. /\ b \in Block /\ b # Null
      /\ pool[b] # Null /\ heap[b] # Null
      /\ b \notin Dying
  BY DEF Releasing, TypeOK, NoDangling, PooledAreLive, Pooled
<1>2. pool[b] \in Memory /\ pool[b].r \in Nat /\ pool[b].r > 0
  BY <1>1, PooledType DEF Releasing
<1>3. heap[b].obj \in BOOLEAN
  BY <1>1, LiveType
<1>4. \A n \in Nat, o \in BOOLEAN :
        LET m == [pool[b] EXCEPT !.r = n, !.cb = o]
        IN  m \in Memory /\ m.r = n
  BY <1>2 DEF Memory
<1>5. pool[b].r - 1 \in Nat
  BY <1>2
<1>6. /\ Decremented(b) \in Memory
      /\ Decremented(b).r = pool[b].r - 1
  BY <1>3, <1>4, <1>5 DEF Decremented
<1> QED
  BY <1>1, <1>3, <1>6

\* The owner that releases is one less, also for the block of h itself.
LEMMA ReleasedCount ==
  ASSUME IInv, NEW h \in Holder, Releasing(h), NEW b, b = ref[h],
         ref' = [ref EXCEPT ![h] = Null]
  PROVE  /\ Decremented(b).r = Cardinality(Owners(b)')
         /\ IsLast(b) => \A g \in Holder : ref'[g] # b
<1> USE DEF IInv
<1>1. b \in Block /\ b # Null /\ Decremented(b).r = pool[b].r - 1 /\ pool[b] # Null
  BY ReleasingFacts
<1>2. ref'[h] = Null /\ \A g \in Holder \ {h} : ref'[g] = ref[g]
  BY DEF TypeOK
<1>3. pool[b].r = Cardinality(Owners(b))
  BY <1>1 DEF CountsAreOwners, Pooled
<1>4. Cardinality(Owners(b)') = Cardinality(Owners(b)) - 1
  BY <1>1, <1>2, OwnersLose
<1>5. ASSUME IsLast(b) PROVE \A g \in Holder : ref'[g] # b
  <2>1. \A g \in Holder \ {h} : ref[g] # b
    BY <1>3, <1>5, SoleOwner DEF IsLast
  <2> QED
    BY <1>1, <1>2, <2>1
<1> QED
  BY <1>1, <1>3, <1>4, <1>5

\* A release while other owners remain keeps the invariant.
LEMMA ReleaseOneInv ==
  ASSUME IInv, NEW h \in Holder, ReleaseOne(h)
  PROVE  IInv'
<1> USE DEF IInv
<1>1. PICK b : b = ref[h]
  OBVIOUS
<1>2. Releasing(h) /\ ref' = [ref EXCEPT ![h] = Null]
  BY DEF ReleaseOne
<1>3. /\ b \in Block /\ pool[b] # Null /\ b \notin Dying
      /\ Decremented(b) \in Memory
      /\ Decremented(b).r = Cardinality(Owners(b)')
  BY <1>1, <1>2, ReleasingFacts, ReleasedCount
<1> QED
  BY <1>1, <1>2, <1>3, CountStep DEF ReleaseOne, TypeOK

\* mgn_mem_autorelease of the last count keeps the invariant.
LEMMA AutoreleaseLastInv ==
  ASSUME IInv, NEW h \in Holder, AutoreleaseLast(h)
  PROVE  IInv'
<1> USE DEF IInv
<1>1. PICK b : b = ref[h]
  OBVIOUS
<1>2. Releasing(h) /\ ref' = [ref EXCEPT ![h] = Null]
  BY DEF AutoreleaseLast
<1>3. /\ b \in Block /\ pool[b] # Null /\ b \notin Dying
      /\ Decremented(b) \in Memory
      /\ Decremented(b).r = Cardinality(Owners(b)')
  BY <1>1, <1>2, ReleasingFacts, ReleasedCount
<1>4. drain' \in DrainState
  BY DEF AutoreleaseLast, TypeOK, DrainState
<1> QED
  BY <1>1, <1>2, <1>3, <1>4, CountStep DEF AutoreleaseLast

\* HASH_DEL and free of a block nobody owns; what is on the stack afterwards
\* was on it before, and is another block.
LEMMA ReclaimStep ==
  ASSUME IInv, NEW b \in Block, Reclaim(b),
         \A g \in Holder : ref'[g] # b,
         \A d \in Block \ {b} : Owners(d)' = Owners(d),
         ref' \in [Holder -> Block \cup {Null}],
         \A g \in Holder : ref'[g] # Null => ref'[g] = ref[g],
         stack' \in Seq(Block), Dying' = Dying \ {b}, StackDistinct',
         drain' \in DrainState
  PROVE  IInv'
<1> USE DEF IInv
<1>1. /\ pool'[b] = Null /\ \A d \in Block \ {b} : pool'[d] = pool[d]
      /\ heap'[b] = Null /\ \A d \in Block \ {b} : heap'[d] = heap[d]
  BY DEF Reclaim, TypeOK
<1>2. TypeOK'
  BY DEF TypeOK, Reclaim
<1>3. NoDangling'
  BY <1>1 DEF NoDangling, Pooled
<1>4. CountsAreOwners'
  BY <1>1 DEF CountsAreOwners, Pooled
<1>5. PooledAreLive' /\ RanIffDying'
  BY <1>1 DEF PooledAreLive, RanIffDying, Pooled
<1>6. (Dying \subseteq Unused)'
  BY <1>1 DEF Unused, Pooled
<1> QED
  BY <1>2, <1>3, <1>4, <1>5, <1>6

\* mgn_mem_release of the last count of plain memory keeps it.
LEMMA ReleaseLastInv ==
  ASSUME IInv, NEW h \in Holder, ReleaseLast(h)
  PROVE  IInv'
<1> USE DEF IInv
<1>1. PICK b : b = ref[h]
  OBVIOUS
<1>2. /\ Releasing(h) /\ IsLast(b) /\ Reclaim(b)
      /\ ref' = [ref EXCEPT ![h] = Null]
      /\ UNCHANGED <<stack, drain>>
  BY <1>1 DEF ReleaseLast
<1>3. b \in Block /\ b # Null /\ b \notin Dying
  BY <1>1, <1>2, ReleasingFacts
<1>4. \A g \in Holder : ref'[g] # b
  BY <1>1, <1>2, ReleasedCount
<1>5. \A d \in Block \ {b} : Owners(d)' = Owners(d)
  BY <1>1, <1>2, OwnersSame, MemPoolAssumption DEF TypeOK
<1>6. /\ ref' \in [Holder -> Block \cup {Null}]
      /\ \A g \in Holder : ref'[g] # Null => ref'[g] = ref[g]
  BY <1>2 DEF TypeOK
<1>7. stack' \in Seq(Block) /\ Dying' = Dying \ {b} /\ StackDistinct'
  BY <1>2, <1>3 DEF TypeOK, Dying, StackDistinct
<1> QED
  BY <1>2, <1>3, <1>4, <1>5, <1>6, <1>7, ReclaimStep DEF TypeOK

\* The frees after a callback keep the invariant.
LEMMA ReturnInv ==
  ASSUME IInv, Return
  PROVE  IInv'
<1> USE DEF IInv
<1>1. PICK b : b = Top
  OBVIOUS
<1>2. /\ stack # <<>> /\ Reclaim(b) /\ UNCHANGED <<ref, drain>>
      /\ stack' = SubSeq(stack, 1, Len(stack) - 1)
  BY <1>1 DEF Return, InCallback
<1>3. /\ b \in Dying /\ b \in Block
      /\ stack' \in Seq(Block) /\ Dying' = Dying \ {b} /\ StackDistinct'
  BY <1>1, <1>2, Pop DEF TypeOK
<1>4. \A g \in Holder : ref'[g] # b
  BY <1>2, <1>3, MemPoolAssumption DEF NoDangling
<1>5. \A d \in Block \ {b} : Owners(d)' = Owners(d)
  BY <1>2 DEF Owners
<1> QED
  BY <1>2, <1>3, <1>4, <1>5, ReclaimStep DEF TypeOK

\* The callback of an unused block is entered; m is the entry as stored.
LEMMA CallbackStep ==
  ASSUME IInv, NEW b \in Block, NEW m \in Memory, m.r = 0,
         pool[b] # Null, b \notin Dying,
         pool' = [pool EXCEPT ![b] = m], EnterCallback(b),
         \A g \in Holder : ref'[g] # b,
         \A d \in Block \ {b} : Owners(d)' = Owners(d),
         ref' \in [Holder -> Block \cup {Null}],
         \A g \in Holder : ref'[g] # Null => ref'[g] = ref[g],
         drain' \in DrainState
  PROVE  IInv'
<1> USE DEF IInv
<1>1. /\ m # Null /\ pool'[b] = m
      /\ \A d \in Block \ {b} : pool'[d] = pool[d]
  BY MemPoolAssumption DEF TypeOK
<1>2. /\ heap[b] # Null /\ heap[b] \in Content /\ heap[b].ran = 0
  BY LiveType DEF PooledAreLive, RanIffDying, Pooled
<1>3. /\ heap'[b] \in Content /\ heap'[b].ran = 1 /\ heap'[b] # Null
      /\ \A d \in Block \ {b} : heap'[d] = heap[d]
  BY <1>2, MemPoolAssumption DEF EnterCallback, Content, TypeOK
<1>4. stack' \in Seq(Block) /\ Dying' = Dying \cup {b} /\ StackDistinct'
  BY Push DEF EnterCallback, TypeOK
<1>5. TypeOK'
  BY <1>3, <1>4 DEF TypeOK, EnterCallback
<1>6. NoDangling'
  BY <1>1, <1>4 DEF NoDangling, Pooled
<1>7. CountsAreOwners'
  <2>1. Cardinality(Owners(b)') = 0
    <3>1. Owners(b)' = {}
      BY DEF Owners
    <3> QED
      BY <3>1, FS_EmptySet
  <2> QED
    BY <1>1, <2>1 DEF CountsAreOwners, Pooled
<1>8. PooledAreLive' /\ RanIffDying'
  BY <1>1, <1>3, <1>4 DEF PooledAreLive, RanIffDying, Pooled
<1>9. (Dying \subseteq Unused)'
  BY <1>1, <1>4 DEF Unused, Pooled
<1> QED
  BY <1>4, <1>5, <1>6, <1>7, <1>8, <1>9

\* mgn_mem_release_w_cb of the last count of an object keeps it.
LEMMA ReleaseObjectInv ==
  ASSUME IInv, NEW h \in Holder, ReleaseObject(h)
  PROVE  IInv'
<1> USE DEF IInv
<1>1. PICK b : b = ref[h]
  OBVIOUS
<1>2. /\ Releasing(h) /\ IsLast(b) /\ EnterCallback(b)
      /\ pool' = [pool EXCEPT ![b] = Decremented(b)]
      /\ ref' = [ref EXCEPT ![h] = Null] /\ UNCHANGED drain
  BY <1>1 DEF ReleaseObject
<1>3. /\ b \in Block /\ pool[b] # Null /\ b \notin Dying
      /\ Decremented(b) \in Memory /\ Decremented(b).r = 0
  BY <1>1, <1>2, ReleasingFacts DEF IsLast
<1>4. \A g \in Holder : ref'[g] # b
  BY <1>1, <1>2, ReleasedCount
<1>5. \A d \in Block \ {b} : Owners(d)' = Owners(d)
  BY <1>1, <1>2, OwnersSame, MemPoolAssumption DEF TypeOK
<1>6. /\ ref' \in [Holder -> Block \cup {Null}]
      /\ \A g \in Holder : ref'[g] # Null => ref'[g] = ref[g]
  BY <1>2 DEF TypeOK
<1> QED
  BY <1>2, <1>3, <1>4, <1>5, <1>6, CallbackStep DEF TypeOK

\* Steps that change the loop state of a drain and nothing else.
LEMMA OnlyDrain ==
  ASSUME IInv, UNCHANGED <<pool, heap, ref, stack>>, drain' \in DrainState
  PROVE  IInv'
<1> USE DEF IInv
<1>1. Dying' = Dying /\ StackDistinct' /\ TypeOK'
  BY DEF Dying, StackDistinct, TypeOK
<1>2. \A b : Owners(b)' = Owners(b)
  BY DEF Owners
<1>3. Pooled' = Pooled /\ Unused' = Unused
  BY DEF Pooled, Unused
<1>4. NoDangling' /\ CountsAreOwners' /\ PooledAreLive' /\ RanIffDying'
  BY <1>1, <1>2, <1>3 DEF NoDangling, CountsAreOwners, PooledAreLive, RanIffDying
<1> QED
  BY <1>1, <1>3, <1>4

\* Each visit of mgn_mem_release_unused keeps the invariant.
LEMMA DrainVisitInv ==
  ASSUME IInv, NEW b \in Block, DrainVisit(b)
  PROVE  IInv'
<1> USE DEF IInv
<1>1. drain' \in DrainState /\ ref' = ref /\ stack = <<>>
  BY DEF DrainVisit, TypeOK, DrainState, InCallback
<1>2. Dying = {}
  BY <1>1 DEF Dying
<1>3. CASE UNCHANGED <<pool, heap, stack>>
  BY <1>1, <1>3, OnlyDrain
<1>4. ASSUME b \in Unused PROVE \A g \in Holder : ref'[g] # b
  BY <1>1, <1>4, OwnersNone DEF CountsAreOwners, Unused, Pooled
<1>5. \A d : Owners(d)' = Owners(d)
  BY <1>1 DEF Owners
<1>6. CASE b \in Unused /\ Reclaim(b) /\ UNCHANGED stack
  <2>1. Dying' = Dying \ {b} /\ StackDistinct'
    BY <1>2, <1>6 DEF Dying, StackDistinct
  <2> QED
    BY <1>1, <1>4, <1>5, <1>6, <2>1, ReclaimStep DEF TypeOK
<1>7. CASE b \in Unused /\ EnterCallback(b) /\ UNCHANGED pool
  <2>1. pool[b] # Null /\ pool[b] \in Memory /\ pool[b].r = 0
    BY <1>7, PooledType DEF Unused, Pooled
  <2>2. pool' = [pool EXCEPT ![b] = pool[b]]
    BY <1>7 DEF TypeOK
  <2> QED
    BY <1>1, <1>2, <1>4, <1>5, <1>7, <2>1, <2>2, CallbackStep DEF TypeOK
<1> QED
  BY <1>3, <1>6, <1>7 DEF DrainVisit

\* A scan of the table yields a batch.
LEMMA ScanType ==
  ASSUME Scan
  PROVE  drain' \in DrainState
BY DEF Scan, DrainState, Unused, Pooled

\* mgn_mem_release_all keeps the invariant.
LEMMA ReleaseAllInv ==
  ASSUME IInv, ReleaseAll
  PROVE  IInv'
<1> USE DEF IInv
<1>1. stack = <<>> /\ stack' = <<>> /\ UNCHANGED drain
  BY DEF ReleaseAll, InCallback
<1>2. Dying = {} /\ Dying' = {} /\ StackDistinct'
  BY <1>1 DEF Dying, StackDistinct
<1>3. TypeOK'
  BY <1>1 DEF TypeOK, ReleaseAll
<1>4. NoDangling' /\ CountsAreOwners' /\ PooledAreLive' /\ (Dying \subseteq Unused)'
  BY <1>2 DEF ReleaseAll, NoDangling, CountsAreOwners, PooledAreLive, Pooled
<1>5. RanIffDying'
  BY <1>2 DEF ReleaseAll, RanIffDying
<1> QED
  BY <1>2, <1>3, <1>4, <1>5

----------------------------------------------------------------------------
\* The empty pool satisfies the invariant.
LEMMA InitInv == Init => IInv
<1> SUFFICES ASSUME Init PROVE IInv
  OBVIOUS
<1>1. TypeOK
  BY DEF Init, TypeOK, DrainState
<1>2. Dying = {} /\ StackDistinct
  BY DEF Init, Dying, StackDistinct
<1>3. NoDangling /\ CountsAreOwners /\ PooledAreLive /\ RanIffDying
  BY DEF Init, NoDangling, CountsAreOwners, PooledAreLive, RanIffDying, Pooled
<1> QED
  BY <1>1, <1>2, <1>3 DEF IInv

\* Every step of the pool keeps the invariant.
LEMMA NextInv == IInv /\ [Next]_vars => IInv'
<1> SUFFICES ASSUME IInv, [Next]_vars PROVE IInv'
  OBVIOUS
<1>1. CASE Fail
  BY <1>1, RallocSoleFailsInv, RallocSharedFailsInv DEF Fail
<1>2. CASE UNCHANGED vars
  BY <1>2, OnlyDrain DEF vars, IInv, TypeOK
<1>3. CASE Succeed
  <2>1. ASSUME NEW h \in Holder, NEW b \in Block, NEW s \in Size,
               NEW o \in BOOLEAN, Alloc(h, b, s, o)
        PROVE  IInv'
    BY <2>1, AllocInv
  <2>2. ASSUME NEW h \in Holder, NEW b \in Block, NEW c \in Block,
               NEW s \in Size, RallocSole(h, b, c, s) \/ RallocShared(h, b, c, s)
        PROVE  IInv'
    BY <2>2, RallocSoleInv, RallocSharedInv
  <2>3. ASSUME NEW h \in Holder, NEW b \in Block, Retain(h, b)
        PROVE  IInv'
    BY <2>3, RetainInv
  <2>4. ASSUME NEW h \in Holder,
               \/ ReleaseOne(h) \/ AutoreleaseLast(h)
               \/ ReleaseLast(h) \/ ReleaseObject(h)
        PROVE  IInv'
    BY <2>4, ReleaseOneInv, AutoreleaseLastInv, ReleaseLastInv, ReleaseObjectInv
  <2>5. CASE Drain
    <3>1. CASE DrainStart \/ DrainAgain
      BY <3>1, ScanType, OnlyDrain DEF DrainStart, DrainAgain
    <3>2. CASE DrainEnd
      <4>1. drain' \in DrainState
        BY <3>2 DEF DrainEnd, IInv, TypeOK, DrainState
      <4> QED
        BY <3>2, <4>1, OnlyDrain DEF DrainEnd
    <3>3. CASE \E b \in Block : DrainVisit(b)
      BY <3>3, DrainVisitInv
    <3> QED
      BY <2>5, <3>1, <3>2, <3>3 DEF Drain
  <2> QED
    BY <1>3, <2>1, <2>2, <2>3, <2>4, <2>5, ReturnInv, ReleaseAllInv DEF Succeed
<1> QED
  BY <1>1, <1>2, <1>3 DEF Next

\* The pool of plat_mgn_mem.h always satisfies the inductive invariant.
THEOREM Invariance == Spec => []IInv
BY InitInv, NextInv, PTL DEF Spec

\* The state always has its type, whatever the pool's users do.
THEOREM TypeCorrect == Spec => []TypeOK
<1>1. IInv => TypeOK
  BY DEF IInv
<1> QED
  BY <1>1, Invariance, PTL

\* No pointer that owns a count is left dangling: blocks are neither freed
\* nor moved, by release, ralloc or a drain, under one of their owners.
THEOREM OwnedMemoryStays == Spec => []NoDangling
<1>1. IInv => NoDangling
  BY DEF IInv
<1> QED
  BY <1>1, Invariance, PTL

\* The retained count of a pooled block equals the number of its owners.
THEOREM CountsAreRight == Spec => []CountsAreOwners
<1>1. IInv => CountsAreOwners
  BY DEF IInv
<1> QED
  BY <1>1, Invariance, PTL

\* Nested releases and drains never free a block under its running callback
\* and never enter the callback of a block a second time.
THEOREM CallbacksRunOnce == Spec => []DyingStayPooled
<1>1. IInv => DyingStayPooled
  BY DEF IInv, DyingStayPooled, StackDistinct, RanIffDying
<1> QED
  BY <1>1, Invariance, PTL

\* Every block of the table is live memory.
THEOREM PooledMemoryIsLive == Spec => []PooledAreLive
<1>1. IInv => PooledAreLive
  BY DEF IInv
<1> QED
  BY <1>1, Invariance, PTL

----------------------------------------------------------------------------
(* What no step of MemPool may do, for every number of blocks, pointers,   *)
(* sizes and batch length: lose memory without a failing malloc, or free   *)
(* an object whose destructor has not run.                                 *)

\* An unused object keeps the callback its last release stored: IInv does not
\* say so, and a drain frees without a callback whatever has none.
WillCallBack == \A b \in Block : IsObject(b) /\ pool[b].r = 0 => pool[b].cb

\* The part of WillCallBack that speaks of one block.
Armed(b) == IsObject(b) /\ pool[b].r = 0 => pool[b].cb

----------------------------------------------------------------------------
(* The blocks a step leaves alone stay armed, and so does one whose entry  *)
(* it writes with the callback, with a count, or for plain memory.         *)

LEMMA UntouchedArmed ==
  ASSUME NEW b \in Block, Armed(b), pool'[b] = pool[b],
         heap'[b] # Null => heap[b] # Null /\ heap'[b].obj = heap[b].obj
  PROVE  Armed(b)'
BY DEF Armed, IsObject

LEMMA PlainArmed ==
  ASSUME NEW b \in Block, heap'[b] = Null \/ heap'[b].obj = FALSE
  PROVE  Armed(b)'
BY DEF Armed, IsObject

LEMMA CountedArmed ==
  ASSUME NEW b \in Block, pool'[b] = Null \/ pool'[b].r # 0 \/ pool'[b].cb
  PROVE  Armed(b)'
BY DEF Armed, IsObject

\* The block that loses a count, given its new entry.
LEMMA DecrementedArmed ==
  ASSUME TypeOK, NEW b \in Block, pool[b] # Null, heap[b] # Null,
         pool'[b] = Decremented(b), heap'[b] # Null => heap'[b].obj = heap[b].obj
  PROVE  Armed(b)'
<1>1. pool'[b].cb = heap[b].obj
  BY PooledType DEF Decremented, Memory
<1> QED
  BY <1>1 DEF Armed, IsObject

----------------------------------------------------------------------------
(* The actions.                                                            *)

\* mgn_mem_alloc and mgn_mem_ralloc, failing ones too, keep objects armed.
LEMMA AllocationArmed ==
  ASSUME IInv, NEW d \in Block, Armed(d),
         \/ \E h \in Holder, b \in Block, s \in Size, o \in BOOLEAN : Alloc(h, b, s, o)
         \/ \E h \in Holder, b, c \in Block, s \in Size :
              RallocSole(h, b, c, s) \/ RallocShared(h, b, c, s)
         \/ Fail
  PROVE  Armed(d)'
<1> USE DEF IInv
<1>1. ASSUME NEW h \in Holder, NEW b \in Block, NEW s \in Size, NEW o \in BOOLEAN,
             Alloc(h, b, s, o)
      PROVE  Armed(d)'
  <2>1. CASE d = b
    <3>1. pool'[d] = NewMemory(s)
      BY <1>1, <2>1 DEF Alloc, TypeOK
    <3> QED
      BY <3>1, CountedArmed DEF NewMemory
  <2>2. CASE d # b
    BY <1>1, <2>2, UntouchedArmed DEF Alloc, TypeOK
  <2> QED
    BY <2>1, <2>2
<1>2. ASSUME NEW h \in Holder, NEW b \in Block, NEW c \in Block, NEW s \in Size,
             RallocSole(h, b, c, s) \/ RallocShared(h, b, c, s)
      PROVE  Armed(d)'
  <2>1. heap[b] # Null /\ ~heap[b].obj /\ b # c
    BY <1>2 DEF RallocSole, RallocShared, Growing
  <2>2. heap[b].obj = FALSE
    BY <2>1, LiveType
  <2>3. CASE d = c
    <3>1. heap'[d].obj = FALSE
      BY <1>2, <2>3 DEF RallocSole, RallocShared, TypeOK, NewContent
    <3> QED
      BY <3>1, PlainArmed
  <2>4. CASE d = b
    <3>1. heap'[d] = Null \/ heap'[d] = heap[d]
      BY <1>2, <2>1, <2>4 DEF RallocSole, RallocShared, TypeOK
    <3> QED
      BY <2>2, <2>4, <3>1, PlainArmed
  <2>5. CASE d # b /\ d # c
    BY <1>2, <2>5, UntouchedArmed DEF RallocSole, RallocShared, TypeOK
  <2> QED
    BY <2>3, <2>4, <2>5
<1>3. ASSUME NEW h \in Holder, NEW b \in Block, NEW s \in Size,
             RallocSoleFails(h, b, s) \/ RallocSharedFails(h, b, s)
      PROVE  Armed(d)'
  <2>1. heap' = heap /\ heap[b] # Null /\ ~heap[b].obj
    BY <1>3 DEF RallocSoleFails, RallocSharedFails, Growing
  <2>2. heap[b].obj = FALSE
    BY <2>1, LiveType
  <2>3. CASE d = b
    BY <2>1, <2>2, <2>3, PlainArmed
  <2>4. CASE d # b
    BY <1>3, <2>1, <2>4, UntouchedArmed DEF RallocSoleFails, RallocSharedFails, TypeOK
  <2> QED
    BY <2>3, <2>4
<1> QED
  BY <1>1, <1>2, <1>3 DEF Fail

\* Retaining and the four releases keep objects armed: each stores the callback.
LEMMA CountingArmed ==
  ASSUME IInv, NEW d \in Block, Armed(d), NEW h \in Holder,
         \/ \E b \in Block : Retain(h, b)
         \/ ReleaseOne(h) \/ AutoreleaseLast(h)
         \/ ReleaseLast(h) \/ ReleaseObject(h)
  PROVE  Armed(d)'
<1> USE DEF IInv
<1>1. ASSUME NEW b \in Block, Retain(h, b) PROVE Armed(d)'
  <2>1. pool[b] \in Memory /\ pool[b].r \in Nat /\ heap' = heap
    BY <1>1, PooledType DEF Retain
  <2>2. CASE d = b
    <3>1. pool'[d] = [pool[b] EXCEPT !.r = @ + 1]
      BY <1>1, <2>2 DEF Retain, TypeOK
    <3>2. pool'[d].r = pool[b].r + 1
      BY <2>1, <3>1 DEF Memory
    <3> QED
      BY <2>1, <3>2, CountedArmed
  <2>3. CASE d # b
    BY <1>1, <2>1, <2>3, UntouchedArmed DEF Retain, TypeOK
  <2> QED
    BY <2>2, <2>3
<1>2. ASSUME Releasing(h) PROVE ref[h] \in Block /\ pool[ref[h]] # Null /\ heap[ref[h]] # Null
  BY <1>2 DEF Releasing, TypeOK, PooledAreLive, Pooled
<1>3. ASSUME ReleaseOne(h) \/ AutoreleaseLast(h) \/ ReleaseObject(h) PROVE Armed(d)'
  <2>1. Releasing(h) /\ pool' = [pool EXCEPT ![ref[h]] = Decremented(ref[h])]
    BY <1>3 DEF ReleaseOne, AutoreleaseLast, ReleaseObject
  <2>2. heap'[d] # Null => heap[d] # Null /\ heap'[d].obj = heap[d].obj
    <3>1. CASE heap' = heap
      BY <3>1
    <3>2. CASE heap' = [heap EXCEPT ![ref[h]].ran = @ + 1]
      BY <1>2, <2>1, <3>2, LiveType DEF TypeOK, Content
    <3> QED
      BY <1>3, <3>1, <3>2 DEF ReleaseOne, AutoreleaseLast, ReleaseObject, EnterCallback
  <2>3. CASE d = ref[h]
    BY <1>2, <2>1, <2>2, <2>3, DecrementedArmed DEF TypeOK
  <2>4. CASE d # ref[h]
    BY <1>2, <2>1, <2>2, <2>4, UntouchedArmed DEF TypeOK
  <2> QED
    BY <2>3, <2>4
<1>4. ASSUME ReleaseLast(h) PROVE Armed(d)'
  <2>1. CASE d = ref[h]
    BY <1>2, <1>4, <2>1, CountedArmed DEF ReleaseLast, Reclaim, TypeOK
  <2>2. CASE d # ref[h]
    BY <1>2, <1>4, <2>2, UntouchedArmed DEF ReleaseLast, Reclaim, TypeOK
  <2> QED
    BY <2>1, <2>2
<1> QED
  BY <1>1, <1>3, <1>4

\* Returning from a callback, a drain and mgn_mem_release_all keep objects armed.
LEMMA FreeingArmed ==
  ASSUME IInv, NEW d \in Block, Armed(d), Return \/ Drain \/ ReleaseAll
  PROVE  Armed(d)'
<1> USE DEF IInv
<1>1. ASSUME NEW b \in Block, Reclaim(b) PROVE Armed(d)'
  <2>1. CASE d = b
    BY <1>1, <2>1, CountedArmed DEF Reclaim, TypeOK
  <2>2. CASE d # b
    BY <1>1, <2>2, UntouchedArmed DEF Reclaim, TypeOK
  <2> QED
    BY <2>1, <2>2
<1>2. ASSUME UNCHANGED <<pool, heap>> PROVE Armed(d)'
  BY <1>2, UntouchedArmed
<1>3. ASSUME NEW b \in Block, DrainVisit(b) PROVE Armed(d)'
  <2>1. ASSUME b \in Unused, EnterCallback(b), UNCHANGED pool PROVE Armed(d)'
    <3>1. heap[b] # Null
      BY <2>1 DEF Unused, PooledAreLive
    <3>2. heap'[d] # Null => heap[d] # Null /\ heap'[d].obj = heap[d].obj
      BY <2>1, <3>1, LiveType DEF EnterCallback, TypeOK, Content
    <3> QED
      BY <2>1, <3>2, UntouchedArmed
  <2> QED
    BY <1>1, <1>2, <1>3, <2>1 DEF DrainVisit
<1>4. CASE Return
  <2>1. Top \in Block
    BY <1>4 DEF Return, InCallback, Top, TypeOK
  <2> QED
    BY <1>1, <1>4, <2>1 DEF Return
<1>5. CASE ReleaseAll
  BY <1>5, CountedArmed DEF ReleaseAll
<1>6. CASE Drain
  BY <1>2, <1>3, <1>6 DEF Drain, DrainStart, DrainAgain, DrainEnd
<1> QED
  BY <1>4, <1>5, <1>6

----------------------------------------------------------------------------
LEMMA ArmedEach == WillCallBack <=> \A b \in Block : Armed(b)
BY DEF WillCallBack, Armed

\* Every step keeps the unused objects armed.
LEMMA WillCallBackNext == IInv /\ WillCallBack /\ [Next]_vars => WillCallBack'
<1> SUFFICES ASSUME IInv, WillCallBack, [Next]_vars, NEW d \in Block
             PROVE  Armed(d)'
  BY DEF WillCallBack, Armed
<1>1. Armed(d)
  BY ArmedEach
<1>2. CASE UNCHANGED vars
  BY <1>1, <1>2, UntouchedArmed DEF vars
<1>3. CASE Fail
  BY <1>1, <1>3, AllocationArmed
<1>4. CASE Succeed
  BY <1>1, <1>4, AllocationArmed, CountingArmed, FreeingArmed DEF Succeed
<1> QED
  BY <1>2, <1>3, <1>4 DEF Next

\* An object that nothing owns any more is always left with its callback.
THEOREM UnusedObjectsWillCallBack == Spec => []WillCallBack
<1>1. Init => WillCallBack
  BY DEF Init, WillCallBack, IsObject
<1> QED
  BY <1>1, WillCallBackNext, Invariance, PTL DEF Spec

----------------------------------------------------------------------------
(* Steps that take a block out of the table.                               *)

\* A block that leaves the table without its memory did so by a failure.
LEMMA LostStep ==
  ASSUME IInv, [Next]_vars, ~Fail, NEW b \in Pooled
  PROVE  b \in Pooled' \/ heap'[b] = Null
<1> USE DEF IInv
<1> b \in Block /\ pool[b] # Null
  BY DEF Pooled
<1> SUFFICES ASSUME pool'[b] = Null PROVE heap'[b] = Null
  BY DEF Pooled
<1>1. ASSUME NEW c \in Block, Reclaim(c) PROVE heap'[b] = Null
  BY <1>1 DEF Reclaim, TypeOK
<1>2. ASSUME NEW h \in Holder, NEW c \in Block, NEW s \in Size, NEW o \in BOOLEAN,
             Alloc(h, c, s, o)
      PROVE  FALSE
  <2>1. NewMemory(s) # Null
    BY NewEntries
  <2> QED
    BY <1>2, <2>1 DEF Alloc, TypeOK
<1>3. ASSUME NEW h \in Holder, NEW c \in Block, NEW d \in Block, NEW s \in Size,
             RallocSole(h, c, d, s)
      PROVE  heap'[b] = Null
  <2>1. pool[c] \in Memory /\ [pool[c] EXCEPT !.size = s] \in Memory /\ c # d
    BY <1>3, PooledType DEF RallocSole, Growing, Memory
  <2>2. [pool[c] EXCEPT !.size = s] # Null
    BY <2>1, MemPoolAssumption
  <2>3. b = c
    BY <1>3, <2>2 DEF RallocSole, TypeOK
  <2> QED
    BY <1>3, <2>1, <2>3 DEF RallocSole, TypeOK
<1>4. ASSUME NEW c \in Block, pool[c] # Null, NEW e \in Memory,
             pool' = [pool EXCEPT ![c] = e]
      PROVE  FALSE
  BY <1>4, MemPoolAssumption DEF TypeOK
<1>5. ASSUME NEW h \in Holder, NEW c \in Block, NEW d \in Block, NEW s \in Size,
             RallocShared(h, c, d, s)
      PROVE  FALSE
  <2>1. pool[c] \in Memory /\ pool[c].r \in Nat
    BY <1>5, PooledType DEF RallocShared, Growing
  <2>2. GiveUp(c) \in Memory
    BY <2>1 DEF GiveUp, Memory
  <2>3. GiveUp(c) # Null /\ NewMemory(s) # Null
    BY <2>2, NewEntries, MemPoolAssumption
  <2> QED
    BY <1>5, <2>3 DEF RallocShared, TypeOK
<1>6. ASSUME NEW h \in Holder, NEW c \in Block, Retain(h, c) PROVE FALSE
  <2>1. pool[c] # Null /\ pool[c] \in Memory /\ pool[c].r \in Nat
    BY <1>6, PooledType DEF Retain
  <2>2. [pool[c] EXCEPT !.r = @ + 1] \in Memory
    BY <2>1 DEF Memory
  <2>3. pool' = [pool EXCEPT ![c] = [pool[c] EXCEPT !.r = @ + 1]]
    BY <1>6 DEF Retain, TypeOK
  <2> QED
    BY <1>4, <2>1, <2>2, <2>3
<1>7. ASSUME NEW h \in Holder, ReleaseOne(h) \/ AutoreleaseLast(h) \/ ReleaseObject(h)
      PROVE  FALSE
  <2>1. /\ Releasing(h) /\ ref[h] \in Block
        /\ pool' = [pool EXCEPT ![ref[h]] = Decremented(ref[h])]
    BY <1>7 DEF ReleaseOne, AutoreleaseLast, ReleaseObject, Releasing, TypeOK
  <2>2. PICK c : c = ref[h]
    OBVIOUS
  <2>3. c \in Block /\ pool[c] # Null /\ Decremented(c) \in Memory
    BY <2>1, <2>2, ReleasingFacts
  <2> QED
    BY <1>4, <2>1, <2>2, <2>3
<1>8. ASSUME NEW h \in Holder, ReleaseLast(h) PROVE heap'[b] = Null
  BY <1>1, <1>8 DEF ReleaseLast, Releasing, TypeOK
<1>9. CASE Return
  <2>1. Top \in Block
    BY <1>9 DEF Return, InCallback, Top, TypeOK
  <2> QED
    BY <1>1, <1>9, <2>1 DEF Return
<1>10. CASE Drain
  BY <1>1, <1>10 DEF Drain, DrainStart, DrainAgain, DrainEnd, DrainVisit
<1>11. CASE ReleaseAll
  BY <1>11 DEF ReleaseAll
<1>12. CASE UNCHANGED vars
  BY <1>12 DEF vars
<1> QED
  BY <1>2, <1>3, <1>5, <1>6, <1>7, <1>8, <1>9, <1>10, <1>11, <1>12 DEF Next, Succeed

\* Memory leaves the table only to be freed, or when malloc fails.
THEOREM MemoryIsLostOnlyByFailure == Spec => LostOnlyByFailure
<1>1. IInv /\ [Next]_vars => (~Fail => \A b \in Pooled : b \in Pooled' \/ heap'[b] = Null)
  BY LostStep
<1> QED
  BY <1>1, Invariance, PTL DEF Spec, LostOnlyByFailure

----------------------------------------------------------------------------
\* An object is freed by the return of its callback, or by mgn_mem_release_all.
LEMMA FreedStep ==
  ASSUME IInv, WillCallBack, [Next]_vars,
         NEW b \in Block, IsObject(b), heap'[b] = Null
  PROVE  heap[b].ran = 1 \/ ReleaseAll
<1> USE DEF IInv
<1> heap[b] # Null /\ heap[b].obj /\ pool[b] # Null
  BY DEF IsObject
<1>1. ASSUME NEW h \in Holder, NEW c \in Block, NEW s \in Size, NEW o \in BOOLEAN,
             Alloc(h, c, s, o)
      PROVE  FALSE
  BY <1>1, NewEntries DEF Alloc, TypeOK
<1>2. ASSUME NEW h \in Holder, NEW c \in Block, NEW d \in Block, NEW s \in Size,
             RallocSole(h, c, d, s) \/ RallocShared(h, c, d, s)
      PROVE  FALSE
  <2>1. NewContent(FALSE) # Null
    BY NewEntries
  <2>2. b # c
    BY <1>2 DEF RallocSole, RallocShared, Growing
  <2> QED
    BY <1>2, <2>1, <2>2 DEF RallocSole, RallocShared, TypeOK
<1>3. ASSUME NEW c \in Block, heap[c] # Null, EnterCallback(c) PROVE FALSE
  <2>1. heap[c] \in Content /\ heap[c].ran \in Nat
    BY <1>3, LiveType
  <2>2. [heap[c] EXCEPT !.ran = @ + 1] \in Content
    BY <2>1 DEF Content
  <2>3. heap' = [heap EXCEPT ![c] = [heap[c] EXCEPT !.ran = @ + 1]]
    BY <1>3 DEF EnterCallback, TypeOK
  <2> QED
    BY <2>2, <2>3, MemPoolAssumption DEF TypeOK
<1>4. ASSUME NEW c \in Block, Reclaim(c) PROVE b = c
  BY <1>4 DEF Reclaim, TypeOK
<1>5. ASSUME NEW h \in Holder,
             \/ ReleaseOne(h) \/ AutoreleaseLast(h)
             \/ ReleaseLast(h) \/ ReleaseObject(h)
      PROVE  FALSE
  <2>1. Releasing(h) /\ ref[h] \in Block /\ heap[ref[h]] # Null
    BY <1>5 DEF ReleaseOne, AutoreleaseLast, ReleaseLast, ReleaseObject, Releasing,
                TypeOK, PooledAreLive, Pooled
  <2>2. CASE ReleaseOne(h) \/ AutoreleaseLast(h)
    BY <2>2 DEF ReleaseOne, AutoreleaseLast
  <2>3. CASE ReleaseLast(h)
    BY <1>4, <2>1, <2>3 DEF ReleaseLast
  <2>4. CASE ReleaseObject(h)
    BY <1>3, <2>1, <2>4 DEF ReleaseObject
  <2> QED
    BY <1>5, <2>2, <2>3, <2>4
<1>6. CASE Return
  <2>1. Top \in Block /\ Top \in Dying
    BY <1>6 DEF Return, InCallback, Top, Dying, TypeOK
  <2>2. b = Top
    BY <1>4, <1>6, <2>1 DEF Return
  <2> QED
    BY <2>1, <2>2 DEF RanIffDying
<1>7. ASSUME NEW c \in Block, DrainVisit(c) PROVE FALSE
  <2>1. CASE UNCHANGED heap
    BY <2>1
  <2>2. CASE c \in Unused /\ ~pool[c].cb /\ Reclaim(c)
    <3>1. b = c
      BY <1>4, <2>2
    <3> QED
      BY <2>2, <3>1 DEF WillCallBack, Unused
  <2>3. CASE c \in Unused /\ EnterCallback(c)
    BY <1>3, <2>3 DEF Unused, PooledAreLive
  <2> QED
    BY <1>7, <2>1, <2>2, <2>3 DEF DrainVisit
<1>8. CASE Drain
  BY <1>7, <1>8 DEF Drain, DrainStart, DrainAgain, DrainEnd
<1>9. CASE Fail \/ UNCHANGED vars
  BY <1>9 DEF Fail, RallocSoleFails, RallocSharedFails, vars
<1>10. ASSUME NEW h \in Holder, NEW c \in Block, Retain(h, c) PROVE FALSE
  BY <1>10 DEF Retain
<1> QED
  BY <1>1, <1>2, <1>5, <1>6, <1>8, <1>9, <1>10 DEF Next, Succeed

\* No object is freed before its destructor has run, release_all excepted.
THEOREM ObjectsDestroyedBeforeFreed == Spec => DestroyedBeforeFreed
<1>1. IInv /\ WillCallBack /\ [Next]_vars
        => \A b \in Block : IsObject(b) /\ heap'[b] = Null
             => heap[b].ran = 1 \/ ReleaseAll
  BY FreedStep
<1> QED
  BY <1>1, Invariance, UnusedObjectsWillCallBack, PTL DEF Spec, DestroyedBeforeFreed

----------------------------------------------------------------------------
(* A drain leaves nothing.  After a batch that was not full, and until a   *)
(* callback autoreleases a last count, an unused block is in the batch, or *)
(* its callback runs.                                                      *)

SeenBlock(b) ==
  drain.on /\ ~drain.full /\ ~drain.late /\ b \in Unused => b \in drain.todo \cup Dying

Seen == \A b \in Block : SeenBlock(b)

\* The blocks a step leaves alone stay seen.
LEMMA UntouchedSeen ==
  ASSUME NEW b \in Block, SeenBlock(b), pool'[b] = pool[b], drain' = drain, stack' = stack
  PROVE  SeenBlock(b)'
BY DEF SeenBlock, Unused, Pooled, Dying

\* A block that is owned or not pooled need not be seen.
LEMMA UsedSeen ==
  ASSUME NEW b \in Block, pool'[b] = Null \/ pool'[b].r # 0
  PROVE  SeenBlock(b)'
BY DEF SeenBlock, Unused, Pooled

\* mgn_mem_alloc and mgn_mem_ralloc make no block unused.
LEMMA AllocationSeen ==
  ASSUME IInv, NEW d \in Block, SeenBlock(d),
         \/ \E h \in Holder, b \in Block, s \in Size, o \in BOOLEAN : Alloc(h, b, s, o)
         \/ \E h \in Holder, b, c \in Block, s \in Size :
              RallocSole(h, b, c, s) \/ RallocShared(h, b, c, s)
         \/ Fail
  PROVE  SeenBlock(d)'
<1> USE DEF IInv
<1> DEFINE Settled(b) == pool'[b] = pool[b] \/ pool'[b] = Null \/ pool'[b].r # 0
<1>1. ASSUME drain' = drain, stack' = stack, Settled(d) PROVE SeenBlock(d)'
  BY <1>1, UntouchedSeen, UsedSeen
<1>2. \A s : NewMemory(s).r # 0
  BY DEF NewMemory
<1>3. ASSUME NEW h \in Holder, NEW b \in Block, NEW s \in Size, NEW o \in BOOLEAN,
             Alloc(h, b, s, o)
      PROVE  SeenBlock(d)'
  BY <1>1, <1>2, <1>3 DEF Alloc, TypeOK
<1>4. ASSUME NEW h \in Holder, NEW b \in Block, NEW c \in Block, NEW s \in Size,
             RallocSole(h, b, c, s)
      PROVE  SeenBlock(d)'
  <2>1. pool[b] \in Memory /\ pool[b].r = 1 /\ b # c
    BY <1>4, PooledType DEF RallocSole, Growing
  <2>2. [pool[b] EXCEPT !.size = s].r = 1
    BY <2>1 DEF Memory
  <2> QED
    BY <1>1, <1>4, <2>1, <2>2 DEF RallocSole, TypeOK
<1>5. ASSUME NEW b \in Block, pool[b] # Null, pool[b].r # 1
      PROVE  GiveUp(b) = pool[b] \/ GiveUp(b).r # 0
  <2>1. pool[b] \in Memory /\ pool[b].r \in Nat
    BY <1>5, PooledType
  <2>2. CASE pool[b].r > 0
    <3>1. GiveUp(b).r = pool[b].r - 1
      BY <2>1, <2>2 DEF GiveUp, Memory
    <3> QED
      BY <1>5, <2>1, <2>2, <3>1
  <2>3. CASE ~(pool[b].r > 0)
    BY <2>1, <2>3 DEF GiveUp, Memory
  <2> QED
    BY <2>2, <2>3
<1>6. ASSUME NEW h \in Holder, NEW b \in Block, NEW c \in Block, NEW s \in Size,
             RallocShared(h, b, c, s)
      PROVE  SeenBlock(d)'
  BY <1>1, <1>2, <1>5, <1>6 DEF RallocShared, Growing, TypeOK
<1>7. ASSUME NEW h \in Holder, NEW b \in Block, NEW s \in Size, RallocSoleFails(h, b, s)
      PROVE  SeenBlock(d)'
  BY <1>1, <1>7 DEF RallocSoleFails, TypeOK
<1>8. ASSUME NEW h \in Holder, NEW b \in Block, NEW s \in Size, RallocSharedFails(h, b, s)
      PROVE  SeenBlock(d)'
  BY <1>1, <1>5, <1>8 DEF RallocSharedFails, Growing, TypeOK
<1> QED
  BY <1>3, <1>4, <1>6, <1>7, <1>8 DEF Fail

\* Retain and release: a block whose last count goes is freed, its callback
\* runs, or the drain is told that it is late.
LEMMA CountingSeen ==
  ASSUME IInv, NEW d \in Block, SeenBlock(d), NEW h \in Holder,
         \/ \E b \in Block : Retain(h, b)
         \/ ReleaseOne(h) \/ AutoreleaseLast(h) \/ ReleaseLast(h) \/ ReleaseObject(h)
  PROVE  SeenBlock(d)'
<1> USE DEF IInv
<1>1. ASSUME NEW b \in Block, Retain(h, b) PROVE SeenBlock(d)'
  <2>1. pool[b] \in Memory /\ pool[b].r \in Nat
    BY <1>1, PooledType DEF Retain
  <2>2. [pool[b] EXCEPT !.r = @ + 1].r # 0
    BY <2>1 DEF Memory
  <2>3. pool' = [pool EXCEPT ![b] = [pool[b] EXCEPT !.r = @ + 1]]
    BY <1>1 DEF Retain, TypeOK
  <2>4. CASE d = b
    BY <2>2, <2>3, <2>4, UsedSeen DEF TypeOK
  <2>5. CASE d # b
    BY <1>1, <2>3, <2>5, UntouchedSeen DEF Retain, TypeOK
  <2> QED
    BY <2>4, <2>5
<1>2. CASE ReleaseOne(h)
  <2>1. PICK b : b = ref[h]
    OBVIOUS
  <2>2. b \in Block /\ pool[b] # Null /\ Decremented(b).r = pool[b].r - 1
    BY <1>2, <2>1, ReleasingFacts DEF ReleaseOne
  <2>3. pool[b].r \in Nat /\ pool[b].r > 0 /\ pool[b].r # 1
    BY <1>2, <2>1, <2>2, PooledType DEF ReleaseOne, Releasing, IsLast
  <2>4. CASE d = b
    BY <1>2, <2>1, <2>2, <2>3, <2>4, UsedSeen DEF ReleaseOne, TypeOK
  <2>5. CASE d # b
    BY <1>2, <2>1, <2>5, UntouchedSeen DEF ReleaseOne, TypeOK
  <2> QED
    BY <2>4, <2>5
<1>3. CASE AutoreleaseLast(h)
  <2>1. drain'.on => drain'.late
    BY <1>3 DEF AutoreleaseLast, TypeOK, DrainState
  <2> QED
    BY <2>1 DEF SeenBlock
<1>4. CASE ReleaseLast(h)
  <2>1. d = ref[h] \/ UNCHANGED <<pool[d], drain, stack>>
    BY <1>4 DEF ReleaseLast, Reclaim, TypeOK
  <2>2. d = ref[h] => pool'[d] = Null
    BY <1>4 DEF ReleaseLast, Reclaim, TypeOK
  <2> QED
    BY <2>1, <2>2, UntouchedSeen, UsedSeen
<1>5. CASE ReleaseObject(h)
  <2>1. PICK b : b = ref[h]
    OBVIOUS
  <2>2. b \in Block
    BY <1>5, <2>1, ReleasingFacts DEF ReleaseObject
  <2>3. Dying' = Dying \cup {b} /\ drain' = drain
    BY <1>5, <2>1, <2>2, Push DEF ReleaseObject, EnterCallback, TypeOK
  <2>4. CASE d = b
    BY <2>3, <2>4 DEF SeenBlock
  <2>5. CASE d # b
    <3>1. pool'[d] = pool[d]
      BY <1>5, <2>1, <2>5 DEF ReleaseObject, TypeOK
    <3> QED
      BY <2>3, <3>1 DEF SeenBlock, Unused, Pooled
  <2> QED
    BY <2>4, <2>5
<1> QED
  BY <1>1, <1>2, <1>3, <1>4, <1>5

\* A scan that does not fill its batch has seen every unused block.
LEMMA ScanSeen ==
  ASSUME IInv, NEW d \in Block, Scan, UNCHANGED <<pool, stack>>
  PROVE  SeenBlock(d)'
<1>1. PICK S \in SUBSET Unused :
        /\ Cardinality(S) < Batch => S = Unused
        /\ drain' = [on |-> TRUE, todo |-> S, full |-> Cardinality(S) >= Batch,
                     late |-> FALSE]
  BY DEF Scan
<1>2. Cardinality(S) \in Nat /\ Batch \in Nat
  BY MemPoolAssumption, FS_Subset, FS_CardinalityType DEF Unused, Pooled
<1>3. Cardinality(S) >= Batch \/ Cardinality(S) < Batch
  BY <1>2
<1>4. drain'.todo = S /\ (drain'.full \/ S = Unused)
  <2>1. CASE Cardinality(S) >= Batch
    BY <1>1, <2>1
  <2>2. CASE Cardinality(S) < Batch
    BY <1>1, <2>2
  <2> QED
    BY <1>3, <2>1, <2>2
<1> QED
  BY <1>4 DEF SeenBlock, Unused, Pooled

\* A visit settles its block: it is in use, freed, or its callback runs.
LEMMA VisitSeen ==
  ASSUME IInv, NEW d \in Block, SeenBlock(d), NEW b \in Block, DrainVisit(b)
  PROVE  SeenBlock(d)'
<1> USE DEF IInv
<1>1. /\ drain'.on = drain.on /\ drain'.full = drain.full /\ drain'.late = drain.late
      /\ drain'.todo = drain.todo \ {b}
  BY DEF DrainVisit, TypeOK, DrainState
<1>2. CASE b \notin Unused /\ UNCHANGED <<pool, heap, stack>>
  BY <1>1, <1>2 DEF SeenBlock, Unused, Pooled, Dying
<1>3. CASE Reclaim(b) /\ UNCHANGED stack
  BY <1>1, <1>3 DEF SeenBlock, Unused, Pooled, Dying, Reclaim, TypeOK
<1>4. CASE EnterCallback(b) /\ UNCHANGED pool
  <2>1. Dying' = Dying \cup {b}
    BY <1>4, Push DEF EnterCallback, TypeOK
  <2> QED
    BY <1>1, <1>4, <2>1 DEF SeenBlock, Unused, Pooled
<1> QED
  BY <1>2, <1>3, <1>4 DEF DrainVisit

\* Every step keeps the unused blocks of a drain in sight.
LEMMA SeenNext == IInv /\ Seen /\ [Next]_vars => Seen'
<1> SUFFICES ASSUME IInv, Seen, [Next]_vars, NEW d \in Block
             PROVE  SeenBlock(d)'
  BY DEF Seen
<1>1. SeenBlock(d)
  BY DEF Seen
<1>2. CASE UNCHANGED vars
  BY <1>1, <1>2, UntouchedSeen DEF vars
<1>3. CASE Return
  <2>1. /\ Dying' = Dying \ {Top} /\ Top \in Block
        /\ pool' = [pool EXCEPT ![Top] = Null] /\ drain' = drain
    BY <1>3, Pop DEF Return, InCallback, Reclaim, IInv, TypeOK
  <2> QED
    BY <1>1, <2>1 DEF SeenBlock, Unused, Pooled, IInv, TypeOK
<1>4. CASE Drain
  <2>1. CASE DrainStart \/ DrainAgain
    BY <2>1, ScanSeen DEF DrainStart, DrainAgain
  <2>2. CASE DrainEnd
    BY <2>2 DEF DrainEnd, SeenBlock, IInv, TypeOK, DrainState
  <2> QED
    BY <1>1, <1>4, <2>1, <2>2, VisitSeen DEF Drain
<1>5. CASE ReleaseAll
  BY <1>5, UsedSeen DEF ReleaseAll
<1>6. CASE Fail
  BY <1>1, <1>6, AllocationSeen
<1> QED
  BY <1>1, <1>2, <1>3, <1>4, <1>5, <1>6, AllocationSeen, CountingSeen DEF Next, Succeed

\* Nothing is unused when a drain ends, unless a callback came too late.
THEOREM DrainsAreComplete == Spec => DrainIsComplete
<1>1. Init => Seen
  BY DEF Init, Seen, SeenBlock
<1>2. IInv /\ Seen /\ [Next]_vars => (drain.on /\ ~drain'.on /\ ~drain.late => Unused = {})
  <2> SUFFICES ASSUME IInv, Seen, [Next]_vars, drain.on, ~drain'.on, ~drain.late
               PROVE  Unused = {}
    OBVIOUS
  <2>1. DrainEnd
    <3>1. drain' # drain
      OBVIOUS
    <3>2. ~DrainStart /\ ~DrainAgain
      BY DEF DrainStart, DrainAgain, Scan
    <3>3. ASSUME NEW b \in Block, DrainVisit(b) PROVE FALSE
      BY <3>3 DEF DrainVisit, IInv, TypeOK, DrainState
    <3>4. ASSUME NEW h \in Holder, AutoreleaseLast(h) PROVE FALSE
      BY <3>4 DEF AutoreleaseLast, IInv, TypeOK, DrainState
    <3>5. ASSUME NEW h \in Holder, NEW b \in Block, NEW s \in Size, NEW o \in BOOLEAN
          PROVE  ~Alloc(h, b, s, o)
      BY <3>1 DEF Alloc
    <3>6. ASSUME NEW h \in Holder, NEW b \in Block, NEW c \in Block, NEW s \in Size
          PROVE  ~RallocSole(h, b, c, s) /\ ~RallocShared(h, b, c, s)
      BY <3>1 DEF RallocSole, RallocShared
    <3>7. ASSUME NEW h \in Holder, NEW b \in Block PROVE ~Retain(h, b)
      BY <3>1 DEF Retain
    <3>8. ASSUME NEW h \in Holder
          PROVE  ~ReleaseOne(h) /\ ~ReleaseLast(h) /\ ~ReleaseObject(h)
      BY <3>1 DEF ReleaseOne, ReleaseLast, ReleaseObject
    <3>9. ~Return /\ ~ReleaseAll /\ ~UNCHANGED vars
      BY <3>1 DEF Return, ReleaseAll, vars
    <3>10. ~Fail
      BY <3>1 DEF Fail, RallocSoleFails, RallocSharedFails
    <3>11. ~Succeed \/ DrainEnd
      BY <3>2, <3>3, <3>4, <3>5, <3>6, <3>7, <3>8, <3>9 DEF Succeed, Drain
    <3> QED
      BY <3>9, <3>10, <3>11 DEF Next
  <2>2. drain.todo = {} /\ ~drain.full /\ Dying = {}
    BY <2>1 DEF DrainEnd, InCallback, Dying
  <2>3. \A b \in Block : b \notin Unused
    BY <2>2 DEF Seen, SeenBlock
  <2> QED
    BY <2>3 DEF Unused, Pooled
<1> QED
  BY <1>1, <1>2, SeenNext, Invariance, PTL DEF Spec, DrainIsComplete
============================================================================
