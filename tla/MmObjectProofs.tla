--------------------------- MODULE MmObjectProofs ---------------------------
(* Allocation, destruction and unpacking of MmObject, and the walks around *)
(* the layers of an object, for every hierarchy of classes, any objects and*)
(* pointers and calls nested to any depth.                                 *)
EXTENDS MmObject, FiniteSetTheorems, SequenceTheorems, TLAPS

\* Induction and recursion over the numbers are proved in CodeProofs, of no
\* particular byte: what is cited of it does not mention its constants.
Nats == INSTANCE CodeProofs WITH W <- 8, Indexes <- << 0 >>, v <- 0

\* These constants are what CodeProofs assumes of its own.
LEMMA NatsAssumptions == << 0 >> \in Seq(Nat) \ {<<>>} /\ 8 \in Nat \ {0, 1}
OBVIOUS

\* What is under way with an object, who owns it, and the counts that are not
\* those of a pointer: the unpacker's, and alloc's until it returns.
Jobs(o) == {job[i] : i \in {n \in DOMAIN job : job[n].o = o}}
Owners(o) == {v \in Var : own[v] = o}
Held(o) == IF o \in seen THEN 1 ELSE 0
Begun(o) == IF \E j \in Jobs(o) : j.do # "destroy" THEN 1 ELSE 0

AtRest(x) ==
  /\ x.up = Top(x) /\ x.ok = Top(x)
  /\ \A k \in Layers(x.cls) : x.ran[k] = 0

\* A block is as far as the job on it: initialised up to the layer before,
\* or destroyed down to the one after.
Follows(x, j) ==
  /\ \A k \in Layers(x.cls) :
       x.ran[k] = IF j.do # "init" /\ j.k < k /\ k <= x.ok THEN 1 ELSE 0
  /\ j.do = "init" => x.up = j.k /\ x.ok = j.k - 1
  /\ j.do = "fail" => j.k <= x.ok /\ x.r = 1
  /\ j.do = "destroy" => x.up = Top(x) /\ x.ok = Top(x) /\ x.r = 0

\* A job on o fits its block; an object met again is at its last layer.
Fits(o, j) ==
  /\ j.k \in 0 .. Top(obj[o])
  /\ Follows(obj[o], j)
  /\ j.do = "init" /\ Owners(o) # {} => o \in seen /\ j.k = Top(obj[o])

\* The invariant of one address.
Sound(o) ==
  IF obj[o] = Null
  THEN Jobs(o) = {} /\ Owners(o) = {} /\ o \notin seen
  ELSE /\ obj[o].r = Cardinality(Owners(o)) + Held(o) + Begun(o)
       /\ Jobs(o) = {} => AtRest(obj[o])
       /\ \A j \in Jobs(o) : Fits(o, j)

\* No two jobs work on one object.
JobsApart == \A i, j \in DOMAIN job : job[i].o = job[j].o => i = j

\* The pointer an object is being allocated for is free until then.
Reserved ==
  \A i \in DOMAIN job : job[i].to # Null =>
    /\ own[job[i].to] = Null
    /\ \A j \in DOMAIN job : job[j].to = job[i].to => i = j

IInv == TypeOK /\ JobsApart /\ Reserved /\ \A o \in Addr : Sound(o)

----------------------------------------------------------------------------
(* Classes and blocks.                                                     *)

\* A class has at least one layer.
LEMMA LayersType ==
  ASSUME NEW c \in Class
  PROVE  /\ Lineage[c] \in Seq(Class) /\ Len(Lineage[c]) \in Nat \ {0}
         /\ Layers(c) = 1 .. Len(Lineage[c])
<1>1. Lineage[c] \in Seq(Class) /\ Lineage[c] # <<>>
  BY MmObjectAssumption
<1> QED
  BY <1>1 DEF Layers

\* The fields of a block.
LEMMA BlockFields ==
  ASSUME NEW x, IsBlock(x)
  PROVE  /\ x.cls \in Class /\ Top(x) \in Nat \ {0} /\ Layers(x.cls) = 1 .. Top(x)
         /\ x.up \in Layers(x.cls) /\ x.ok \in Layers(x.cls) \cup {0}
         /\ x.ran \in [Layers(x.cls) -> Nat] /\ x.fns \in [Layers(x.cls) -> SUBSET Fn]
         /\ x.r \in Nat
         /\ x = [cls |-> x.cls, up |-> x.up, ok |-> x.ok, ran |-> x.ran,
                 fns |-> x.fns, r |-> x.r]
<1>1. PICK c \in Class : x \in BlockOf(c)
  BY DEF IsBlock
<1>2. x.cls = c /\ Top(x) \in Nat \ {0} /\ Layers(c) = 1 .. Top(x)
  BY <1>1, LayersType DEF BlockOf, Top
<1> QED
  BY <1>1, <1>2 DEF BlockOf

\* A record with fields of the right types is a block.
LEMMA BlockMade ==
  ASSUME NEW c \in Class, NEW u \in Layers(c), NEW k \in Layers(c) \cup {0},
         NEW ran \in [Layers(c) -> Nat], NEW fns \in [Layers(c) -> SUBSET Fn],
         NEW r \in Nat
  PROVE  IsBlock([cls |-> c, up |-> u, ok |-> k, ran |-> ran, fns |-> fns, r |-> r])
BY DEF IsBlock, BlockOf

\* What each assignment to a block of mmo.h leaves.
LEMMA BlockCounted ==
  ASSUME NEW x, IsBlock(x), NEW n \in Nat
  PROVE  LET y == [x EXCEPT !.r = n]
         IN  /\ IsBlock(y) /\ y.cls = x.cls /\ y.up = x.up /\ y.ok = x.ok
             /\ y.ran = x.ran /\ y.fns = x.fns /\ y.r = n
<1> DEFINE y == [cls |-> x.cls, up |-> x.up, ok |-> x.ok, ran |-> x.ran,
                 fns |-> x.fns, r |-> n]
<1>1. [x EXCEPT !.r = n] = y
  BY BlockFields
<1>2. IsBlock(y)
  BY BlockFields, BlockMade
<1> QED
  BY <1>1, <1>2

\* The layers up to k are initialised.
LEMMA BlockInitialised ==
  ASSUME NEW x, IsBlock(x), NEW k \in Layers(x.cls) \cup {0}
  PROVE  LET y == [x EXCEPT !.ok = k]
         IN  /\ IsBlock(y) /\ y.cls = x.cls /\ y.up = x.up /\ y.ok = k
             /\ y.ran = x.ran /\ y.fns = x.fns /\ y.r = x.r
<1> DEFINE y == [cls |-> x.cls, up |-> x.up, ok |-> k, ran |-> x.ran,
                 fns |-> x.fns, r |-> x.r]
<1>1. [x EXCEPT !.ok = k] = y
  BY BlockFields
<1>2. IsBlock(y)
  BY BlockFields, BlockMade
<1> QED
  BY <1>1, <1>2

\* The header of layer k is written.
LEMMA BlockEntered ==
  ASSUME NEW x, IsBlock(x), NEW k \in Layers(x.cls)
  PROVE  LET y == Enter(x, k)
         IN  /\ IsBlock(y) /\ y.cls = x.cls /\ y.up = k /\ y.ok = x.ok
             /\ y.ran = x.ran /\ y.r = x.r
<1> DEFINE y == [x EXCEPT !.up = k]
           g == [x.fns EXCEPT ![1] = BaseFn]
           z(f) == [cls |-> x.cls, up |-> k, ok |-> x.ok, ran |-> x.ran,
                    fns |-> f, r |-> x.r]
<1>1. BaseFn \subseteq Fn /\ 1 \in Layers(x.cls)
  BY MmObjectAssumption, BlockFields
<1>2. y = z(x.fns)
  BY BlockFields
<1>3. IsBlock(z(x.fns))
  BY BlockFields, BlockMade
<1>4. [y EXCEPT !.fns[1] = BaseFn] = z(g)
  <2>1. [y EXCEPT !.fns[1] = BaseFn] = [y EXCEPT !.fns = [y.fns EXCEPT ![1] = BaseFn]]
    OBVIOUS
  <2>2. [y EXCEPT !.fns = g] = z(g)
    <3> HIDE DEF g, y
    <3> QED
      BY <1>2
  <2>3. y.fns = x.fns
    BY <1>2
  <2> QED
    BY <2>1, <2>2, <2>3
<1>5. g \in [Layers(x.cls) -> SUBSET Fn]
  BY <1>1, BlockFields
<1>6. IsBlock(z(g))
  <2> HIDE DEF g
  <2> QED
    BY <1>5, BlockFields, BlockMade
<1>7. Enter(x, k) = IF k = 1 THEN z(g) ELSE z(x.fns)
  BY <1>2, <1>4 DEF Enter
<1> QED
  BY <1>3, <1>6, <1>7

\* fn_destroy of layer k ran once more.
LEMMA BlockDestroyed ==
  ASSUME NEW x, IsBlock(x), NEW k \in Layers(x.cls)
  PROVE  LET y == [x EXCEPT !.ran[k] = @ + 1]
         IN  /\ IsBlock(y) /\ y.cls = x.cls /\ y.up = x.up /\ y.ok = x.ok
             /\ y.ran = [x.ran EXCEPT ![k] = @ + 1] /\ y.r = x.r
<1> DEFINE g == [x.ran EXCEPT ![k] = @ + 1]
           y == [cls |-> x.cls, up |-> x.up, ok |-> x.ok, ran |-> g,
                 fns |-> x.fns, r |-> x.r]
<1>1. [x EXCEPT !.ran[k] = @ + 1] = y
  <2>1. [x EXCEPT !.ran[k] = @ + 1] = [x EXCEPT !.ran = g]
    OBVIOUS
  <2>2. [x EXCEPT !.ran = g] = y
    <3> HIDE DEF g
    <3> QED
      BY BlockFields
  <2> QED
    BY <2>1, <2>2
<1>2. g \in [Layers(x.cls) -> Nat]
  BY BlockFields
<1>3. IsBlock(y)
  <2> HIDE DEF g
  <2> QED
    BY <1>2, BlockFields, BlockMade
<1> QED
  BY <1>1, <1>3

\* A function is entered in the table of layer k.
LEMMA BlockTaught ==
  ASSUME NEW x, IsBlock(x), NEW k \in Layers(x.cls), NEW f \in Fn
  PROVE  LET y == [x EXCEPT !.fns[k] = @ \cup {f}]
         IN  /\ IsBlock(y) /\ y.cls = x.cls /\ y.up = x.up /\ y.ok = x.ok
             /\ y.ran = x.ran /\ y.r = x.r
<1> DEFINE g == [x.fns EXCEPT ![k] = @ \cup {f}]
           y == [cls |-> x.cls, up |-> x.up, ok |-> x.ok, ran |-> x.ran,
                 fns |-> g, r |-> x.r]
<1>1. [x EXCEPT !.fns[k] = @ \cup {f}] = y
  <2>1. [x EXCEPT !.fns[k] = @ \cup {f}] = [x EXCEPT !.fns = g]
    OBVIOUS
  <2>2. [x EXCEPT !.fns = g] = y
    <3> HIDE DEF g
    <3> QED
      BY BlockFields
  <2> QED
    BY <2>1, <2>2
<1>2. g \in [Layers(x.cls) -> SUBSET Fn]
  BY BlockFields
<1>3. IsBlock(y)
  <2> HIDE DEF g
  <2> QED
    BY <1>2, BlockFields, BlockMade
<1> QED
  BY <1>1, <1>3

\* A block just cleared.
LEMMA BlockFresh ==
  ASSUME NEW c \in Class
  PROVE  LET y == Fresh(c)
         IN  /\ y.cls = c /\ y.up = 0 /\ y.ok = 0 /\ y.r = 1
             /\ y.ran = [k \in Layers(c) |-> 0]
             /\ IsBlock(Enter(y, 1)) /\ Enter(y, 1).cls = c /\ Enter(y, 1).up = 1
             /\ Enter(y, 1).ok = 0 /\ Enter(y, 1).r = 1
             /\ Enter(y, 1).ran = [k \in Layers(c) |-> 0]
<1> DEFINE ran == [k \in Layers(c) |-> 0]
           fns == [k \in Layers(c) |-> {}]
           g == [fns EXCEPT ![1] = BaseFn]
           y == [cls |-> c, up |-> 1, ok |-> 0, ran |-> ran, fns |-> g, r |-> 1]
<1>1. Enter(Fresh(c), 1) = y
  BY DEF Enter, Fresh
<1>2. BaseFn \subseteq Fn
  BY MmObjectAssumption
<1>3. g \in [Layers(c) -> SUBSET Fn] /\ ran \in [Layers(c) -> Nat]
  BY <1>2
<1>4. 1 \in Layers(c)
  BY LayersType
<1>5. IsBlock(y)
  <2> HIDE DEF g, ran
  <2> QED
    BY <1>3, <1>4, BlockMade
<1> QED
  BY <1>1, <1>5 DEF Fresh
----------------------------------------------------------------------------
(* The stack of jobs: a job begins, goes on, or ends.                      *)

\* The jobs under way are jobs, the last of them Now.
LEMMA NowType ==
  ASSUME job \in Seq(Job), job # <<>>
  PROVE  /\ Len(job) \in Nat \ {0} /\ Now = job[Len(job)] /\ Now \in Job
         /\ Now.o \in Addr /\ Now \in Jobs(Now.o)
<1>1. Len(job) \in Nat \ {0} /\ Now = job[Len(job)] /\ Now \in Job
  BY DEF Now, Last
<1>2. Now.o \in Addr
  BY <1>1 DEF Job
<1> QED
  BY <1>1, <1>2 DEF Jobs

\* Now is the only job on its object.
LEMMA NowAlone ==
  ASSUME job \in Seq(Job), job # <<>>, JobsApart
  PROVE  Jobs(Now.o) = {Now}
<1>1. Len(job) \in DOMAIN job /\ Now = job[Len(job)]
  BY NowType
<1> QED
  BY <1>1 DEF Jobs, JobsApart

\* One more job, on an object that had none.
LEMMA JobBegins ==
  ASSUME job \in Seq(Job), JobsApart, NEW j \in Job, Jobs(j.o) = {},
         job' = Append(job, j)
  PROVE  /\ job' \in Seq(Job) /\ JobsApart'
         /\ Jobs(j.o)' = {j} /\ \A p : p # j.o => Jobs(p)' = Jobs(p)
<1>1. /\ job' \in Seq(Job) /\ Len(job) \in Nat /\ DOMAIN job' = 1 .. Len(job) + 1
      /\ DOMAIN job = 1 .. Len(job)
      /\ job'[Len(job) + 1] = j /\ \A i \in 1 .. Len(job) : job'[i] = job[i]
  OBVIOUS
<1>2. \A i \in DOMAIN job : job[i].o # j.o
  BY DEF Jobs
<1>3. JobsApart'
  BY <1>1, <1>2 DEF JobsApart
<1>4. Jobs(j.o)' = {j}
  BY <1>1, <1>2 DEF Jobs
<1>5. ASSUME NEW p, p # j.o PROVE Jobs(p)' = Jobs(p)
  <2>1. Jobs(p)' \subseteq Jobs(p)
    BY <1>1, <1>5 DEF Jobs
  <2>2. Jobs(p) \subseteq Jobs(p)'
    BY <1>1, <1>5 DEF Jobs
  <2> QED
    BY <2>1, <2>2
<1> QED
  BY <1>1, <1>3, <1>4, <1>5

\* The last job gone.
LEMMA JobEnds ==
  ASSUME job \in Seq(Job), job # <<>>, JobsApart, job' = Front(job),
         NEW o, o = Now.o
  PROVE  /\ job' \in Seq(Job) /\ JobsApart'
         /\ Jobs(o)' = {} /\ \A p : p # o => Jobs(p)' = Jobs(p)
<1>1. /\ job' \in Seq(Job) /\ Len(job) \in Nat \ {0} /\ DOMAIN job' = 1 .. Len(job) - 1
      /\ DOMAIN job = 1 .. Len(job) /\ Now = job[Len(job)]
      /\ \A i \in 1 .. Len(job) - 1 : job'[i] = job[i]
  BY NowType DEF Front
<1>2. \A i \in DOMAIN job' : job[i].o # Now.o
  BY <1>1 DEF JobsApart
<1>3. JobsApart'
  BY <1>1 DEF JobsApart
<1>4. Jobs(o)' = {}
  BY <1>1, <1>2 DEF Jobs
<1>5. ASSUME NEW p, p # o PROVE Jobs(p)' = Jobs(p)
  <2>1. Jobs(p)' \subseteq Jobs(p)
    BY <1>1, <1>5 DEF Jobs
  <2>2. Jobs(p) \subseteq Jobs(p)'
    BY <1>1, <1>5 DEF Jobs
  <2> QED
    BY <2>1, <2>2
<1> QED
  BY <1>1, <1>3, <1>4, <1>5

\* A sequence with another last element.
LEMMA LastReplaced ==
  ASSUME NEW S, NEW s \in Seq(S), s # <<>>, NEW e \in S
  PROVE  LET t == Append(Front(s), e)
         IN  /\ t \in Seq(S) /\ Len(s) \in Nat \ {0} /\ Len(t) = Len(s)
             /\ DOMAIN t = 1 .. Len(s) /\ DOMAIN s = 1 .. Len(s)
             /\ t[Len(s)] = e /\ \A i \in 1 .. Len(s) - 1 : t[i] = s[i]
<1>1. Len(s) \in Nat \ {0} /\ DOMAIN s = 1 .. Len(s)
  OBVIOUS
<1>2. PICK f : f = Front(s)
  OBVIOUS
<1>3. f \in Seq(S) /\ Len(f) = Len(s) - 1 /\ \A i \in 1 .. Len(s) - 1 : f[i] = s[i]
  BY <1>1, <1>2 DEF Front
<1>4. PICK t : t = Append(f, e)
  OBVIOUS
<1>5. /\ t \in Seq(S) /\ Len(t) = Len(f) + 1 /\ t[Len(f) + 1] = e
      /\ \A i \in 1 .. Len(f) : t[i] = f[i]
  BY <1>3, <1>4, AppendProperties
<1>6. Len(f) + 1 = Len(s) /\ 1 .. Len(f) = 1 .. Len(s) - 1
  BY <1>1, <1>3
<1>7. DOMAIN t = 1 .. Len(s)
  BY <1>5, <1>6
<1> QED
  BY <1>1, <1>2, <1>3, <1>4, <1>5, <1>6, <1>7

\* The last job changed, on the same object.
LEMMA LastJobChanged ==
  ASSUME NEW n \in Nat \ {0}, DOMAIN job = 1 .. n, DOMAIN job' = 1 .. n,
         \A i \in 1 .. n - 1 : job'[i] = job[i],
         NEW j, job'[n] = j, NEW o, j.o = o, job[n].o = o, JobsApart
  PROVE  JobsApart' /\ \A p : p # o => Jobs(p)' = Jobs(p)
<1>1. \A i \in 1 .. n : job'[i].o = job[i].o
  OBVIOUS
<1>2. JobsApart'
  BY <1>1 DEF JobsApart
<1>3. ASSUME NEW p, p # o PROVE Jobs(p)' = Jobs(p)
  <2>1. Jobs(p)' \subseteq Jobs(p)
    BY <1>3 DEF Jobs
  <2>2. Jobs(p) \subseteq Jobs(p)'
    BY <1>3 DEF Jobs
  <2> QED
    BY <2>1, <2>2
<1> QED
  BY <1>2, <1>3

\* The last job goes on with another one on the same object and pointer.
LEMMA JobGoesOn ==
  ASSUME job \in Seq(Job), job # <<>>, JobsApart, NEW j \in Job,
         NEW o, o = Now.o, j.o = o, j.to = Now.to, job' = Append(Front(job), j)
  PROVE  /\ job' \in Seq(Job) /\ JobsApart'
         /\ Jobs(o)' = {j} /\ \A p : p # o => Jobs(p)' = Jobs(p)
         /\ DOMAIN job' = DOMAIN job
         /\ \A i \in DOMAIN job : job'[i].to = job[i].to
<1>1. PICK n : n = Len(job)
  OBVIOUS
<1>2. /\ job' \in Seq(Job) /\ n \in Nat \ {0} /\ DOMAIN job' = 1 .. n
      /\ DOMAIN job = 1 .. n /\ job'[n] = j
      /\ \A i \in 1 .. n - 1 : job'[i] = job[i]
  BY <1>1, LastReplaced
<1>3. Now = job[n]
  BY <1>1 DEF Now, Last
<1>4. JobsApart' /\ Jobs(o)' = {j} /\ \A p : p # o => Jobs(p)' = Jobs(p)
  <2>1. job[n].o = o
    BY <1>3
  <2>2. JobsApart'
    BY <1>2, <2>1, LastJobChanged
  <2>3. Jobs(o)' = {j}
    <3>1. n \in DOMAIN job' /\ job'[n] = j
      BY <1>2
    <3> QED
      BY <2>2, <3>1 DEF Jobs, JobsApart
  <2>4. ASSUME NEW p, p # o PROVE Jobs(p)' = Jobs(p)
    BY <1>2, <2>1, <2>4, LastJobChanged
  <2> QED
    BY <2>2, <2>3, <2>4
<1>5. \A i \in DOMAIN job : job'[i].to = job[i].to
  BY <1>2, <1>3
<1> QED
  BY <1>2, <1>4, <1>5

----------------------------------------------------------------------------
(* Reserved pointers.                                                      *)

\* The jobs reserve no pointer they did not, and those are still free.
LEMMA ReservedKept ==
  ASSUME Reserved, DOMAIN job' \subseteq DOMAIN job,
         \A i \in DOMAIN job' :
           /\ job'[i].to = job[i].to
           /\ job[i].to # Null => own'[job[i].to] = Null
  PROVE  Reserved'
BY DEF Reserved

\* The jobs stay, and free pointers stay free.
LEMMA ReservedSame ==
  ASSUME Reserved, TypeOK, UNCHANGED job,
         \A i \in DOMAIN job : \A v \in Var :
           job[i].to = v /\ own[v] = Null => own'[v] = Null
  PROVE  Reserved'
<1>1. \A i \in DOMAIN job : job[i].to \in Var \cup {Null}
  <2>1. \A n \in Job : n.to \in Var \cup {Null}
    BY DEF Job
  <2>2. \A i \in DOMAIN job : job[i] \in Job
    BY DEF TypeOK
  <2> QED
    BY <2>1, <2>2
<1> QED
  BY <1>1 DEF Reserved

\* One more job, for a free pointer or none.
LEMMA ReservedMore ==
  ASSUME Reserved, TypeOK, NEW j \in Job, job' = Append(job, j),
         j.to # Null => Free(j.to),
         \A v \in Var : own[v] = Null => own'[v] = Null
  PROVE  Reserved'
<1>1. /\ Len(job) \in Nat /\ DOMAIN job' = 1 .. Len(job) + 1 /\ DOMAIN job = 1 .. Len(job)
      /\ job'[Len(job) + 1] = j /\ \A i \in 1 .. Len(job) : job'[i] = job[i]
  BY DEF TypeOK
<1>2. j.to \in Var \cup {Null} /\ \A i \in 1 .. Len(job) : job[i].to \in Var \cup {Null}
  <2>1. \A n \in Job : n.to \in Var \cup {Null}
    BY DEF Job
  <2>2. \A i \in 1 .. Len(job) : job[i] \in Job
    BY DEF TypeOK
  <2> QED
    BY <2>1, <2>2
<1>3. j.to # Null => own[j.to] = Null /\ \A i \in 1 .. Len(job) : job[i].to # j.to
  BY <1>1 DEF Free
<1>4. ASSUME NEW i \in DOMAIN job', job'[i].to # Null
      PROVE  /\ own'[job'[i].to] = Null
             /\ \A n \in DOMAIN job' : job'[n].to = job'[i].to => i = n
  <2>1. CASE i = Len(job) + 1
    BY <1>1, <1>2, <1>3, <1>4, <2>1
  <2>2. CASE i \in 1 .. Len(job)
    BY <1>1, <1>2, <1>3, <1>4, <2>2 DEF Reserved
  <2> QED
    BY <1>1, <2>1, <2>2
<1> QED
  BY <1>4 DEF Reserved

----------------------------------------------------------------------------
(* Counting owners.                                                        *)

\* An object has finitely many owners.
LEMMA OwnersFinite ==
  ASSUME NEW o
  PROVE  IsFiniteSet(Owners(o)) /\ Cardinality(Owners(o)) \in Nat
<1>1. IsFiniteSet(Var) /\ Owners(o) \subseteq Var
  BY MmObjectAssumption DEF Owners
<1> QED
  BY <1>1, FS_Subset, FS_CardinalityType

\* No owner is counted exactly if there is none.
LEMMA NoOwners ==
  ASSUME NEW o
  PROVE  Cardinality(Owners(o)) = 0 <=> Owners(o) = {}
BY OwnersFinite, FS_EmptySet

\* A free pointer becomes an owner of o.
LEMMA OwnersGain ==
  ASSUME TypeOK, NEW v \in Var, own[v] = Null, NEW o \in Addr,
         own' = [own EXCEPT ![v] = o]
  PROVE  /\ own' \in [Var -> Addr \cup {Null}]
         /\ Cardinality(Owners(o)') = Cardinality(Owners(o)) + 1
         /\ Cardinality(Owners(o)') \in Nat
         /\ \A p \in Addr : p # o => Owners(p)' = Owners(p)
<1>1. o # Null /\ Null \notin Addr
  BY MmObjectAssumption
<1>2. Owners(o)' = Owners(o) \cup {v} /\ v \notin Owners(o)
  BY <1>1 DEF TypeOK, Owners
<1>3. \A p \in Addr : p # o => Owners(p)' = Owners(p)
  BY <1>1 DEF TypeOK, Owners
<1>4. Cardinality(Owners(o) \cup {v}) = Cardinality(Owners(o)) + 1
  BY <1>2, OwnersFinite, FS_AddElement
<1>5. own' \in [Var -> Addr \cup {Null}]
  BY DEF TypeOK
<1> QED
  BY <1>2, <1>3, <1>4, <1>5, OwnersFinite

\* An owner of o gives up.
LEMMA OwnersLose ==
  ASSUME TypeOK, NEW v \in Var, NEW o \in Addr, own[v] = o,
         own' = [own EXCEPT ![v] = Null]
  PROVE  /\ own' \in [Var -> Addr \cup {Null}]
         /\ Cardinality(Owners(o)') = Cardinality(Owners(o)) - 1
         /\ Cardinality(Owners(o)') \in Nat
         /\ Owners(o) # {} /\ (Cardinality(Owners(o)') = 0 => Owners(o)' = {})
         /\ \A p \in Addr : p # o => Owners(p)' = Owners(p)
<1>1. o # Null /\ Null \notin Addr
  BY MmObjectAssumption
<1>2. Owners(o)' = Owners(o) \ {v} /\ v \in Owners(o)
  BY <1>1 DEF TypeOK, Owners
<1>3. \A p \in Addr : p # o => Owners(p)' = Owners(p)
  BY <1>1 DEF TypeOK, Owners
<1>4. Cardinality(Owners(o) \ {v}) = Cardinality(Owners(o)) - 1
  BY <1>2, OwnersFinite, FS_RemoveElement
<1>5. /\ Cardinality(Owners(o) \ {v}) \in Nat
      /\ Cardinality(Owners(o) \ {v}) = 0 => Owners(o) \ {v} = {}
  BY OwnersFinite, FS_RemoveElement, FS_CardinalityType, FS_EmptySet
<1> QED
  BY <1>2, <1>3, <1>4, <1>5 DEF TypeOK

----------------------------------------------------------------------------
(* The invariant of one address after a step.                              *)

\* An address that the step leaves alone.
LEMMA SoundKept ==
  ASSUME NEW o, Sound(o), obj'[o] = obj[o], Jobs(o)' = Jobs(o),
         Owners(o)' = Owners(o), o \in seen' <=> o \in seen
  PROVE  Sound(o)'
BY DEF Sound, Fits, Held, Begun

\* One with a job.
LEMMA SoundBusy ==
  ASSUME NEW o, NEW j, NEW x, obj'[o] = x, x # Null, Jobs(o)' = {j},
         x.r = Cardinality(Owners(o)') + Held(o)' + IF j.do # "destroy" THEN 1 ELSE 0,
         j.k \in 0 .. Top(x), Follows(x, j),
         j.do = "init" /\ Owners(o)' # {} => o \in seen' /\ j.k = Top(x)
  PROVE  Sound(o)'
BY DEF Sound, Fits, Begun

\* One without.
LEMMA SoundIdle ==
  ASSUME NEW o, NEW x, obj'[o] = x, x # Null, Jobs(o)' = {},
         x.r = Cardinality(Owners(o)') + Held(o)', AtRest(x), x.r \in Nat
  PROVE  Sound(o)'
<1>1. Begun(o)' = 0
  BY DEF Begun
<1>2. Held(o)' \in Nat
  BY DEF Held
<1> QED
  BY <1>1, <1>2 DEF Sound

\* What the invariant says of a busy object.
LEMMA BusyFacts ==
  ASSUME IInv, job # <<>>, NEW o, o = Now.o
  PROVE  /\ o \in Addr /\ obj[o] # Null /\ IsBlock(obj[o]) /\ Fits(o, Now)
         /\ Jobs(o) = {Now} /\ Now \in Job
         /\ obj[o].r = Cardinality(Owners(o)) + Held(o)
                         + IF Now.do # "destroy" THEN 1 ELSE 0
<1>1. o \in Addr /\ Jobs(o) = {Now} /\ Now \in Job
  BY NowType, NowAlone DEF IInv, TypeOK
<1>2. Sound(o)
  BY <1>1 DEF IInv
<1>3. obj[o] # Null
  BY <1>1, <1>2 DEF Sound
<1> QED
  BY <1>1, <1>2, <1>3 DEF Sound, Begun, IInv, TypeOK

\* One address of the heap is written.
LEMMA HeapWritten ==
  ASSUME TypeOK, NEW o \in Addr, NEW x, x = Null \/ IsBlock(x),
         obj' = [obj EXCEPT ![o] = x]
  PROVE  /\ obj' = [p \in Addr |-> obj'[p]]
         /\ \A p \in Addr : obj'[p] = Null \/ IsBlock(obj'[p])
         /\ obj'[o] = x /\ \A p \in Addr : p # o => obj'[p] = obj[p]
BY DEF TypeOK
----------------------------------------------------------------------------
(* Initialisation.                                                         *)

\* A layer begins, after its header and unpackNextContext: o has one count
\* more than its pointers and the unpacker account for.
LEMMA BeginInv ==
  ASSUME IInv, NEW o \in Addr, NEW x, NEW k, NEW to, NEW jobs,
         Begin(o, x, k, jobs, to), IsBlock(Enter(x, k)), k \in Layers(Enter(x, k).cls),
         Enter(x, k).up = k, Enter(x, k).ok = k - 1,
         \A l \in Layers(Enter(x, k).cls) : Enter(x, k).ran[l] = 0,
         Enter(x, k).r = Held(o) + 1, Owners(o) = {},
         UNCHANGED <<own, fault>>, job' \in Seq(Job), JobsApart', Reserved',
         Jobs(o)' = {[do |-> "init", o |-> o, k |-> k, to |-> to]},
         \A p : p # o => Jobs(p)' = Jobs(p)
  PROVE  IInv'
<1> USE DEF IInv
<1> DEFINE first == to = Null /\ o \notin seen /\ Lineage[x.cls][k] \notin Plain
           y == IF first THEN [Enter(x, k) EXCEPT !.r = @ + 1] ELSE Enter(x, k)
           j == [do |-> "init", o |-> o, k |-> k, to |-> to]
<1>1. /\ obj' = [obj EXCEPT ![o] = y]
      /\ seen' = IF first THEN seen \cup {o} ELSE seen
  BY DEF Begin
<1>2. /\ IsBlock(y) /\ y.cls = Enter(x, k).cls /\ y.up = k /\ y.ok = k - 1
      /\ y.ran = Enter(x, k).ran /\ y.r = Enter(x, k).r + IF first THEN 1 ELSE 0
      /\ Enter(x, k).r \in Nat
  <2>1. Enter(x, k).r \in Nat
    BY BlockFields
  <2>2. PICK e : e = Enter(x, k)
    OBVIOUS
  <2>3. IsBlock(e) /\ e.r + 1 \in Nat
    BY <2>1, <2>2
  <2>4. PICK z : z = [e EXCEPT !.r = e.r + 1]
    OBVIOUS
  <2>5. /\ IsBlock(z) /\ z.cls = e.cls /\ z.up = e.up /\ z.ok = e.ok
        /\ z.ran = e.ran /\ z.r = e.r + 1
    BY <2>3, <2>4, BlockCounted
  <2>6. y = IF first THEN z ELSE e
    BY <2>2, <2>4
  <2> HIDE DEF first, y
  <2> QED
    BY <2>1, <2>2, <2>3, <2>5, <2>6
<1>3. Held(o)' = Held(o) + IF first THEN 1 ELSE 0
  BY <1>1 DEF Held
<1> HIDE DEF y, first
<1>4. /\ obj' = [p \in Addr |-> obj'[p]]
      /\ \A p \in Addr : obj'[p] = Null \/ IsBlock(obj'[p])
      /\ obj'[o] = y /\ \A p \in Addr : p # o => obj'[p] = obj[p]
  BY <1>1, <1>2, HeapWritten
<1>5. y # Null
  BY <1>2, NullIsNoBlock
<1>6. Owners(o)' = {} /\ \A p : Owners(p)' = Owners(p)
  BY DEF Owners
<1>7. Sound(o)'
  <2>1. y.r = Cardinality(Owners(o)') + Held(o)' + 1
    <3>1. Held(o) \in Nat
      BY DEF Held
    <3>2. Cardinality(Owners(o)') = 0
      BY <1>6, FS_EmptySet
    <3> QED
      BY <1>2, <1>3, <3>1, <3>2
  <2>2. j.k \in 0 .. Top(y) /\ Follows(y, j)
    <3>1. Layers(y.cls) = 1 .. Top(y) /\ Top(y) \in Nat
      BY <1>2, BlockFields
    <3> QED
      BY <1>2, <3>1 DEF Follows
  <2> QED
    BY <1>4, <1>5, <1>6, <2>1, <2>2, SoundBusy
<1>8. ASSUME NEW p \in Addr, p # o PROVE Sound(p)'
  BY <1>1, <1>4, <1>6, <1>8, SoundKept
<1>9. TypeOK'
  BY <1>1, <1>4 DEF TypeOK
<1> QED
  BY <1>7, <1>8, <1>9

\* alloc and unpack begin with the root's layer.
LEMMA NewInv ==
  ASSUME IInv, NEW o \in Addr, NEW c \in Class, NEW to \in Var \cup {Null}, New(o, c, to)
  PROVE  IInv'
<1> USE DEF IInv
<1> DEFINE j == [do |-> "init", o |-> o, k |-> 1, to |-> to]
<1>1. /\ obj[o] = Null /\ (to # Null => Free(to)) /\ UNCHANGED <<own, fault>>
      /\ Begin(o, Fresh(c), 1, job, to) /\ job' = Append(job, j)
  BY DEF New, Begin
<1>2. Jobs(o) = {} /\ Owners(o) = {} /\ o \notin seen
  BY <1>1 DEF Sound
<1>3. j \in Job /\ j.o = o /\ j.to = to
  BY DEF Job
<1> HIDE DEF j
<1>4. /\ job' \in Seq(Job) /\ JobsApart'
      /\ Jobs(o)' = {j} /\ \A p : p # o => Jobs(p)' = Jobs(p)
  BY <1>1, <1>2, <1>3, JobBegins DEF TypeOK
<1>5. Reserved'
  BY <1>1, <1>3, ReservedMore
<1>6. PICK y : y = Enter(Fresh(c), 1)
  OBVIOUS
<1>7. /\ IsBlock(y) /\ y.cls = c /\ y.up = 1 /\ y.ok = 1 - 1 /\ y.r = Held(o) + 1
      /\ 1 \in Layers(y.cls) /\ \A l \in Layers(y.cls) : y.ran[l] = 0
  <2>1. /\ IsBlock(y) /\ y.cls = c /\ y.up = 1 /\ y.ok = 0 /\ y.r = 1
        /\ y.ran = [k \in Layers(c) |-> 0]
    BY <1>6, BlockFresh
  <2>2. Held(o) = 0 /\ 1 \in Layers(c)
    BY <1>2, LayersType DEF Held
  <2> QED
    BY <2>1, <2>2
<1> QED
  BY <1>1, <1>2, <1>4, <1>5, <1>6, <1>7, BeginInv DEF j

\* init_ of the next layer.
LEMMA InitLayerInv ==
  ASSUME IInv, InitLayer
  PROVE  IInv'
<1> USE DEF IInv
<1>1. PICK o : o = Now.o
  OBVIOUS
<1>2. PICK n : n = Now
  OBVIOUS
<1> DEFINE x == [obj[o] EXCEPT !.ok = n.k]
           j == [do |-> "init", o |-> o, k |-> n.k + 1, to |-> n.to]
<1>3. /\ job # <<>> /\ n.do = "init" /\ n.k < Top(obj[o]) /\ UNCHANGED <<own, fault>>
      /\ Begin(o, x, n.k + 1, Front(job), n.to) /\ job' = Append(Front(job), j)
  BY <1>1, <1>2 DEF InitLayer, Initialising, Begin
<1>4. /\ o \in Addr /\ IsBlock(obj[o]) /\ Fits(o, n) /\ Jobs(o) = {n} /\ n \in Job
      /\ obj[o].r = Cardinality(Owners(o)) + Held(o) + 1
  BY <1>1, <1>2, <1>3, BusyFacts
<1>5. n.k \in Nat /\ n.to \in Var \cup {Null} /\ j \in Job /\ j.o = o /\ j.to = n.to
  BY <1>4 DEF Job
<1>6. n.k \in 1 .. Top(obj[o]) /\ n.k + 1 \in 1 .. Top(obj[o]) /\ Top(obj[o]) \in Nat
      /\ Layers(obj[o].cls) = 1 .. Top(obj[o])
  BY <1>3, <1>4, <1>5, BlockFields DEF Fits, Follows
<1>7. Owners(o) = {} /\ \A l \in Layers(obj[o].cls) : obj[o].ran[l] = 0
  BY <1>3, <1>4, <1>5, <1>6 DEF Fits, Follows
<1>8. /\ IsBlock(x) /\ x.cls = obj[o].cls /\ x.ok = n.k /\ x.ran = obj[o].ran
      /\ x.r = obj[o].r
  <2>1. n.k \in Layers(obj[o].cls) \cup {0}
    BY <1>6
  <2> QED
    BY <1>4, <2>1, BlockInitialised
<1> HIDE DEF x
<1>9. PICK y : y = Enter(x, n.k + 1)
  OBVIOUS
<1>10. /\ IsBlock(y) /\ n.k + 1 \in Layers(y.cls) /\ y.up = n.k + 1
       /\ y.ok = (n.k + 1) - 1 /\ (\A l \in Layers(y.cls) : y.ran[l] = 0)
       /\ y.r = Held(o) + 1
  <2>1. n.k + 1 \in Layers(x.cls)
    BY <1>6, <1>8
  <2>2. /\ IsBlock(y) /\ y.cls = x.cls /\ y.up = n.k + 1 /\ y.ok = x.ok
        /\ y.ran = x.ran /\ y.r = x.r
    BY <1>8, <1>9, <2>1, BlockEntered
  <2>3. Cardinality(Owners(o)) = 0 /\ Held(o) \in Nat
    BY <1>7, FS_EmptySet DEF Held
  <2>4. y.r = Held(o) + 1
    BY <1>4, <1>8, <2>2, <2>3
  <2>5. n.k = (n.k + 1) - 1
    BY <1>5
  <2> QED
    BY <1>7, <1>8, <2>1, <2>2, <2>4, <2>5
<1> HIDE DEF j
<1>11. /\ job' \in Seq(Job) /\ JobsApart' /\ Reserved'
       /\ Jobs(o)' = {j} /\ \A p : p # o => Jobs(p)' = Jobs(p)
  <2>1. /\ job' \in Seq(Job) /\ JobsApart'
        /\ Jobs(o)' = {j} /\ \A p : p # o => Jobs(p)' = Jobs(p)
        /\ DOMAIN job' = DOMAIN job
        /\ \A i \in DOMAIN job : job'[i].to = job[i].to
    BY <1>1, <1>2, <1>3, <1>5, JobGoesOn DEF TypeOK
  <2>2. Reserved'
    BY <1>3, <2>1, ReservedKept DEF Reserved
  <2> QED
    BY <2>1, <2>2
<1> QED
  BY <1>3, <1>4, <1>7, <1>9, <1>10, <1>11, BeginInv DEF j
\* A step that ends the last job, or goes on with it, keeps what it says of
\* the other addresses.
LEMMA OthersKept ==
  ASSUME IInv, NEW o \in Addr, NEW x, x = Null \/ IsBlock(x),
         obj' = [obj EXCEPT ![o] = x],
         \A p : p # o => Jobs(p)' = Jobs(p),
         \A p \in Addr : p # o => Owners(p)' = Owners(p) /\ (p \in seen' <=> p \in seen),
         Sound(o)', job' \in Seq(Job), JobsApart', Reserved',
         own' \in [Var -> Addr \cup {Null}], seen' \subseteq Addr, fault' \in BOOLEAN
  PROVE  IInv'
<1> USE DEF IInv
<1>1. /\ obj' = [p \in Addr |-> obj'[p]]
      /\ \A p \in Addr : obj'[p] = Null \/ IsBlock(obj'[p])
      /\ obj'[o] = x /\ \A p \in Addr : p # o => obj'[p] = obj[p]
  BY HeapWritten
<1>2. ASSUME NEW p \in Addr, p # o PROVE Sound(p)'
  BY <1>1, <1>2, SoundKept
<1>3. TypeOK'
  BY <1>1 DEF TypeOK
<1> QED
  BY <1>2, <1>3

\* fn_init of the last layer has returned: the job ends.
LEMMA DoneFacts ==
  ASSUME IInv, Initialising, NEW o, o = Now.o, NEW n, n = Now, n.k = Top(obj[o]),
         job' = Front(job), NEW x, x = [obj[o] EXCEPT !.ok = n.k]
  PROVE  /\ o \in Addr /\ n \in Job
         /\ IsBlock(x) /\ AtRest(x) /\ x.r = Cardinality(Owners(o)) + Held(o) + 1
         /\ job' \in Seq(Job) /\ JobsApart'
         /\ Jobs(o)' = {} /\ \A p : p # o => Jobs(p)' = Jobs(p)
         /\ job # <<>> /\ Len(job) \in Nat \ {0} /\ DOMAIN job' = 1 .. Len(job) - 1
         /\ DOMAIN job = 1 .. Len(job) /\ n = job[Len(job)]
         /\ \A i \in 1 .. Len(job) - 1 : job'[i] = job[i]
<1> USE DEF IInv
<1>1. job # <<>> /\ n.do = "init"
  BY DEF Initialising
<1>2. /\ o \in Addr /\ IsBlock(obj[o]) /\ Fits(o, n) /\ n \in Job
      /\ obj[o].r = Cardinality(Owners(o)) + Held(o) + 1
  BY <1>1, BusyFacts
<1>3. Top(obj[o]) \in Nat \ {0} /\ Layers(obj[o].cls) = 1 .. Top(obj[o])
  BY <1>2, BlockFields
<1>4. n.k \in Layers(obj[o].cls) \cup {0}
  BY <1>3
<1>5. /\ IsBlock(x) /\ x.cls = obj[o].cls /\ x.up = obj[o].up /\ x.ok = n.k
      /\ x.ran = obj[o].ran /\ x.r = obj[o].r
  BY <1>2, <1>4, BlockInitialised
<1>6. AtRest(x)
  BY <1>1, <1>2, <1>5 DEF AtRest, Fits, Follows, Top
<1>7. /\ job' \in Seq(Job) /\ JobsApart'
      /\ Jobs(o)' = {} /\ \A p : p # o => Jobs(p)' = Jobs(p)
  BY <1>1, JobEnds DEF TypeOK
<1>8. /\ Len(job) \in Nat \ {0} /\ n = job[Len(job)] /\ DOMAIN job = 1 .. Len(job)
      /\ DOMAIN job' = 1 .. Len(job) - 1 /\ \A i \in 1 .. Len(job) - 1 : job'[i] = job[i]
  BY <1>1, NowType DEF Front, TypeOK
<1> QED
  BY <1>1, <1>2, <1>5, <1>6, <1>7, <1>8

\* An allocated object is handed to its owner.
LEMMA AllocDoneInv ==
  ASSUME IInv, AllocDone
  PROVE  IInv'
<1> USE DEF IInv
<1>1. PICK o : o = Now.o
  OBVIOUS
<1>2. PICK n : n = Now
  OBVIOUS
<1>3. PICK x : x = [obj[o] EXCEPT !.ok = n.k]
  OBVIOUS
<1>4. /\ Initialising /\ n.k = Top(obj[o]) /\ n.to # Null /\ job' = Front(job)
      /\ own' = [own EXCEPT ![n.to] = o] /\ UNCHANGED <<seen, fault>>
  BY <1>1, <1>2 DEF AllocDone
<1>5. obj' = [obj EXCEPT ![o] = x]
  BY <1>1, <1>2, <1>3 DEF AllocDone
<1>6. /\ o \in Addr /\ n \in Job
      /\ IsBlock(x) /\ AtRest(x) /\ x.r = Cardinality(Owners(o)) + Held(o) + 1
      /\ job' \in Seq(Job) /\ JobsApart'
      /\ Jobs(o)' = {} /\ \A p : p # o => Jobs(p)' = Jobs(p)
      /\ Len(job) \in Nat \ {0} /\ DOMAIN job' = 1 .. Len(job) - 1
      /\ DOMAIN job = 1 .. Len(job) /\ n = job[Len(job)]
      /\ \A i \in 1 .. Len(job) - 1 : job'[i] = job[i]
  <2> Initialising /\ n.k = Top(obj[o]) /\ job' = Front(job)
    BY <1>4
  <2>1. /\ o \in Addr /\ n \in Job
        /\ IsBlock(x) /\ AtRest(x) /\ x.r = Cardinality(Owners(o)) + Held(o) + 1
        /\ job' \in Seq(Job) /\ JobsApart'
        /\ Jobs(o)' = {} /\ \A p : p # o => Jobs(p)' = Jobs(p)
    BY <1>1, <1>2, <1>3, DoneFacts
  <2>2. /\ Len(job) \in Nat \ {0} /\ DOMAIN job' = 1 .. Len(job) - 1
        /\ DOMAIN job = 1 .. Len(job) /\ \A i \in 1 .. Len(job) - 1 : job'[i] = job[i]
    BY <1>1, <1>2, <1>3, <1>4, DoneFacts
  <2>3. n = job[Len(job)]
    BY <1>2 DEF Now, Last
  <2> QED
    BY <2>1, <2>2, <2>3
<1>7. n.to \in Var /\ own[n.to] = Null
  <2>1. n.to \in Var \cup {Null} /\ Len(job) \in DOMAIN job
    BY <1>6 DEF Job
  <2> QED
    BY <1>4, <1>6, <2>1 DEF Reserved
<1>8. /\ own' \in [Var -> Addr \cup {Null}]
      /\ Cardinality(Owners(o)') = Cardinality(Owners(o)) + 1
      /\ \A p \in Addr : p # o => Owners(p)' = Owners(p)
  BY <1>4, <1>6, <1>7, OwnersGain
<1>9. Reserved'
  <2>1. ASSUME NEW i \in DOMAIN job'
        PROVE  i \in DOMAIN job /\ job'[i] = job[i] /\ job[i].to # n.to
    <3>1. i \in 1 .. Len(job) - 1 /\ i \in DOMAIN job /\ i # Len(job) /\ Len(job) \in DOMAIN job
      BY <1>6, <2>1
    <3> QED
      BY <1>4, <1>6, <3>1 DEF Reserved
  <2>2. ASSUME NEW i \in DOMAIN job', job[i].to # Null PROVE own'[job[i].to] = Null
    BY <1>4, <2>1, <2>2 DEF Reserved, TypeOK
  <2> QED
    BY <2>1, <2>2, ReservedKept
<1>10. Sound(o)'
  <2>1. Held(o)' = Held(o) /\ Held(o) \in Nat /\ Cardinality(Owners(o)) \in Nat
    BY <1>4, OwnersFinite DEF Held
  <2>2. x.r = Cardinality(Owners(o)') + Held(o)' /\ x.r \in Nat
    <3>1. x.r = Cardinality(Owners(o)) + Held(o) + 1
      BY <1>6
    <3>2. Cardinality(Owners(o)') = Cardinality(Owners(o)) + 1
      BY <1>8
    <3> QED
      BY <2>1, <3>1, <3>2
  <2>3. x # Null /\ obj'[o] = x
    BY <1>5, <1>6, NullIsNoBlock, HeapWritten
  <2> QED
    BY <1>6, <2>2, <2>3, SoundIdle
<1> QED
  BY <1>4, <1>5, <1>6, <1>8, <1>9, <1>10, OthersKept DEF TypeOK

\* An unpacked object is autoreleased and stays with the unpacker.
LEMMA UnpackDoneInv ==
  ASSUME IInv, UnpackDone
  PROVE  IInv'
<1> USE DEF IInv
<1>1. PICK o : o = Now.o
  OBVIOUS
<1>2. PICK n : n = Now
  OBVIOUS
<1>3. PICK x : x = [obj[o] EXCEPT !.ok = n.k]
  OBVIOUS
<1>4. /\ Initialising /\ n.k = Top(obj[o]) /\ job' = Front(job)
      /\ seen' = seen \cup {o} /\ UNCHANGED <<own, fault>>
      /\ obj' = [obj EXCEPT ![o] = IF o \in seen THEN [x EXCEPT !.r = @ - 1] ELSE x]
  BY <1>1, <1>2, <1>3 DEF UnpackDone
<1>5. /\ o \in Addr /\ n \in Job
      /\ IsBlock(x) /\ AtRest(x) /\ x.r = Cardinality(Owners(o)) + Held(o) + 1
      /\ job' \in Seq(Job) /\ JobsApart'
      /\ Jobs(o)' = {} /\ \A p : p # o => Jobs(p)' = Jobs(p)
      /\ Len(job) \in Nat \ {0} /\ DOMAIN job' = 1 .. Len(job) - 1
      /\ DOMAIN job = 1 .. Len(job)
      /\ \A i \in 1 .. Len(job) - 1 : job'[i] = job[i]
  BY <1>1, <1>2, <1>3, <1>4, DoneFacts
<1>6. PICK y : y = IF o \in seen THEN [x EXCEPT !.r = x.r - 1] ELSE x
  OBVIOUS
<1>7. /\ Cardinality(Owners(o)) \in Nat /\ (\A p : Owners(p)' = Owners(p))
      /\ Held(o) = (IF o \in seen THEN 1 ELSE 0) /\ Held(o)' = 1
  BY <1>4, OwnersFinite DEF Owners, Held
<1>8. /\ IsBlock(y) /\ AtRest(y) /\ y.r = Cardinality(Owners(o)) + 1 /\ y.r \in Nat
  <2>1. CASE o \in seen
    <3>1. x.r - 1 \in Nat /\ x.r - 1 = Cardinality(Owners(o)) + 1
      BY <1>5, <1>7, <2>1
    <3> QED
      BY <1>5, <1>6, <2>1, <3>1, BlockCounted DEF AtRest, Top
  <2>2. CASE o \notin seen
    BY <1>5, <1>6, <1>7, <2>2
  <2> QED
    BY <2>1, <2>2
<1>9. obj' = [obj EXCEPT ![o] = y]
  BY <1>4, <1>6
<1>10. Reserved'
  <2>1. DOMAIN job' \subseteq DOMAIN job /\ \A i \in DOMAIN job' : job'[i] = job[i]
    BY <1>5
  <2> QED
    BY <1>4, <2>1, ReservedKept DEF Reserved
<1>11. Sound(o)'
  <2>1. y # Null /\ obj'[o] = y
    BY <1>5, <1>8, <1>9, NullIsNoBlock, HeapWritten
  <2>2. y.r = Cardinality(Owners(o)') + Held(o)'
    BY <1>7, <1>8
  <2> QED
    BY <1>5, <1>8, <2>1, <2>2, SoundIdle
<1>12. seen' \subseteq Addr
  BY <1>4, <1>5 DEF TypeOK
<1> QED
  BY <1>4, <1>5, <1>7, <1>8, <1>9, <1>10, <1>11, <1>12, OthersKept DEF TypeOK
----------------------------------------------------------------------------
(* Failure and destruction.                                                *)

\* The last job changes on its object, with the pointers as they are.
LEMMA GoOnInv ==
  ASSUME IInv, job # <<>>, NEW o, o = Now.o, NEW n, n = Now,
         NEW j \in Job, j.o = o, j.to = n.to, job' = Append(Front(job), j),
         NEW x, IsBlock(x), obj' = [obj EXCEPT ![o] = x],
         j.do # "destroy" <=> n.do # "destroy", j.do # "init", x.r = obj[o].r,
         j.k \in 0 .. Top(x), Follows(x, j), UNCHANGED <<own, seen, fault>>
  PROVE  IInv'
<1> USE DEF IInv
<1>1. /\ o \in Addr /\ n \in Job
      /\ obj[o].r = Cardinality(Owners(o)) + Held(o)
                      + IF n.do # "destroy" THEN 1 ELSE 0
  BY BusyFacts
<1>2. /\ job' \in Seq(Job) /\ JobsApart'
      /\ Jobs(o)' = {j} /\ \A p : p # o => Jobs(p)' = Jobs(p)
      /\ DOMAIN job' = DOMAIN job
      /\ \A i \in DOMAIN job : job'[i].to = job[i].to
  BY JobGoesOn DEF TypeOK
<1>3. Reserved'
  BY <1>2, ReservedKept DEF Reserved
<1>4. (\A p : Owners(p)' = Owners(p)) /\ Held(o)' = Held(o)
  BY DEF Owners, Held
<1>5. Sound(o)'
  <2>1. x # Null /\ obj'[o] = x
    BY <1>1, NullIsNoBlock, HeapWritten
  <2>2. x.r = Cardinality(Owners(o)') + Held(o)' + IF j.do # "destroy" THEN 1 ELSE 0
    BY <1>1, <1>4
  <2> QED
    BY <1>2, <2>1, <2>2, SoundBusy
<1> QED
  BY <1>1, <1>2, <1>3, <1>4, <1>5, OthersKept DEF TypeOK

\* A job that goes on to layer k.
LEMMA JobMoves ==
  ASSUME NEW n \in Job, NEW k \in Nat
  PROVE  LET j == [n EXCEPT !.k = k]
         IN  j \in Job /\ j.o = n.o /\ j.to = n.to /\ j.do = n.do /\ j.k = k
BY DEF Job

\* A job that turns to failure.
LEMMA JobFails ==
  ASSUME NEW n \in Job, NEW k \in Nat
  PROVE  LET j == [n EXCEPT !.do = "fail", !.k = k]
         IN  j \in Job /\ j.o = n.o /\ j.to = n.to /\ j.do = "fail" /\ j.k = k
BY DEF Job

\* An initialiser fails: nobody else has met the object yet.
LEMMA InitFailInv ==
  ASSUME IInv, InitFail, Now.o \notin seen
  PROVE  IInv'
<1> USE DEF IInv
<1>1. PICK o : o = Now.o
  OBVIOUS
<1>2. PICK n : n = Now
  OBVIOUS
<1>3. PICK j : j = [n EXCEPT !.do = "fail", !.k = n.k - 1]
  OBVIOUS
<1>4. /\ job # <<>> /\ n.do = "init" /\ job' = Append(Front(job), j)
      /\ UNCHANGED <<obj, own, seen, fault>> /\ o \notin seen
  BY <1>1, <1>2, <1>3 DEF InitFail, Failing, Initialising, FailBelow
<1>5. /\ o \in Addr /\ IsBlock(obj[o]) /\ Fits(o, n) /\ n \in Job
      /\ obj[o].r = Cardinality(Owners(o)) + Held(o) + 1
  BY <1>1, <1>2, <1>4, BusyFacts
<1>6. /\ Top(obj[o]) \in Nat /\ Layers(obj[o].cls) = 1 .. Top(obj[o])
      /\ obj[o].up = n.k /\ obj[o].up \in Layers(obj[o].cls) /\ obj[o].ok = n.k - 1
  BY <1>4, <1>5, BlockFields DEF Fits, Follows
<1>7. n.k - 1 \in Nat /\ n.k - 1 \in 0 .. Top(obj[o])
  BY <1>6
<1>8. j \in Job /\ j.o = o /\ j.to = n.to /\ j.do = "fail" /\ j.k = n.k - 1
  <2>1. n.o = o
    BY <1>1, <1>2
  <2> QED
    BY <1>3, <1>5, <1>7, <2>1, JobFails
<1>9. obj[o].r = 1
  <2>1. Held(o) = 0 /\ Cardinality(Owners(o)) = 0
    BY <1>4, <1>5, FS_EmptySet DEF Held, Fits
  <2> QED
    BY <1>5, <2>1
<1>10. Follows(obj[o], j)
  BY <1>4, <1>5, <1>6, <1>7, <1>8, <1>9 DEF Follows, Fits
<1>11. obj' = [obj EXCEPT ![o] = obj[o]]
  BY <1>4 DEF TypeOK
<1> QED
  BY <1>1, <1>2, <1>4, <1>5, <1>7, <1>8, <1>10, <1>11, GoOnInv

\* fn_destroy of a layer.
LEMMA DestroyLayerInv ==
  ASSUME IInv, DestroyLayer
  PROVE  IInv'
<1> USE DEF IInv
<1>1. PICK o : o = Now.o
  OBVIOUS
<1>2. PICK n : n = Now
  OBVIOUS
<1>3. PICK j : j = [n EXCEPT !.k = n.k - 1]
  OBVIOUS
<1>4. PICK x : x = [obj[o] EXCEPT !.ran[n.k] = @ + 1]
  OBVIOUS
<1>5. /\ job # <<>> /\ n.do \in {"fail", "destroy"} /\ n.k > 0
      /\ job' = Append(Front(job), j) /\ UNCHANGED <<own, seen, fault>>
  BY <1>1, <1>2, <1>3 DEF DestroyLayer, Destroying
<1>6. /\ o \in Addr /\ IsBlock(obj[o]) /\ Fits(o, n) /\ n \in Job
  BY <1>1, <1>2, <1>5, BusyFacts
<1>7. /\ Top(obj[o]) \in Nat /\ Layers(obj[o].cls) = 1 .. Top(obj[o])
      /\ obj[o].ok \in 0 .. Top(obj[o]) /\ obj[o].ran \in [Layers(obj[o].cls) -> Nat]
  BY <1>6, BlockFields
<1>8. /\ n.k \in 0 .. Top(obj[o]) /\ n.k \in Layers(obj[o].cls)
      /\ n.k - 1 \in Nat /\ n.k - 1 \in 0 .. Top(obj[o]) /\ n.k <= obj[o].ok
  BY <1>5, <1>6, <1>7 DEF Fits, Follows
<1>9. j \in Job /\ j.o = o /\ j.to = n.to /\ j.do = n.do /\ j.k = n.k - 1
  <2>1. n.o = o
    BY <1>1, <1>2
  <2> QED
    BY <1>3, <1>6, <1>8, <2>1, JobMoves
<1>10. /\ IsBlock(x) /\ x.cls = obj[o].cls /\ x.up = obj[o].up /\ x.ok = obj[o].ok
       /\ x.ran = [obj[o].ran EXCEPT ![n.k] = @ + 1] /\ x.r = obj[o].r
  BY <1>4, <1>6, <1>8, BlockDestroyed
<1>11. Follows(x, j)
  <2>1. ASSUME NEW k \in Layers(x.cls)
        PROVE  x.ran[k] = IF j.do # "init" /\ j.k < k /\ k <= x.ok THEN 1 ELSE 0
    <3>1. /\ k \in 1 .. Top(obj[o]) /\ k \in Layers(obj[o].cls)
          /\ obj[o].ran[k] = IF n.k < k /\ k <= obj[o].ok THEN 1 ELSE 0
      BY <1>5, <1>6, <1>7, <1>10, <2>1 DEF Fits, Follows
    <3>2. CASE k = n.k
      BY <1>5, <1>7, <1>8, <1>9, <1>10, <3>1, <3>2
    <3>3. CASE k # n.k
      <4>1. x.ran[k] = obj[o].ran[k]
        BY <1>7, <1>10, <3>1, <3>3
      <4> QED
        BY <1>5, <1>7, <1>8, <1>9, <1>10, <3>1, <3>3, <4>1
    <3> QED
      BY <3>2, <3>3
  <2>2. /\ j.do = "fail" => j.k <= x.ok /\ x.r = 1
        /\ j.do = "destroy" => x.up = Top(x) /\ x.ok = Top(x) /\ x.r = 0
    BY <1>6, <1>7, <1>8, <1>9, <1>10 DEF Fits, Follows, Top
  <2> QED
    BY <1>5, <1>9, <2>1, <2>2 DEF Follows
<1>12. obj' = [obj EXCEPT ![o] = x]
  <2>1. obj' = [obj EXCEPT ![o].ran[n.k] = @ + 1]
    BY <1>1, <1>2 DEF DestroyLayer
  <2> QED
    BY <1>4, <2>1
<1>13. j.k \in 0 .. Top(x)
  BY <1>8, <1>9, <1>10 DEF Top
<1> QED
  BY <1>1, <1>2, <1>5, <1>6, <1>9, <1>10, <1>11, <1>12, <1>13, GoOnInv

\* The block of a destroyed object has no count but alloc's and is freed.
LEMMA DestroyEndInv ==
  ASSUME IInv, DestroyEnd
  PROVE  IInv'
<1> USE DEF IInv
<1>1. PICK o : o = Now.o
  OBVIOUS
<1>2. PICK n : n = Now
  OBVIOUS
<1>3. /\ job # <<>> /\ n.do \in {"fail", "destroy"} /\ job' = Front(job)
      /\ UNCHANGED <<own, seen, fault>>
  BY <1>1, <1>2 DEF DestroyEnd, Destroying
<1>4. /\ o \in Addr /\ IsBlock(obj[o]) /\ Fits(o, n)
      /\ obj[o].r = Cardinality(Owners(o)) + Held(o)
                      + IF n.do # "destroy" THEN 1 ELSE 0
  BY <1>1, <1>2, <1>3, BusyFacts
<1>5. n.do = "destroy" \/ obj[o].r = 1
  BY <1>3, <1>4 DEF Fits, Follows
<1>6. obj' = [obj EXCEPT ![o] = Null]
  BY <1>1, <1>2, <1>5 DEF DestroyEnd
<1>7. Cardinality(Owners(o)) = 0 /\ Held(o) = 0
  <2>1. Cardinality(Owners(o)) \in Nat /\ Held(o) \in Nat
    BY OwnersFinite DEF Held
  <2>2. obj[o].r = IF n.do # "destroy" THEN 1 ELSE 0
    BY <1>3, <1>4 DEF Fits, Follows
  <2> QED
    BY <1>4, <2>1, <2>2
<1>8. Owners(o) = {} /\ o \notin seen
  BY <1>7, NoOwners DEF Held
<1>9. /\ job' \in Seq(Job) /\ JobsApart'
      /\ Jobs(o)' = {} /\ \A p : p # o => Jobs(p)' = Jobs(p)
  BY <1>1, <1>3, JobEnds DEF TypeOK
<1>10. Reserved'
  <2>1. /\ Len(job) \in Nat \ {0} /\ DOMAIN job = 1 .. Len(job)
        /\ DOMAIN job' = 1 .. Len(job) - 1 /\ \A i \in 1 .. Len(job) - 1 : job'[i] = job[i]
    BY <1>3 DEF Front, TypeOK
  <2>2. DOMAIN job' \subseteq DOMAIN job /\ \A i \in DOMAIN job' : job'[i] = job[i]
    BY <2>1
  <2> QED
    BY <1>3, <2>2, ReservedKept DEF Reserved
<1>11. \A p : Owners(p)' = Owners(p)
  BY <1>3 DEF Owners
<1>12. Sound(o)'
  <2>1. obj'[o] = Null
    BY <1>4, <1>6, HeapWritten
  <2> QED
    BY <1>3, <1>8, <1>9, <1>11, <2>1 DEF Sound
<1> QED
  BY <1>3, <1>4, <1>6, <1>9, <1>10, <1>11, <1>12, OthersKept DEF TypeOK
----------------------------------------------------------------------------
(* Counts given up and taken.                                              *)

\* The block of o is written while the jobs stay as they are.
LEMMA WrittenInv ==
  ASSUME IInv, NEW o \in Addr, obj[o] # Null, NEW x, IsBlock(x),
         x.cls = obj[o].cls, x.up = obj[o].up, x.ok = obj[o].ok, x.ran = obj[o].ran,
         obj' = [obj EXCEPT ![o] = x], UNCHANGED job,
         x.r = Cardinality(Owners(o)') + Held(o)' + Begun(o),
         \A j \in Jobs(o) :
           /\ j.do = "init" \/ x.r = obj[o].r
           /\ j.do = "init" /\ Owners(o)' # {} => o \in seen' /\ j.k = Top(x),
         \A p \in Addr : p # o => Owners(p)' = Owners(p) /\ (p \in seen' <=> p \in seen),
         Reserved', own' \in [Var -> Addr \cup {Null}], seen' \subseteq Addr,
         fault' \in BOOLEAN
  PROVE  IInv'
<1> USE DEF IInv
<1>1. (\A p : Jobs(p)' = Jobs(p)) /\ JobsApart' /\ job' \in Seq(Job)
  BY DEF Jobs, JobsApart, TypeOK
<1>2. x # Null /\ obj'[o] = x
  BY NullIsNoBlock, HeapWritten
<1>3. Top(x) = Top(obj[o])
  BY DEF Top
<1>4. Begun(o)' = Begun(o)
  BY <1>1 DEF Begun
<1>5. Jobs(o) = {} => AtRest(x)
  BY <1>3 DEF Sound, AtRest
<1>6. ASSUME NEW j \in Jobs(o) PROVE j.k \in 0 .. Top(x) /\ Follows(x, j)
  BY <1>3, <1>6 DEF Sound, Fits, Follows
<1>7. Sound(o)'
  BY <1>1, <1>2, <1>4, <1>5, <1>6 DEF Sound, Fits
<1> QED
  BY <1>1, <1>7, OthersKept

\* The destruction of an object that has no count left begins.
LEMMA TriggerInv ==
  ASSUME IInv, NEW o \in Addr, NEW x, IsBlock(x), x.r = 0, AtRest(x), Jobs(o) = {},
         Trigger(o, x), Owners(o)' = {}, o \notin seen',
         \A p \in Addr : p # o => Owners(p)' = Owners(p) /\ (p \in seen' <=> p \in seen),
         own' \in [Var -> Addr \cup {Null}], seen' \subseteq Addr,
         \A v \in Var : own[v] = Null => own'[v] = Null
  PROVE  IInv'
<1> USE DEF IInv
<1>1. Top(x) \in Nat \ {0} /\ x.up = Top(x) /\ Pre(x, 1) = Top(x)
  BY BlockFields DEF AtRest, Pre
<1>2. PICK j : j = [do |-> "destroy", o |-> o, k |-> Top(x), to |-> Null]
  OBVIOUS
<1>3. job' = Append(job, j) /\ obj' = [obj EXCEPT ![o] = x] /\ UNCHANGED fault
  BY <1>1, <1>2 DEF Trigger
<1>4. j \in Job /\ j.o = o /\ j.to = Null /\ j.do = "destroy" /\ j.k = Top(x)
  BY <1>1, <1>2 DEF Job
<1>5. /\ job' \in Seq(Job) /\ JobsApart'
      /\ Jobs(o)' = {j} /\ \A p : p # o => Jobs(p)' = Jobs(p)
  BY <1>3, <1>4, JobBegins DEF TypeOK
<1>6. Reserved'
  BY <1>3, <1>4, ReservedMore
<1>7. Sound(o)'
  <2>1. x # Null /\ obj'[o] = x
    BY <1>3, NullIsNoBlock, HeapWritten
  <2>2. Cardinality(Owners(o)') = 0 /\ Held(o)' = 0
    BY FS_EmptySet DEF Held
  <2>3. x.r = Cardinality(Owners(o)') + Held(o)' + IF j.do # "destroy" THEN 1 ELSE 0
    BY <1>4, <2>2
  <2>4. j.k \in 0 .. Top(x)
    BY <1>1, <1>4
  <2>5. Follows(x, j)
    <3>1. \A k \in Layers(x.cls) : k \in 1 .. Top(x) /\ x.ran[k] = 0
      BY BlockFields DEF AtRest
    <3> QED
      BY <1>1, <1>4, <3>1 DEF Follows, AtRest
  <2> QED
    BY <1>4, <1>5, <2>1, <2>3, <2>4, <2>5, SoundBusy
<1> QED
  BY <1>3, <1>5, <1>6, <1>7, OthersKept DEF TypeOK

\* A count of o is given up, whoever had it.
LEMMA GiveUpInv ==
  ASSUME IInv, NEW o \in Addr, obj[o] # Null, NEW later \in BOOLEAN, GiveUp(o, later),
         NEW c \in Nat, c = Cardinality(Owners(o)'), c = 0 => Owners(o)' = {},
         c + Held(o)' = Cardinality(Owners(o)) + Held(o) - 1,
         Owners(o)' # {} => Owners(o) # {}, Jobs(o) # {} => seen' = seen,
         \A p \in Addr : p # o => Owners(p)' = Owners(p) /\ (p \in seen' <=> p \in seen),
         own' \in [Var -> Addr \cup {Null}], seen' \subseteq Addr,
         \A v \in Var : own[v] = Null => own'[v] = Null
  PROVE  IInv'
<1> USE DEF IInv
<1>1. /\ Cardinality(Owners(o)) \in Nat /\ Held(o) \in {0, 1} /\ Held(o)' \in {0, 1}
      /\ Begun(o) \in {0, 1}
  BY OwnersFinite DEF Held, Begun
<1>2. /\ IsBlock(obj[o]) /\ obj[o].r = Cardinality(Owners(o)) + Held(o) + Begun(o)
  BY DEF Sound, TypeOK
<1>3. obj[o].r - 1 \in Nat /\ obj[o].r - 1 = c + Held(o)' + Begun(o)
  BY <1>1, <1>2
<1>4. PICK x : x = Dropped(o)
  OBVIOUS
<1>5. /\ IsBlock(x) /\ x.cls = obj[o].cls /\ x.up = obj[o].up /\ x.ok = obj[o].ok
      /\ x.ran = obj[o].ran /\ x.r = obj[o].r - 1
  BY <1>2, <1>3, <1>4, BlockCounted DEF Dropped
<1>6. ASSUME NEW j \in Jobs(o) PROVE j.do = "init"
  <2>1. j \in Job
    BY <1>6 DEF Jobs, TypeOK
  <2>2. j.do # "destroy" => Begun(o) = 1
    BY <1>6 DEF Begun
  <2>3. Fits(o, j)
    BY <1>6 DEF Sound
  <2>4. (j.do = "fail" => obj[o].r = 1) /\ (j.do = "destroy" => obj[o].r = 0)
    BY <2>3 DEF Fits, Follows
  <2>5. j.do # "fail" /\ j.do # "destroy"
    BY <1>1, <1>3, <2>2, <2>4
  <2> QED
    BY <2>1, <2>5 DEF Job
<1>7. CASE obj[o].r = 1 /\ ~later
  <2>1. c = 0 /\ Held(o)' = 0 /\ Begun(o) = 0
    BY <1>1, <1>3, <1>7
  <2>2. Jobs(o) = {}
    BY <1>6, <2>1 DEF Begun
  <2>3. x.r = 0
    BY <1>5, <1>7
  <2>4. AtRest(x)
    BY <1>5, <2>2 DEF Sound, AtRest, Top
  <2>5. Owners(o)' = {} /\ o \notin seen' /\ Trigger(o, x)
    BY <1>4, <1>7, <2>1 DEF Held, GiveUp
  <2> QED
    BY <1>5, <2>2, <2>3, <2>4, <2>5, TriggerInv
<1>8. CASE ~(obj[o].r = 1 /\ ~later)
  <2>1. obj' = [obj EXCEPT ![o] = x] /\ UNCHANGED <<job, fault>>
    BY <1>4, <1>8 DEF GiveUp
  <2>2. Reserved'
    BY <2>1, ReservedSame
  <2>3. ASSUME NEW j \in Jobs(o), Owners(o)' # {}
        PROVE  o \in seen' /\ j.k = Top(x)
    <3>1. o \in seen /\ j.k = Top(obj[o])
      BY <1>6, <2>3 DEF Sound, Fits
    <3> QED
      BY <1>5, <2>3, <3>1 DEF Top
  <2>4. x.r = Cardinality(Owners(o)') + Held(o)' + Begun(o)
    BY <1>3, <1>5
  <2> QED
    BY <1>5, <1>6, <2>1, <2>2, <2>3, <2>4, WrittenInv DEF TypeOK
<1> QED
  BY <1>7, <1>8
\* An object nothing works on has no job.
LEMMA NoJobs ==
  ASSUME NEW o, o \notin Busy
  PROVE  Jobs(o) = {}
BY DEF Busy, Jobs

\* What owns o or keeps it points to an object.
LEMMA OwnedIsLive ==
  ASSUME IInv, NEW o \in Addr, Owners(o) # {} \/ o \in seen
  PROVE  obj[o] # Null
BY DEF IInv, Sound

\* release_mmobj and autorelease_mmobj of a pointer.
LEMMA ReleaseInv ==
  ASSUME IInv, NEW v \in Var, NEW later \in BOOLEAN, Release(v, later)
  PROVE  IInv'
<1> USE DEF IInv
<1>1. PICK o \in Addr : o = own[v]
  BY DEF Release, TypeOK
<1>2. GiveUp(o, later) /\ own' = [own EXCEPT ![v] = Null] /\ seen' = seen
  BY <1>1 DEF Release
<1>3. PICK c : c = Cardinality(Owners(o)')
  OBVIOUS
<1>4. /\ own' \in [Var -> Addr \cup {Null}] /\ c \in Nat
      /\ c = Cardinality(Owners(o)) - 1
      /\ Owners(o) # {} /\ (c = 0 => Owners(o)' = {})
      /\ \A p \in Addr : p # o => Owners(p)' = Owners(p)
  BY <1>1, <1>2, <1>3, OwnersLose
<1>5. Held(o)' = Held(o) /\ Held(o) \in Nat /\ Cardinality(Owners(o)) \in Nat
  BY <1>2, OwnersFinite DEF Held
<1>6. c + Held(o)' = Cardinality(Owners(o)) + Held(o) - 1
  BY <1>4, <1>5
<1>7. obj[o] # Null
  BY <1>4, OwnedIsLive
<1>8. \A u \in Var : own[u] = Null => own'[u] = Null
  BY <1>2 DEF TypeOK
<1>9. seen' \subseteq Addr
  BY <1>2 DEF TypeOK
<1> QED
  BY <1>2, <1>3, <1>4, <1>6, <1>7, <1>8, <1>9, GiveUpInv

\* The unpacker gives up one of its references.
LEMMA ForgetInv ==
  ASSUME IInv, NEW o \in Addr, Forget(o)
  PROVE  IInv'
<1> USE DEF IInv
<1>1. o \in seen /\ GiveUp(o, FALSE) /\ seen' = seen \ {o} /\ own' = own /\ Jobs(o) = {}
  BY NoJobs DEF Forget
<1>2. \A p : Owners(p)' = Owners(p)
  BY <1>1 DEF Owners
<1>3. PICK c : c = Cardinality(Owners(o)')
  OBVIOUS
<1>4. c \in Nat /\ c = Cardinality(Owners(o)) /\ (c = 0 => Owners(o)' = {})
  BY <1>2, <1>3, OwnersFinite, NoOwners
<1>5. c + Held(o)' = Cardinality(Owners(o)) + Held(o) - 1
  <2>1. Held(o) = 1 /\ Held(o)' = 0
    BY <1>1 DEF Held
  <2> QED
    BY <1>4, <2>1
<1>6. obj[o] # Null
  BY <1>1, OwnedIsLive
<1>7. own' \in [Var -> Addr \cup {Null}] /\ seen' \subseteq Addr
  BY <1>1 DEF TypeOK
<1>8. \A p \in Addr : p # o => (p \in seen' <=> p \in seen)
  BY <1>1
<1>9. \A u \in Var : own[u] = Null => own'[u] = Null
  BY <1>1
<1>10. FALSE \in BOOLEAN
  OBVIOUS
<1> QED
  BY <1>1, <1>2, <1>3, <1>4, <1>5, <1>6, <1>7, <1>8, <1>9, <1>10, GiveUpInv

\* mgn_mem_release_unused destroys an autoreleased object.
LEMMA DrainInv ==
  ASSUME IInv, NEW o \in Addr, Drain(o)
  PROVE  IInv'
<1> USE DEF IInv
<1>1. /\ obj[o] # Null /\ obj[o].r = 0 /\ Jobs(o) = {} /\ Trigger(o, obj[o])
      /\ UNCHANGED <<own, seen>>
  BY NoJobs DEF Drain, Whole, Live
<1>2. IsBlock(obj[o]) /\ AtRest(obj[o])
  BY <1>1 DEF Sound, TypeOK
<1>3. Owners(o) = {} /\ o \notin seen
  <2>1. Cardinality(Owners(o)) \in Nat /\ Held(o) \in Nat /\ Begun(o) \in Nat
    BY OwnersFinite DEF Held, Begun
  <2>2. 0 = Cardinality(Owners(o)) + Held(o) + Begun(o)
    BY <1>1 DEF Sound
  <2>3. Cardinality(Owners(o)) = 0 /\ Held(o) = 0
    BY <2>1, <2>2
  <2> QED
    BY <2>3, NoOwners DEF Held
<1>4. \A p : Owners(p)' = Owners(p)
  BY <1>1 DEF Owners
<1>5. own' \in [Var -> Addr \cup {Null}] /\ seen' \subseteq Addr
  BY <1>1 DEF TypeOK
<1> QED
  BY <1>1, <1>2, <1>3, <1>4, <1>5, TriggerInv

\* A pointer becomes one more owner of an object that is whole, or that the
\* unpacker has made as far as its last layer.
LEMMA OwnedMoreInv ==
  ASSUME IInv, NEW v \in Var, Free(v), NEW o \in Addr, obj[o] # Null,
         obj' = [obj EXCEPT ![o].r = @ + 1], own' = [own EXCEPT ![v] = o],
         UNCHANGED <<job, seen>>, fault' \in BOOLEAN,
         \A j \in Jobs(o) : j.do = "init" /\ o \in seen /\ j.k = Top(obj[o])
  PROVE  IInv'
<1> USE DEF IInv
<1>1. own[v] = Null /\ \A i \in DOMAIN job : job[i].to # v
  BY DEF Free
<1>2. /\ own' \in [Var -> Addr \cup {Null}]
      /\ Cardinality(Owners(o)') = Cardinality(Owners(o)) + 1
      /\ \A p \in Addr : p # o => Owners(p)' = Owners(p)
  BY <1>1, OwnersGain
<1>3. IsBlock(obj[o]) /\ obj[o].r \in Nat
  BY BlockFields DEF TypeOK
<1>4. PICK x : x = [obj[o] EXCEPT !.r = obj[o].r + 1]
  OBVIOUS
<1>5. /\ IsBlock(x) /\ x.cls = obj[o].cls /\ x.up = obj[o].up /\ x.ok = obj[o].ok
      /\ x.ran = obj[o].ran /\ x.r = obj[o].r + 1
  <2>1. obj[o].r + 1 \in Nat
    BY <1>3
  <2> QED
    BY <1>3, <1>4, <2>1, BlockCounted
<1>6. obj' = [obj EXCEPT ![o] = x]
  BY <1>4
<1>7. x.r = Cardinality(Owners(o)') + Held(o)' + Begun(o)
  <2>1. /\ Cardinality(Owners(o)) \in Nat /\ Held(o) \in Nat /\ Begun(o) \in Nat
        /\ Held(o)' = Held(o)
    BY OwnersFinite DEF Held, Begun
  <2>2. obj[o].r = Cardinality(Owners(o)) + Held(o) + Begun(o)
    BY DEF Sound
  <2>3. Cardinality(Owners(o)') = Cardinality(Owners(o)) + 1
    BY <1>2
  <2>4. x.r = obj[o].r + 1
    BY <1>5
  <2> QED
    BY <2>1, <2>2, <2>3, <2>4
<1>8. Reserved'
  <2>1. \A i \in DOMAIN job : \A u \in Var :
          job[i].to = u /\ own[u] = Null => own'[u] = Null
    BY <1>1 DEF TypeOK
  <2> QED
    BY <2>1, ReservedSame
<1>9. Top(x) = Top(obj[o])
  BY <1>5 DEF Top
<1> QED
  BY <1>2, <1>5, <1>6, <1>7, <1>8, <1>9, WrittenInv DEF TypeOK

\* A live object gets one more owner.
LEMMA RetainInv ==
  ASSUME IInv, NEW v \in Var, NEW o \in Addr, Retain(v, o)
  PROVE  IInv'
<1>1. obj[o] # Null /\ Jobs(o) = {}
  BY NoJobs DEF Retain, Whole, Live
<1> QED
  BY <1>1, OwnedMoreInv DEF Retain, IInv, TypeOK

\* unpack_mmobj of a number that is known.
LEMMA BorrowInv ==
  ASSUME IInv, NEW v \in Var, NEW o \in Addr, AtLast(o), Borrow(v, o)
  PROVE  IInv'
<1> USE DEF IInv
<1>1. o \in seen /\ obj[o] # Null
  BY OwnedIsLive DEF Borrow
<1>2. CASE fault' = TRUE /\ UNCHANGED <<obj, own, job, seen>>
  <2>1. \A p : Jobs(p)' = Jobs(p) /\ Owners(p)' = Owners(p)
    BY <1>2 DEF Jobs, Owners
  <2>2. ASSUME NEW p \in Addr PROVE Sound(p)'
    BY <1>2, <2>1, SoundKept
  <2>3. TypeOK' /\ JobsApart' /\ Reserved'
    BY <1>2 DEF TypeOK, JobsApart, Reserved
  <2> QED
    BY <2>2, <2>3
<1>3. CASE /\ obj' = [obj EXCEPT ![o].r = @ + 1]
           /\ own' = [own EXCEPT ![v] = o] /\ UNCHANGED <<job, seen, fault>>
  <2>1. ASSUME NEW j \in Jobs(o) PROVE j.do = "init" /\ j.k = Top(obj[o])
    BY <2>1 DEF Jobs, Borrow, AtLast
  <2>2. Free(v)
    BY DEF Borrow
  <2> QED
    BY <1>1, <1>3, <2>1, <2>2, OwnedMoreInv DEF TypeOK
<1> QED
  BY <1>2, <1>3 DEF Borrow

\* set_function_for_mmobj touches nothing but a table.
LEMMA SetFunctionInv ==
  ASSUME IInv, NEW o \in Live, NEW f \in Fn, NEW k \in Layers(obj[o].cls),
         SetFunction(o, k, f)
  PROVE  IInv'
<1> USE DEF IInv
<1>1. o \in Addr /\ obj[o] # Null /\ IsBlock(obj[o])
  BY DEF Live, TypeOK
<1>2. UNCHANGED <<job, own, seen, fault>>
  BY DEF SetFunction
<1>3. PICK x : x = [obj[o] EXCEPT !.fns[k] = @ \cup {f}]
  OBVIOUS
<1>4. /\ IsBlock(x) /\ x.cls = obj[o].cls /\ x.up = obj[o].up /\ x.ok = obj[o].ok
      /\ x.ran = obj[o].ran /\ x.r = obj[o].r
  BY <1>1, <1>3, BlockTaught
<1>5. obj' = [obj EXCEPT ![o] = x]
  <2>1. obj' = [obj EXCEPT ![o].fns[k] = @ \cup {f}]
    BY DEF SetFunction
  <2> QED
    BY <1>3, <2>1
<1>6. \A p : Owners(p)' = Owners(p)
  BY <1>2 DEF Owners
<1>7. x.r = Cardinality(Owners(o)') + Held(o)' + Begun(o)
  BY <1>1, <1>2, <1>4, <1>6 DEF Sound, Held
<1>8. \A j \in Jobs(o) :
        j.do = "init" /\ Owners(o)' # {} => o \in seen' /\ j.k = Top(x)
  BY <1>1, <1>2, <1>4, <1>6 DEF Sound, Fits, Top
<1>9. Reserved'
  BY <1>2 DEF Reserved
<1> QED
  BY <1>1, <1>2, <1>4, <1>5, <1>6, <1>7, <1>8, <1>9, WrittenInv DEF TypeOK
----------------------------------------------------------------------------
\* Before anything is allocated the invariant holds.
LEMMA InitInv == Init => IInv
<1> SUFFICES ASSUME Init PROVE IInv
  OBVIOUS
<1>1. TypeOK /\ JobsApart /\ Reserved
  <2>1. job = <<>> /\ job \in Seq(Job) /\ DOMAIN job = {}
    BY DEF Init
  <2>2. obj = [o \in Addr |-> obj[o]] /\ \A o \in Addr : obj[o] = Null
    BY DEF Init
  <2>3. own \in [Var -> Addr \cup {Null}] /\ seen \subseteq Addr /\ fault \in BOOLEAN
    BY DEF Init
  <2>4. TypeOK
    BY <2>1, <2>2, <2>3 DEF TypeOK
  <2> QED
    BY <2>1, <2>4 DEF JobsApart, Reserved
<1>2. ASSUME NEW o \in Addr PROVE Sound(o)
  <2>1. Jobs(o) = {}
    BY DEF Init, Jobs
  <2>2. Owners(o) = {}
    BY <1>2, MmObjectAssumption DEF Init, Owners
  <2> QED
    BY <1>2, <2>1, <2>2 DEF Init, Sound
<1> QED
  BY <1>1, <1>2 DEF IInv

\* A step that changes nothing.
LEMMA StutterInv ==
  ASSUME IInv, UNCHANGED vars
  PROVE  IInv'
<1>1. \A p : Jobs(p)' = Jobs(p) /\ Owners(p)' = Owners(p)
  BY DEF vars, Jobs, Owners
<1>2. ASSUME NEW p \in Addr PROVE Sound(p)'
  BY <1>1, SoundKept DEF vars, IInv
<1>3. TypeOK' /\ JobsApart' /\ Reserved'
  BY DEF vars, IInv, TypeOK, JobsApart, Reserved
<1> QED
  BY <1>2, <1>3 DEF IInv

\* Every step of the library and of its users keeps the invariant.
LEMMA NextInv == IInv /\ [Next]_vars => IInv'
<1> SUFFICES ASSUME IInv, [Next]_vars PROVE IInv'
  OBVIOUS
<1>1. CASE UNCHANGED vars
  BY <1>1, StutterInv
<1>2. CASE Failing /\ Now.o \notin seen /\ InitFail
  BY <1>2, InitFailInv
<1>3. ASSUME NEW v \in Var, NEW o \in Addr, AtLast(o) /\ Borrow(v, o) PROVE IInv'
  BY <1>3, BorrowInv
<1>4. CASE Common
  <2>1. ASSUME NEW o \in Addr, NEW c \in Class, NEW to \in Var \cup {Null}, New(o, c, to)
        PROVE  IInv'
    BY <2>1, NewInv
  <2>2. CASE InitLayer \/ AllocDone \/ UnpackDone
    BY <2>2, InitLayerInv, AllocDoneInv, UnpackDoneInv
  <2>3. CASE DestroyLayer \/ DestroyEnd
    BY <2>3, DestroyLayerInv, DestroyEndInv
  <2>4. ASSUME NEW v \in Var, NEW later \in BOOLEAN, Release(v, later) PROVE IInv'
    BY <2>4, ReleaseInv
  <2>5. ASSUME NEW o \in Addr, Drain(o) \/ Forget(o) PROVE IInv'
    BY <2>5, DrainInv, ForgetInv
  <2>6. ASSUME NEW v \in Var, NEW o \in Addr, Retain(v, o) PROVE IInv'
    BY <2>6, RetainInv
  <2>7. ASSUME NEW o \in Live, NEW f \in Fn, NEW k \in Layers(obj[o].cls),
               SetFunction(o, k, f)
        PROVE  IInv'
    BY <2>7, SetFunctionInv
  <2> QED
    BY <1>4, <2>1, <2>2, <2>3, <2>4, <2>5, <2>6, <2>7 DEF Common
<1> QED
  BY <1>1, <1>2, <1>3, <1>4 DEF Next

\* The objects of mmo.h always satisfy the inductive invariant.
THEOREM Invariance == Spec => []IInv
BY InitInv, NextInv, PTL DEF Spec

\* The state always has its type, whatever the hierarchy of classes.
THEOREM TypeCorrect == Spec => []TypeOK
<1>1. IInv => TypeOK
  BY DEF IInv
<1> QED
  BY <1>1, Invariance, PTL

----------------------------------------------------------------------------
\* What the invariant says of a live object, at rest or under way.
LEMMA LiveFacts ==
  ASSUME IInv, NEW o \in Live
  PROVE  /\ o \in Addr /\ IsBlock(obj[o])
         /\ AtRest(obj[o]) \/ \E j \in Jobs(o) : j \in Job /\ Fits(o, j)
<1>1. o \in Addr /\ obj[o] # Null /\ IsBlock(obj[o])
  BY DEF Live, IInv, TypeOK
<1>2. Sound(o) /\ job \in Seq(Job)
  BY <1>1 DEF IInv, TypeOK
<1>3. Jobs(o) \subseteq Job
  BY <1>2 DEF Jobs
<1> QED
  BY <1>1, <1>2, <1>3 DEF Sound

\* "destroy self first, then destroy super": a layer that was initialised is
\* destroyed once, after those above it, and no other layer is.
THEOREM LayersDestroyedInOrder == Spec => []DestroyedInOrder
<1>1. IInv => DestroyedInOrder
  <2> SUFFICES ASSUME IInv, NEW o \in Live, NEW k \in Layers(obj[o].cls),
                      obj[o].ran[k] > 0
               PROVE  /\ obj[o].ran[k] = 1 /\ k <= obj[o].ok
                      /\ \A m \in k + 1 .. obj[o].ok : obj[o].ran[m] = 1
    BY DEF DestroyedInOrder
  <2>1. /\ Layers(obj[o].cls) = 1 .. Top(obj[o]) /\ Top(obj[o]) \in Nat
        /\ obj[o].ok \in 0 .. Top(obj[o])
    BY LiveFacts, BlockFields
  <2>2. PICK j \in Jobs(o) : j \in Job /\ Fits(o, j)
    BY LiveFacts DEF AtRest
  <2>3. j.k \in Nat /\ \A m \in Layers(obj[o].cls) :
          obj[o].ran[m] = IF j.do # "init" /\ j.k < m /\ m <= obj[o].ok THEN 1 ELSE 0
    BY <2>2 DEF Job, Fits, Follows
  <2>4. obj[o].ran[k] = 1 /\ j.do # "init" /\ j.k < k /\ k <= obj[o].ok
    BY <2>3
  <2>5. ASSUME NEW m \in k + 1 .. obj[o].ok PROVE obj[o].ran[m] = 1
    <3>1. m \in Layers(obj[o].cls) /\ j.k < m /\ m <= obj[o].ok
      BY <2>1, <2>3, <2>4, <2>5
    <3> QED
      BY <2>3, <2>4, <3>1
  <2> QED
    BY <2>4, <2>5
<1> QED
  BY <1>1, Invariance, PTL

\* An owner never sees an object whose last layer has not begun or one of
\* whose layers is destroyed, through failures, drains and cyclic unpacking.
THEOREM OwnersSeeWholeObjects == Spec => []OwnersSeeObjects
<1>1. IInv => OwnersSeeObjects
  <2> SUFFICES ASSUME IInv, NEW v \in Var, own[v] # Null
               PROVE  /\ own[v] \in Live
                      /\ obj[own[v]].up = Top(obj[own[v]])
                      /\ \A k \in Layers(obj[own[v]].cls) : obj[own[v]].ran[k] = 0
    BY DEF OwnersSeeObjects
  <2>1. PICK o \in Addr : o = own[v]
    BY DEF IInv, TypeOK
  <2>2. v \in Owners(o)
    BY <2>1 DEF Owners
  <2>3. obj[o] # Null /\ o \in Live
    BY <2>2, OwnedIsLive DEF Live
  <2>4. CASE AtRest(obj[o])
    BY <2>1, <2>3, <2>4 DEF AtRest
  <2>5. ASSUME NEW j \in Jobs(o), j \in Job, Fits(o, j)
        PROVE  obj[o].up = Top(obj[o]) /\ \A k \in Layers(obj[o].cls) : obj[o].ran[k] = 0
    <3>1. Cardinality(Owners(o)) \in Nat \ {0} /\ Held(o) \in {0, 1}
      BY <2>2, OwnersFinite, NoOwners DEF Held
    <3>2. j.do # "destroy" => Begun(o) = 1
      BY <2>5 DEF Begun
    <3>3. Begun(o) \in {0, 1} /\ obj[o].r = Cardinality(Owners(o)) + Held(o) + Begun(o)
      BY <2>3 DEF Begun, Sound, IInv
    <3>4. (j.do = "fail" => obj[o].r = 1) /\ (j.do = "destroy" => obj[o].r = 0)
      BY <2>5 DEF Fits, Follows
    <3>5. j.do # "fail" /\ j.do # "destroy"
      BY <3>1, <3>2, <3>3, <3>4
    <3>6. j.do = "init"
      BY <2>5, <3>5 DEF Job
    <3> QED
      BY <2>2, <2>5, <3>6 DEF Fits, Follows
  <2> QED
    BY <2>1, <2>3, <2>4, <2>5, LiveFacts
<1> QED
  BY <1>1, Invariance, PTL

\* A block that is written is not freed.
LEMMA WrittenStays ==
  ASSUME TypeOK, NEW o \in Live, NEW p \in Addr, NEW x, IsBlock(x),
         obj' = [obj EXCEPT ![p] = x]
  PROVE  obj'[o] # Null
<1>1. o \in Addr /\ obj[o] # Null
  BY DEF Live
<1>2. obj'[p] = x /\ (o # p => obj'[o] = obj[o])
  BY <1>1, HeapWritten
<1> QED
  BY <1>1, <1>2, NullIsNoBlock

\* A layer that begins frees nothing.
LEMMA BeginFreesNone ==
  ASSUME IInv, NEW o \in Live, NEW p \in Addr, NEW x, IsBlock(x), NEW k \in Layers(x.cls),
         NEW jobs, NEW to, Begin(p, x, k, jobs, to)
  PROVE  obj'[o] # Null
<1>1. PICK y : y = Enter(x, k)
  OBVIOUS
<1>2. IsBlock(y) /\ y.r \in Nat
  BY <1>1, BlockEntered, BlockFields
<1>3. PICK z : z = [y EXCEPT !.r = y.r + 1]
  OBVIOUS
<1>4. IsBlock(z)
  BY <1>2, <1>3, BlockCounted
<1>5. obj' = [obj EXCEPT ![p] = z] \/ obj' = [obj EXCEPT ![p] = y]
  BY <1>1, <1>3 DEF Begin
<1> QED
  BY <1>2, <1>4, <1>5, WrittenStays DEF IInv

\* The steps of an initialisation free nothing.
LEMMA InitFreesNone ==
  ASSUME IInv, NEW o \in Live, InitLayer \/ AllocDone \/ UnpackDone
  PROVE  obj'[o] # Null
<1>1. PICK p : p = Now.o
  OBVIOUS
<1>2. job # <<>> /\ Now.do = "init"
  BY DEF InitLayer, AllocDone, UnpackDone, Initialising
<1>3. p \in Addr /\ IsBlock(obj[p]) /\ Fits(p, Now) /\ Now \in Job
  BY <1>1, <1>2, BusyFacts
<1>4. PICK k : k = Now.k
  OBVIOUS
<1>5. /\ Top(obj[p]) \in Nat \ {0} /\ Layers(obj[p].cls) = 1 .. Top(obj[p])
      /\ obj[p].up \in Layers(obj[p].cls)
  BY <1>3, BlockFields
<1>6. k \in 1 .. Top(obj[p])
  BY <1>2, <1>3, <1>4, <1>5 DEF Fits, Follows
<1>7. PICK x : x = [obj[p] EXCEPT !.ok = k]
  OBVIOUS
<1>8. IsBlock(x) /\ x.cls = obj[p].cls /\ x.r = obj[p].r
  BY <1>3, <1>5, <1>6, <1>7, BlockInitialised
<1>9. CASE InitLayer
  <2>1. k + 1 \in Layers(x.cls)
    BY <1>1, <1>4, <1>5, <1>6, <1>8, <1>9 DEF InitLayer
  <2>2. Begin(p, x, k + 1, Front(job), Now.to)
    BY <1>1, <1>4, <1>7, <1>9 DEF InitLayer
  <2> QED
    BY <1>3, <1>8, <2>1, <2>2, BeginFreesNone
<1>10. CASE AllocDone
  <2>1. obj' = [obj EXCEPT ![p] = x]
    BY <1>1, <1>4, <1>7, <1>10 DEF AllocDone
  <2> QED
    BY <1>3, <1>8, <2>1, WrittenStays DEF IInv
<1>11. CASE UnpackDone
  <2>1. obj' = [obj EXCEPT ![p] = IF p \in seen THEN [x EXCEPT !.r = x.r - 1] ELSE x]
    BY <1>1, <1>4, <1>7, <1>11 DEF UnpackDone
  <2>2. CASE p \in seen
    <3>1. x.r - 1 \in Nat
      <4>1. /\ obj[p].r = Cardinality(Owners(p)) + Held(p) + 1
            /\ Cardinality(Owners(p)) \in Nat /\ Held(p) = 1
        BY <1>1, <1>2, <2>2, BusyFacts, OwnersFinite DEF Held
      <4> QED
        BY <1>8, <4>1
    <3>2. PICK z : z = [x EXCEPT !.r = x.r - 1]
      OBVIOUS
    <3>3. IsBlock(z)
      BY <1>8, <3>1, <3>2, BlockCounted
    <3>4. obj' = [obj EXCEPT ![p] = z]
      BY <2>1, <2>2, <3>2
    <3> QED
      BY <1>3, <3>3, <3>4, WrittenStays DEF IInv
  <2>3. CASE p \notin seen
    BY <1>3, <1>8, <2>1, <2>3, WrittenStays DEF IInv
  <2> QED
    BY <2>2, <2>3
<1> QED
  BY <1>9, <1>10, <1>11

\* A count given up frees nothing: the destruction has still to come.
LEMMA GiveUpFreesNone ==
  ASSUME IInv, NEW o \in Live, NEW p \in Addr, obj[p].r # 0, IsBlock(obj[p]),
         NEW later \in BOOLEAN, GiveUp(p, later)
  PROVE  obj'[o] # Null
<1>1. PICK x : x = Dropped(p)
  OBVIOUS
<1>2. IsBlock(x)
  <2>1. obj[p].r - 1 \in Nat
    BY BlockFields
  <2> QED
    BY <1>1, <2>1, BlockCounted DEF Dropped
<1>3. obj' = [obj EXCEPT ![p] = x]
  BY <1>1 DEF GiveUp, Trigger
<1> QED
  BY <1>2, <1>3, WrittenStays DEF IInv

\* Nor does a release by a pointer,
LEMMA ReleaseFreesNone ==
  ASSUME IInv, NEW o \in Live, NEW v \in Var, NEW later \in BOOLEAN, Release(v, later)
  PROVE  obj'[o] # Null
<1>1. PICK p \in Addr : p = own[v]
  BY DEF IInv, TypeOK, Release
<1>2. v \in Owners(p) /\ Sound(p) /\ obj[p] # Null
  BY <1>1, OwnedIsLive DEF Owners, IInv
<1>3. obj[p].r # 0
  <2>1. /\ obj[p].r = Cardinality(Owners(p)) + Held(p) + Begun(p)
        /\ Cardinality(Owners(p)) \in Nat \ {0} /\ Held(p) \in Nat /\ Begun(p) \in Nat
    BY <1>2, OwnersFinite, NoOwners DEF Sound, Held, Begun
  <2> QED
    BY <2>1
<1>4. IsBlock(obj[p])
  BY <1>2 DEF IInv, TypeOK
<1> QED
  BY <1>1, <1>3, <1>4, GiveUpFreesNone DEF Release

\* nor one by the unpacker,
LEMMA ForgetFreesNone ==
  ASSUME IInv, NEW o \in Live, NEW p \in Addr, Forget(p)
  PROVE  obj'[o] # Null
<1>1. p \in seen /\ Sound(p)
  BY DEF Forget, IInv
<1>2. obj[p] # Null
  BY <1>1 DEF Sound
<1>3. obj[p].r # 0
  <2>1. /\ obj[p].r = Cardinality(Owners(p)) + Held(p) + Begun(p)
        /\ Cardinality(Owners(p)) \in Nat /\ Held(p) = 1 /\ Begun(p) \in Nat
    BY <1>1, <1>2, OwnersFinite DEF Sound, Held, Begun
  <2> QED
    BY <2>1
<1>4. IsBlock(obj[p])
  BY <1>2 DEF IInv, TypeOK
<1> QED
  BY <1>3, <1>4, GiveUpFreesNone DEF Forget

\* nor one more count.
LEMMA RetainFreesNone ==
  ASSUME IInv, NEW o \in Live, NEW p \in Addr, obj[p] # Null,
         obj' = [obj EXCEPT ![p].r = @ + 1]
  PROVE  obj'[o] # Null
<1>1. IsBlock(obj[p]) /\ obj[p].r + 1 \in Nat
  BY BlockFields DEF IInv, TypeOK
<1>2. PICK x : x = [obj[p] EXCEPT !.r = obj[p].r + 1]
  OBVIOUS
<1>3. IsBlock(x) /\ obj' = [obj EXCEPT ![p] = x]
  BY <1>1, <1>2, BlockCounted
<1> QED
  BY <1>3, WrittenStays DEF IInv

\* Only the end of a destruction frees.
LEMMA OnlyDestroyFrees ==
  ASSUME IInv, [Next]_vars, NEW o \in Live, obj'[o] = Null
  PROVE  DestroyEnd /\ o = Now.o
<1>1. o \in Addr /\ obj[o] # Null
  BY DEF Live
<1>2. CASE obj' = obj
  BY <1>1, <1>2
<1>3. ASSUME NEW p \in Addr, NEW c \in Class, NEW to \in Var \cup {Null}, New(p, c, to)
      PROVE  FALSE
  <2>1. o # p
    BY <1>1, <1>3 DEF New
  <2>2. PICK y : obj' = [obj EXCEPT ![p] = y]
    BY <1>3 DEF New, Begin
  <2>3. obj'[o] = obj[o]
    BY <1>1, <2>1, <2>2 DEF IInv, TypeOK
  <2> QED
    BY <1>1, <2>3
<1>4. CASE DestroyLayer
  <2>1. PICK p : p = Now.o
    OBVIOUS
  <2>2. PICK k : k = Now.k
    OBVIOUS
  <2>3. job # <<>> /\ k > 0 /\ obj' = [obj EXCEPT ![p].ran[k] = @ + 1]
    BY <1>4, <2>1, <2>2 DEF DestroyLayer, Destroying
  <2>4. p \in Addr /\ IsBlock(obj[p]) /\ Fits(p, Now)
    BY <2>1, <2>3, BusyFacts
  <2>5. k \in Layers(obj[p].cls)
    BY <2>2, <2>3, <2>4, BlockFields DEF Fits
  <2>6. PICK x : x = [obj[p] EXCEPT !.ran[k] = @ + 1]
    OBVIOUS
  <2>7. IsBlock(x) /\ obj' = [obj EXCEPT ![p] = x]
    BY <2>3, <2>4, <2>5, <2>6, BlockDestroyed
  <2> QED
    BY <2>4, <2>7, WrittenStays DEF IInv
<1>5. CASE DestroyEnd
  <2>1. PICK y : obj' = [obj EXCEPT ![Now.o] = y]
    BY <1>5 DEF DestroyEnd
  <2>2. o = Now.o
    BY <1>1, <2>1 DEF IInv, TypeOK
  <2> QED
    BY <1>5, <2>2
<1>6. ASSUME NEW p \in Addr, Drain(p) PROVE FALSE
  <2>1. obj[p] # Null /\ obj' = [obj EXCEPT ![p] = obj[p]]
    BY <1>6 DEF Drain, Whole, Live, Trigger
  <2> QED
    BY <1>6, <2>1, WrittenStays DEF IInv, TypeOK
<1>7. ASSUME NEW v \in Var, NEW p \in Addr, Retain(v, p) PROVE FALSE
  <2>1. obj[p] # Null /\ obj' = [obj EXCEPT ![p].r = @ + 1]
    BY <1>7 DEF Retain, Whole, Live
  <2> QED
    BY <1>7, <2>1, RetainFreesNone
<1>8. ASSUME NEW v \in Var, NEW p \in Addr, Borrow(v, p), obj' # obj PROVE FALSE
  <2>1. p \in seen /\ Sound(p) /\ obj' = [obj EXCEPT ![p].r = @ + 1]
    BY <1>8 DEF Borrow, IInv
  <2>2. obj[p] # Null
    BY <2>1 DEF Sound
  <2> QED
    BY <1>8, <2>1, <2>2, RetainFreesNone
<1>9. ASSUME NEW p \in Live, NEW f \in Fn, NEW k \in Layers(obj[p].cls), SetFunction(p, k, f)
      PROVE  FALSE
  <2>1. p \in Addr /\ IsBlock(obj[p])
    BY DEF Live, IInv, TypeOK
  <2>2. obj' = [obj EXCEPT ![p].fns[k] = @ \cup {f}]
    BY <1>9 DEF SetFunction
  <2>3. PICK x : x = [obj[p] EXCEPT !.fns[k] = @ \cup {f}]
    OBVIOUS
  <2>4. IsBlock(x) /\ obj' = [obj EXCEPT ![p] = x]
    BY <2>1, <2>2, <2>3, BlockTaught
  <2> QED
    BY <2>1, <2>4, WrittenStays DEF IInv
<1>10. CASE Failing /\ Now.o \notin seen /\ InitFail
  BY <1>2, <1>10 DEF InitFail
<1>11. CASE Common
  BY <1>3, <1>4, <1>5, <1>6, <1>7, <1>9, <1>11, InitFreesNone, ReleaseFreesNone,
     ForgetFreesNone DEF Common
<1> QED
  BY <1>2, <1>8, <1>10, <1>11 DEF Next, vars

\* No block is freed before the layers that were initialised are destroyed:
\* a job of destruction comes to its end with no layer left.
THEOREM LayersDestroyedBeforeFreed == Spec => DestroyedBeforeFreed
<1> DEFINE Step == \A o \in Live : obj'[o] = Null =>
                     \A k \in 1 .. obj[o].ok : obj[o].ran[k] = 1
<1>1. IInv /\ [Next]_vars => Step
  <2> SUFFICES ASSUME IInv, [Next]_vars, NEW o \in Live, obj'[o] = Null,
                      NEW k \in 1 .. obj[o].ok
               PROVE  obj[o].ran[k] = 1
    OBVIOUS
  <2>1. DestroyEnd /\ o = Now.o
    BY OnlyDestroyFrees
  <2>2. job # <<>> /\ Now.do # "init" /\ Now.k = 0
    BY <2>1 DEF DestroyEnd, Destroying
  <2>3. IsBlock(obj[o]) /\ Fits(o, Now)
    BY <2>1, <2>2, BusyFacts
  <2>4. k \in Layers(obj[o].cls) /\ 0 < k /\ k <= obj[o].ok
    BY <2>3, BlockFields
  <2> QED
    BY <2>2, <2>3, <2>4 DEF Fits, Follows
<1>2. IInv /\ [Next]_vars => [Step]_vars
  BY <1>1
<1> QED
  BY <1>2, Invariance, PTL DEF Spec, DestroyedBeforeFreed

----------------------------------------------------------------------------
(* The walks around the ring of layers of an object, for every hierarchy   *)
(* of classes: casts end and find their layer, calls find the last layer   *)
(* with an implementation, and no pointer that is not yet set is followed. *)

\* The layer of a lineage.
LEMMA LineageAt ==
  ASSUME NEW x, IsBlock(x), NEW k \in 1 .. Top(x)
  PROVE  Lineage[x.cls][k] \in Class
BY BlockFields, LayersType DEF Top

\* The link of a layer leads to a layer, or is null.
LEMMA PreLayer ==
  ASSUME NEW x, IsBlock(x), NEW k \in 1 .. Top(x)
  PROVE  Pre(x, k) \in 0 .. Top(x)
BY BlockFields DEF Pre

\* find answers with a layer, null or a fault if the call it makes does.
LEMMA FindAtType ==
  ASSUME NEW x, IsBlock(x), NEW c \in Class,
         NEW r \in [Call(x) -> -1 .. Top(x)], NEW call \in Call(x)
  PROVE  FindAt(x, c, call, r) \in -1 .. Top(x)
<1>1. call.at \in 0 .. Top(x) /\ call.until \in Class /\ Top(x) \in Nat /\ x.up \in 1 .. Top(x)
  BY BlockFields DEF Call
<1>2. CASE call.at = 0 \/ call.at > x.up
  BY <1>1, <1>2 DEF FindAt, Bad
<1>3. CASE ~(call.at = 0 \/ call.at > x.up)
  <2>1. call.at \in 1 .. Top(x)
    BY <1>1, <1>3
  <2>2. \A u \in Class : [at |-> Pre(x, call.at), until |-> u] \in Call(x)
    BY <2>1, PreLayer DEF Call
  <2>3. \A u \in Class : r[[at |-> Pre(x, call.at), until |-> u]] \in -1 .. Top(x)
    BY <2>2
  <2> QED
    BY <1>1, <1>3, <2>1, <2>3, LineageAt DEF FindAt
<1> QED
  BY <1>2, <1>3

\* The recursion of Search is well-defined.
LEMMA SearchIs ==
  ASSUME NEW x, IsBlock(x), NEW c \in Class
  PROVE  \A n \in 0 .. Top(x) + 1 : \A call \in Call(x) :
           Search(x, c)[n][call] =
             IF n = 0 THEN Bad ELSE FindAt(x, c, call, Search(x, c)[n - 1])
<1> DEFINE X == [Call(x) -> -1 .. Top(x)]
           first == [call \in Call(x) |-> Bad]
           step == [r \in X |-> [call \in Call(x) |-> FindAt(x, c, call, r)]]
           Is(S) == S = [n \in 0 .. Top(x) + 1 |-> [call \in Call(x) |->
                      IF n = 0 THEN Bad ELSE FindAt(x, c, call, S[n - 1])]]
<1>1. Top(x) \in Nat
  BY BlockFields
<1>2. first \in X
  BY <1>1 DEF Bad
<1>3. step \in [X -> X]
  BY FindAtType
<1>4. PICK h \in [Nat -> X] : h[0] = first /\ \A n \in Nat : h[n + 1] = step[h[n]]
  <2> HIDE DEF X, first, step
  <2> QED
    BY <1>2, <1>3, NatsAssumptions, Nats!Iterates
<1>5. \E S : Is(S)
  <2> DEFINE g == [n \in 0 .. Top(x) + 1 |-> h[n]]
  <2>1. ASSUME NEW n \in 0 .. Top(x) + 1
        PROVE  g[n] = [call \in Call(x) |->
                  IF n = 0 THEN Bad ELSE FindAt(x, c, call, g[n - 1])]
    <3>1. CASE n = 0
      BY <1>1, <1>4, <3>1
    <3>2. CASE n # 0
      <4>1. n - 1 \in Nat /\ n - 1 \in 0 .. Top(x) + 1 /\ (n - 1) + 1 = n
        BY <1>1, <3>2
      <4>2. g[n] = step[g[n - 1]] /\ g[n - 1] \in X
        <5> HIDE DEF step, X
        <5> QED
          BY <1>4, <4>1
      <4>3. g[n] = [call \in Call(x) |-> FindAt(x, c, call, g[n - 1])]
        <5> HIDE DEF g, X
        <5> QED
          BY <4>2
      <4> HIDE DEF g
      <4> QED
        BY <3>2, <4>3
    <3> QED
      BY <3>1, <3>2
  <2>2. g = [n \in 0 .. Top(x) + 1 |-> g[n]]
    OBVIOUS
  <2>3. Is(g)
    <3> HIDE DEF g
    <3> QED
      BY <2>1, <2>2
  <2> QED
    BY <2>3
<1>6. Search(x, c) = CHOOSE S : Is(S)
  BY DEF Search
<1>7. Is(Search(x, c))
  <2> HIDE DEF Is
  <2> QED
    BY <1>5, <1>6
<1> HIDE DEF X, first, step
<1>8. \A n \in 0 .. Top(x) + 1 : Search(x, c)[n] = [call \in Call(x) |->
        IF n = 0 THEN Bad ELSE FindAt(x, c, call, Search(x, c)[n - 1])]
  <2> DEFINE S == Search(x, c)
             row(n) == [call \in Call(x) |->
                          IF n = 0 THEN Bad ELSE FindAt(x, c, call, S[n - 1])]
  <2>1. S = [n \in 0 .. Top(x) + 1 |-> row(n)]
    BY <1>7
  <2> HIDE DEF S, row
  <2>2. \A n \in 0 .. Top(x) + 1 : S[n] = row(n)
    BY <2>1
  <2> QED
    BY <2>2 DEF S, row
<1> QED
  BY <1>8

----------------------------------------------------------------------------
(* What one call of find does.                                              *)

\* A lineage names no class twice.
LEMMA LayersApart ==
  ASSUME NEW x, IsBlock(x), NEW j \in 1 .. Top(x), NEW k \in 1 .. Top(x),
         Lineage[x.cls][j] = Lineage[x.cls][k]
  PROVE  j = k
<1>1. x.cls \in Class /\ Layers(x.cls) = 1 .. Top(x) /\ Top(x) = Len(Lineage[x.cls])
      /\ Top(x) \in Nat /\ Lineage[x.cls] \in Seq(Class)
  BY BlockFields, LayersType DEF Top
<1>2. \A i \in 1 .. Top(x) : Lineage[Lineage[x.cls][i]] = SubSeq(Lineage[x.cls], 1, i)
  BY <1>1, MmObjectAssumption
<1>3. \A i \in 1 .. Top(x) : Len(SubSeq(Lineage[x.cls], 1, i)) = i
  BY <1>1
<1> QED
  BY <1>2, <1>3

\* A call of a layer that is there.
LEMMA FindOne ==
  ASSUME NEW x, IsBlock(x), NEW c \in Class, NEW u \in Class,
         NEW n \in 1 .. Top(x) + 1, NEW at \in 1 .. x.up
  PROVE  \E call : /\ call.at = at /\ call.until = u /\ at # 0 /\ ~(at > x.up)
                    /\ Search(x, c)[n][[at |-> at, until |-> u]]
                         = FindAt(x, c, call, Search(x, c)[n - 1])
<1>1. n \in 0 .. Top(x) + 1 /\ n # 0 /\ at # 0 /\ ~(at > x.up)
      /\ [at |-> at, until |-> u] \in Call(x)
  BY BlockFields DEF Call
<1>2. Search(x, c)[n][[at |-> at, until |-> u]]
        = FindAt(x, c, [at |-> at, until |-> u], Search(x, c)[n - 1])
  BY <1>1, SearchIs
<1>3. [at |-> at, until |-> u].at = at /\ [at |-> at, until |-> u].until = u
  OBVIOUS
<1> QED
  BY <1>1, <1>2, <1>3

\* The layer is of class c.
LEMMA FindHits ==
  ASSUME NEW x, IsBlock(x), NEW c \in Class, NEW u \in Class,
         NEW n \in 1 .. Top(x) + 1, NEW at \in 1 .. x.up,
         Lineage[x.cls][at] = c
  PROVE  Search(x, c)[n][[at |-> at, until |-> u]] = at
<1>1. PICK call : /\ call.at = at /\ call.until = u /\ at # 0 /\ ~(at > x.up)
                  /\ Search(x, c)[n][[at |-> at, until |-> u]]
                       = FindAt(x, c, call, Search(x, c)[n - 1])
  BY FindOne
<1>2. FindAt(x, c, call, Search(x, c)[n - 1]) = at
  BY <1>1 DEF FindAt
<1> QED
  BY <1>1, <1>2

\* It is not, and the search has been all around.
LEMMA FindEnds ==
  ASSUME NEW x, IsBlock(x), NEW c \in Class, NEW u \in Class,
         NEW n \in 1 .. Top(x) + 1, NEW at \in 1 .. x.up,
         Lineage[x.cls][at] = u, u # c
  PROVE  Search(x, c)[n][[at |-> at, until |-> u]] = 0
<1>1. PICK call : /\ call.at = at /\ call.until = u /\ at # 0 /\ ~(at > x.up)
                  /\ Search(x, c)[n][[at |-> at, until |-> u]]
                       = FindAt(x, c, call, Search(x, c)[n - 1])
  BY FindOne
<1>2. FindAt(x, c, call, Search(x, c)[n - 1]) = 0
  BY <1>1 DEF FindAt
<1> QED
  BY <1>1, <1>2

\* It is not, and the search goes on to layer b ...
LEMMA FindGoesOn ==
  ASSUME NEW x, IsBlock(x), NEW c \in Class, NEW u \in Class,
         NEW n \in 1 .. Top(x) + 1, NEW at \in 1 .. x.up,
         Lineage[x.cls][at] # c, u # c, Lineage[x.cls][at] # u,
         NEW b, Pre(x, at) = b
  PROVE  Search(x, c)[n][[at |-> at, until |-> u]]
           = Search(x, c)[n - 1][[at |-> b, until |-> u]]
<1>1. PICK call : /\ call.at = at /\ call.until = u /\ at # 0 /\ ~(at > x.up)
                  /\ Search(x, c)[n][[at |-> at, until |-> u]]
                       = FindAt(x, c, call, Search(x, c)[n - 1])
  BY FindOne
<1>2. FindAt(x, c, call, Search(x, c)[n - 1])
        = Search(x, c)[n - 1][[at |-> b, until |-> u]]
  BY <1>1 DEF FindAt
<1> QED
  BY <1>1, <1>2

\* ... or begins here.
LEMMA FindBegins ==
  ASSUME NEW x, IsBlock(x), NEW c \in Class, NEW u \in Class,
         NEW n \in 1 .. Top(x) + 1, NEW at \in 1 .. x.up,
         Lineage[x.cls][at] # c, u = c,
         NEW b, Pre(x, at) = b
  PROVE  Search(x, c)[n][[at |-> at, until |-> u]]
           = Search(x, c)[n - 1][[at |-> b, until |-> Lineage[x.cls][at]]]
<1>1. PICK call : /\ call.at = at /\ call.until = u /\ at # 0 /\ ~(at > x.up)
                  /\ Search(x, c)[n][[at |-> at, until |-> u]]
                       = FindAt(x, c, call, Search(x, c)[n - 1])
  BY FindOne
<1>2. FindAt(x, c, call, Search(x, c)[n - 1])
        = Search(x, c)[n - 1][[at |-> b, until |-> Lineage[x.cls][at]]]
  BY <1>1 DEF FindAt
<1> QED
  BY <1>1, <1>2

----------------------------------------------------------------------------
(* Stretches of the way down, for the class c and the layer k the search    *)
(* began at, which is not of class c.                                       *)

\* From a down to the layer of class c.
LEMMA DownToLayer ==
  ASSUME NEW x, IsBlock(x), NEW c \in Class, NEW p \in 1 .. x.up,
         Lineage[x.cls][p] = c, NEW u \in Class, u # c
  PROVE  \A d \in Nat : \A n \in 1 .. Top(x) + 1 :
           /\ p + d <= x.up /\ d < n
           /\ \A b \in p .. p + d : Lineage[x.cls][b] # u
           => Search(x, c)[n][[at |-> p + d, until |-> u]] = p
<1> DEFINE Good(d) == \A n \in 1 .. Top(x) + 1 :
                        /\ p + d <= x.up /\ d < n
                        /\ \A b \in p .. p + d : Lineage[x.cls][b] # u
                        => Search(x, c)[n][[at |-> p + d, until |-> u]] = p
           S == {d \in Nat : Good(d)}
<1>1. Top(x) \in Nat /\ x.up \in 1 .. Top(x) /\ p \in 1 .. Top(x)
  BY BlockFields
<1>2. 0 \in S
  <2>1. p + 0 = p
    BY <1>1
  <2>2. ASSUME NEW n \in 1 .. Top(x) + 1
        PROVE  Search(x, c)[n][[at |-> p, until |-> u]] = p
    BY FindHits
  <2> QED
    BY <2>1, <2>2
<1>3. ASSUME NEW d \in Nat, d \in S PROVE d + 1 \in S
  <2>1. Good(d)
    BY <1>3
  <2>2. SUFFICES ASSUME NEW n \in 1 .. Top(x) + 1, p + (d + 1) <= x.up, d + 1 < n,
                        \A b \in p .. p + (d + 1) : Lineage[x.cls][b] # u
                 PROVE  Search(x, c)[n][[at |-> p + (d + 1), until |-> u]] = p
    OBVIOUS
  <2> DEFINE at == p + (d + 1)
  <2>3. /\ at \in 1 .. x.up /\ at \in 1 .. Top(x) /\ at # p /\ at # 1
        /\ at - 1 = p + d /\ at \in p .. p + (d + 1)
    BY <1>1, <2>2
  <2>4. Lineage[x.cls][at] # c
    BY <1>1, <2>3, LayersApart
  <2>5. Pre(x, at) = p + d
    BY <2>3, <1>1 DEF Pre
  <2>6. Search(x, c)[n][[at |-> at, until |-> u]]
          = Search(x, c)[n - 1][[at |-> p + d, until |-> u]]
    <3>1. Lineage[x.cls][at] # u
      BY <2>2, <2>3
    <3> HIDE DEF at
    <3> QED
      BY <2>3, <2>4, <2>5, <3>1, FindGoesOn
  <2>7. n - 1 \in 1 .. Top(x) + 1 /\ d < n - 1 /\ p + d <= x.up
        /\ p .. p + d \subseteq p .. p + (d + 1)
    BY <1>1, <2>2
  <2> QED
    BY <2>1, <2>2, <2>6, <2>7
<1> HIDE DEF S
<1>4. Nat \subseteq S
  BY <1>2, <1>3, NatsAssumptions, Nats!InductionOnSet
<1> QED
  BY <1>4 DEF S

\* From k + d down to k, without a layer of class c on the way.
LEMMA DownToStart ==
  ASSUME NEW x, IsBlock(x), NEW c \in Class, NEW k \in 1 .. x.up,
         Lineage[x.cls][k] # c
  PROVE  \A d \in Nat : \A n \in 1 .. Top(x) + 1 :
           /\ k + d <= x.up /\ d < n
           /\ \A b \in k .. k + d : Lineage[x.cls][b] # c
           => Search(x, c)[n][[at |-> k + d, until |-> Lineage[x.cls][k]]] = 0
<1> DEFINE u == Lineage[x.cls][k]
           Good(d) == \A n \in 1 .. Top(x) + 1 :
                        /\ k + d <= x.up /\ d < n
                        /\ \A b \in k .. k + d : Lineage[x.cls][b] # c
                        => Search(x, c)[n][[at |-> k + d, until |-> u]] = 0
           S == {d \in Nat : Good(d)}
<1>1. Top(x) \in Nat /\ x.up \in 1 .. Top(x) /\ k \in 1 .. Top(x)
      /\ u \in Class /\ u # c /\ Lineage[x.cls][k] = u
  BY BlockFields, LineageAt
<1>2. 0 \in S
  <2>1. k + 0 = k
    BY <1>1
  <2>2. ASSUME NEW n \in 1 .. Top(x) + 1
        PROVE  Search(x, c)[n][[at |-> k, until |-> u]] = 0
    <3> HIDE DEF u
    <3> QED
      BY <1>1, FindEnds
  <2> QED
    BY <2>1, <2>2
<1>3. ASSUME NEW d \in Nat, d \in S PROVE d + 1 \in S
  <2>1. Good(d)
    BY <1>3
  <2>2. SUFFICES ASSUME NEW n \in 1 .. Top(x) + 1, k + (d + 1) <= x.up, d + 1 < n,
                        \A b \in k .. k + (d + 1) : Lineage[x.cls][b] # c
                 PROVE  Search(x, c)[n][[at |-> k + (d + 1), until |-> u]] = 0
    OBVIOUS
  <2> DEFINE at == k + (d + 1)
  <2>3. /\ at \in 1 .. x.up /\ at \in 1 .. Top(x) /\ at # k /\ at # 1
        /\ at - 1 = k + d /\ at \in k .. k + (d + 1)
    BY <1>1, <2>2
  <2>4. Lineage[x.cls][at] # u /\ Lineage[x.cls][at] # c
    BY <1>1, <2>2, <2>3, LayersApart
  <2>5. Pre(x, at) = k + d
    BY <2>3, <1>1 DEF Pre
  <2>6. Search(x, c)[n][[at |-> at, until |-> u]]
          = Search(x, c)[n - 1][[at |-> k + d, until |-> u]]
    <3> HIDE DEF at, u
    <3> QED
      BY <1>1, <2>3, <2>4, <2>5, FindGoesOn
  <2>7. n - 1 \in 1 .. Top(x) + 1 /\ d < n - 1 /\ k + d <= x.up
        /\ k .. k + d \subseteq k .. k + (d + 1)
    BY <1>1, <2>2
  <2> QED
    BY <2>1, <2>2, <2>6, <2>7
<1> HIDE DEF S
<1>4. Nat \subseteq S
  BY <1>2, <1>3, NatsAssumptions, Nats!InductionOnSet
<1> QED
  BY <1>4 DEF S

\* From layer d below k over the first layer to the last.
LEMMA DownAndAround ==
  ASSUME NEW x, IsBlock(x), x.up = Top(x), NEW c \in Class, NEW k \in 1 .. Top(x),
         \A b \in 1 .. k : Lineage[x.cls][b] # c
  PROVE  \A d \in Nat : \A n \in 1 .. Top(x) + 1 :
           1 <= d /\ d < k /\ d <= n
           => Search(x, c)[n][[at |-> d, until |-> Lineage[x.cls][k]]]
                = Search(x, c)[n - d][[at |-> Top(x), until |-> Lineage[x.cls][k]]]
<1> DEFINE u == Lineage[x.cls][k]
           Good(d) == \A n \in 1 .. Top(x) + 1 :
             1 <= d /\ d < k /\ d <= n
             => Search(x, c)[n][[at |-> d, until |-> u]]
                  = Search(x, c)[n - d][[at |-> Top(x), until |-> u]]
           S == {d \in Nat : Good(d)}
<1>1. Top(x) \in Nat \ {0} /\ u \in Class /\ u # c
  BY BlockFields, LineageAt
<1>2. 0 \in S
  OBVIOUS
<1>3. ASSUME NEW d \in Nat, d \in S PROVE d + 1 \in S
  <2>1. Good(d)
    BY <1>3
  <2>2. SUFFICES ASSUME NEW n \in 1 .. Top(x) + 1, d + 1 < k, d + 1 <= n
                 PROVE  Search(x, c)[n][[at |-> d + 1, until |-> u]]
                          = Search(x, c)[n - (d + 1)][[at |-> Top(x), until |-> u]]
    OBVIOUS
  <2>3. d + 1 \in 1 .. x.up /\ d + 1 \in 1 .. Top(x) /\ d + 1 \in 1 .. k /\ d + 1 # k
    BY <1>1, <2>2
  <2>4. Lineage[x.cls][d + 1] # u /\ Lineage[x.cls][d + 1] # c
    BY <2>3, LayersApart
  <2>5. Search(x, c)[n][[at |-> d + 1, until |-> u]]
          = Search(x, c)[n - 1][[at |-> Pre(x, d + 1), until |-> u]]
    BY <1>1, <2>3, <2>4, FindGoesOn
  <2>6. CASE d = 0
    <3>1. Pre(x, d + 1) = Top(x)
      BY <1>1, <2>3, <2>6 DEF Pre
    <3> QED
      BY <2>5, <2>6, <3>1
  <2>7. CASE d # 0
    <3>1. Pre(x, d + 1) = d
      BY <1>1, <2>3, <2>7 DEF Pre
    <3>2. n - 1 \in 1 .. Top(x) + 1 /\ 1 <= d /\ d < k /\ d <= n - 1
          /\ (n - 1) - d = n - (d + 1)
      BY <1>1, <2>2, <2>7
    <3>3. Search(x, c)[n - 1][[at |-> d, until |-> u]]
            = Search(x, c)[(n - 1) - d][[at |-> Top(x), until |-> u]]
      BY <2>1, <3>2
    <3> QED
      BY <2>5, <3>1, <3>2, <3>3
  <2> QED
    BY <2>6, <2>7
<1> HIDE DEF S
<1>4. Nat \subseteq S
  BY <1>2, <1>3, NatsAssumptions, Nats!InductionOnSet
<1> QED
  BY <1>4 DEF S

----------------------------------------------------------------------------
(* Whole searches.                                                          *)

\* A search that begins at layer k, which is not of class c.
LEMMA SearchBegins ==
  ASSUME NEW x, IsBlock(x), NEW c \in Class, NEW k \in 1 .. x.up,
         Lineage[x.cls][k] # c
  PROVE  Find(x, k, c)
           = Search(x, c)[Top(x)][[at |-> Pre(x, k), until |-> Lineage[x.cls][k]]]
<1>1. Top(x) \in Nat /\ Top(x) + 1 \in 1 .. Top(x) + 1 /\ (Top(x) + 1) - 1 = Top(x)
  BY BlockFields
<1> QED
  BY <1>1, FindBegins DEF Find

\* The layer is found if there is one, of an object not yet complete if it is
\* not above.
LEMMA FindsLayer ==
  ASSUME NEW x, IsBlock(x), NEW c \in Class, NEW k \in 1 .. x.up, NEW p \in 1 .. x.up,
         Lineage[x.cls][p] = c, x.up = Top(x) \/ p <= k
  PROVE  Find(x, k, c) = p
<1> DEFINE u == Lineage[x.cls][k]
<1>1. /\ Top(x) \in Nat \ {0} /\ x.up \in 1 .. Top(x)
      /\ k \in 1 .. Top(x) /\ p \in 1 .. Top(x) /\ u \in Class
  BY BlockFields, LineageAt
<1>2. CASE p = k
  <2>1. Top(x) + 1 \in 1 .. Top(x) + 1
    BY <1>1
  <2> QED
    BY <1>2, <2>1, FindHits DEF Find
<1>3. ASSUME p # k
      PROVE  /\ u # c
             /\ Find(x, k, c) = Search(x, c)[Top(x)][[at |-> Pre(x, k), until |-> u]]
             /\ \A b \in 1 .. Top(x) : b # k => Lineage[x.cls][b] # u
  BY <1>1, <1>3, LayersApart, SearchBegins
<1>4. CASE p < k
  <2>1. Pre(x, k) = p + (k - 1 - p) /\ k - 1 - p \in Nat
    BY <1>1, <1>4 DEF Pre
  <2>2. /\ p + (k - 1 - p) <= x.up /\ k - 1 - p < Top(x) /\ Top(x) \in 1 .. Top(x) + 1
        /\ \A b \in p .. p + (k - 1 - p) : b \in 1 .. Top(x) /\ b # k
    BY <1>1, <1>4
  <2> HIDE DEF u
  <2>3. Search(x, c)[Top(x)][[at |-> p + (k - 1 - p), until |-> u]] = p
    BY <1>1, <1>3, <1>4, <2>1, <2>2, DownToLayer
  <2> QED
    BY <1>3, <1>4, <2>1, <2>3
<1>5. CASE p > k
  <2>1. x.up = Top(x) /\ p # k
    BY <1>1, <1>5
  <2>2. ASSUME NEW n \in 1 .. Top(x) + 1, Top(x) - p < n
        PROVE  Search(x, c)[n][[at |-> Top(x), until |-> u]] = p
    <3>1. /\ Top(x) - p \in Nat /\ p + (Top(x) - p) = Top(x) /\ p + (Top(x) - p) <= x.up
          /\ \A b \in p .. p + (Top(x) - p) : b \in 1 .. Top(x) /\ b # k
      BY <1>1, <1>5, <2>1
    <3> HIDE DEF u
    <3>2. Search(x, c)[n][[at |-> p + (Top(x) - p), until |-> u]] = p
      BY <1>1, <1>3, <2>1, <2>2, <3>1, DownToLayer
    <3> QED
      BY <3>1, <3>2
  <2>3. Search(x, c)[Top(x)][[at |-> Pre(x, k), until |-> u]] = p
    <3>1. CASE k = 1
      <4>1. Pre(x, k) = Top(x) /\ Top(x) \in 1 .. Top(x) + 1 /\ Top(x) - p < Top(x)
        BY <1>1, <3>1 DEF Pre
      <4> HIDE DEF u
      <4> QED
        BY <2>2, <4>1
    <3>2. CASE k # 1
      <4>1. /\ Pre(x, k) = k - 1 /\ k - 1 \in Nat /\ 1 <= k - 1 /\ k - 1 < k
            /\ k - 1 <= Top(x) /\ Top(x) \in 1 .. Top(x) + 1
            /\ Top(x) - (k - 1) \in 1 .. Top(x) + 1 /\ Top(x) - p < Top(x) - (k - 1)
        BY <1>1, <1>5, <3>2 DEF Pre
      <4>2. \A b \in 1 .. k : Lineage[x.cls][b] # c
        BY <1>1, <1>5, LayersApart
      <4>3. Search(x, c)[Top(x)][[at |-> k - 1, until |-> u]]
              = Search(x, c)[Top(x) - (k - 1)][[at |-> Top(x), until |-> u]]
        <5>1. \A d \in Nat : \A n \in 1 .. Top(x) + 1 :
                1 <= d /\ d < k /\ d <= n
                => Search(x, c)[n][[at |-> d, until |-> u]]
                     = Search(x, c)[n - d][[at |-> Top(x), until |-> u]]
          BY <1>1, <2>1, <4>2, DownAndAround
        <5> HIDE DEF u
        <5> QED
          BY <4>1, <5>1
      <4> HIDE DEF u
      <4> QED
        BY <2>2, <4>1, <4>3
    <3> QED
      BY <3>1, <3>2
  <2> QED
    BY <1>3, <2>1, <2>3
<1> QED
  BY <1>1, <1>2, <1>4, <1>5

\* A complete object without a layer of class c: the search ends after one
\* round.
LEMMA FindsNothing ==
  ASSUME NEW x, IsBlock(x), x.up = Top(x), NEW c \in Class, NEW k \in 1 .. Top(x),
         \A b \in 1 .. Top(x) : Lineage[x.cls][b] # c
  PROVE  Find(x, k, c) = 0
<1> DEFINE u == Lineage[x.cls][k]
<1>1. Top(x) \in Nat \ {0} /\ k \in 1 .. x.up /\ u \in Class
  BY BlockFields, LineageAt
<1>2. Find(x, k, c) = Search(x, c)[Top(x)][[at |-> Pre(x, k), until |-> u]]
  BY <1>1, SearchBegins
<1>3. ASSUME NEW n \in 1 .. Top(x) + 1, Top(x) - k < n
      PROVE  Search(x, c)[n][[at |-> Top(x), until |-> u]] = 0
  <2>1. /\ Top(x) - k \in Nat /\ k + (Top(x) - k) = Top(x) /\ k + (Top(x) - k) <= x.up
        /\ \A b \in k .. k + (Top(x) - k) : b \in 1 .. Top(x)
    BY <1>1
  <2>2. Lineage[x.cls][k] # c
    OBVIOUS
  <2>3. Search(x, c)[n][[at |-> k + (Top(x) - k), until |-> u]] = 0
    BY <1>1, <1>3, <2>1, <2>2, DownToStart
  <2> HIDE DEF u
  <2> QED
    BY <2>1, <2>3
<1>4. CASE k = 1
  <2>1. Pre(x, k) = Top(x) /\ Top(x) \in 1 .. Top(x) + 1 /\ Top(x) - k < Top(x)
    BY <1>1, <1>4 DEF Pre
  <2> HIDE DEF u
  <2> QED
    BY <1>2, <1>3, <2>1
<1>5. CASE k # 1
  <2>1. /\ Pre(x, k) = k - 1 /\ k - 1 \in Nat /\ 1 <= k - 1 /\ k - 1 < k
        /\ k - 1 <= Top(x) /\ Top(x) \in 1 .. Top(x) + 1
        /\ Top(x) - (k - 1) \in 1 .. Top(x) + 1 /\ Top(x) - k < Top(x) - (k - 1)
    BY <1>1, <1>5 DEF Pre
  <2>2. \A b \in 1 .. k : Lineage[x.cls][b] # c
    BY <1>1
  <2>3. Search(x, c)[Top(x)][[at |-> k - 1, until |-> u]]
          = Search(x, c)[Top(x) - (k - 1)][[at |-> Top(x), until |-> u]]
    BY <1>1, <2>1, <2>2, DownAndAround
  <2> HIDE DEF u
  <2> QED
    BY <1>2, <1>3, <2>1, <2>3
<1> QED
  BY <1>4, <1>5

----------------------------------------------------------------------------
(* The loop of the calls.                                                   *)

\* So does the walk for a function.
LEMMA LookAtType ==
  ASSUME NEW x, IsBlock(x), NEW f, NEW r \in [0 .. Top(x) -> -1 .. Top(x)],
         NEW b \in 0 .. Top(x)
  PROVE  LookAt(x, f, b, r) \in -1 .. Top(x)
<1>1. Top(x) \in Nat
  BY BlockFields
<1>2. CASE b = 0
  BY <1>1, <1>2 DEF LookAt, Bad
<1>3. CASE b # 0
  <2>1. b \in 1 .. Top(x) /\ Pre(x, b) \in 0 .. Top(x)
    BY <1>1, <1>3, PreLayer
  <2>2. r[Pre(x, b)] \in -1 .. Top(x)
    BY <2>1
  <2> QED
    BY <1>1, <1>3, <2>1, <2>2 DEF LookAt
<1> QED
  BY <1>2, <1>3

\* The recursion of LoopFrom is well-defined.
LEMMA LoopIs ==
  ASSUME NEW x, IsBlock(x), NEW f
  PROVE  \A n \in 0 .. Top(x) : \A b \in 0 .. Top(x) :
           LoopFrom(x, f)[n][b] =
             IF n = 0 THEN Bad ELSE LookAt(x, f, b, LoopFrom(x, f)[n - 1])
<1> DEFINE X == [0 .. Top(x) -> -1 .. Top(x)]
           first == [b \in 0 .. Top(x) |-> Bad]
           step == [r \in X |-> [b \in 0 .. Top(x) |-> LookAt(x, f, b, r)]]
           Is(L) == L = [n \in 0 .. Top(x) |-> [b \in 0 .. Top(x) |->
                      IF n = 0 THEN Bad ELSE LookAt(x, f, b, L[n - 1])]]
<1>1. Top(x) \in Nat
  BY BlockFields
<1>2. first \in X
  BY <1>1 DEF Bad
<1>3. step \in [X -> X]
  BY LookAtType
<1>4. PICK h \in [Nat -> X] : h[0] = first /\ \A n \in Nat : h[n + 1] = step[h[n]]
  <2> HIDE DEF X, first, step
  <2> QED
    BY <1>2, <1>3, NatsAssumptions, Nats!Iterates
<1>5. \E L : Is(L)
  <2> DEFINE g == [n \in 0 .. Top(x) |-> h[n]]
  <2>1. ASSUME NEW n \in 0 .. Top(x)
        PROVE  g[n] = [b \in 0 .. Top(x) |->
                  IF n = 0 THEN Bad ELSE LookAt(x, f, b, g[n - 1])]
    <3>1. CASE n = 0
      BY <1>1, <1>4, <3>1
    <3>2. CASE n # 0
      <4>1. n - 1 \in Nat /\ n - 1 \in 0 .. Top(x) /\ (n - 1) + 1 = n
        BY <1>1, <3>2
      <4>2. g[n] = step[g[n - 1]] /\ g[n - 1] \in X
        <5> HIDE DEF step, X
        <5> QED
          BY <1>4, <4>1
      <4>3. g[n] = [b \in 0 .. Top(x) |-> LookAt(x, f, b, g[n - 1])]
        <5> HIDE DEF g, X
        <5> QED
          BY <4>2
      <4> HIDE DEF g
      <4> QED
        BY <3>2, <4>3
    <3> QED
      BY <3>1, <3>2
  <2>2. g = [n \in 0 .. Top(x) |-> g[n]]
    OBVIOUS
  <2>3. Is(g)
    <3> HIDE DEF g
    <3> QED
      BY <2>1, <2>2
  <2> QED
    BY <2>3
<1>6. LoopFrom(x, f) = CHOOSE L : Is(L)
  BY DEF LoopFrom
<1>7. Is(LoopFrom(x, f))
  <2> HIDE DEF Is
  <2> QED
    BY <1>5, <1>6
<1> HIDE DEF X, first, step
<1>8. \A n \in 0 .. Top(x) : LoopFrom(x, f)[n] = [b \in 0 .. Top(x) |->
        IF n = 0 THEN Bad ELSE LookAt(x, f, b, LoopFrom(x, f)[n - 1])]
  <2> DEFINE L == LoopFrom(x, f)
             row(n) == [b \in 0 .. Top(x) |->
                          IF n = 0 THEN Bad ELSE LookAt(x, f, b, L[n - 1])]
  <2>1. L = [n \in 0 .. Top(x) |-> row(n)]
    BY <1>7
  <2> HIDE DEF L, row
  <2>2. \A n \in 0 .. Top(x) : L[n] = row(n)
    BY <2>1
  <2> QED
    BY <2>2 DEF L, row
<1> QED
  BY <1>8

\* Highest is what its name says.
LEMMA HighestIs ==
  ASSUME NEW S, NEW k \in S, \A j \in S : j \in Nat /\ j <= k
  PROVE  Highest(S) = k
<1>1. PICK m : m = Highest(S)
  OBVIOUS
<1>2. m \in S /\ \A j \in S : j <= m
  BY <1>1 DEF Highest
<1> QED
  BY <1>1, <1>2

\* From layer b down, with as many layers to visit: the last layer from there
\* on that has the function.
LEMMA LoopFinds ==
  ASSUME NEW x, IsBlock(x), NEW f
  PROVE  \A b \in Nat : \A n \in 0 .. Top(x) :
           1 <= b /\ b <= x.up /\ b <= n
           => LoopFrom(x, f)[n][b] = Highest({a \in 1 .. b : f \in x.fns[a]})
<1> DEFINE Having(b) == {a \in 1 .. b : f \in x.fns[a]}
           Good(b) == \A n \in 0 .. Top(x) :
             1 <= b /\ b <= x.up /\ b <= n => LoopFrom(x, f)[n][b] = Highest(Having(b))
           S == {b \in Nat : Good(b)}
<1>1. Top(x) \in Nat \ {0} /\ x.up \in 1 .. Top(x)
  BY BlockFields
<1>2. 0 \in S
  OBVIOUS
<1>3. ASSUME NEW d \in Nat, d \in S PROVE d + 1 \in S
  <2>1. Good(d)
    BY <1>3
  <2>2. SUFFICES ASSUME NEW n \in 0 .. Top(x), d + 1 <= x.up, d + 1 <= n
                 PROVE  LoopFrom(x, f)[n][d + 1] = Highest(Having(d + 1))
    OBVIOUS
  <2>3. n # 0 /\ d + 1 \in 0 .. Top(x) /\ d + 1 # 0 /\ d + 1 \in 1 .. d + 1
    BY <1>1, <2>2
  <2>4. LoopFrom(x, f)[n][d + 1] = LookAt(x, f, d + 1, LoopFrom(x, f)[n - 1])
    BY <2>3, LoopIs
  <2>5. CASE f \in x.fns[d + 1]
    <3>1. d + 1 \in Having(d + 1) /\ \A j \in Having(d + 1) : j \in Nat /\ j <= d + 1
      BY <2>3, <2>5
    <3>2. Highest(Having(d + 1)) = d + 1
      <4> HIDE DEF Having
      <4> QED
        BY <3>1, HighestIs
    <3> QED
      BY <2>3, <2>4, <2>5, <3>2 DEF LookAt
  <2>6. CASE f \notin x.fns[d + 1] /\ d = 0
    <3>1. Having(d + 1) = {}
      BY <2>6
    <3> QED
      BY <2>3, <2>4, <2>6, <3>1 DEF LookAt, Highest
  <2>7. CASE f \notin x.fns[d + 1] /\ d # 0
    <3>1. Having(d + 1) = Having(d)
      <4>1. \A a \in 1 .. d + 1 : a \in 1 .. d \/ a = d + 1
        OBVIOUS
      <4>2. 1 .. d \subseteq 1 .. d + 1
        OBVIOUS
      <4> QED
        BY <2>7, <4>1, <4>2
    <3>2. Pre(x, d + 1) = d /\ d + 1 # 1
      BY <1>1, <2>2, <2>7 DEF Pre
    <3>3. LookAt(x, f, d + 1, LoopFrom(x, f)[n - 1]) = LoopFrom(x, f)[n - 1][d]
      BY <2>3, <2>7, <3>2 DEF LookAt
    <3>4. n - 1 \in 0 .. Top(x) /\ 1 <= d /\ d <= x.up /\ d <= n - 1
      BY <1>1, <2>2, <2>7
    <3> HIDE DEF Having
    <3> QED
      BY <2>1, <2>4, <3>1, <3>3, <3>4
  <2> QED
    BY <2>5, <2>6, <2>7
<1> HIDE DEF S
<1>4. Nat \subseteq S
  BY <1>2, <1>3, NatsAssumptions, Nats!InductionOnSet
<1> QED
  BY <1>4 DEF S

----------------------------------------------------------------------------
(* The properties.                                                          *)

\* Casts from any layer of any object find the layer of the class, or null
\* after one round if there is none, of an object not yet complete as well.
THEOREM CastsFindTheirLayer == Spec => []CastsFind
<1>1. TypeOK => CastsFind
  <2> SUFFICES ASSUME TypeOK, NEW o \in Live, NEW k \in 1 .. obj[o].up, NEW c \in Class
               PROVE  LET x == obj[o]
                          found == {b \in 1 .. x.up : Lineage[x.cls][b] = c}
                      IN  (x.up = Top(x) \/ \E b \in found : b <= k) =>
                            Find(x, k, c) = IF found = {} THEN 0 ELSE CHOOSE b \in found : TRUE
    BY DEF CastsFind
  <2> DEFINE x == obj[o]
             found == {b \in 1 .. x.up : Lineage[x.cls][b] = c}
  <2> SUFFICES ASSUME x.up = Top(x) \/ \E b \in found : b <= k
               PROVE  Find(x, k, c) = IF found = {} THEN 0 ELSE CHOOSE b \in found : TRUE
    OBVIOUS
  <2>1. IsBlock(x) /\ x.up \in 1 .. Top(x) /\ Top(x) \in Nat
    BY BlockFields DEF TypeOK, Live
  <2>2. CASE found = {}
    <3>1. x.up = Top(x) /\ k \in 1 .. Top(x) /\ \A b \in 1 .. Top(x) : Lineage[x.cls][b] # c
      BY <2>1, <2>2
    <3> QED
      BY <2>1, <2>2, <3>1, FindsNothing
  <2>3. CASE found # {}
    <3>1. PICK p : p = CHOOSE b \in found : TRUE
      OBVIOUS
    <3>2. p \in found
      BY <2>3, <3>1
    <3>3. p \in 1 .. x.up /\ Lineage[x.cls][p] = c /\ p \in 1 .. Top(x)
      BY <2>1, <3>2
    <3>4. x.up = Top(x) \/ p <= k
      <4>1. ASSUME NEW b \in found PROVE b = p
        BY <2>1, <3>3, <4>1, LayersApart
      <4> QED
        BY <4>1
    <3> QED
      BY <2>1, <2>3, <3>1, <3>3, <3>4, FindsLayer
  <2> QED
    BY <2>2, <2>3
<1> QED
  BY <1>1, TypeCorrect, PTL

\* A call reaches the last layer that implements the function, and a call of
\* the parent's the last one below its own.
THEOREM CallsReachTheLast == Spec => []CallsFindLast
<1>1. TypeOK => CallsFindLast
  <2> SUFFICES ASSUME TypeOK, NEW o \in Live, NEW x, x = obj[o], x.up = Top(x), NEW f \in Fn
               PROVE  /\ LastFunction(x, f) = Highest({b \in Layers(x.cls) : f \in x.fns[b]})
                      /\ \A k \in Layers(x.cls) \ {1} :
                           ParentFunction(x, f, k) = Highest({b \in 1 .. k - 1 : f \in x.fns[b]})
    BY DEF CallsFindLast
  <2>1. IsBlock(x) /\ Top(x) \in Nat \ {0} /\ Layers(x.cls) = 1 .. Top(x)
    BY BlockFields DEF TypeOK, Live
  <2>2. \A b \in 1 .. Top(x) : Lookup(x, f, b) = Highest({a \in 1 .. b : f \in x.fns[a]})
    <3> TAKE b \in 1 .. Top(x)
    <3>1. b \in Nat /\ Top(x) \in 0 .. Top(x) /\ 1 <= b /\ b <= x.up /\ b <= Top(x)
      BY <2>1
    <3> QED
      BY <2>1, <3>1, LoopFinds DEF Lookup
  <2>3. Pre(x, 1) = Top(x) /\ Top(x) \in 1 .. Top(x)
    BY <2>1 DEF Pre
  <2>4. LastFunction(x, f) = Highest({b \in Layers(x.cls) : f \in x.fns[b]})
    BY <2>1, <2>2, <2>3 DEF LastFunction
  <2>5. ASSUME NEW k \in Layers(x.cls) \ {1}
        PROVE  ParentFunction(x, f, k) = Highest({b \in 1 .. k - 1 : f \in x.fns[b]})
    <3>1. Pre(x, k) = k - 1 /\ k - 1 \in 1 .. Top(x)
      BY <2>1 DEF Pre
    <3> QED
      BY <2>2, <3>1 DEF ParentFunction
  <2> QED
    BY <2>4, <2>5
<1> QED
  BY <1>1, TypeCorrect, PTL

----------------------------------------------------------------------------
(* No pointer that is not yet set is followed.                              *)

\* __trigger_release_mmobj finds the last layer of a complete object.
LEMMA TriggerSafe ==
  ASSUME ~fault, NEW o, NEW x, x.up = Top(x), IsBlock(x), Trigger(o, x)
  PROVE  ~fault'
<1>1. ~(x.up < Top(x))
  BY BlockFields
<1> QED
  BY <1>1 DEF Trigger

\* Giving up an owned count follows no link that is not set.
LEMMA GiveUpSafe ==
  ASSUME ~fault, NEW o, IsBlock(obj[o]), obj[o].up = Top(obj[o]),
         NEW later, GiveUp(o, later)
  PROVE  ~fault'
<1>1. CASE obj[o].r = 1 /\ ~later
  <2>1. PICK x : x = Dropped(o)
    OBVIOUS
  <2>2. x = [obj[o] EXCEPT !.r = 0]
    BY <1>1, <2>1 DEF Dropped
  <2>3. IsBlock(x) /\ x.up = obj[o].up /\ x.cls = obj[o].cls
    BY <2>2, BlockCounted
  <2>4. x.up = Top(x)
    BY <2>3 DEF Top
  <2> QED
    BY <1>1, <2>1, <2>3, <2>4, TriggerSafe DEF GiveUp
<1>2. CASE ~(obj[o].r = 1 /\ ~later)
  BY <1>2 DEF GiveUp
<1> QED
  BY <1>1, <1>2

\* An object that is met again is cast although its last layer is still being
\* initialised.
LEMMA BorrowSafe ==
  ASSUME IInv, ~fault, NEW v \in Var, NEW o \in Addr, AtLast(o), Borrow(v, o)
  PROVE  ~fault'
<1> DEFINE x == obj[o]
<1>1. o \in seen /\ x # Null /\ IsBlock(x) /\ Sound(o)
  BY OwnedIsLive DEF Borrow, IInv, TypeOK
<1>2. x.up = Top(x)
  <2>1. CASE Jobs(o) = {}
    BY <1>1, <2>1 DEF Sound, AtRest
  <2>2. CASE Jobs(o) # {}
    <3>1. PICK i \in DOMAIN job : job[i].o = o
      BY <2>2 DEF Jobs
    <3>2. job[i] \in Jobs(o) /\ job[i].do = "init" /\ job[i].k = Top(x)
      BY <3>1 DEF Jobs, AtLast, Borrow
    <3> QED
      BY <1>1, <3>2 DEF Sound, Fits, Follows
  <2> QED
    BY <2>1, <2>2
<1>3. x.cls \in Class /\ Top(x) \in Nat \ {0} /\ 1 \in 1 .. Top(x)
      /\ Lineage[x.cls] \in Seq(Class) /\ Top(x) = Len(Lineage[x.cls])
  BY <1>1, BlockFields, LayersType DEF Top
<1>4. Pre(x, 1) = Top(x)
  BY <1>2, <1>3 DEF Pre
<1>5. Head(Lineage[x.cls]) = Lineage[x.cls][1] /\ Lineage[x.cls][1] \in Class
  BY <1>3
<1>6. Find(x, Top(x), Head(Lineage[x.cls])) = 1
  <2>1. Top(x) \in 1 .. x.up /\ 1 \in 1 .. x.up
    BY <1>2, <1>3
  <2> HIDE DEF x
  <2> QED
    BY <1>1, <1>2, <1>5, <2>1, FindsLayer
<1>7. Find(obj[o], Pre(obj[o], 1), Head(Lineage[obj[o].cls])) # Bad
  BY <1>4, <1>6 DEF Bad
<1> QED
  BY <1>7 DEF Borrow

\* No step makes the program follow such a link.
LEMMA NoFaultStep ==
  ASSUME IInv, OwnersSeeObjects, ~fault, [Next]_vars
  PROVE  ~fault'
<1>1. CASE UNCHANGED vars
  BY <1>1 DEF vars
<1>2. CASE Failing /\ Now.o \notin seen /\ InitFail
  BY <1>2 DEF InitFail
<1>3. CASE \E v \in Var, o \in Addr : AtLast(o) /\ Borrow(v, o)
  BY <1>3, BorrowSafe
<1>4. CASE Common
  <2>1. CASE \/ \E o \in Addr, c \in Class, to \in Var \cup {Null} : New(o, c, to)
             \/ InitLayer \/ AllocDone \/ UnpackDone \/ DestroyLayer \/ DestroyEnd
             \/ \E v \in Var, o \in Addr : Retain(v, o)
             \/ \E o \in Live, f \in Fn : \E k \in Layers(obj[o].cls) : SetFunction(o, k, f)
    BY <2>1 DEF New, InitLayer, AllocDone, UnpackDone, DestroyLayer, DestroyEnd, Retain,
                SetFunction
  <2>2. ASSUME NEW v \in Var, NEW later \in BOOLEAN, Release(v, later) PROVE ~fault'
    <3>1. own[v] \in Live /\ obj[own[v]].up = Top(obj[own[v]])
      BY <2>2 DEF Release, OwnersSeeObjects
    <3>2. IsBlock(obj[own[v]])
      BY <3>1 DEF IInv, TypeOK, Live
    <3> QED
      BY <2>2, <3>1, <3>2, GiveUpSafe DEF Release
  <2>3. ASSUME NEW o \in Addr, Drain(o) \/ Forget(o) PROVE ~fault'
    <3>1. Jobs(o) = {} /\ obj[o] # Null
      <4>1. CASE Drain(o)
        BY <4>1, NoJobs DEF Drain, Whole, Live
      <4>2. CASE Forget(o)
        BY <4>2, NoJobs, OwnedIsLive DEF Forget, IInv
      <4> QED
        BY <2>3, <4>1, <4>2
    <3>2. IsBlock(obj[o]) /\ obj[o].up = Top(obj[o])
      BY <3>1 DEF IInv, TypeOK, Sound, AtRest
    <3>3. CASE Drain(o)
      BY <3>2, <3>3, TriggerSafe DEF Drain
    <3>4. CASE Forget(o)
      BY <3>2, <3>4, GiveUpSafe DEF Forget
    <3> QED
      BY <2>3, <3>3, <3>4
  <2> QED
    BY <1>4, <2>1, <2>2, <2>3 DEF Common
<1> QED
  BY <1>1, <1>2, <1>3, <1>4 DEF Next

\* No pre_base that is not yet set is followed, although objects are cast,
\* met again, released and destroyed in the midst of their initialisation.
THEOREM NoNullIsFollowed == Spec => []NoFault
<1>1. Init => ~fault
  BY DEF Init
<1>2. IInv /\ OwnersSeeObjects /\ ~fault /\ [Next]_vars => ~fault'
  BY NoFaultStep
<1>3. TypeOK /\ ~fault => NoFault
  BY DEF NoFault
<1> QED
  BY <1>1, <1>2, <1>3, Invariance, TypeCorrect, OwnersSeeWholeObjects, PTL DEF Spec
=============================================================================
