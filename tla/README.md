# A TLA+ model of LC-clibs

LC-clibs is a set of small C libraries: a pool of reference-counted memory
(`src/platform`), a byte buffer and a packet format (`src/dybuf`), and an object
system with serialization on top of both (`src/mmo`). Everything runs in one
thread; what makes it hard is not preemption but callbacks that run in the middle
of an operation, allocations that fail half way, cursors and lengths at their
limits, and the agreement between a writer and a reader that only share bytes.

This directory models the code in TLA+, checks it with TLC on small instances and
proves the central safety properties with TLAPS for all values of the constants.
`PROJECT.json` maps every definition to the lines it models and lists the runs.

## The system

| part | source | state | operations | depends on |
|---|---|---|---|---|
| managed memory pool | `platform/plat_mgn_mem.h` | hash table: address -> size, retained count, callback | alloc, ralloc, retain, release, autorelease (with or without callback), release_unused, release_all | malloc, uthash; calls back into its callers |
| byte buffer `dybuf` | `dybuf/dybuf.h` 43-850 | block, capacity, limit, position, mark, fixed/dynamic, owner flag | create, refer, copy, capacity and limit, cursor moves, number and length-prefixed reads and appends | malloc |
| codes | `dybuf/dybuf.h` 850-1080 | none | variable-length numbers, zigzag, typdex tags, strings and data with a variable length | dybuf |
| packets `dypkt` | `dybuf/dypkt.h` | a dybuf | dyp_append_*, dyp_next_type, dyp_next_* | dybuf, codes |
| objects `mmo` | `mmo/mmo.h` | per object: chain of class layers (a ring of `pre_base`), tables of functions per layer | alloc/init, destroy, cast, retain, release, virtual calls | pool |
| collections | `mmo/mmo_ext.h` | MMMap (hash of items), MMList (utarray), MMReference, primitives | add, replace, remove, push, insert, concat, pop, compare, hash | objects |
| packer, unpacker | `mmo/mmo_pack.c` | object numbers, class names, queue of objects; stack of contexts | pack_*, unpack_* | objects, collections, codes |
| platform wrappers | `platform/plat_{type,string,io,mem}.h` | none | wrappers of libc | - |
| uthash, utarray | `platform/ut*.h` | third party | - | - |
| tests | `test.c`, `mmo/mmo_unittest.*` | - | - | all |

The parts interact by plain calls downwards, with two exceptions. The pool calls
the destructor an object passed to it (`_mgn_mem_release` and
`mgn_mem_release_unused`), and the destructor uses the pool again. And a packet
travels as bytes from a writer to a reader that knows only the format.

### What makes each part correct

* **Pool.** A pointer that owns a count never dangles; counts equal owners;
  a destructor runs once, before the free, while its block is still in the table,
  whatever it releases in turn; a drain ends and leaves nothing unused; no live
  block leaves the table.
* **Buffer.** `0 <= mark <= position <= limit <= capacity` (`dybuf.h:122`) and no
  access outside the block; no operation loses, moves or invents a byte.
* **Codes.** A code is read back as its number and takes exactly its bytes;
  codes sort as the numbers do, no number has two.
* **Packets.** The reader sees the items of the writer, all of them, in order, and
  comes to the end.
* **Objects.** Layers are destroyed once each, last first, exactly those that were
  initialised; casts end and find the layer; nothing is left in the pool.
* **Collections.** A collection owns one count of each object it holds, whatever is
  replaced by what; the table of a map points into keys the map holds; a sorted map is
  sorted, whatever its history; a map is a dictionary; only cycles are left over.
* **Packer and unpacker.** A graph of objects, with sharing and cycles, is rebuilt with the
  same sharing, by a bounded number of steps; the stack of boxes follows the nesting of the
  calls, since a call names no box.

`PROJECT.json` lists, under "hazards", the lines where these are at risk.

## Modules

### MemPool: the memory pool

State: `pool` is the hash table, `heap` what malloc has handed out (the two differ
exactly when something leaks or dangles), `ref` the pointers of the callers that own a
count, `stack` the blocks whose callback is running, and `drain` the local variables
of `mgn_mem_release_unused`.

Each function is one action, split where its code branches: `RallocSole` and
`RallocShared` are the two branches of `mgn_mem_ralloc`, each with its failing
twin. A release of the last count of an object ends at the call of the callback
(`EnterCallback`), and `Return` does the rest (`HASH_DEL`, the frees): between the two,
any operation of the running code can happen, nested calls included. A drain is a
scan (`Scan`: the loop that fills `free_m[]` with up to `Batch` addresses, in whatever
order the table has), one `DrainVisit` for each address, which looks the entry up again,
and `DrainAgain` or `DrainEnd` (the `goto`).

The callers are the environment. A *holder* is a variable of the program or the
strong field of an object; only a holder that owns a count releases it, the
obligation stated at `plat_mgn_mem.h:75`. Inside a callback the running code may also
use all of the program's variables. Destructors do not drain the pool (no destructor of
the repository does).

Properties: `NoDangling`, `CountsAreOwners`, `DyingStayPooled`, `PooledAreLive`,
`DestroyedBeforeFreed`, `DrainIsComplete`, `LostOnlyByFailure`, `NoLostBlock`,
`DrainTerminates`.

### Dybuf, Tape, DybufTape: the byte buffer

`Dybuf` gives each function of `dybuf.h` as an operator from buffer to buffer, uint
arithmetic wrapping at `MaxUint`, and a specification of a careful caller that makes
them, one per step: it looks at the remainder before it reads numbers and at the room
before it appends to a fixed buffer, and asks for no length whose sum with the position
wraps. `AppendingSpec` drops the second care. `fault` remembers an access outside the block.

`Tape` is the abstract specification: bytes passed, bytes ahead, a mark; there are no
blocks, capacities or growth. `DybufTape` maps the buffer to it (`T == INSTANCE Tape WITH
...`). `ImplementsTape` says every behaviour of the buffer is one of the tape, and
`OperationsMatch` that compact, reads and appends are the tape's step of that name.

### VarCodec, Typdex: the codes

Pure operators, parameterised by the width `W` of a byte, so that numbers of the full
width (8 bytes) can be checked one by one at a smaller `W`. A number is written in one of
nine tiers; `Tier`, `Base` and `Ones` are the tests, offsets and prefixes of
`dyb_append_var_u64`. Powers and offsets are recursive functions, so that they can be proved
about. `Typdex` gives the four forms of a tag with the
widths of their fields (`TypBits`, `IdxBits`) at the true byte width.

### Dypkt: packets

Composes `Typdex`, `VarCodec` and `Dybuf` (an instance whose operators act on two
buffers, the writer's and the reader's). Bytes are real here: a reader that is out of
step reads what the code would read. `AppendItem` is a dyp_append_ function, all its
appends included; `ReadItem` is `dyp_next_type` followed by the dyp_next_ function of that
type, as in the loop of `dypkt_test` (`test.c`) and `dybuf/README.md`. The packet is
handed over by `dyp_unpack`, by reference or as a copy, or by a flip of the writer's own
buffer.

`IsItem` says what the append functions take: numbers of 64 bits, floats of 4 and 8 bytes,
strings without a zero inside, data, and indexes of at most 20 bits, since for a greater one no tag is
written and the packet is lost. `DypktAssumption` adds that packets are so short that the
position does not wrap. `MaxUint` is 2^30 - 1 in the run, whose numbers are of 32 bits, and any
number in the proofs.

### MmObject: objects

An object is one block with a layer for each class of its lineage. `obj` holds the blocks
(`up`: layers whose header is written, `ok`: layers whose `fn_init` has returned, `ran`: how
often `fn_destroy` ran, `fns`: the tables of functions, `r`: the count), `own` the pointers
that own a count, and `job` the stack of initialisations and destructions under way:
`fn_init` and `fn_destroy` are code of the program, so between `Begin` of a layer and
`InitLayer`, or between two `DestroyLayer`, it may allocate, unpack, share and release other
objects. `New` is both `alloc_` and `unpack_`. `InitFail` is an `fn_init` that returns null:
`DestroyLayer` then runs from the layer below and `DestroyEnd` drops alloc's count. `Find`,
`Lookup` and `ParentFunction` walk the ring of `pre_base` as the code does; following a
header not yet written gives `Bad`, and where the code would do so, `fault`. The pool
appears through its counts; its table and callbacks are MemPool's.

`seen` is the map of the unpacker (`mmo_pack.c`), which keeps a strong reference of each
object from the first of its initialisers on. `Spec` assumes of a program that unpacks that
no initialiser fails once the unpacker knows the object, and that an object is not met
again, in a cycle, before its last layer has begun. `AnySpec` drops both. Two
obligations of callers are in the guards: only a pointer that owns a count releases it, and
the unpacker is not released in the midst of unpacking.

### MmCollections, Dictionary: maps, lists, references

`obj` is memory: an object has a kind, a count, a number if it is one, and its items. An
`MMMapItem` is an object with one owner; here it is a part of its map. The program names
what it owns, what it has autoreleased and not drained, and what it gets at through these
(`Known`). One action starts a call (`AddItem`, `RemoveItem`, `InsertItem`, `Release`, ...);
if the call retains, releases or inserts in several steps, they are put on `todo`, and `GoOn`
does them one by one: a count that falls to zero puts the destructor in front, which in turn
releases item after item (`destroyMMMap`, `utarray_done`). So the order in which a
replacement retains, releases and reinserts (`mmo_ext.h:595`, 697-709) is that of the code,
and the properties hold in between. `hk` is the key object whose memory the table of the map
points into. `Place` is where uthash inserts: for sorted maps before the first item with a
greater key, keys being compared by int subtraction (`Wrap`).

`Dictionary` is the abstract specification: pairs of a key and a value, one for each key.
A put or delete takes effect on one key when it is called, and what goes on until it returns
may give up whole maps but changes no other. `ImplementsDictionary` maps a map to its items
and the one about to be reinserted. `GarbageIsCyclic` says that an object the program cannot
reach is held by a cycle: the library loses nothing else.

### MmPack, MmUnpack, ObjectCopy: object graphs

`MmPack` is the packer: `num` are the numbers (`obj_to_id`, `id_to_obj`), `names` the numbers of
class names, `out` the stream as tokens, `doing` the variable `processing_i` and the layer whose
`pack_` hook is next. `PackRoot` writes a reference and starts the loop; within the loop
references only get a number, and their objects queue up.

`MmUnpack` composes it with the unpacker. `process()` (`Parse...`) turns the stream into
boxes: maps of keys, lists, and for each object a map of contexts, one for each layer with a
hook. Then the unpack_ calls of the program and of initialisers (`Read...`) look a key up in
the box at the end of `stack`. `calls` holds the calls of `unpackObject_impl` under way: the
object, the layer being initialised, the fields it still has to read, and the array it is in. A layer
reads its fields in any order. `objects` has the box of each number and, from the first
`unpackNextContext` of its object on, the object (`Met`); a call that meets it again returns
that. The allocation and the counts of the objects are MmObject's.

What layers pack and unpack is a constant. `MCMmUnpack` has those of MMInt, MMList and MMMap,
as `mmo_ext.h` has them, a class without hooks, and a class of the program with three layers:
a list, one with an initialiser that packs nothing, and one with a number and a reference.

`Spec` assumes `SafeGraph`: an object is not met again while a layer other than its last is
initialised. Otherwise `last_mmobj` (`mmo_pack.c:430`) follows a pointer that is not yet set,
as MmObject shows; the model then faults too. It also takes every field to be of a layer with
both hooks (`MmUnpackAssumption`), as the message at `mmo_pack.c:557` asks.

`ObjectCopy` is what both promise together: a copy grows object by object and field by field,
one copy per object, and a field is filled with the copies of what the source's refers to.
`ImplementsCopy` maps the objects made to the objects they were made from.

## Runs

| run | question | bounds, and why they are enough |
|---|---|---|
| pool_safety | pool safety and drains, with failing malloc and nested callbacks | 2 variables, 3 blocks: one object can own another that owns a third, two owners can share, a batch of 2 overflows; sizes 1..2 so that ralloc grows; symmetry over variables and blocks, which only occur as names |
| pool_leak (violation) | no live block is outside the table, although malloc may fail | two steps are enough: alloc, failing ralloc |
| pool_drain | a drain ends with tidy destructors | 1 variable, 3 blocks, sizes 1; no symmetry (liveness) |
| dybuf | cursor order, no access outside, the buffer implements the tape | capacity up to 4, uint up to 7, least block 2, two byte values, chunks up to 3 bytes: fixed and dynamic, growth, refused limits and both headers occur, and no sum of a careful caller wraps, as in the code with sizes below 2^31 |
| dybuf_appending (violation) | the same order when the care for room is dropped | the same |
| codes | codes round trip and sort, tags round trip | numbers at W = 4: all of 16 bits, which meet every seam of the five tiers of that width, the full-width one last; tags at W = 8: all 256 types with the indexes at and around each bound, 2^20 included |
| dypkt_packets | writer and reader agree | packets of up to 3 items of all types, with tags of several forms and values of several tiers, memory of 24 bytes so that a fixed writer gets full |
| object | layers are destroyed once, in order, exactly those initialised, before the free; owners see whole objects; casts and calls find their layer | 2 objects, 2 pointers, classes of 1, 2 and 3 layers (a first, a middle and a last layer, one without `fn_init`), two functions of which the root sets one, nesting 2: an object is made or destroyed in the midst of another; symmetry over objects and pointers |
| object_unpack (violation) | the same order when an initialiser fails while unpacking | the same |
| graph | each object written and made once; the stack follows the calls; what is read is a copy; it ends | graphs of 3 objects: 19 shapes of one and 14 of another (numbers, lists, maps, tagged lists; empty, shared, repeated, self-referring, in cycles through either), the third a number both can share; 2 roots, so that a second one meets objects already packed; three calls nest; no symmetry (liveness) |
| graph_unregistered (violation) | the stack, when numbers are not registered | the same |
| collections | counts, dangling, keys, order, garbage, dictionary | 3 objects, 2 pointers, 2 numbers, 2 items: a map with a key and a value, with one object as both, with itself; two keys of one value, so that one replaces the other, and two in either order; a list that holds the map that holds it; symmetry over objects and pointers |

CHECK_DEADLOCK is off only where a behaviour ends: an exchange of packets stops after
its end, and the model of objects stops at a fault; unpacking ends when the program has read
all its roots; and memory may fill with cycles of collections nobody can reach.

### Fairness

`TidySpec` of the pool has weak fairness of `Progress`: the single thread goes on with
what it is doing (a callback or the loop of a drain). Nothing is assumed of the program
outside a drain. Destructors are tidy there: they only drop their object's field, by any
of the release functions, as all destructors of `mmo_ext.h` do; a destructor that allocates
a fresh object and autoreleases it could keep a drain going for ever.
`Dypkt` has weak fairness of `Send` and of the reader's loop, for the same reason, and so has
`MmUnpack` of `Busy /\ Next`: the thread goes on with the pack_ call, process() or the unpack_
calls it is in, while nothing is assumed of the program between them.

## What the runs found

* `mgn_mem_ralloc` of a sole owner takes the entry out of the table before an allocation
  that may fail and then returns: the block is lost (pool_leak).
* The order of cursors promised at `dybuf.h:122` is not kept when an append to a fixed
  buffer has no room (dybuf_appending).
* An initialiser that fails while unpacking leaves an object in the unpacker's map whose
  lower layers are destroyed; releasing it destroys them again, and layers that were never
  initialised (object_unpack).
* `unpackObject_impl` leaves the properties of an object on the stack when its class is not
  registered; the caller then reads from the wrong box (graph_unregistered).

Three more are obligations of callers in the models, and are listed as hazards: a number read
past the limit takes the position with it (`dybuf.h:450`), position + length may wrap past its
check (`dybuf.h:646`), and `dyp_append_*` and the packer ignore that there is no tag for an
index of more than 20 bits (`dybuf.h:882`). A fourth is in the statement of `SortedInOrder`:
ints are compared by subtraction (`mmo_ext.h:223`). And two comments are off: `mmo_pack.h:49`
and 51 say index 0 for the class names and the version, for which the code uses 1.

## Proofs

**MemPoolProofs**: `THEOREM Invariance == Spec => []IInv` with

    IInv == TypeOK /\ NoDangling /\ CountsAreOwners /\ PooledAreLive
            /\ RanIffDying /\ StackDistinct /\ Dying \subseteq Unused

None of the properties is inductive alone. A release frees a block when its count is one:
that nobody else dangles needs `CountsAreOwners`. That a callback's block is not freed under
it needs that its count is zero, so that no holder refers to it (`NoDangling`, counts) and
no drain visit picks it, which needs that no drain step happens within a callback. And that
the destructor runs once needs that an unused block on its way into a callback was not run
before (`RanIffDying`). Lemmas on cardinality (one more or one fewer owner) carry the
counting. From the invariant follow `TypeCorrect`, `OwnedMemoryStays`, `CountsAreRight`,
`CallbacksRunOnce` and `PooledMemoryIsLive`, for any finite sets of variables and blocks,
any batch and any sizes, failing allocations included.

About what a step of the pool may not do: `LostOnlyByFailure` follows from `IInv`.
`DestroyedBeforeFreed` does not: a drain frees an unused object without a call if no callback
is stored in its entry, and nothing in `IInv` says that one is. So `WillCallBack` is proved
first, as an invariant relative to `IInv`: a count only falls in a release, which stores the
callback with it. Then each action that frees has its reason: the last release of plain
memory, `RallocSole` and `DrainVisit` free no object, and `Return` frees what was just
destroyed.

`DrainsAreComplete` is about the loop of a drain. Its invariant is `Seen`: as long as the
last batch was not full and no callback autoreleased a last count after the scan, each unused
block is among the addresses still to be visited or its callback runs. When the loop ends there are
none of either.

**DybufProofs**: `Invariance` with `IInv == Sound(dyb) /\ fault = FALSE`, where `Sound` says
that a buffer has its type, a block as long as its capacity, a capacity of at most `MaxCap`
and its cursors in order. There is one lemma per operator ("takes a sound buffer to a sound
one, and what it does to position and limit"), so that the operators composed by appends
and by header reads need no case analysis twice. From it follow `TypeCorrect`,
`CursorsInOrder` and `NoAccessOutside`. The assumption `DybufAssumption` says that the largest
length a header can carry added to the largest capacity does not exceed uint: sums of
position and length do not wrap.

The second part is that the buffer implements the tape (`BufferIsTape`) and that compact, reads
and appends are the tape's steps of that name (`OperationsAreNamed`). The mapping cuts the block
at the cursors; lemmas about such cuts (`BetweenIs`, `FrontIs`, `Joined`, `PrefixIs`) come
first, then one for each step of the tape, saying which cursors and bytes make a step of
the buffer that step, then one for each family of operations. The latter rest on `Sound`:
cuts are only what they should be while the cursors are in order.

**CodeProofs**: all four properties of the run `codes`, for every width `W` of a byte from 2 bits
on and every sequence of indexes: `CodesReturn`, `CodesAreInOrder`, `SignedCodesReturn` and
`TagsComeBack`; before them `NumbersReturn` and `TagsReturn`, which hold for whatever follows a
code. A code of k bytes is one number: the lead of its tier plus the distance of the value from
the base of the tier (`ShortCode`). The first byte is in the range of that tier and of no other
(`LeadIs`, `TierRead`), so the reader takes the bytes that were written. Two numbers of one tier
differ in the bytes as their distances do (`BytesSort`), two of different tiers in the first byte
(`FirstByte`, `TiersRise`). Signed numbers follow since zigzag is one to one, the most negative
number included (`SignedNumbersReturn`); tags by their four forms. The choice of a tier in
`NextVarU64` must be unique for this: an earlier version of the definition, which TLC at `W = 4`, left it open which of several tiers a reader takes.

The module begins with the facts about recursion that the provers cannot take from the library,
whose theorems have operators as parameters: a set of numbers has a least one (`LeastNumber`), a
set that has 0 and with each number the next one has all (`InductionOnSet`), and hence a
function given by iteration or recurrence exists (`Iterates`, `Recurrence`). They are proved from the
well-foundedness of < alone, with sets and functions in place of operators. The proofs of
objects, collections and the unpacker cite them as `Nats!...`, an instance of CodeProofs at
bytes of 8 bits, which these facts do not mention.

**DypktProofs**: all three invariants of packets, for any set of items. There are three layers.

* A value returns: for each type, what its dyp_next_ function reads behind the tag is the value
  whose bytes the append wrote, and as many bytes, whatever follows (`BitReturns`, `CodeReturns`,
  `RawReturns`, `CountedReturns`, together `ValuesReturn`). This rests on CodeProofs, taken at
  bytes of 8 bits.
* An append writes its bytes at the position and moves none before it, while a buffer grows too
  (`AppendWrites`); so the calls of one item write its code in one piece (`ItemWritten`), if a
  writer into fixed memory has looked at the room.
* `LaidOut(d, items, f)` says of bytes that the codes of the items lie in them one behind the other, `f`
  being the places where they begin. An item more leaves it so (`LaidMore`), and a
  reader at the beginning of an item reads it and stands at the next (`ItemRead`).

`IInv` is `Written` of a writer (the items sent are laid out up to its position) and `Readable` of a
reader (they are laid out up to its limit, it stands behind the last item it has seen, and none
before that one was an eof). Handing over keeps the bytes, by each of the three ways (`SendInv`).
That a reader at its limit has seen all needs that the places of items behind it are
further on: each code has a byte at least. `ItemsComeBack`, `NothingIsLeftOut` and `BlocksAreKept` follow.
The invariant also bounds the position by the share of the items sent, which is how
`DypktAssumption` keeps sums of position and length from wrapping.

**MmObjectProofs**: `IInv == TypeOK /\ JobsApart /\ Reserved /\ \A o \in Addr : Sound(o)`, where
`Sound` says of an object that

* its count is that of its owners, one more if the unpacker holds it, and one more while
  `alloc_` has not returned;
* without a job it is complete and no layer of it is destroyed; with one it is exactly as
  far as the job: headers up to the layer that begins, destroyed layers from the top down
  to the job's;
* nobody owns it before its last layer has begun (that is what `Spec` assumes of programs
  that unpack, and `AnySpec` does not).

`JobsApart` says that no two jobs are about one object, however deep calls nest: this needs
the counts, since a destruction begins when the last owner is gone, and an object under
construction has a count that is no owner's. `Reserved` says that the pointer a call will
return to stays free. `TypeCorrect`, `LayersDestroyedInOrder`, `OwnersSeeWholeObjects` and
`LayersDestroyedBeforeFreed` follow for any hierarchy of classes, objects, pointers and
depth. Assumed are finitely many pointers, that each layer of a lineage is a class with the
layers up to it as its own lineage, and that null is no block (`MmObjectAssumption`,
`NullIsNoBlock`).

Its second part is about the walks around the ring of layers. `Search` and `LoopFrom` are recursive
functions; that they are what their definitions say is proved first (`SearchIs`, `LoopIs`, by
`Iterates`). Then what the walk down the ring meets: the layer looked for (`DownToLayer`), the
layer it began at (`DownToStart`), or the last layer, from where it goes on (`DownAndAround`).
So `FindsLayer` and `FindsNothing` say what a cast of an object with its last layer begun
returns, and `LoopFinds` what a virtual call does. With `Sound` and `OwnersSeeObjects` follow
`CastsFindTheirLayer`, `CallsReachTheLast` and, since every step that casts has such an object,
`NoNullIsFollowed`.

**MmCollectionsProofs**: a state is said of its three functions, the objects `o`, the pointers `n`
and the steps still to do `t`, and `IInv == InvOf(obj, own, todo)` with

    InvOf(o, n, t) == TypesOK /\ AllWhole /\ Counted /\ Ordered /\ StepsOK /\ DataOK /\ PlainOK

so that what holds before and after a step are two instances of one operator, and a lemma
about one change of memory serves every action that makes it.

* `AllWhole` says that no pointer, item or step refers to an object that is freed or is being
  destroyed, `Counted` that a count is the number of pointers, of items of all objects, and of
  the steps' own items and releases still to come, less the retains still to come. Each needs
  the other: a release destroys because nobody is left, and nobody is left because the count
  says so. The counts are sums over all items of all objects; the lemmas about `Count` and
  `Total` say what one item more or less, one step or one freed object changes of them.
* `Ordered` says that a call takes its counts first, then gives up those of what it replaces, then
  inserts: if a release came before the retain of the same object, a replacement by itself
  would free it.
* `StepsOK` says that the insertion at the end will find its key absent, a place free, and its
  map alive, however much the releases before it destroy. That a map stays alive is the hard
  part: it is reached from a pointer of the program, from what is autoreleased, or from the item
  to be inserted, and what is reached has a count (`InsertOK`).
* `DataOK` is the order and the keys of maps, `PlainOK` that only maps have keys.

From it follow `TypesKept`, `NothingDangles`, `CountsAreRight` and `MapsStayInOrder`, and
`OnlyCyclesAreLost`: an object out of the program's reach has a count, hence an owner, which is out of
reach as well; as memory is finite, going from owner to owner leads into a cycle (`CycleBehind`,
which takes an object with the fewest behind it). All this is for any finite
memory and pointers, any bound on items, and keys of any range of int (`MmCollectionsAssumption`).

Its second part is `MapsAreDictionaries`, the refinement of Dictionary. `DictOf(o, t)` is the
dictionary of the objects and the steps to do: the maps that are not being destroyed, each with
the pairs of its items and of those about to be inserted. The lemmas say first when it stays as
it is (`DictSame`), when it only loses maps (`DictDiscards`) and when one map changes
(`DictOne`); then what each kind of step does: counts and destruction change nothing that
remains (`CountsMaps`, `DestroyMaps`), the insertion at the end of a put moves its item from
the steps to the map (`InsertionMaps`), a replacement takes the old item out and announces the
new one in the same step (`AddItemMaps`). Without the invariant none of this holds: two items
of one key, or an insertion into a map that was freed, would be no step of the dictionary.

**MmUnpackProofs**: the packer first. `PackInv` says of the stream that each number below
`Begun`, the object the packer works on, has one beginning in it and the others have none, and
that what it refers to has a number. It is kept because a layer writes its fields after their
references were numbered (`AllNumberedIs`: the numbers given before stay what they were) and
writes no beginning itself (`FieldTokensAre`, `LayerTokensAre`; what a flattened sequence
holds is `FlattenIs`, by `Recurrence`). `ObjectsAreWrittenOnce` is `PackInv` when there is no object
in work: then `Begun` is the number of all. A second root that shares objects with the first
begins with those not yet in the stream.

Then the unpacker: `TwinsAreUnique` needs that whatever was made is found in `objects` under
its number. That is not so between the allocator's call and the first `unpackNextContext` of the
object, so `TwinInv` says which one may be missing: the last one made, `last` being its number,
whose call has begun no layer with a hook and therefore asks for nothing (`LastOK`,
`WaitingAsksNothing`; that a layer without hooks has no fields is `MmUnpackAssumption`). It holds
for any registered classes, for graphs that are not safe too, and whatever faults.

The third part is about what the stream says. `process()` is an operator on states here: `Way` is a
function from positions of the stream to states of process(), one step apart, none of which
refuses, and `Runs(s, xs, t)` says that there is one from `s` to `t` over the tokens `xs`. There is a
lemma for what each part of the packer's output does to a state: a value, a list, the
fields of a layer, a context, the names and the beginning and end of an object
(`FieldRun`, `FieldsRun`, `LayerRun`, `ObjectBegun`). So the invariant

    ShowInv == Distinct(names)
               /\ \E s : Runs(Start0, out, s) /\ Shows(graph, s, names, num, doing, roots)

says of the stream as it is written that process() would get through it, to a state in which each
number has the properties of its object, as far as the packer is (`Shows`). That is
`StreamIsReadable`. Its proof uses nothing about the classes registered or about cycles.

**MmReadProofs**: the other half of the exchange. `ParserInvariance`: the parser is always in a state of that
way, at its position (`ParseInv`); for the steps of the model are those of the way, the
next one being the only one there is. At the end of the stream the boxes are as `Shows` says,
for the graph as it was packed (`WorldOK`). From there on the calls keep `ReadState`, whose parts
are

* `MadesOK`, `ObjectsOK`: every object made has the class and number of one packed, and each field it
  has got is its source's, with the twins of what that refers to in place of numbers;
* `FramesOK`, `DueOK`: a call is in the boxes of its object, has left of its layer what it has not
  asked for, and the object it was called for is the one its caller asks for;
* `LedOK`: a call that is not at its last layer is not met again by the calls above it, which comes from
  `SafeGraph`: without it `last_mmobj` follows null;
* `WaitOK`: `last` is the object whose call has begun no hook, as in `TwinInv`;
* `LeftOK`: what has not been got is left to a call under way, and all else has been got;
* the stack is `Piled`: the boxes of the roots, of each call's object, of its context and of its
  list, in the order of the calls.

None of these is inductive without the others: which value a call gets depends on the top of
the stack, that this is the box of the caller's layer depends on what the initialisers
called before have popped (`PopPlace`, `NextLayerStep`), and that they pop as many as they push depends
on what they got. There is one lemma per action (`NothingStep`, `KnownStep`, `NewStep`,
`ArrayStep`, `ArrayEndStep`, `NextLayerStep`, `FinishStep`). With `ReadInvariance`
follow `UnpackingNeverFails`, `StackIsTheCalls` and `RootsAreComplete`: if nothing is under way then
`LeftOK` says that every field was got, of every object reached.

For the refinement, `CopyInv` says that the copy that `ImplementsCopy` maps to has exactly
the fields got so far, with their values in the source, and that an object has one twin. The latter is
`TwinInv` and `ObjectsHaveOneNumber` together. Then a step of the unpacker makes one
object (`Meet`), fills one field (`Fill`) or leaves the copy alone (`MadeStep`, `CopyStep`): `UnpackingIsCopying`.

All this is for any set of objects, safe graph, layers, roots and depth of nesting, under the
hypothesis `Registered = Class`: the program that reads registered the classes of the one that
wrote. `graph_unregistered` shows that without it the stack does not follow the calls; what the code
does of itself in that case (`StreamIsReadable`, `TwinsAreUnique`, `ObjectsAreWrittenOnce`) is proved
without it. `MmPackAssumption` and `MmUnpackAssumption` say of the constants that there are finitely many
classes, that the layers of a class have different names and their fields different keys, that
null is none of the values it stands beside, and that layers with fields have both hooks.
A layer's name is that of its structure, and a structure holds its parent's, so no class has one
twice; the classes of a program are those it was compiled with.

Only model-checked is liveness: drains end, packets are read to their end, packing and unpacking end
(`DrainTerminates`, `ReaderEnds`, `Ends`). It rests on fairness, which the provers do not take.
Every invariant and action property of the passing runs and each of the three refinements are
theorems.

## Not modelled

* Contents of blocks of the pool, and `mgn_mem_retained_count` and `mgn_mem_count_of_mem`,
  which only read; a destructor that drains; use of one pool by several threads, which the
  library does not support.
* Failing allocation of a buffer's block: the code uses the null block and what follows is
  not defined.
* Objects: an object's own virtual calls from within its initialisers;
  the entries of the function tables as blocks of the pool, which `alloc_` leaves behind
  when an initialiser fails (`mmo.h:170`).
* Unpacking a stream that no packer wrote; initialisers that fail while a graph is unpacked
  (MmObject has them for one object at a time); null items of a list, for which the packer
  writes nothing.
* Strings, data and wide numbers as objects: they differ from MMInt in what they hold.
  Comparison and stringization of collections. Weak references own nothing.
* Values of floats: they are their 4 or 8 bytes.
* uthash and utarray are third-party; they are the map and the sequence they implement.
* plat_string, plat_io: wrappers of libc.

## Plan

Done: 1. MemPool and its proofs; 2. Dybuf, its proofs, Tape; 3. VarCodec, Typdex; 4. Dypkt;
5. MmObject; 6. MmCollections, Dictionary; 7. MmPack, MmUnpack, ObjectCopy;
8. proofs of the steps of MemPool, of the refinement of the tape, of the codes, and of MmObject
and its walks; 9. proofs of MmCollections and of the refinement of Dictionary; 10. proofs about
the stream of MmPack and the objects of MmUnpack; 11. proofs of Dypkt; 12. proofs that the stream
is readable, of the stack and the faults of MmUnpack, and of the refinement of ObjectCopy.

Left: initialisers that fail while a graph is unpacked, null items of lists, and the comparison
of collections.
