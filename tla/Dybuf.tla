------------------------------- MODULE Dybuf -------------------------------
(***************************************************************************)
(* The byte buffer of dybuf/dybuf.h: a block of memory with the four       *)
(* cursors mark, position, limit and capacity.  One buffer serves writing  *)
(* and reading; a dynamic buffer grows when an append needs room, a fixed  *)
(* one refers to memory of the caller.                                     *)
(*                                                                         *)
(* Each function of the library is an operator from a buffer to a buffer,  *)
(* so that modules for the layers above can compose them; a call that      *)
(* returns null leaves its argument as it is.  Arithmetic on uint wraps.   *)
(***************************************************************************)
EXTENDS Integers, Sequences

CONSTANTS
  MaxUint,     \* largest value of uint (2^32 - 1 in the code)
  CacheUnit,   \* CACHE_SIZE_UNIT, least size of a dynamic block (16)
  MaxByte,     \* largest value of a byte (255)
  MaxCap,      \* bound on the capacity a careful caller asks for
  Chunk        \* the byte strings callers append

Uint == 0 .. MaxUint
Byte == 0 .. MaxByte
MaxLen2 == (MaxByte + 1) * (MaxByte + 1) - 1   \* largest two-byte length

\* A careful caller keeps buffers so small that position + length cannot wrap
\* for a length read from a one or two byte header.
ASSUME DybufAssumption ==
  /\ MaxUint \in Nat /\ CacheUnit \in Nat /\ MaxByte \in Nat /\ MaxCap \in Nat
  /\ CacheUnit <= MaxCap
  /\ MaxCap + MaxLen2 <= MaxUint /\ MaxLen2 \in Nat /\ MaxByte <= MaxLen2
  /\ Chunk \subseteq Seq(Byte)

Data == UNION {[0 .. c - 1 -> Byte] : c \in Uint}

\* struct dybuf
Buffer == [data : Data, cap : Uint, limit : Uint, pos : Uint, mark : Uint,
           fixed : BOOLEAN]

VARIABLES
  dyb,
  fault    \* a byte outside the block was read or written

vars == <<dyb, fault>>

TypeOK ==
  /\ dyb \in Buffer
  /\ DOMAIN dyb.data = 0 .. dyb.cap - 1
  /\ fault \in BOOLEAN

----------------------------------------------------------------------------
(* uint arithmetic                                                         *)

Plus(a, b) == IF a + b > MaxUint THEN a + b - (MaxUint + 1) ELSE a + b
Minus(a, b) == IF a < b THEN a - b + (MaxUint + 1) ELSE a - b

Least(a, b) == IF a < b THEN a ELSE b
Greatest(a, b) == IF a < b THEN b ELSE a

----------------------------------------------------------------------------
(* Constructors                                                            *)

\* dyb_mem_alloc with dyn: the size that is allocated, zeroed.
AllocSize(n) == Greatest(CacheUnit, n)

\* dyb_refer
Refer(d, c, forWrite) ==
  [data |-> d, cap |-> c, limit |-> IF forWrite THEN 0 ELSE c,
   pos |-> 0, mark |-> 0, fixed |-> TRUE]

\* dyb_create
Create(c) ==
  [data |-> [i \in 0 .. AllocSize(c) - 1 |-> 0], cap |-> AllocSize(c),
   limit |-> 0, pos |-> 0, mark |-> 0, fixed |-> FALSE]

\* dyb_copy of c bytes d, which it adopts or clones into a block of its own
Copy(d, c, noCopy) ==
  IF noCopy
  THEN [Refer(d, c, FALSE) EXCEPT !.fixed = FALSE]
  ELSE [Create(c) EXCEPT !.limit = c,
          !.data = [i \in 0 .. AllocSize(c) - 1 |-> IF i < c THEN d[i] ELSE 0]]

----------------------------------------------------------------------------
(* Capacity and limit                                                      *)

\* A slip: the capacity asked for is noted, not that of the block.
SetCapacityAsked(b, c) ==
  IF c = b.cap \/ b.fixed THEN b
  ELSE LET n == AllocSize(c)
       IN  [b EXCEPT !.data = [i \in 0 .. n - 1 |-> IF i < Least(b.cap, n) THEN b.data[i] ELSE 0],
                     !.cap = c, !.limit = Least(@, c), !.pos = Least(@, c), !.mark = Least(@, c)]

\* dyb_set_capacity: a new block with as much of the old one as fits; the
\* other cursors are clamped.
SetCapacity(b, c) ==
  IF c = b.cap \/ b.fixed THEN b
  ELSE LET n == AllocSize(c)
       IN  [data  |-> [i \in 0 .. n - 1 |-> IF i < Least(b.cap, n) THEN b.data[i] ELSE 0],
            cap   |-> n,
            limit |-> Least(b.limit, n),
            pos   |-> Least(b.pos, n),
            mark  |-> Least(b.mark, n),
            fixed |-> FALSE]

\* A slip: the mark is not clamped.
SetLimitKeepsMark(b, l) ==
  IF l > b.cap /\ b.fixed THEN b
  ELSE LET g == IF l > b.cap THEN SetCapacity(b, l) ELSE b
       IN  [g EXCEPT !.limit = l, !.pos = Least(@, l)]

\* dyb_set_limit: grows a dynamic buffer; on a fixed one too large a limit is
\* refused.
SetLimit(b, l) ==
  IF l > b.cap /\ b.fixed THEN b
  ELSE LET g == IF l > b.cap THEN SetCapacity(b, l) ELSE b
       IN  [g EXCEPT !.limit = l, !.mark = Least(@, l), !.pos = Least(@, l)]

----------------------------------------------------------------------------
(* Position                                                                *)

\* dyb_set_position: never behind the mark.
SetPosition(b, p) ==
  IF p > b.limit THEN b ELSE [b EXCEPT !.pos = Greatest(p, b.mark)]

\* A slip: one byte too few is moved.
CompactShort(b) ==
  IF b.pos = 0 THEN b
  ELSE LET n == Minus(b.limit, b.pos)
       IN  [b EXCEPT !.data = [i \in DOMAIN b.data |->
                                 IF i < n - 1 /\ b.pos + i \in DOMAIN b.data
                                 THEN b.data[b.pos + i] ELSE b.data[i]],
                     !.limit = n, !.pos = 0, !.mark = 0]

\* dyb_compact: the bytes from position to limit move to the front.
Compact(b) ==
  IF b.pos = 0 THEN b
  ELSE LET n == Minus(b.limit, b.pos)
       IN  [b EXCEPT !.data = [i \in DOMAIN b.data |->
                                 IF i < n /\ b.pos + i \in DOMAIN b.data
                                 THEN b.data[b.pos + i] ELSE b.data[i]],
                     !.limit = n, !.pos = 0, !.mark = 0]

Mark(b)   == [b EXCEPT !.mark = b.pos]
Reset(b)  == [b EXCEPT !.pos = b.mark]
Clear(b)  == [b EXCEPT !.pos = 0, !.mark = 0, !.limit = b.cap]
Flip(b)   == [b EXCEPT !.limit = b.pos, !.pos = 0, !.mark = 0]
Rewind(b) == [b EXCEPT !.pos = 0, !.mark = 0]

Remainder(b) == Minus(b.limit, b.pos)

----------------------------------------------------------------------------
(* Reading                                                                 *)

ByteAt(b, i) == IF i \in DOMAIN b.data THEN b.data[i] ELSE 0

\* A slip: a peek in place of a next.
Peek_(b, n) == b

\* dyb_next_bool, dyb_next_u8 ... dyb_next_u64: n bytes, and no check.
Next_(b, n) == [b EXCEPT !.pos = Plus(b.pos, n)]

\* A slip: off by one.
HasDataOffByOne(b, len) == len # 0 /\ Plus(b.pos, len) <= b.limit + 1

\* dyb_next_data_without_len, dyb_next_structure: null unless the bytes lie
\* before the limit.
HasData(b, len) == len # 0 /\ Plus(b.pos, len) <= b.limit

NextData(b, len) == IF HasData(b, len) THEN Next_(b, len) ELSE b

\* The length in the h bytes at position, the first the most significant.
HeaderLen(b, h) ==
  IF h = 1 THEN ByteAt(b, b.pos)
  ELSE ByteAt(b, b.pos) * (MaxByte + 1) + ByteAt(b, Plus(b.pos, 1))

\* dyb_next_data_with_1byte_len, dyb_next_data_with_2bytes_len: the header
\* is consumed also when the data is refused.
NextWithLen(b, h) == NextData(Next_(b, h), HeaderLen(b, h))

----------------------------------------------------------------------------
(* Appending                                                               *)

Store(b, bs) ==
  [i \in DOMAIN b.data |-> IF i \in b.pos .. b.pos + Len(bs) - 1
                           THEN bs[i - b.pos + 1] ELSE b.data[i]]

\* The prologue of every append; what dyb_set_limit returns is ignored.
Ensure(b, l) == IF l > b.limit THEN SetLimit(b, l) ELSE b

\* A slip: the mark follows the position.
PutMarking(b, bs) ==
  [b EXCEPT !.data = Store(b, bs), !.pos = Plus(b.pos, Len(bs)), !.mark = b.pos]

Put(b, bs) == [b EXCEPT !.data = Store(b, bs), !.pos = Plus(b.pos, Len(bs))]

\* dyb_append_bool, dyb_append_u8 ... dyb_append_u64, and
\* dyb_append_data_without_len, dyb_append_structure
Append_(b, bs) == Put(Ensure(b, Plus(b.pos, Len(bs))), bs)

\* The bytes dyb_append_data_with_1byte_len and ..._2bytes_len write: the
\* length is cut to the width of the header.
WithHeader(h, bs) ==
  LET len == Len(bs) % (IF h = 1 THEN MaxByte + 1 ELSE MaxLen2 + 1)
  IN  (IF h = 1 THEN <<len>>
       ELSE <<len \div (MaxByte + 1), len % (MaxByte + 1)>>) \o SubSeq(bs, 1, len)

----------------------------------------------------------------------------
(* One operation per step.                                                 *)

Quiet(b) == dyb' = b /\ UNCHANGED fault

\* n bytes at position p are accessed in the block of b.
Access(b, p, n) == fault' = (fault \/ (n > 0 /\ p + n > b.cap))

DoNext(n) ==
  /\ dyb' = Next_(dyb, n)
  /\ Access(dyb, dyb.pos, n)

DoNextData(len) ==
  /\ dyb' = NextData(dyb, len)
  /\ Access(dyb, dyb.pos, IF HasData(dyb, len) THEN len ELSE 0)

DoNextWithLen(h) ==
  /\ dyb' = NextWithLen(dyb, h)
  /\ Access(dyb, dyb.pos,
       IF HasData(Next_(dyb, h), HeaderLen(dyb, h)) THEN h + HeaderLen(dyb, h) ELSE h)

DoAppend(bs) ==
  /\ dyb' = Append_(dyb, bs)
  /\ Access(Ensure(dyb, Plus(dyb.pos, Len(bs))), dyb.pos, Len(bs))

DoCompact ==
  /\ dyb' = Compact(dyb)
  /\ Access(dyb, dyb.pos, IF dyb.pos = 0 THEN 0 ELSE Remainder(dyb))

\* Room for n more bytes, as dyb_get_capacity and dyb_get_position tell it:
\* a fixed buffer does not grow.
Room(n) == dyb.pos + n <= IF dyb.fixed THEN dyb.cap ELSE MaxCap

Init ==
  /\ fault = FALSE
  /\ \E c \in 0 .. MaxCap :
       \/ \E d \in [0 .. c - 1 -> Byte], w \in BOOLEAN : dyb = Refer(d, c, w)
       \/ dyb = Create(c)
       \/ \E d \in [0 .. c - 1 -> Byte], n \in BOOLEAN : dyb = Copy(d, c, n)

\* The operations that need no care.
Cursor ==
  \/ \E c \in 0 .. MaxCap : Quiet(SetCapacity(dyb, c))
  \/ \E l \in 0 .. MaxCap : Quiet(SetLimit(dyb, l))
  \/ \E p \in Uint : Quiet(SetPosition(dyb, p))
  \/ Quiet(Mark(dyb))
  \/ Quiet(Reset(dyb))
  \/ Quiet(Clear(dyb))
  \/ Quiet(Flip(dyb))
  \/ Quiet(Rewind(dyb))
  \/ DoCompact

\* A careful caller looks at the remainder before it reads and at the room
\* before it appends.
Read ==
  \/ \E n \in 1 .. 8 : n <= Remainder(dyb) /\ DoNext(n)
  \/ \E len \in Uint : dyb.pos + len <= MaxUint /\ DoNextData(len)
  \/ \E h \in {1, 2} : h <= Remainder(dyb) /\ DoNextWithLen(h)

Write ==
  \/ \E bs \in Chunk : Room(Len(bs)) /\ DoAppend(bs)
  \/ \E bs \in Chunk, h \in {1, 2} :
       Room(Len(WithHeader(h, bs))) /\ DoAppend(WithHeader(h, bs))

Next == Cursor \/ Read \/ Write

Spec == Init /\ [][Next]_vars

\* A caller that appends to a fixed buffer without asking for its room.
UncheckedAppend == \E bs \in Chunk : dyb.pos + Len(bs) <= MaxUint /\ DoAppend(bs)

AppendingSpec == Init /\ [][Next \/ UncheckedAppend]_vars

----------------------------------------------------------------------------
(* Properties                                                              *)

\* The order dybuf.h:122 promises, kept by every operation, clamping and
\* growth included: 0 <= mark <= position <= limit <= capacity.
CursorOrder ==
  /\ 0 <= dyb.mark /\ dyb.mark <= dyb.pos
  /\ dyb.pos <= dyb.limit /\ dyb.limit <= dyb.cap

\* No byte outside the block is accessed: the checks a careful caller makes
\* are enough, and those of the library hold for what follows a header.
NoFault == ~fault
============================================================================
